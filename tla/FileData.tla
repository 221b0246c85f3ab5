------------------------------ MODULE FileData ------------------------------
(***************************************************************************)
(* The contents of a file: balloc, bfree, bmap, itrunc, readi and writei   *)
(* of fs.c, and fileread and filewrite of file.c, with a file system that  *)
(* fills up and user buffers that are not mapped.  One file is opened by   *)
(* several processes; the rest of the file system takes and frees blocks   *)
(* at any time.                                                            *)
(*                                                                         *)
(* The file's inode is locked from the start of a chunk of a write to its  *)
(* end; steps of the loop of writei interleave with other files' use of    *)
(* the bitmap only.                                                        *)
(***************************************************************************)
EXTENDS Integers, Sequences, FiniteSets, FiniteSetsExt

CONSTANTS Procs, Nobody,
          NBLOCKS,              \* data blocks of the disk
          BSIZE, BPB,           \* bytes in a block, bits of a bitmap block
          NDIRECT, NINDIRECT,
          MAXOPBLOCKS,
          Buffers,              \* what processes write
          ReadSizes             \* how much they read

ASSUME SetAssumption == Nobody \notin Procs
ASSUME SizeAssumption ==
  /\ NBLOCKS \in Nat /\ BSIZE \in Nat \ {0} /\ BPB \in Nat \ {0}
  /\ NDIRECT \in Nat /\ NINDIRECT \in Nat /\ MAXOPBLOCKS \in Nat /\ MAXOPBLOCKS >= 6

VARIABLES
  used, data,              \* the bitmap, and the bytes of each block
  elsewhere,               \* blocks of other files
  addrs, ind, size,        \* ip->addrs, the contents of the indirect block, ip->size
  lk, off,                 \* holder of ip->lock, f->off of each process
  pc, buf, i,              \* of each process: bytes to write, bytes written in earlier chunks
  tot, o, copied,          \* writei: bytes written, position, bytes copied by a failing copy
  logged,                  \* blocks written in the transaction
  before                   \* contents when the lock was taken

inode == <<addrs, ind, size>>
vars == <<used, data, elsewhere, inode, lk, off, pc, buf, i, tot, o, copied, logged, before>>

Blocks == 1..NBLOCKS
MAXFILE == NDIRECT + NINDIRECT
Zeroes == [k \in 0..(BSIZE - 1) |-> 0]
NoInd == [k \in 0..(NINDIRECT - 1) |-> 0]
Smaller(x, y) == IF x < y THEN x ELSE y
-----------------------------------------------------------------------------
(* Faulty variants of the definitions below, kept for the sensitivity      *)
(* checks of the properties; no specification uses them.                   *)

\* itrunc forgets the indirect block itself.
Truncated_KeepsIndirect ==
  {addrs[k] : k \in 0..(NDIRECT - 1)} \cup {ind[k] : k \in 0..(NINDIRECT - 1)}

\* filewrite allows one more block in a chunk.
ChunkSize_Large == ((MAXOPBLOCKS - 1 - 1) \div 2) * BSIZE

-----------------------------------------------------------------------------
(* Blocks.                                                                 *)

\* The bitmap block of block b, numbered behind the data blocks.
BBLOCK(b) == NBLOCKS + 1 + (b \div BPB)

\* bmap(ip, bn): the address, 0 if the disk is full; the blocks it allocates, all
\* zeroed, the inode with them, and the blocks it logs.
bmap(bn) ==
  LET free == Blocks \ used
      b1 == Min(free)
      b2 == Min(free \ {b1})
      Answer(a, new, x, y, log) == [addr |-> a, new |-> new, addrs |-> x, ind |-> y, log |-> log]
      n == bn - NDIRECT
  IN  IF bn < NDIRECT
      THEN CASE addrs[bn] # 0 -> Answer(addrs[bn], {}, addrs, ind, {})
             [] addrs[bn] = 0 /\ free = {} -> Answer(0, {}, addrs, ind, {})
             [] OTHER -> Answer(b1, {b1}, [addrs EXCEPT ![bn] = b1], ind, {b1, BBLOCK(b1)})
      ELSE CASE addrs[NDIRECT] = 0 /\ free = {} -> Answer(0, {}, addrs, ind, {})
             [] addrs[NDIRECT] = 0 /\ Cardinality(free) = 1 ->
                  Answer(0, {b1}, [addrs EXCEPT ![NDIRECT] = b1], NoInd, {b1, BBLOCK(b1)})
             [] addrs[NDIRECT] = 0 /\ Cardinality(free) > 1 ->
                  Answer(b2, {b1, b2}, [addrs EXCEPT ![NDIRECT] = b1], [NoInd EXCEPT ![n] = b2],
                         {b1, b2, BBLOCK(b1), BBLOCK(b2)})
             [] addrs[NDIRECT] # 0 /\ ind[n] # 0 -> Answer(ind[n], {}, addrs, ind, {})
             [] addrs[NDIRECT] # 0 /\ ind[n] = 0 /\ free = {} -> Answer(0, {}, addrs, ind, {})
             [] OTHER -> Answer(b1, {b1}, addrs, [ind EXCEPT ![n] = b1],
                                {b1, BBLOCK(b1), addrs[NDIRECT]})

\* The block that holds byte k, without allocating one.
BlockOf(k) == LET bn == k \div BSIZE IN
              IF bn < NDIRECT THEN addrs[bn]
              ELSE IF addrs[NDIRECT] = 0 THEN 0 ELSE ind[bn - NDIRECT]

\* readi: all bytes of the file.
readi == [k \in 1..size |-> IF BlockOf(k - 1) = 0 THEN 0 ELSE data[BlockOf(k - 1)][(k - 1) % BSIZE]]

\* The blocks that itrunc frees.
Truncated == {addrs[k] : k \in 0..NDIRECT} \cup {ind[k] : k \in 0..(NINDIRECT - 1)}
-----------------------------------------------------------------------------
(* Writing.                                                                *)

Go(p, s) == pc' = [pc EXCEPT ![p] = s]
Done(p) == /\ Go(p, "idle") /\ buf' = [buf EXCEPT ![p] = <<>>] /\ i' = [i EXCEPT ![p] = 0]

filewrite(p) ==
  /\ pc[p] = "idle"
  /\ \E b \in Buffers : buf' = [buf EXCEPT ![p] = b]
  /\ Go(p, "chunk")
  /\ UNCHANGED <<used, data, elsewhere, inode, lk, off, i, tot, o, copied, logged, before>>

ChunkSize == ((MAXOPBLOCKS - 1 - 1 - 2) \div 2) * BSIZE
n1(p) == Smaller(Len(buf[p]) - i[p], ChunkSize)

\* begin_op, ilock, and the head of writei.
filewrite_chunk(p) ==
  /\ pc[p] = "chunk" /\ lk = Nobody
  /\ IF off[p] > size \/ off[p] + n1(p) > MAXFILE * BSIZE
     THEN Done(p) /\ UNCHANGED <<lk, tot, o, before>>
     ELSE /\ lk' = p /\ Go(p, "loop") /\ tot' = 0 /\ o' = off[p] /\ before' = readi
          /\ UNCHANGED <<buf, i>>
  /\ UNCHANGED <<used, data, elsewhere, inode, off, copied, logged>>

\* m in the loops of readi and writei.
Room(at, n) == Smaller(n, BSIZE - (at % BSIZE))

\* An iteration of writei; the copy from user memory fails after c bytes if c < m.
writei(p) ==
  LET b == bmap(o \div BSIZE)
      m == Room(o, n1(p) - tot)
      at == o % BSIZE
      fresh == [x \in Blocks |-> IF x \in b.new THEN Zeroes ELSE data[x]]
      Filled(c) == [k \in 0..(BSIZE - 1) |->
                      IF k >= at /\ k < at + c
                      THEN buf[p][i[p] + tot + k - at + 1] ELSE fresh[b.addr][k]]
  IN
  /\ pc[p] = "loop" /\ tot < n1(p)
  /\ used' = used \cup b.new /\ addrs' = b.addrs /\ ind' = b.ind
  /\ IF b.addr = 0
     THEN /\ data' = fresh /\ logged' = logged \cup b.log
          /\ Go(p, "end") /\ UNCHANGED <<tot, o, copied>>
     ELSE \E c \in 0..m :
            /\ data' = [fresh EXCEPT ![b.addr] = Filled(c)]
            /\ IF c = m
               THEN /\ tot' = tot + m /\ o' = o + m /\ logged' = logged \cup b.log \cup {b.addr}
                    /\ UNCHANGED <<pc, copied>>
               ELSE /\ copied' = c /\ logged' = logged \cup b.log
                    /\ Go(p, "end") /\ UNCHANGED <<tot, o>>
  /\ UNCHANGED <<elsewhere, size, lk, off, buf, i, before>>

\* The rest of writei and of the iteration of filewrite.
filewrite_end(p) ==
  /\ \/ pc[p] = "end"
     \/ pc[p] = "loop" /\ tot >= n1(p)
  /\ size' = IF o > size THEN o ELSE size
  /\ off' = [off EXCEPT ![p] = @ + tot]
  /\ lk' = Nobody
  /\ tot' = 0 /\ o' = 0 /\ copied' = 0 /\ logged' = {} /\ before' = <<>>
  /\ IF tot # n1(p) \/ i[p] + tot = Len(buf[p]) THEN Done(p)
     ELSE Go(p, "chunk") /\ i' = [i EXCEPT ![p] = @ + tot] /\ UNCHANGED buf
  /\ UNCHANGED <<used, data, elsewhere, addrs, ind>>
-----------------------------------------------------------------------------
fileread(p) ==
  /\ pc[p] = "idle" /\ lk = Nobody
  /\ off[p] <= size
  /\ \E n \in ReadSizes : off' = [off EXCEPT ![p] = Smaller(@ + n, size)]
  /\ UNCHANGED <<used, data, elsewhere, inode, lk, pc, buf, i, tot, o, copied, logged, before>>

\* The file is opened again, perhaps with O_TRUNC: itrunc.
open(p) ==
  /\ pc[p] = "idle" /\ lk = Nobody
  /\ off' = [off EXCEPT ![p] = 0]
  /\ \/ UNCHANGED <<used, inode>>
     \/ /\ used' = used \ Truncated
        /\ addrs' = [k \in 0..NDIRECT |-> 0] /\ ind' = NoInd /\ size' = 0
  /\ UNCHANGED <<data, elsewhere, lk, pc, buf, i, tot, o, copied, logged, before>>

\* Other files: balloc with bzero, and bfree.
balloc ==
  /\ used # Blocks
  /\ LET b == Min(Blocks \ used) IN
     used' = used \cup {b} /\ elsewhere' = elsewhere \cup {b} /\ data' = [data EXCEPT ![b] = Zeroes]
  /\ UNCHANGED <<inode, lk, off, pc, buf, i, tot, o, copied, logged, before>>

bfree ==
  /\ \E b \in elsewhere : used' = used \ {b} /\ elsewhere' = elsewhere \ {b}
  /\ UNCHANGED <<data, inode, lk, off, pc, buf, i, tot, o, copied, logged, before>>
-----------------------------------------------------------------------------
Init ==
  /\ used = {} /\ elsewhere = {} /\ data = [b \in Blocks |-> Zeroes]
  /\ addrs = [k \in 0..NDIRECT |-> 0] /\ ind = NoInd /\ size = 0
  /\ lk = Nobody /\ off = [p \in Procs |-> 0]
  /\ pc = [p \in Procs |-> "idle"] /\ buf = [p \in Procs |-> <<>>] /\ i = [p \in Procs |-> 0]
  /\ tot = 0 /\ o = 0 /\ copied = 0 /\ logged = {} /\ before = <<>>

Next == \/ \E p \in Procs : \/ filewrite(p) \/ filewrite_chunk(p) \/ writei(p) \/ filewrite_end(p)
                            \/ fileread(p) \/ open(p)
        \/ balloc \/ bfree

Spec == Init /\ [][Next]_vars
-----------------------------------------------------------------------------
(* Properties.                                                             *)

TypeOK ==
  /\ used \subseteq Blocks /\ elsewhere \subseteq used
  /\ data \in [Blocks -> [0..(BSIZE - 1) -> Nat]]
  /\ addrs \in [0..NDIRECT -> Blocks \cup {0}] /\ ind \in [0..(NINDIRECT - 1) -> Blocks \cup {0}]
  /\ size \in 0..(MAXFILE * BSIZE) /\ lk \in Procs \cup {Nobody}
  /\ off \in [Procs -> 0..(MAXFILE * BSIZE)] /\ pc \in [Procs -> {"idle", "chunk", "loop", "end"}]

References == [k \in 0..(NDIRECT + NINDIRECT) |-> IF k <= NDIRECT THEN addrs[k] ELSE ind[k - NDIRECT - 1]]
Referring == {k \in DOMAIN References : References[k] # 0}

\* The bitmap marks exactly the blocks that some file refers to, each of them
\* once, after a full disk or a failed copy as well, and every block below the
\* size of an unlocked file is there: reading never has to allocate, which it
\* would do outside a transaction.
BlocksOwned ==
  /\ TypeOK
  /\ used = elsewhere \cup {References[k] : k \in Referring}
  /\ Cardinality(used) = Cardinality(elsewhere) + Cardinality(Referring)
  /\ lk = Nobody => \A k \in 0..(size - 1) : BlockOf(k) # 0

\* A chunk of filewrite, with the inode, never writes more blocks than the
\* MAXOPBLOCKS that begin_op reserves, even if every bit of the bitmap that it
\* sets is in a block of its own.
TransactionFits == lk # Nobody => Cardinality(logged) + 1 <= MAXOPBLOCKS

File == INSTANCE FileStore WITH
          content <- IF lk = Nobody THEN readi ELSE before, MAXSIZE <- MAXFILE * BSIZE

=============================================================================
