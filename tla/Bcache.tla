------------------------------- MODULE Bcache -------------------------------
(***************************************************************************)
(* The buffer cache (bio.c).  Buffers are 1..NBUF; Head stands for         *)
(* bcache.head, and nxt and prv are the next and prev pointers.            *)
(*                                                                         *)
(* What runs under bcache.lock is one action.  A sleep lock is its holder: *)
(* that its waiters are woken is shown with the scheduler (Sched).  A disk *)
(* transfer is one action: that virtio_disk_rw works like one is shown     *)
(* with the driver (Virtio).                                               *)
(*                                                                         *)
(* The callers keep to the rules of log.c: a modified buffer is written    *)
(* (bwrite) or pinned (log_write) before it is released, and unpinned once *)
(* it has been written.  A process holds one buffer at a time.             *)
(***************************************************************************)
EXTENDS Integers, FiniteSets

CONSTANTS Procs, Nobody, Blocks, NoBlock, Vals,
          NBUF,
          MaxPins    \* bound: buffers the log keeps pinned

ASSUME SetAssumption == /\ IsFiniteSet(Procs) /\ Nobody \notin Procs
                        /\ NoBlock \notin Blocks /\ Vals # {}
ASSUME SizeAssumption == NBUF \in Nat \ {0} /\ MaxPins \in Nat

VARIABLES
  nxt, prv,                          \* the list, most recently used first
  blockno, valid, refcnt, data,      \* struct buf
  slock,                             \* the holder of b->lock
  disk,
  panicked,
  pc, want, buf,                     \* of each process: position, block, buffer
  clean,                             \* the disk has what its buffer holds
  pinned                             \* buffers in the log

listVars == <<nxt, prv>>
vars == <<listVars, blockno, valid, refcnt, data, slock, disk, panicked,
          pc, want, buf, clean, pinned>>

Bufs == 1..NBUF
Head == 0
Nodes == {Head} \cup Bufs
PCs == {"idle", "lock", "check", "hold", "release"}

\* The k-th node along pointers f, starting from the list head.
Nth(f, k) == LET g[j \in 0..(NBUF + 1)] == IF j = 0 THEN Head ELSE f[g[j - 1]]
             IN g[k]
-----------------------------------------------------------------------------
(* Faulty variants of the definitions below, kept for the sensitivity      *)
(* checks of the properties; no specification uses them.                   *)

\* A buffer whose lock is free counts as unused.
Unused_Unlocked(b) == slock[b] = Nobody

\* A recycled buffer keeps its valid flag.
Recycled_Valid(b) == valid

-----------------------------------------------------------------------------

(* bget                                                                    *)

Cached(k) == {b \in Bufs : blockno[b] = k}

bget_hit(p, k) ==
  /\ panicked = 0 /\ pc[p] = "idle"
  /\ \E b \in Cached(k) :
       /\ refcnt' = [refcnt EXCEPT ![b] = @ + 1]
       /\ buf' = [buf EXCEPT ![p] = b]
  /\ want' = [want EXCEPT ![p] = k]
  /\ pc' = [pc EXCEPT ![p] = "lock"]
  /\ UNCHANGED <<listVars, blockno, valid, data, slock, disk, panicked, clean, pinned>>

Unused(b) == refcnt[b] = 0

\* b is the first unused buffer from the tail of the list.
LeastRecent(b) ==
  \E k \in 1..NBUF : /\ Nth(prv, k) = b /\ Unused(b)
                     /\ \A j \in 1..(k - 1) : ~Unused(Nth(prv, j))

Recycled(b) == [valid EXCEPT ![b] = 0]

bget_recycle(p, k) ==
  /\ panicked = 0 /\ pc[p] = "idle" /\ Cached(k) = {}
  /\ \E b \in Bufs :
       /\ LeastRecent(b)
       /\ blockno' = [blockno EXCEPT ![b] = k]
       /\ valid' = Recycled(b)
       /\ refcnt' = [refcnt EXCEPT ![b] = 1]
       /\ buf' = [buf EXCEPT ![p] = b]
  /\ want' = [want EXCEPT ![p] = k]
  /\ pc' = [pc EXCEPT ![p] = "lock"]
  /\ UNCHANGED <<listVars, data, slock, disk, panicked, clean, pinned>>

bget_panic(p, k) ==
  /\ panicked = 0 /\ pc[p] = "idle" /\ Cached(k) = {}
  /\ \A b \in Bufs : ~Unused(b)
  /\ panicked' = 1
  /\ UNCHANGED <<listVars, blockno, valid, refcnt, data, slock, disk,
                 pc, want, buf, clean, pinned>>

acquiresleep(p) ==
  /\ panicked = 0 /\ pc[p] = "lock" /\ slock[buf[p]] = Nobody
  /\ slock' = [slock EXCEPT ![buf[p]] = p]
  /\ pc' = [pc EXCEPT ![p] = "check"]
  /\ UNCHANGED <<listVars, blockno, valid, refcnt, data, disk, panicked,
                 want, buf, clean, pinned>>

(* bread and bwrite                                                        *)

\* The rest of bread: read the block unless the buffer is valid.
bread(p) ==
  /\ panicked = 0 /\ pc[p] = "check"
  /\ LET b == buf[p] IN
       /\ data' = IF valid[b] = 0 THEN [data EXCEPT ![b] = disk[blockno[b]]] ELSE data
       /\ valid' = [valid EXCEPT ![b] = 1]
  /\ clean' = [clean EXCEPT ![p] = IF buf[p] \in pinned THEN 0 ELSE 1]
  /\ pc' = [pc EXCEPT ![p] = "hold"]
  /\ UNCHANGED <<listVars, blockno, refcnt, slock, disk, panicked, want, buf, pinned>>

\* The holder changes the contents.
modify(p, v) ==
  /\ panicked = 0 /\ pc[p] = "hold"
  /\ data' = [data EXCEPT ![buf[p]] = v]
  /\ clean' = [clean EXCEPT ![p] = 0]
  /\ UNCHANGED <<listVars, blockno, valid, refcnt, slock, disk, panicked,
                 pc, want, buf, pinned>>

bwrite(p) ==
  /\ panicked = 0 /\ pc[p] = "hold"
  /\ panicked' = IF slock[buf[p]] = p THEN 0 ELSE 1
  /\ disk' = [disk EXCEPT ![blockno[buf[p]]] = data[buf[p]]]
  /\ clean' = [clean EXCEPT ![p] = 1]
  /\ UNCHANGED <<listVars, blockno, valid, refcnt, data, slock, pc, want, buf, pinned>>

(* brelse                                                                  *)

brelse(p) ==
  /\ panicked = 0 /\ pc[p] = "hold"
  /\ clean[p] = 1 \/ buf[p] \in pinned
  /\ panicked' = IF slock[buf[p]] = p THEN 0 ELSE 1
  /\ slock' = [slock EXCEPT ![buf[p]] = Nobody]
  /\ pc' = [pc EXCEPT ![p] = "release"]
  /\ UNCHANGED <<listVars, blockno, valid, refcnt, data, disk, want, buf, clean, pinned>>

Dropped(b) == refcnt[b] - 1

\* Take b out of the list.
Unlinked(b) == LET prv1 == [prv EXCEPT ![nxt[b]] = prv[b]]
               IN <<[nxt EXCEPT ![prv1[b]] = nxt[b]], prv1>>

\* Put b behind the list head.
MovedToFront(b) ==
  LET l == Unlinked(b)
      nxt1 == [l[1] EXCEPT ![b] = l[1][Head]]
      prv1 == [l[2] EXCEPT ![b] = Head]
  IN <<[nxt1 EXCEPT ![Head] = b], [prv1 EXCEPT ![nxt1[Head]] = b]>>

\* brelse, under bcache.lock.
brelse_unref(p) ==
  /\ panicked = 0 /\ pc[p] = "release"
  /\ LET b == buf[p] IN
       /\ refcnt' = [refcnt EXCEPT ![b] = Dropped(b)]
       /\ nxt' = IF Dropped(b) = 0 THEN MovedToFront(b)[1] ELSE nxt
       /\ prv' = IF Dropped(b) = 0 THEN MovedToFront(b)[2] ELSE prv
  /\ pc' = [pc EXCEPT ![p] = "idle"]
  /\ want' = [want EXCEPT ![p] = NoBlock] /\ buf' = [buf EXCEPT ![p] = Head]
  /\ clean' = [clean EXCEPT ![p] = 1]
  /\ UNCHANGED <<blockno, valid, data, slock, disk, panicked, pinned>>

\* bpin, by log_write when the block is not in the log yet.
bpin(p) ==
  /\ panicked = 0 /\ pc[p] = "hold" /\ buf[p] \notin pinned /\ Cardinality(pinned) < MaxPins
  /\ refcnt' = [refcnt EXCEPT ![buf[p]] = @ + 1]
  /\ pinned' = pinned \cup {buf[p]}
  /\ UNCHANGED <<listVars, blockno, valid, data, slock, disk, panicked, pc, want, buf, clean>>

Unpinned(b) == refcnt[b] - 1

\* bunpin, by install_trans after the block has been written.
bunpin(p) ==
  /\ panicked = 0 /\ pc[p] = "hold" /\ buf[p] \in pinned /\ clean[p] = 1
  /\ refcnt' = [refcnt EXCEPT ![buf[p]] = Unpinned(buf[p])]
  /\ pinned' = pinned \ {buf[p]}
  /\ UNCHANGED <<listVars, blockno, valid, data, slock, disk, panicked, pc, want, buf, clean>>
-----------------------------------------------------------------------------

\* binit, on a zeroed cache: device 0 is no device.
Init ==
  /\ nxt = [b \in Nodes |-> IF b = Head THEN NBUF ELSE b - 1]
  /\ prv = [b \in Nodes |-> IF b = NBUF THEN Head ELSE b + 1]
  /\ blockno = [b \in Bufs |-> NoBlock]
  /\ valid = [b \in Bufs |-> 0] /\ refcnt = [b \in Bufs |-> 0]
  /\ \E v \in Vals : data = [b \in Bufs |-> v]
  /\ slock = [b \in Bufs |-> Nobody]
  /\ disk \in [Blocks -> Vals] /\ panicked = 0
  /\ pc = [p \in Procs |-> "idle"]
  /\ want = [p \in Procs |-> NoBlock] /\ buf = [p \in Procs |-> Head]
  /\ clean = [p \in Procs |-> 1] /\ pinned = {}

Step(p) ==
  \/ \E k \in Blocks : bget_hit(p, k) \/ bget_recycle(p, k) \/ bget_panic(p, k)
  \/ acquiresleep(p) \/ bread(p) \/ bwrite(p) \/ brelse(p) \/ brelse_unref(p)
  \/ bpin(p) \/ bunpin(p)
  \/ \E v \in Vals : modify(p, v)

Next == \E p \in Procs : Step(p)

Spec == Init /\ [][Next]_vars
-----------------------------------------------------------------------------

(* Every variable has its type.                                            *)
TypeOK ==
  /\ nxt \in [Nodes -> Nodes] /\ prv \in [Nodes -> Nodes]
  /\ blockno \in [Bufs -> Blocks \cup {NoBlock}]
  /\ valid \in [Bufs -> {0, 1}] /\ refcnt \in [Bufs -> Nat] /\ data \in [Bufs -> Vals]
  /\ slock \in [Bufs -> Procs \cup {Nobody}]
  /\ disk \in [Blocks -> Vals] /\ panicked \in {0, 1}
  /\ pc \in [Procs -> PCs] /\ want \in [Procs -> Blocks \cup {NoBlock}]
  /\ buf \in [Procs -> Nodes] /\ clean \in [Procs -> {0, 1}] /\ pinned \subseteq Bufs

\* The pointer surgery of brelse keeps one ring: following next from the
\* list head meets every buffer once, and prev leads back.  And no buffer is
\* lost to a reference nobody has: bget gives up only when every buffer is in
\* the log or with a process, bwrite and brelse find their lock held.
Ring ==
  /\ TypeOK
  /\ {Nth(nxt, k) : k \in 1..NBUF} = Bufs /\ Nth(nxt, NBUF + 1) = Head
  /\ \A b \in Nodes : prv[nxt[b]] = b
  /\ panicked = 1 => \A b \in Bufs : b \in pinned \/ \E p \in Procs : buf[p] = b

\* A block has at most one buffer, and from bget to brelse the buffer of a
\* process stays the buffer of the block it asked for, though it waits for
\* the buffer without any lock; Ring holds besides (bget, brelse).
BufferRight ==
  /\ Ring
  /\ \A b, c \in Bufs : blockno[b] = blockno[c] /\ b # c => blockno[b] = NoBlock
  /\ \A p \in Procs : pc[p] # "idle" => blockno[buf[p]] = want[p]

\* The contents of block k: its buffer if that is valid, else the disk.
Content(k) == IF \E b \in Cached(k) : valid[b] = 1
              THEN data[CHOOSE b \in Cached(k) : valid[b] = 1] ELSE disk[k]

Holder(k) == LET H == {p \in Procs : pc[p] = "hold" /\ want[p] = k}
             IN IF H = {} THEN Nobody ELSE CHOOSE p \in H : TRUE

BS == INSTANCE BlockStore WITH
        content <- [k \in Blocks |-> Content(k)], holder <- [k \in Blocks |-> Holder(k)]

\* The cache is invisible: recycling, rereading and delayed writes never show
\* a process an old or foreign value, and never let two processes in.
IsBlockStore == BS!Spec
=============================================================================
