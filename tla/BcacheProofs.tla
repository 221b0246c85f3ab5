---------------------------- MODULE BcacheProofs ----------------------------
(***************************************************************************)
(* Proofs about Bcache, for any set of processes, any blocks and contents, *)
(* any number of buffers and of pins: the buffer a process has got stays   *)
(* the buffer of its block, the list stays one ring, and the cache         *)
(* implements BlockStore.                                                  *)
(***************************************************************************)
EXTENDS Bcache, FiniteSetTheorems, TLAPS

Holding == {"check", "hold"}

\* Who has a reference to buffer b; Nobody stands for the log.
Refs(b) == {p \in Procs : buf[p] = b} \cup (IF b \in pinned THEN {Nobody} ELSE {})

\* Where a process is and what it has.
ProcOK(p) ==
  /\ pc[p] = "idle" <=> buf[p] = Head
  /\ pc[p] # "idle" => want[p] \in Blocks /\ blockno[buf[p]] = want[p]
  /\ pc[p] \in Holding => slock[buf[p]] = p
  /\ pc[p] = "hold" => valid[buf[p]] = 1
  /\ pc[p] = "hold" /\ clean[p] = 1 => data[buf[p]] = disk[want[p]]

Held(b) == \E p \in Procs : pc[p] = "hold" /\ buf[p] = b

ProcInv == \A p \in Procs : ProcOK(p)

\* The reference counts count.
RefInv == \A b \in Bufs : refcnt[b] = Cardinality(Refs(b))

\* A sleep lock is held by a process that is where it should be.
LockInv == \A b \in Bufs : slock[b] # Nobody => buf[slock[b]] = b /\ pc[slock[b]] \in Holding

\* A block has one buffer, and what is valid or in the log is some block.
BlockInv ==
  \A b \in Bufs :
    /\ \A c \in Bufs : blockno[b] = blockno[c] /\ blockno[b] # NoBlock => b = c
    /\ valid[b] = 1 => blockno[b] \in Blocks
    /\ b \in pinned => valid[b] = 1

\* A buffer that may be recycled has what the disk has.
DataInv ==
  \A b \in Bufs : valid[b] = 1 /\ b \notin pinned /\ ~Held(b) => data[b] = disk[blockno[b]]

\* s continues along the pointers f.
Follows(f, s) == \A k \in 0..NBUF : s[k + 1] = f[s[k]]

\* s lists the nodes in the order of the pointers f, from Head to Head.
Walk(f, s) ==
  /\ s \in [0..(NBUF + 1) -> Nodes] /\ s[0] = Head /\ s[NBUF + 1] = Head
  /\ Follows(f, s)
  /\ \A j, k \in 0..NBUF : s[j] = s[k] => j = k
  /\ \A x \in Nodes : \E k \in 0..NBUF : s[k] = x

ListInv == (\A x \in Nodes : prv[nxt[x]] = x) /\ \E s : Walk(nxt, s)

PanicInv == panicked = 1 => \A b \in Bufs : Refs(b) # {}

IInv == TypeOK /\ ProcInv /\ RefInv /\ LockInv /\ BlockInv /\ DataInv /\ ListInv /\ PanicInv

\* The pointers with b taken from behind a to the front.
NextMoved(a, b) == [x \in Nodes |-> IF x = Head THEN b ELSE IF x = b THEN nxt[Head]
                                    ELSE IF x = a THEN nxt[b] ELSE nxt[x]]
PrevMoved(a, b) == [x \in Nodes |-> IF x = nxt[Head] THEN b ELSE IF x = b THEN Head
                                    ELSE IF x = nxt[b] THEN a ELSE prv[x]]
-----------------------------------------------------------------------------

(* The list                                                                *)

(* Smaller in Nat is smaller in the library's well-founded order.          *)
LEMMA LessThanRelation ==
  ASSUME NEW s \in Nat, NEW t \in Nat, t < s
  PROVE  <<t, s>> \in OpToRel(<, Nat)
<1>1. <<t, s>> \in Nat \X Nat /\ <<t, s>>[1] < <<t, s>>[2]
  BY Zenon
<1> QED
  BY <1>1, Zenon DEF OpToRel

(* The nodes are the numbers up to NBUF, and Head is no buffer.            *)
LEMMA NodesAre == Nodes = 0..NBUF /\ Head \in Nodes /\ Head \notin Bufs /\ Bufs \subseteq Nodes
BY SizeAssumption DEF Nodes, Bufs, Head

(* Two sequences that start alike and continue alike are alike: the walk   *)
(* of a list is determined by its pointers.                                *)
LEMMA WalkUnique ==
  ASSUME NEW f, NEW s, NEW t, s[0] = t[0],
         Follows(f, s), Follows(f, t)
  PROVE  \A k \in 0..(NBUF + 1) : s[k] = t[k]
<1> DEFINE D == {j \in 0..(NBUF + 1) : s[j] # t[j]}
<1>1. SUFFICES ASSUME D # {} PROVE FALSE
  BY Zenon
<1>2. D \subseteq Nat
  BY SizeAssumption
<1> HIDE DEF D
<1>3. PICK j \in D : \A i \in D : ~(<<i, j>> \in OpToRel(<, Nat))
  BY <1>1, <1>2, Zenon, WFMin, NatLessThanWellFounded
<1>4. j \in 0..(NBUF + 1) /\ s[j] # t[j] /\ j # 0
  BY <1>3 DEF D
<1>5. j - 1 \in 0..NBUF /\ j - 1 \in 0..(NBUF + 1) /\ j - 1 \in Nat /\ j \in Nat /\ j - 1 < j
      /\ (j - 1) + 1 = j
  BY <1>4, SizeAssumption
<1>6. j - 1 \notin D
  BY <1>3, <1>5, Zenon, LessThanRelation
<1>7. s[j - 1] = t[j - 1]
  BY <1>5, <1>6, Zenon DEF D
<1>8. s[(j - 1) + 1] = f[s[j - 1]] /\ t[(j - 1) + 1] = f[t[j - 1]]
  BY <1>5, Zenon DEF Follows
<1> QED
  BY <1>4, <1>5, <1>7, <1>8, Zenon

(* Nth follows the pointers: it finds the nodes of the walk.               *)
LEMMA NthOfWalk ==
  ASSUME NEW f, NEW s, Walk(f, s)
  PROVE  \A k \in 0..(NBUF + 1) : Nth(f, k) = s[k]
<1> DEFINE G(g) == g = [j \in 0..(NBUF + 1) |-> IF j = 0 THEN Head ELSE f[g[j - 1]]]
           h == CHOOSE g : G(g)
<1>1. \A j \in 0..(NBUF + 1) : s[j] = IF j = 0 THEN Head ELSE f[s[j - 1]]
  <2> TAKE j \in 0..(NBUF + 1)
  <2>1. CASE j = 0
    BY <2>1, Zenon DEF Walk
  <2>2. CASE j # 0
    <3>1. j - 1 \in 0..NBUF /\ (j - 1) + 1 = j
      BY <2>2, SizeAssumption
    <3>2. s[(j - 1) + 1] = f[s[j - 1]]
      BY <3>1, Zenon DEF Walk, Follows
    <3> QED
      BY <2>2, <3>1, <3>2, Zenon
  <2> QED
    BY <2>1, <2>2, Zenon
<1>2. s = [j \in 0..(NBUF + 1) |-> s[j]]
  BY Zenon DEF Walk
<1>3. G(s)
  BY <1>1, <1>2, Zenon
<1>4. G(h)
  BY <1>3, Zenon
<1>5. \A k : Nth(f, k) = h[k]
  BY Zenon DEF Nth
<1> HIDE DEF h
<1>6. 0 \in 0..(NBUF + 1)
  BY SizeAssumption
<1>7. h[0] = Head
  BY <1>4, <1>6, Zenon
<1>8. Follows(f, h)
  <2> SUFFICES ASSUME NEW k \in 0..NBUF PROVE h[k + 1] = f[h[k]]
    BY Zenon DEF Follows
  <2>1. k + 1 \in 0..(NBUF + 1) /\ k + 1 # 0 /\ (k + 1) - 1 = k
    BY SizeAssumption
  <2> QED
    BY <1>4, <2>1, Zenon
<1>9. s[0] = Head /\ Follows(f, s)
  BY Zenon DEF Walk
<1>10. \A k \in 0..(NBUF + 1) : h[k] = s[k]
  BY <1>7, <1>8, <1>9, Zenon, WalkUnique
<1> QED
  BY <1>5, <1>10, Zenon

(* A list with a walk is one ring, in the words of Ring.                   *)
LEMMA ListIsRing ==
  ASSUME ListInv
  PROVE  {Nth(nxt, k) : k \in 1..NBUF} = Bufs /\ Nth(nxt, NBUF + 1) = Head
<1>1. PICK s : Walk(nxt, s)
  BY Zenon DEF ListInv
<1>2. \A k \in 0..(NBUF + 1) : Nth(nxt, k) = s[k]
  BY <1>1, Zenon, NthOfWalk
<1>3. NBUF + 1 \in 0..(NBUF + 1) /\ 1..NBUF \subseteq 0..NBUF /\ 1..NBUF \subseteq 0..(NBUF + 1)
      /\ 0 \in 0..NBUF /\ 0 \notin 1..NBUF /\ 0..NBUF = {0} \cup 1..NBUF
  BY SizeAssumption
<1>4. \A k \in 1..NBUF : s[k] \in Bufs
  <2> TAKE k \in 1..NBUF
  <2>1. s[k] \in Nodes /\ s[0] = Head
    BY <1>1, <1>3, Zenon DEF Walk
  <2>2. s[k] = s[0] => k = 0
    BY <1>1, <1>3, Zenon DEF Walk
  <2> QED
    BY <1>3, <2>1, <2>2, Zenon DEF Nodes
<1>5. \A b \in Bufs : \E k \in 1..NBUF : s[k] = b
  <2> TAKE b \in Bufs
  <2>1. PICK k \in 0..NBUF : s[k] = b
    BY <1>1, Zenon, NodesAre DEF Walk
  <2>2. k # 0
    BY <1>1, <2>1, Zenon, NodesAre DEF Walk
  <2> QED
    BY <1>3, <2>1, <2>2, Zenon
<1>6. \A k \in 1..NBUF : Nth(nxt, k) = s[k]
  BY <1>2, <1>3, Zenon
<1>7. Nth(nxt, NBUF + 1) = Head
  BY <1>1, <1>2, <1>3, Zenon DEF Walk
<1> QED
  BY <1>4, <1>5, <1>6, <1>7, Zenon

(* Every node is the next one of a node.                                   *)
LEMMA WalkOnto ==
  ASSUME ListInv, NEW x \in Nodes
  PROVE  \E y \in Nodes : nxt[y] = x
<1>1. PICK s : Walk(nxt, s)
  BY Zenon DEF ListInv
<1>2. /\ \A k \in 0..(NBUF + 1) : s[k] \in Nodes
      /\ s[0] = Head /\ s[NBUF + 1] = Head
      /\ \A k \in 0..NBUF : s[k + 1] = nxt[s[k]]
      /\ \A j, k \in 0..NBUF : s[j] = s[k] => j = k
      /\ \E k \in 0..NBUF : s[k] = x
  BY <1>1, Zenon DEF Walk, Follows
<1>3. PICK k \in 0..NBUF : s[k] = x
  BY <1>2, Zenon
<1>4. CASE k = 0
  <2>1. NBUF \in 0..NBUF /\ NBUF \in 0..(NBUF + 1)
    BY SizeAssumption
  <2> QED
    BY <1>2, <1>3, <1>4, <2>1, Zenon
<1>5. CASE k # 0
  <2>1. k - 1 \in 0..NBUF /\ k - 1 \in 0..(NBUF + 1) /\ (k - 1) + 1 = k
    BY <1>5, SizeAssumption
  <2>2. s[(k - 1) + 1] = nxt[s[k - 1]] /\ s[k - 1] \in Nodes
    BY <1>2, <2>1, Zenon
  <2> QED
    BY <1>3, <2>1, <2>2, Zenon
<1> QED
  BY <1>4, <1>5, Zenon

(* No node is its own next one: there is a buffer besides the head.        *)
LEMMA NoLoop ==
  ASSUME ListInv, NEW x \in Nodes
  PROVE  nxt[x] # x
<1>1. PICK s : Walk(nxt, s)
  BY Zenon DEF ListInv
<1>2. /\ \A k \in 0..(NBUF + 1) : s[k] \in Nodes
      /\ s[0] = Head /\ s[NBUF + 1] = Head
      /\ \A k \in 0..NBUF : s[k + 1] = nxt[s[k]]
      /\ \A j, k \in 0..NBUF : s[j] = s[k] => j = k
      /\ \E k \in 0..NBUF : s[k] = x
  BY <1>1, Zenon DEF Walk, Follows
<1>3. PICK k \in 0..NBUF : s[k] = x
  BY <1>2, Zenon
<1>4. s[k + 1] = nxt[x]
  BY <1>2, <1>3, Zenon
<1>5. CASE k = NBUF
  <2>1. 0 \in 0..NBUF /\ NBUF # 0
    BY SizeAssumption
  <2>2. nxt[x] = s[0]
    BY <1>2, <1>4, <1>5, Zenon
  <2> QED
    BY <1>2, <1>3, <1>5, <2>1, <2>2, Zenon
<1>6. CASE k # NBUF
  <2>1. k + 1 \in 0..NBUF /\ k + 1 # k
    BY <1>6, SizeAssumption
  <2> QED
    BY <1>2, <1>3, <1>4, <2>1, Zenon
<1> QED
  BY <1>5, <1>6, Zenon

(* A buffer that leads the list stays where it is when brelse moves it to  *)
(* the front.                                                              *)
LEMMA FrontStays ==
  ASSUME TypeOK, ListInv, NEW b \in Bufs, prv[b] = Head
  PROVE  MovedToFront(b)[1] = nxt /\ MovedToFront(b)[2] = prv
<1>1. b \in Nodes /\ b # Head /\ Head \in Nodes /\ nxt[b] \in Nodes
  BY Zenon, NodesAre DEF TypeOK
<1>2. prv[nxt[b]] = b /\ prv[nxt[Head]] = Head
  BY <1>1, Zenon DEF ListInv
<1>3. \E x \in Nodes : nxt[x] = b
  BY <1>1, Zenon, WalkOnto DEF ListInv
<1>4. nxt[Head] = b
  BY <1>1, <1>3, Zenon DEF ListInv
<1>5. nxt[b] # b
  BY <1>1, <1>2, Zenon
<1> DEFINE prv1 == [prv EXCEPT ![nxt[b]] = prv[b]]
           nxt1 == [nxt EXCEPT ![prv1[b]] = nxt[b]]
<1>6. prv1[b] = Head
  BY <1>1, <1>5 DEF TypeOK
<1>7. nxt1 = [nxt EXCEPT ![Head] = nxt[b]]
  BY <1>6, Zenon
<1>8. [[nxt1 EXCEPT ![b] = nxt1[Head]] EXCEPT ![Head] = b] = nxt
  BY <1>1, <1>4, <1>7, Zenon DEF TypeOK
<1>9. [nxt1 EXCEPT ![b] = nxt1[Head]][Head] = nxt[b]
  BY <1>1, <1>7 DEF TypeOK
<1>10. [[prv1 EXCEPT ![b] = Head] EXCEPT ![nxt[b]] = b] = prv
  BY <1>1, <1>2, <1>5, Zenon DEF TypeOK
<1> QED
  BY <1>8, <1>9, <1>10, Zenon DEF MovedToFront, Unlinked

(* The pointers after brelse has moved a buffer from behind another one to *)
(* the front.                                                              *)
LEMMA FrontMoves ==
  ASSUME TypeOK, ListInv, NEW b \in Bufs, NEW a \in Bufs, prv[b] = a
  PROVE  /\ nxt[a] = b
         /\ MovedToFront(b)[1] = NextMoved(a, b)
         /\ MovedToFront(b)[2] = PrevMoved(a, b)
<1>1. b \in Nodes /\ b # Head /\ Head \in Nodes /\ nxt[b] \in Nodes /\ a \in Nodes /\ a # Head
      /\ nxt[Head] \in Nodes
  BY Zenon, NodesAre DEF TypeOK
<1>2. prv[nxt[b]] = b /\ prv[nxt[a]] = a
  BY <1>1, Zenon DEF ListInv
<1>3. \E x \in Nodes : nxt[x] = b
  BY <1>1, Zenon, WalkOnto DEF ListInv
<1>4. nxt[a] = b
  BY <1>1, <1>3, Zenon DEF ListInv
<1>5. nxt[b] # b
  <2>1. SUFFICES ASSUME nxt[b] = b PROVE FALSE
    BY Zenon
  <2> QED
    BY <1>1, <2>1, Zenon, NoLoop
<1>6. a # b
  BY <1>4, <1>5, Zenon
<1> DEFINE prv1 == [prv EXCEPT ![nxt[b]] = prv[b]]
           nxt1 == [nxt EXCEPT ![prv1[b]] = nxt[b]]
<1>7. prv1[b] = a
  BY <1>1, <1>5 DEF TypeOK
<1>8. nxt1 = [nxt EXCEPT ![a] = nxt[b]]
  BY <1>7, Zenon
<1>9. [[nxt1 EXCEPT ![b] = nxt1[Head]] EXCEPT ![Head] = b] = NextMoved(a, b)
  BY <1>1, <1>6, <1>8, Zenon DEF TypeOK, NextMoved
<1>10. [nxt1 EXCEPT ![b] = nxt1[Head]][Head] = nxt[Head]
  BY <1>1, <1>8 DEF TypeOK
<1>11. [[prv1 EXCEPT ![b] = Head] EXCEPT ![nxt[Head]] = b] = PrevMoved(a, b)
  BY <1>1, <1>5, Zenon DEF TypeOK, PrevMoved
<1> QED
  BY <1>4, <1>9, <1>10, <1>11, Zenon DEF MovedToFront, Unlinked

(* Moving a buffer from behind another one to the front leaves one ring:   *)
(* its walk is the old one with the buffer taken to the front.             *)
LEMMA MoveKeepsRing ==
  ASSUME TypeOK, ListInv, NEW b \in Bufs, NEW a \in Bufs, prv[b] = a
  PROVE  /\ \A x \in Nodes : PrevMoved(a, b)[NextMoved(a, b)[x]] = x
         /\ \E s : Walk(NextMoved(a, b), s)
<1> DEFINE f == NextMoved(a, b)
           g == PrevMoved(a, b)
<1>1. b \in Nodes /\ b # Head /\ Head \in Nodes /\ nxt[b] \in Nodes /\ a \in Nodes /\ a # Head
      /\ nxt[Head] \in Nodes /\ \A x \in Nodes : nxt[x] \in Nodes
  BY Zenon, NodesAre DEF TypeOK
<1>2. \A x \in Nodes : prv[nxt[x]] = x
  BY Zenon DEF ListInv
<1>3. \A x, y \in Nodes : nxt[x] = nxt[y] => x = y
  BY <1>2, Zenon
<1>4. \A x \in Nodes : f[x] = IF x = Head THEN b ELSE IF x = b THEN nxt[Head]
                              ELSE IF x = a THEN nxt[b] ELSE nxt[x]
  BY Zenon DEF NextMoved
<1>5. \A x \in Nodes : g[x] = IF x = nxt[Head] THEN b ELSE IF x = b THEN Head
                              ELSE IF x = nxt[b] THEN a ELSE prv[x]
  BY Zenon DEF PrevMoved
<1> HIDE DEF f, g
<1>6. nxt[a] = b /\ a # b /\ nxt[b] # b
  BY <1>1, Zenon, FrontMoves, NoLoop
<1>7. \A x \in Nodes : g[f[x]] = x
  <2> TAKE x \in Nodes
  <2>1. CASE x = Head
    BY <1>1, <1>2, <1>4, <1>5, <1>6, <2>1, Zenon
  <2>2. CASE x = b
    BY <1>1, <1>4, <1>5, <2>2, Zenon
  <2>3. CASE x = a
    <3>1. f[x] = nxt[b] /\ nxt[b] # nxt[Head]
      BY <1>1, <1>3, <1>4, <1>6, <2>3, Zenon
    <3> QED
      BY <1>1, <1>5, <1>6, <2>3, <3>1, Zenon
  <2>4. CASE x # Head /\ x # b /\ x # a
    <3>1. f[x] = nxt[x] /\ nxt[x] \in Nodes
      BY <1>1, <1>4, <2>4, Zenon
    <3>2. nxt[x] # nxt[Head] /\ nxt[x] # nxt[b] /\ nxt[x] # nxt[a]
      BY <1>1, <1>3, <2>4, Zenon
    <3>3. g[nxt[x]] = prv[nxt[x]]
      BY <1>5, <1>6, <3>1, <3>2, Zenon
    <3> QED
      BY <1>2, <3>1, <3>3, Zenon
  <2> QED
    BY <2>1, <2>2, <2>3, <2>4, Zenon
<1>8. PICK s : Walk(nxt, s)
  BY Zenon DEF ListInv
<1>9. /\ \A k \in 0..(NBUF + 1) : s[k] \in Nodes
      /\ s[0] = Head /\ s[NBUF + 1] = Head
      /\ \A k \in 0..NBUF : s[k + 1] = nxt[s[k]]
      /\ \A j, k \in 0..NBUF : s[j] = s[k] => j = k
      /\ \A x \in Nodes : \E k \in 0..NBUF : s[k] = x
  BY <1>8, Zenon DEF Walk, Follows
<1>10. PICK i \in 0..NBUF : s[i] = b
  BY <1>1, <1>9, Zenon
<1>11. i \in 2..NBUF /\ s[i - 1] = a
  <2>1. PICK j \in 0..NBUF : s[j] = a
    BY <1>1, <1>9, Zenon
  <2>2. j # 0 /\ i # 0
    BY <1>1, <1>9, <1>10, <2>1, Zenon
  <2>3. s[j + 1] = nxt[s[j]]
    BY <1>9, Zenon
  <2>4. s[j + 1] = b
    BY <1>6, <2>1, <2>3, Zenon
  <2>5. j # NBUF
    BY <1>1, <1>9, <2>4, Zenon
  <2>6. j + 1 \in 0..NBUF
    BY <2>5, SizeAssumption
  <2>7. i = j + 1
    BY <1>9, <1>10, <2>4, <2>6, Zenon
  <2>8. i \in 2..NBUF /\ i - 1 = j
    BY <2>2, <2>5, <2>7, SizeAssumption
  <2> QED
    BY <2>1, <2>8, Zenon
<1> DEFINE t == [k \in 0..(NBUF + 1) |-> IF k = 0 THEN Head ELSE IF k = 1 THEN b
                                         ELSE IF k <= i THEN s[k - 1] ELSE s[k]]
<1>12. t \in [0..(NBUF + 1) -> Nodes] /\ t[0] = Head /\ t[NBUF + 1] = Head
  <2>1. \A k \in 0..(NBUF + 1) : k # 0 => k - 1 \in 0..(NBUF + 1)
    BY SizeAssumption
  <2>2. 0 \in 0..(NBUF + 1) /\ NBUF + 1 \in 0..(NBUF + 1) /\ NBUF + 1 # 0 /\ NBUF + 1 # 1
        /\ ~(NBUF + 1 <= i)
    BY <1>11, SizeAssumption
  <2> QED
    BY <1>1, <1>9, <2>1, <2>2, Zenon
<1>13. ASSUME NEW k \in 0..NBUF PROVE t[k + 1] = f[t[k]]
  <2>1. CASE k = 0
    <3>1. k \in 0..(NBUF + 1) /\ k + 1 \in 0..(NBUF + 1) /\ k + 1 = 1 /\ 1 # 0
      BY <2>1, SizeAssumption
    <3> QED
      BY <1>1, <1>4, <2>1, <3>1, Zenon
  <2>2. CASE k = 1
    <3>1. k \in 0..(NBUF + 1) /\ k + 1 \in 0..(NBUF + 1) /\ k + 1 # 0 /\ k + 1 # 1 /\ k + 1 <= i
          /\ (k + 1) - 1 = 1 /\ 1 # 0 /\ 0 + 1 = 1 /\ 0 \in 0..NBUF
      BY <1>11, <2>2, SizeAssumption
    <3>2. s[1] = nxt[Head]
      BY <1>9, <3>1, Zenon
    <3> QED
      BY <1>1, <1>4, <2>2, <3>1, <3>2, Zenon
  <2>3. CASE k \in 2..(i - 1)
    <3>1. k \in 0..(NBUF + 1) /\ k + 1 \in 0..(NBUF + 1) /\ k + 1 # 0 /\ k + 1 # 1 /\ k + 1 <= i
          /\ (k + 1) - 1 = k /\ k # 0 /\ k # 1 /\ k <= i /\ k - 1 \in 0..NBUF /\ (k - 1) + 1 = k
          /\ k - 1 # 0 /\ k - 1 # i /\ k - 1 # i - 1 /\ 0 \in 0..NBUF /\ i - 1 \in 0..NBUF
          /\ k - 1 \in 0..(NBUF + 1)
      BY <1>11, <2>3, SizeAssumption
    <3>2. t[k] = s[k - 1] /\ t[k + 1] = s[k]
      BY <3>1, Zenon
    <3>3. s[k] = nxt[s[k - 1]]
      BY <1>9, <3>1, Zenon
    <3>4. s[k - 1] \in Nodes /\ s[k - 1] # s[0] /\ s[k - 1] # s[i] /\ s[k - 1] # s[i - 1]
      BY <1>9, <3>1, Zenon
    <3>5. s[k - 1] # Head /\ s[k - 1] # b /\ s[k - 1] # a
      BY <1>9, <1>10, <1>11, <3>4, Zenon
    <3> QED
      BY <1>4, <3>2, <3>3, <3>4, <3>5, Zenon
  <2>4. CASE k = i
    <3>1. k \in 0..(NBUF + 1) /\ k + 1 \in 0..(NBUF + 1) /\ k + 1 # 0 /\ k + 1 # 1 /\ ~(k + 1 <= i)
          /\ k # 0 /\ k # 1 /\ k <= i
      BY <1>11, <2>4, SizeAssumption
    <3>2. t[k] = a /\ t[k + 1] = s[k + 1]
      BY <1>11, <2>4, <3>1, Zenon
    <3>3. s[k + 1] = nxt[b]
      BY <1>9, <1>10, <2>4, Zenon
    <3> QED
      BY <1>1, <1>4, <1>6, <3>2, <3>3, Zenon
  <2>5. CASE k \in (i + 1)..NBUF
    <3>1. k \in 0..(NBUF + 1) /\ k + 1 \in 0..(NBUF + 1) /\ k + 1 # 0 /\ k + 1 # 1 /\ ~(k + 1 <= i)
          /\ k # 0 /\ k # 1 /\ ~(k <= i) /\ k # i /\ k # i - 1 /\ 0 \in 0..NBUF /\ i - 1 \in 0..NBUF
      BY <1>11, <2>5, SizeAssumption
    <3>2. t[k] = s[k] /\ t[k + 1] = s[k + 1]
      BY <3>1, Zenon
    <3>3. s[k] \in Nodes /\ s[k + 1] = nxt[s[k]] /\ s[k] # s[0] /\ s[k] # s[i] /\ s[k] # s[i - 1]
      BY <1>9, <3>1, Zenon
    <3>4. s[k] # Head /\ s[k] # b /\ s[k] # a
      BY <1>9, <1>10, <1>11, <3>3, Zenon
    <3> QED
      BY <1>4, <3>2, <3>3, <3>4, Zenon
  <2>6. k = 0 \/ k = 1 \/ k \in 2..(i - 1) \/ k = i \/ k \in (i + 1)..NBUF
    BY <1>11, SizeAssumption
  <2> QED
    BY <2>1, <2>2, <2>3, <2>4, <2>5, <2>6, Zenon
<1> DEFINE old(k) == IF k = 0 THEN 0 ELSE IF k = 1 THEN i ELSE IF k <= i THEN k - 1 ELSE k
<1>14. \A k \in 0..NBUF : k \in 0..(NBUF + 1) /\ t[k] = s[old(k)] /\ old(k) \in 0..NBUF
  <2> TAKE k \in 0..NBUF
  <2>1. k \in 0..(NBUF + 1) /\ old(k) \in 0..NBUF
    BY <1>11, SizeAssumption
  <2> QED
    BY <1>9, <1>10, <2>1, Zenon
<1>15. \A j, k \in 0..NBUF : old(j) = old(k) => j = k
  BY <1>11, SizeAssumption
<1>16. \A k \in 0..NBUF : \E j \in 0..NBUF : old(j) = k
  <2> TAKE k \in 0..NBUF
  <2> DEFINE j == IF k = 0 THEN 0 ELSE IF k = i THEN 1 ELSE IF k < i THEN k + 1 ELSE k
  <2>1. j \in 0..NBUF /\ old(j) = k
    BY <1>11, SizeAssumption
  <2> QED
    BY <2>1, Zenon
<1> HIDE DEF old, t
<1>17. \A j, k \in 0..NBUF : t[j] = t[k] => j = k
  <2> SUFFICES ASSUME NEW j \in 0..NBUF, NEW k \in 0..NBUF, t[j] = t[k] PROVE j = k
    BY Zenon
  <2>1. s[old(j)] = s[old(k)] /\ old(j) \in 0..NBUF /\ old(k) \in 0..NBUF
    BY <1>14, Zenon
  <2>2. old(j) = old(k)
    BY <1>9, <2>1, Zenon
  <2> QED
    BY <1>15, <2>2, Zenon
<1>18. \A x \in Nodes : \E k \in 0..NBUF : t[k] = x
  <2> TAKE x \in Nodes
  <2>1. PICK k \in 0..NBUF : s[k] = x
    BY <1>9, Zenon
  <2>2. PICK j \in 0..NBUF : old(j) = k
    BY <1>16, Zenon
  <2> QED
    BY <1>14, <2>1, <2>2, Zenon
<1>19. Follows(f, t)
  BY <1>13, Zenon DEF Follows
<1>20. Walk(f, t)
  BY <1>12, <1>17, <1>18, <1>19, Zenon DEF Walk
<1> QED
  BY <1>7, <1>20, Zenon DEF f, g

(* Whatever buffer brelse moves to the front, the list stays one ring of   *)
(* the same nodes.                                                         *)
LEMMA FrontKeepsList ==
  ASSUME TypeOK, ListInv, NEW b \in Bufs
  PROVE  /\ MovedToFront(b)[1] \in [Nodes -> Nodes] /\ MovedToFront(b)[2] \in [Nodes -> Nodes]
         /\ \A x \in Nodes : MovedToFront(b)[2][MovedToFront(b)[1][x]] = x
         /\ \E s : Walk(MovedToFront(b)[1], s)
<1> DEFINE f == MovedToFront(b)[1]
           g == MovedToFront(b)[2]
<1>1. b \in Nodes /\ Head \in Nodes /\ prv[b] \in Nodes /\ \A x \in Nodes : nxt[x] \in Nodes
  BY Zenon, NodesAre DEF TypeOK
<1>2. CASE prv[b] = Head
  <2>1. f = nxt /\ g = prv
    BY <1>2, Zenon, FrontStays
  <2> QED
    BY <2>1, Zenon DEF TypeOK, ListInv
<1>3. CASE prv[b] # Head
  <2>1. PICK a \in Bufs : prv[b] = a
    BY <1>1, <1>3, Zenon DEF Nodes
  <2>2. f = NextMoved(a, b) /\ g = PrevMoved(a, b)
    BY <2>1, Zenon, FrontMoves
  <2>3. /\ \A x \in Nodes : PrevMoved(a, b)[NextMoved(a, b)[x]] = x
        /\ \E s : Walk(NextMoved(a, b), s)
    BY <2>1, Zenon, MoveKeepsRing
  <2>4. a \in Nodes /\ \A x \in Nodes : prv[x] \in Nodes
    BY <1>1, Zenon, NodesAre DEF TypeOK
  <2>5. f \in [Nodes -> Nodes] /\ g \in [Nodes -> Nodes]
    BY <1>1, <2>2, <2>4 DEF NextMoved, PrevMoved
  <2> QED
    BY <2>2, <2>3, <2>5, Zenon
<1> QED
  BY <1>2, <1>3, Zenon
-----------------------------------------------------------------------------

(* Buffers, locks and references                                           *)

(* The references to a buffer are finitely many, and counted by a Nat.     *)
LEMMA RefsFinite ==
  ASSUME NEW b
  PROVE  IsFiniteSet(Refs(b)) /\ Cardinality(Refs(b)) \in Nat
<1>1. IsFiniteSet(Procs) /\ IsFiniteSet(Procs \cup {Nobody})
  BY SetAssumption, Zenon, FS_AddElement
<1>2. Refs(b) \subseteq Procs \cup {Nobody}
  BY Zenon DEF Refs
<1>3. IsFiniteSet(Refs(b))
  BY <1>1, <1>2, Zenon, FS_Subset
<1> QED
  BY <1>3, Zenon, FS_CardinalityType

(* A buffer without references has count zero, and the other way round.    *)
LEMMA UnusedIsFree ==
  ASSUME RefInv, NEW b \in Bufs
  PROVE  refcnt[b] = 0 <=> Refs(b) = {}
BY RefsFinite, FS_EmptySet, Zenon DEF RefInv

(* One more reference, one more in the count.                              *)
LEMMA RefUp ==
  ASSUME TypeOK, RefInv, NEW b \in Bufs, NEW x, x \notin Refs(b),
         Refs(b)' = Refs(b) \cup {x}, \A c \in Bufs : c # b => Refs(c)' = Refs(c),
         refcnt' = [refcnt EXCEPT ![b] = refcnt[b] + 1]
  PROVE  RefInv' /\ refcnt' \in [Bufs -> Nat]
<1>1. Cardinality(Refs(b) \cup {x}) = Cardinality(Refs(b)) + 1
  BY Zenon, RefsFinite, FS_AddElement
<1>2. refcnt[b] = Cardinality(Refs(b)) /\ refcnt \in [Bufs -> Nat]
  BY Zenon DEF RefInv, TypeOK
<1>3. refcnt'[b] = Cardinality(Refs(b)')
  BY <1>1, <1>2, Zenon
<1>4. \A c \in Bufs : c # b => refcnt'[c] = Cardinality(Refs(c)')
  BY <1>2, Zenon DEF RefInv
<1>5. refcnt' \in [Bufs -> Nat]
  BY <1>2
<1> QED
  BY <1>3, <1>4, <1>5, Zenon DEF RefInv

(* One reference less, one less in the count, which was not zero.          *)
LEMMA RefDown ==
  ASSUME TypeOK, RefInv, NEW b \in Bufs, NEW x, x \in Refs(b),
         Refs(b)' = Refs(b) \ {x}, \A c \in Bufs : c # b => Refs(c)' = Refs(c),
         refcnt' = [refcnt EXCEPT ![b] = refcnt[b] - 1]
  PROVE  RefInv' /\ refcnt' \in [Bufs -> Nat]
<1>1. Cardinality(Refs(b) \ {x}) = Cardinality(Refs(b)) - 1
  BY Zenon, RefsFinite, FS_RemoveElement
<1>2. refcnt[b] = Cardinality(Refs(b)) /\ refcnt \in [Bufs -> Nat]
  BY Zenon DEF RefInv, TypeOK
<1>3. refcnt'[b] = Cardinality(Refs(b)')
  BY <1>1, <1>2, Zenon
<1>4. \A c \in Bufs : c # b => refcnt'[c] = Cardinality(Refs(c)')
  BY <1>2, Zenon DEF RefInv
<1>5. refcnt[b] # 0
  BY Zenon, UnusedIsFree
<1>6. refcnt' \in [Bufs -> Nat]
  BY <1>2, <1>5
<1> QED
  BY <1>3, <1>4, <1>6, Zenon DEF RefInv

(* Who has gone through bget has the buffer of the block it wants.         *)
LEMMA HasBuffer ==
  ASSUME TypeOK, ProcInv, NEW p \in Procs, pc[p] # "idle"
  PROVE  buf[p] \in Bufs /\ want[p] \in Blocks /\ blockno[buf[p]] = want[p]
<1>1. buf[p] \in Nodes /\ buf[p] # Head
  BY Zenon DEF TypeOK, ProcInv, ProcOK
<1> QED
  BY <1>1, Zenon DEF ProcInv, ProcOK, Nodes

(* One process at a time has the sleep lock of a buffer.                   *)
LEMMA OneHolder ==
  ASSUME ProcInv, NEW p \in Procs, NEW q \in Procs,
         pc[p] \in Holding, pc[q] \in Holding, buf[p] = buf[q]
  PROVE  p = q
<1>1. slock[buf[p]] = p
  BY Zenon DEF ProcInv, ProcOK
<1>2. slock[buf[q]] = q
  BY Zenon DEF ProcInv, ProcOK
<1> QED
  BY <1>1, <1>2, Zenon

(* A block that two buffers have is none.                                  *)
LEMMA OneBuffer ==
  ASSUME BlockInv, NEW b \in Bufs, NEW c \in Bufs, blockno[b] \in Blocks,
         blockno[b] = blockno[c]
  PROVE  b = c
BY Zenon, SetAssumption DEF BlockInv

(* The list is the same when no pointer changes.                           *)
LEMMA ListSame ==
  ASSUME ListInv, UNCHANGED listVars
  PROVE  ListInv'
BY Zenon DEF ListInv, listVars

(* Idle buffers keep having what the disk has when nobody lets go of one.  *)
LEMMA DataSame ==
  ASSUME DataInv, UNCHANGED <<valid, data, disk, blockno>>, pinned \subseteq pinned',
         \A b \in Bufs : Held(b) => Held(b)'
  PROVE  DataInv'
BY Zenon DEF DataInv

(* A process is as it was when it and its buffer are.                      *)
LEMMA ProcSame ==
  ASSUME ProcInv, NEW q \in Procs, pc'[q] = pc[q], want'[q] = want[q], buf'[q] = buf[q],
         clean'[q] = clean[q],
         pc[q] # "idle" => /\ blockno'[buf[q]] = blockno[buf[q]] /\ slock'[buf[q]] = slock[buf[q]]
                           /\ valid'[buf[q]] = valid[buf[q]] /\ data'[buf[q]] = data[buf[q]]
                           /\ disk'[want[q]] = disk[want[q]]
  PROVE  ProcOK(q)'
<1>1. ProcOK(q)
  BY Zenon DEF ProcInv
<1>2. CASE pc[q] = "idle"
  BY <1>1, <1>2, Zenon DEF ProcOK, Holding
<1>3. CASE pc[q] # "idle"
  BY <1>1, <1>3, Zenon DEF ProcOK
<1> QED
  BY <1>2, <1>3, Zenon

(* Every lock is as it was when only a process without one moves.          *)
LEMMA LockSame ==
  ASSUME TypeOK, LockInv, NEW p \in Procs, pc[p] \notin Holding, slock' = slock,
         \A q \in Procs : q # p => pc'[q] = pc[q] /\ buf'[q] = buf[q]
  PROVE  LockInv'
<1> SUFFICES ASSUME NEW c \in Bufs, slock[c] # Nobody
             PROVE  buf'[slock[c]] = c /\ pc'[slock[c]] \in Holding
  BY Zenon DEF LockInv
<1>1. buf[slock[c]] = c /\ pc[slock[c]] \in Holding
  BY Zenon DEF LockInv
<1>2. slock[c] \in Procs /\ slock[c] # p
  BY <1>1, Zenon DEF TypeOK
<1> QED
  BY <1>1, <1>2, Zenon

(* The references are as they were when nobody takes or drops one.         *)
LEMMA RefSame ==
  ASSUME RefInv, UNCHANGED <<refcnt, buf, pinned>>
  PROVE  RefInv'
<1>1. \A b \in Bufs : Refs(b)' = Refs(b)
  BY Zenon DEF Refs
<1> QED
  BY <1>1, Zenon DEF RefInv

(* Nothing is claimed of the references while bget has not given up.       *)
LEMMA NoPanic ==
  ASSUME panicked' = 0
  PROVE  PanicInv'
BY DEF PanicInv
-----------------------------------------------------------------------------

(* Every step keeps the invariant                                          *)

(* bget, with the block in the cache.                                      *)
LEMMA HitInv ==
  ASSUME IInv, NEW p \in Procs, NEW k \in Blocks, bget_hit(p, k)
  PROVE  IInv'
<1>1. PICK b \in Bufs : /\ blockno[b] = k /\ refcnt' = [refcnt EXCEPT ![b] = refcnt[b] + 1]
                        /\ buf' = [buf EXCEPT ![p] = b]
  BY Zenon DEF bget_hit, Cached
<1> USE DEF IInv
<1>2. /\ pc[p] = "idle" /\ buf[p] = Head /\ b # Head /\ b \in Nodes
      /\ panicked = 0 /\ panicked' = 0 /\ pinned' = pinned
  BY Zenon, NodesAre DEF bget_hit, ProcInv, ProcOK
<1>3. pc'[p] = "lock" /\ want'[p] = k /\ buf'[p] = b
  BY <1>1, Zenon DEF bget_hit, TypeOK
<1>4. \A q \in Procs : q # p => pc'[q] = pc[q] /\ want'[q] = want[q] /\ buf'[q] = buf[q]
  BY <1>1, Zenon DEF bget_hit, TypeOK
<1>5. p \notin Refs(b) /\ Refs(b)' = Refs(b) \cup {p} /\ \A c \in Bufs : c # b => Refs(c)' = Refs(c)
  BY <1>2, <1>3, <1>4, Zenon, SetAssumption, NodesAre DEF Refs
<1>6. RefInv' /\ refcnt' \in [Bufs -> Nat]
  BY <1>1, <1>5, Zenon, RefUp
<1>7. TypeOK'
  BY <1>1, <1>2, <1>6, Zenon DEF bget_hit, TypeOK, PCs, listVars
<1>8. UNCHANGED <<listVars, blockno, valid, data, slock, disk, clean>>
  BY Zenon DEF bget_hit
<1>9. ProcOK(p)'
  BY <1>1, <1>2, <1>3, <1>8, Zenon DEF ProcOK, Holding
<1>10. \A q \in Procs : q # p => ProcOK(q)'
  BY <1>4, <1>8, Zenon, ProcSame
<1>11. ProcInv'
  BY <1>9, <1>10, Zenon DEF ProcInv
<1>12. pc[p] \notin Holding
  BY <1>2, Zenon DEF Holding
<1>13. LockInv'
  BY <1>4, <1>8, <1>12, Zenon, LockSame
<1>14. BlockInv'
  BY Zenon DEF bget_hit, BlockInv
<1>15. DataInv'
  BY <1>2, <1>4, Zenon, DataSame DEF bget_hit, Held
<1>16. ListInv' /\ PanicInv'
  BY <1>2, <1>8, Zenon, ListSame, NoPanic
<1> QED
  BY <1>6, <1>7, <1>11, <1>13, <1>14, <1>15, <1>16, Zenon

(* bget, recycling an unused buffer: nobody has it, and it has nothing     *)
(* that the disk has not.                                                  *)
LEMMA RecycleInv ==
  ASSUME IInv, NEW p \in Procs, NEW k \in Blocks, bget_recycle(p, k)
  PROVE  IInv'
<1>1. PICK b \in Bufs : /\ LeastRecent(b) /\ blockno' = [blockno EXCEPT ![b] = k]
                        /\ valid' = [valid EXCEPT ![b] = 0]
                        /\ refcnt' = [refcnt EXCEPT ![b] = 1] /\ buf' = [buf EXCEPT ![p] = b]
  BY Zenon DEF bget_recycle, Recycled
<1> USE DEF IInv
<1>2. /\ pc[p] = "idle" /\ buf[p] = Head /\ b # Head /\ b \in Nodes
      /\ panicked = 0 /\ panicked' = 0 /\ pinned' = pinned
      /\ \A c \in Bufs : blockno[c] # k
  BY Zenon, NodesAre DEF bget_recycle, ProcInv, ProcOK, Cached
<1>3. pc'[p] = "lock" /\ want'[p] = k /\ buf'[p] = b
  BY <1>1, Zenon DEF bget_recycle, TypeOK
<1>4. \A q \in Procs : q # p => pc'[q] = pc[q] /\ want'[q] = want[q] /\ buf'[q] = buf[q]
  BY <1>1, Zenon DEF bget_recycle, TypeOK
<1>5. refcnt[b] = 0 /\ Refs(b) = {}
  BY <1>1, Zenon, UnusedIsFree DEF LeastRecent, Unused
<1>6. b \notin pinned /\ \A q \in Procs : buf[q] # b
  BY <1>5, Zenon DEF Refs
<1>7. refcnt' = [refcnt EXCEPT ![b] = refcnt[b] + 1]
  BY <1>1, <1>5
<1>8. p \notin Refs(b) /\ Refs(b)' = Refs(b) \cup {p} /\ \A c \in Bufs : c # b => Refs(c)' = Refs(c)
  BY <1>2, <1>3, <1>4, Zenon, SetAssumption, NodesAre DEF Refs
<1>9. RefInv' /\ refcnt' \in [Bufs -> Nat]
  BY <1>7, <1>8, Zenon, RefUp
<1>10. blockno'[b] = k /\ valid'[b] = 0
       /\ \A c \in Bufs : c # b => blockno'[c] = blockno[c] /\ valid'[c] = valid[c]
  BY <1>1, Zenon DEF TypeOK
<1>11. TypeOK'
  BY <1>1, <1>2, <1>9, Zenon DEF bget_recycle, TypeOK, PCs, listVars
<1>12. UNCHANGED <<listVars, data, slock, disk, clean>>
  BY Zenon DEF bget_recycle
<1>13. ASSUME NEW q \in Procs PROVE ProcOK(q)'
  <2>1. CASE q = p
    BY <1>2, <1>3, <1>10, <2>1, Zenon DEF ProcOK, Holding
  <2>2. CASE q # p /\ pc[q] = "idle"
    BY <1>4, <2>2, Zenon DEF ProcInv, ProcOK, Holding
  <2>3. CASE q # p /\ pc[q] # "idle"
    <3>1. buf[q] \in Bufs /\ buf[q] # b
      BY <1>6, <2>3, Zenon, HasBuffer
    <3> QED
      BY <1>4, <1>10, <1>12, <2>3, <3>1, Zenon, ProcSame
  <2> QED
    BY <2>1, <2>2, <2>3, Zenon
<1>14. LockInv'
  <2>1. pc[p] \notin Holding
    BY <1>2, Zenon DEF Holding
  <2> QED
    BY <1>4, <1>12, <2>1, Zenon, LockSame
<1>15. BlockInv'
  <2> SUFFICES ASSUME NEW c \in Bufs
               PROVE  /\ \A d \in Bufs : blockno'[c] = blockno'[d] /\ blockno'[c] # NoBlock => c = d
                      /\ valid'[c] = 1 => blockno'[c] \in Blocks
                      /\ c \in pinned => valid'[c] = 1
    BY <1>2, Zenon DEF BlockInv
  <2>1. CASE c = b
    BY <1>2, <1>6, <1>10, <2>1, Zenon
  <2>2. CASE c # b
    <3>1. /\ \A d \in Bufs : blockno[c] = blockno[d] /\ blockno[c] # NoBlock => c = d
          /\ valid[c] = 1 => blockno[c] \in Blocks
          /\ c \in pinned => valid[c] = 1
      BY Zenon DEF BlockInv
    <3>2. blockno'[c] = blockno[c] /\ valid'[c] = valid[c] /\ blockno'[c] # k
      BY <1>2, <1>10, <2>2, Zenon
    <3>3. \A d \in Bufs : blockno'[c] = blockno'[d] => blockno'[d] = blockno[d]
      BY <1>10, <3>2, Zenon
    <3> QED
      BY <3>1, <3>2, <3>3, Zenon
  <2> QED
    BY <2>1, <2>2, Zenon
<1>16. DataInv'
  <2> SUFFICES ASSUME NEW c \in Bufs, valid'[c] = 1, c \notin pinned, ~Held(c)'
               PROVE  data'[c] = disk'[blockno'[c]]
    BY <1>2, Zenon DEF DataInv
  <2>1. c # b /\ valid[c] = 1 /\ blockno'[c] = blockno[c]
    BY <1>10
  <2>2. ~Held(c)
    BY <1>2, <1>4, Zenon DEF Held
  <2> QED
    BY <2>1, <2>2, Zenon DEF DataInv, bget_recycle
<1>17. ListInv' /\ PanicInv'
  BY <1>2, <1>12, Zenon, ListSame, NoPanic
<1> QED
  BY <1>9, <1>11, <1>13, <1>14, <1>15, <1>16, <1>17, Zenon DEF ProcInv

(* bget, with no buffer left: every one has a reference.                   *)
LEMMA PanicKeepsInv ==
  ASSUME IInv, NEW p \in Procs, NEW k \in Blocks, bget_panic(p, k)
  PROVE  IInv'
<1> USE DEF IInv
<1>1. /\ UNCHANGED <<listVars, blockno, valid, refcnt, data, slock, disk,
                     pc, want, buf, clean, pinned>>
      /\ panicked' = 1 /\ \A b \in Bufs : refcnt[b] # 0
  BY Zenon DEF bget_panic, Unused
<1>2. \A b : Refs(b)' = Refs(b)
  BY <1>1, Zenon DEF Refs
<1>3. \A b \in Bufs : Refs(b) # {}
  BY <1>1, Zenon, UnusedIsFree
<1>4. RefInv' /\ PanicInv'
  BY <1>1, <1>2, <1>3, Zenon DEF RefInv, PanicInv
<1>5. TypeOK'
  BY <1>1 DEF TypeOK, listVars
<1>6. ProcInv'
  BY <1>1, Zenon DEF ProcInv, ProcOK
<1>7. LockInv' /\ BlockInv'
  BY <1>1, Zenon DEF LockInv, BlockInv
<1>8. DataInv' /\ ListInv'
  BY <1>1, Zenon, DataSame, ListSame DEF Held
<1> QED
  BY <1>4, <1>5, <1>6, <1>7, <1>8, Zenon

(* acquiresleep, on a free lock.                                           *)
LEMMA AcquireInv ==
  ASSUME IInv, NEW p \in Procs, acquiresleep(p)
  PROVE  IInv'
<1> USE DEF IInv
<1>1. /\ UNCHANGED <<listVars, blockno, valid, refcnt, data, disk, panicked,
                     want, buf, clean, pinned>>
      /\ pc[p] = "lock" /\ slock[buf[p]] = Nobody /\ panicked' = 0
      /\ slock' = [slock EXCEPT ![buf[p]] = p] /\ pc' = [pc EXCEPT ![p] = "check"]
  BY Zenon DEF acquiresleep
<1>2. buf[p] \in Bufs /\ buf[p] # Head /\ want[p] \in Blocks /\ blockno[buf[p]] = want[p]
  BY <1>1, Zenon, HasBuffer, NodesAre
<1>3. pc'[p] = "check" /\ slock'[buf[p]] = p /\ \A q \in Procs : q # p => pc'[q] = pc[q]
  BY <1>1, <1>2, Zenon DEF TypeOK
<1>4. \A c \in Bufs : c # buf[p] => slock'[c] = slock[c]
  BY <1>1, Zenon DEF TypeOK
<1>5. TypeOK'
  BY <1>1, Zenon DEF TypeOK, PCs, listVars
<1>6. ASSUME NEW q \in Procs PROVE ProcOK(q)'
  <2>1. CASE q = p
    BY <1>1, <1>2, <1>3, <2>1, Zenon DEF ProcOK, Holding
  <2>2. CASE q # p /\ pc[q] \notin Holding
    BY <1>1, <1>3, <2>2, Zenon DEF ProcInv, ProcOK, Holding
  <2>3. CASE q # p /\ pc[q] \in Holding
    <3>1. pc[q] # "idle" /\ q # Nobody
      BY <2>3, Zenon, SetAssumption DEF Holding
    <3>2. buf[q] \in Bufs /\ slock[buf[q]] = q
      BY <2>3, <3>1, Zenon, HasBuffer DEF ProcInv, ProcOK
    <3>3. slock'[buf[q]] = slock[buf[q]]
      BY <1>1, <1>4, <3>1, <3>2, Zenon
    <3> QED
      BY <1>1, <1>3, <2>3, <3>3, Zenon, ProcSame
  <2> QED
    BY <2>1, <2>2, <2>3, Zenon
<1>7. LockInv'
  <2> SUFFICES ASSUME NEW c \in Bufs, slock'[c] # Nobody
               PROVE  buf[slock'[c]] = c /\ pc'[slock'[c]] \in Holding
    BY <1>1, Zenon DEF LockInv
  <2>1. CASE c = buf[p]
    BY <1>3, <2>1, Zenon DEF Holding
  <2>2. CASE c # buf[p]
    <3>1. slock'[c] = slock[c] /\ slock[c] \in Procs
      BY <1>4, <2>2, Zenon DEF TypeOK
    <3>2. buf[slock[c]] = c /\ pc[slock[c]] \in Holding
      BY <3>1, Zenon DEF LockInv
    <3>3. slock[c] # p
      BY <2>2, <3>2, Zenon
    <3> QED
      BY <1>3, <3>1, <3>2, <3>3, Zenon
  <2> QED
    BY <2>1, <2>2, Zenon
<1>8. RefInv' /\ PanicInv'
  BY <1>1, Zenon, RefSame, NoPanic
<1>9. BlockInv'
  BY <1>1, Zenon DEF BlockInv
<1>10. DataInv'
  BY <1>1, <1>3, Zenon, DataSame DEF Held
<1>11. ListInv'
  BY <1>1, Zenon, ListSame
<1> QED
  BY <1>5, <1>6, <1>7, <1>8, <1>9, <1>10, <1>11, Zenon DEF ProcInv

(* The rest of bread: the buffer now has what the disk has, unless the log *)
(* has the block.                                                          *)
LEMMA BreadInv ==
  ASSUME IInv, NEW p \in Procs, bread(p)
  PROVE  IInv'
<1> USE DEF IInv
<1> DEFINE b == buf[p]
<1>1. /\ UNCHANGED <<listVars, blockno, refcnt, slock, disk, want, buf, pinned>>
      /\ pc[p] = "check" /\ panicked' = 0 /\ pc' = [pc EXCEPT ![p] = "hold"]
      /\ data' = IF valid[b] = 0 THEN [data EXCEPT ![b] = disk[blockno[b]]] ELSE data
      /\ valid' = [valid EXCEPT ![b] = 1]
      /\ clean' = [clean EXCEPT ![p] = IF b \in pinned THEN 0 ELSE 1]
  BY Zenon DEF bread
<1>2. b \in Bufs /\ b # Head /\ want[p] \in Blocks /\ blockno[b] = want[p] /\ slock[b] = p
  BY <1>1, Zenon, HasBuffer, NodesAre DEF ProcInv, ProcOK, Holding
<1>3. /\ pc'[p] = "hold" /\ clean'[p] = (IF b \in pinned THEN 0 ELSE 1)
      /\ \A q \in Procs : q # p => pc'[q] = pc[q] /\ clean'[q] = clean[q]
  BY <1>1, Zenon DEF TypeOK
<1>4. /\ valid'[b] = 1 /\ \A c \in Bufs : c # b => valid'[c] = valid[c] /\ data'[c] = data[c]
      /\ valid[b] = 0 => data'[b] = disk[want[p]]
      /\ valid[b] # 0 => data'[b] = data[b]
  BY <1>1, <1>2, Zenon DEF TypeOK
<1>5. ~Held(b)
  <2> SUFFICES ASSUME NEW q \in Procs, pc[q] = "hold", buf[q] = b PROVE FALSE
    BY Zenon DEF Held
  <2>1. p = q
    BY <1>1, Zenon, OneHolder DEF Holding
  <2> QED
    BY <1>1, <2>1, Zenon
<1>6. b \notin pinned => data'[b] = disk[want[p]]
  <2> SUFFICES ASSUME b \notin pinned, valid[b] # 0 PROVE data'[b] = disk[want[p]]
    BY <1>4, Zenon
  <2>1. valid[b] = 1
    BY <1>2, Zenon DEF TypeOK
  <2> QED
    BY <1>2, <1>4, <1>5, <2>1, Zenon DEF DataInv
<1>7. TypeOK'
  <2>1. disk[blockno[b]] \in Vals
    BY <1>2, Zenon DEF TypeOK
  <2>2. data' \in [Bufs -> Vals]
    BY <1>1, <2>1, Zenon DEF TypeOK
  <2> QED
    BY <1>1, <2>2, Zenon DEF TypeOK, PCs, listVars
<1>8. ProcOK(p)'
  <2>1. clean'[p] = 1 => b \notin pinned
    BY <1>3
  <2> QED
    BY <1>1, <1>2, <1>3, <1>4, <1>6, <2>1, Zenon DEF ProcOK
<1>9. ASSUME NEW q \in Procs, q # p PROVE ProcOK(q)'
  <2>1. CASE buf[q] # b
    <3>1. pc[q] # "idle" => buf[q] \in Bufs
      BY Zenon, HasBuffer
    <3> QED
      BY <1>1, <1>3, <1>4, <1>9, <2>1, <3>1, Zenon, ProcSame
  <2>2. CASE buf[q] = b
    <3>1. pc[q] \notin Holding
      BY <1>1, <1>9, <2>2, Zenon, OneHolder DEF Holding
    <3> QED
      BY <1>1, <1>3, <1>9, <2>2, <3>1, Zenon DEF ProcInv, ProcOK, Holding
  <2> QED
    BY <2>1, <2>2, Zenon
<1>10. LockInv'
  <2>1. \A q \in Procs : pc[q] \in Holding => pc'[q] \in Holding
    BY <1>3, Zenon DEF Holding
  <2> SUFFICES ASSUME NEW c \in Bufs, slock[c] # Nobody
               PROVE  buf[slock[c]] = c /\ pc'[slock[c]] \in Holding
    BY <1>1, Zenon DEF LockInv
  <2>2. buf[slock[c]] = c /\ pc[slock[c]] \in Holding
    BY Zenon DEF LockInv
  <2>3. slock[c] \in Procs
    BY Zenon DEF TypeOK
  <2> QED
    BY <2>1, <2>2, <2>3, Zenon
<1>11. BlockInv'
  BY <1>1, <1>2, <1>4, Zenon DEF BlockInv
<1>12. DataInv'
  <2> SUFFICES ASSUME NEW c \in Bufs, valid'[c] = 1, c \notin pinned, ~Held(c)'
               PROVE  data'[c] = disk[blockno[c]]
    BY <1>1, Zenon DEF DataInv
  <2>1. c # b
    BY <1>1, <1>3, Zenon DEF Held
  <2>2. ~Held(c)
    BY <1>1, <1>3, Zenon DEF Held
  <2> QED
    BY <1>4, <2>1, <2>2, Zenon DEF DataInv
<1>13. RefInv'
  BY <1>1, Zenon, RefSame
<1>14. ListInv' /\ PanicInv'
  BY <1>1, Zenon, ListSame, NoPanic
<1> QED
  BY <1>7, <1>8, <1>9, <1>10, <1>11, <1>12, <1>13, <1>14, Zenon DEF ProcInv

(* The holder writes into its buffer: nobody else has the lock.            *)
LEMMA ModifyInv ==
  ASSUME IInv, NEW p \in Procs, NEW v \in Vals, modify(p, v)
  PROVE  IInv'
<1> USE DEF IInv
<1> DEFINE b == buf[p]
<1>1. /\ UNCHANGED <<listVars, blockno, valid, refcnt, slock, disk, pc, want, buf, pinned>>
      /\ pc[p] = "hold" /\ panicked' = 0
      /\ data' = [data EXCEPT ![b] = v] /\ clean' = [clean EXCEPT ![p] = 0]
  BY Zenon DEF modify
<1>2. b \in Bufs /\ b # Head /\ want[p] \in Blocks /\ blockno[b] = want[p] /\ slock[b] = p
      /\ valid[b] = 1
  BY <1>1, Zenon, HasBuffer, NodesAre DEF ProcInv, ProcOK, Holding
<1>3. clean'[p] # 1 /\ \A q \in Procs : q # p => clean'[q] = clean[q]
  BY <1>1 DEF TypeOK
<1>4. \A c \in Bufs : c # b => data'[c] = data[c]
  BY <1>1, Zenon DEF TypeOK
<1>5. TypeOK'
  BY <1>1, Zenon DEF TypeOK, listVars
<1>6. ProcOK(p)'
  BY <1>1, <1>2, <1>3, Zenon DEF ProcOK
<1>7. ASSUME NEW q \in Procs, q # p PROVE ProcOK(q)'
  <2>1. CASE buf[q] # b
    <3>1. pc[q] # "idle" => buf[q] \in Bufs
      BY Zenon, HasBuffer
    <3> QED
      BY <1>1, <1>3, <1>4, <1>7, <2>1, <3>1, Zenon, ProcSame
  <2>2. CASE buf[q] = b
    <3>1. pc[q] \notin Holding
      BY <1>1, <1>7, <2>2, Zenon, OneHolder DEF Holding
    <3> QED
      BY <1>1, <1>7, <2>2, <3>1, Zenon DEF ProcInv, ProcOK, Holding
  <2> QED
    BY <2>1, <2>2, Zenon
<1>8. LockInv' /\ BlockInv' /\ RefInv'
  <2>1. LockInv' /\ BlockInv'
    BY <1>1, Zenon DEF LockInv, BlockInv
  <2>2. RefInv'
    BY <1>1, Zenon, RefSame
  <2> QED
    BY <2>1, <2>2, Zenon
<1>9. DataInv'
  <2> SUFFICES ASSUME NEW c \in Bufs, valid[c] = 1, c \notin pinned, ~Held(c)
               PROVE  data'[c] = disk[blockno[c]]
    BY <1>1, Zenon DEF DataInv, Held
  <2>1. c # b
    BY <1>1, Zenon DEF Held
  <2> QED
    BY <1>4, <2>1, Zenon DEF DataInv
<1>10. ListInv' /\ PanicInv'
  BY <1>1, Zenon, ListSame, NoPanic
<1> QED
  BY <1>5, <1>6, <1>7, <1>8, <1>9, <1>10, Zenon DEF ProcInv

(* bwrite: it finds its lock held, and no other buffer has the block.      *)
LEMMA BwriteInv ==
  ASSUME IInv, NEW p \in Procs, bwrite(p)
  PROVE  IInv'
<1> USE DEF IInv
<1> DEFINE b == buf[p]
<1>1. /\ UNCHANGED <<listVars, blockno, valid, refcnt, data, slock, pc, want, buf, pinned>>
      /\ pc[p] = "hold" /\ panicked' = IF slock[b] = p THEN 0 ELSE 1
      /\ disk' = [disk EXCEPT ![blockno[b]] = data[b]] /\ clean' = [clean EXCEPT ![p] = 1]
  BY Zenon DEF bwrite
<1>2. b \in Bufs /\ b # Head /\ want[p] \in Blocks /\ blockno[b] = want[p] /\ slock[b] = p
      /\ valid[b] = 1
  BY <1>1, Zenon, HasBuffer, NodesAre DEF ProcInv, ProcOK, Holding
<1>3. panicked' = 0
  BY <1>1, <1>2, Zenon
<1>4. /\ disk'[want[p]] = data[b] /\ \A k \in Blocks : k # want[p] => disk'[k] = disk[k]
      /\ \A q \in Procs : q # p => clean'[q] = clean[q]
  BY <1>1, <1>2, Zenon DEF TypeOK
<1>5. TypeOK'
  <2>1. data[b] \in Vals /\ panicked' \in {0, 1}
    BY <1>2, <1>3, Zenon DEF TypeOK
  <2> QED
    BY <1>1, <2>1, Zenon DEF TypeOK, listVars
<1>6. ProcOK(p)'
  BY <1>1, <1>2, <1>4, Zenon DEF ProcOK
<1>7. ASSUME NEW q \in Procs, q # p PROVE ProcOK(q)'
  <2>1. CASE pc[q] \notin Holding
    BY <1>1, <1>7, <2>1, Zenon DEF ProcInv, ProcOK, Holding
  <2>2. CASE pc[q] \in Holding
    <3>1. buf[q] # b
      BY <1>1, <1>7, <2>2, Zenon, OneHolder DEF Holding
    <3>2. pc[q] # "idle"
      BY <2>2, Zenon DEF Holding
    <3>3. buf[q] \in Bufs /\ want[q] \in Blocks /\ blockno[buf[q]] = want[q]
      BY <3>2, Zenon, HasBuffer
    <3>4. want[q] # want[p]
      BY <1>2, <3>1, <3>3, Zenon, OneBuffer
    <3> QED
      BY <1>1, <1>4, <1>7, <3>3, <3>4, Zenon, ProcSame
  <2> QED
    BY <2>1, <2>2, Zenon
<1>8. LockInv' /\ BlockInv' /\ RefInv'
  <2>1. LockInv' /\ BlockInv'
    BY <1>1, Zenon DEF LockInv, BlockInv
  <2>2. RefInv'
    BY <1>1, Zenon, RefSame
  <2> QED
    BY <2>1, <2>2, Zenon
<1>9. DataInv'
  <2> SUFFICES ASSUME NEW c \in Bufs, valid[c] = 1, c \notin pinned, ~Held(c)
               PROVE  data[c] = disk'[blockno[c]]
    BY <1>1, Zenon DEF DataInv, Held
  <2>1. c # b
    BY <1>1, Zenon DEF Held
  <2>2. blockno[c] \in Blocks
    BY Zenon DEF BlockInv
  <2>3. blockno[c] # want[p]
    BY <1>2, <2>1, Zenon, OneBuffer
  <2> QED
    BY <1>4, <2>2, <2>3, Zenon DEF DataInv
<1>10. ListInv' /\ PanicInv'
  BY <1>1, <1>3, Zenon, ListSame, NoPanic
<1> QED
  BY <1>5, <1>6, <1>7, <1>8, <1>9, <1>10, Zenon DEF ProcInv

(* brelse gives back the lock, which it finds held, of a buffer that the   *)
(* disk or the log has.                                                    *)
LEMMA BrelseInv ==
  ASSUME IInv, NEW p \in Procs, brelse(p)
  PROVE  IInv'
<1> USE DEF IInv
<1> DEFINE b == buf[p]
<1>1. /\ UNCHANGED <<listVars, blockno, valid, refcnt, data, disk, want, buf, clean, pinned>>
      /\ pc[p] = "hold" /\ panicked' = IF slock[b] = p THEN 0 ELSE 1
      /\ slock' = [slock EXCEPT ![b] = Nobody] /\ pc' = [pc EXCEPT ![p] = "release"]
      /\ clean[p] = 1 \/ b \in pinned
  BY Zenon DEF brelse
<1>2. b \in Bufs /\ b # Head /\ want[p] \in Blocks /\ blockno[b] = want[p] /\ slock[b] = p
      /\ valid[b] = 1
  BY <1>1, Zenon, HasBuffer, NodesAre DEF ProcInv, ProcOK, Holding
<1>3. panicked' = 0
  BY <1>1, <1>2, Zenon
<1>4. /\ pc'[p] = "release" /\ \A q \in Procs : q # p => pc'[q] = pc[q]
      /\ slock'[b] = Nobody /\ \A c \in Bufs : c # b => slock'[c] = slock[c]
  BY <1>1, <1>2, Zenon DEF TypeOK
<1>5. TypeOK'
  <2>1. panicked' \in {0, 1}
    BY <1>3, Zenon
  <2> QED
    BY <1>1, <2>1, Zenon DEF TypeOK, PCs, listVars
<1>6. ProcOK(p)'
  BY <1>1, <1>2, <1>4, Zenon DEF ProcOK, Holding
<1>7. ASSUME NEW q \in Procs, q # p PROVE ProcOK(q)'
  <2>1. CASE pc[q] \notin Holding
    BY <1>1, <1>4, <1>7, <2>1, Zenon DEF ProcInv, ProcOK, Holding
  <2>2. CASE pc[q] \in Holding
    <3>1. buf[q] # b
      BY <1>1, <1>7, <2>2, Zenon, OneHolder DEF Holding
    <3>2. pc[q] # "idle"
      BY <2>2, Zenon DEF Holding
    <3>3. buf[q] \in Bufs
      BY <3>2, Zenon, HasBuffer
    <3> QED
      BY <1>1, <1>4, <1>7, <3>1, <3>3, Zenon, ProcSame
  <2> QED
    BY <2>1, <2>2, Zenon
<1>8. LockInv'
  <2> SUFFICES ASSUME NEW c \in Bufs, slock'[c] # Nobody
               PROVE  buf[slock'[c]] = c /\ pc'[slock'[c]] \in Holding
    BY <1>1, Zenon DEF LockInv
  <2>1. c # b /\ slock'[c] = slock[c]
    BY <1>4, Zenon
  <2>2. buf[slock[c]] = c /\ pc[slock[c]] \in Holding /\ slock[c] \in Procs
    BY <2>1, Zenon DEF LockInv, TypeOK
  <2> QED
    BY <1>4, <2>1, <2>2, Zenon
<1>9. BlockInv'
  BY <1>1, Zenon DEF BlockInv
<1>10. RefInv'
  BY <1>1, Zenon, RefSame
<1>11. DataInv'
  <2> SUFFICES ASSUME NEW c \in Bufs, valid[c] = 1, c \notin pinned, ~Held(c)'
               PROVE  data[c] = disk[blockno[c]]
    BY <1>1, Zenon DEF DataInv
  <2>1. CASE c = b
    BY <1>1, <1>2, <2>1, Zenon DEF ProcInv, ProcOK
  <2>2. CASE c # b
    <3>1. ~Held(c)
      BY <1>1, <1>4, <2>2, Zenon DEF Held
    <3> QED
      BY <3>1, Zenon DEF DataInv
  <2> QED
    BY <2>1, <2>2, Zenon
<1>12. ListInv' /\ PanicInv'
  BY <1>1, <1>3, Zenon, ListSame, NoPanic
<1> QED
  BY <1>5, <1>6, <1>7, <1>8, <1>9, <1>10, <1>11, <1>12, Zenon DEF ProcInv

(* brelse drops the reference and moves an unused buffer to the front.     *)
LEMMA UnrefInv ==
  ASSUME IInv, NEW p \in Procs, brelse_unref(p)
  PROVE  IInv'
<1> USE DEF IInv
<1>1. pc[p] = "release" /\ \E b \in Bufs : buf[p] = b
  BY Zenon, HasBuffer DEF brelse_unref
<1>2. PICK b \in Bufs : buf[p] = b
  BY <1>1, Zenon
<1>3. /\ UNCHANGED <<blockno, valid, data, slock, disk, panicked, pinned>>
      /\ pc[p] = "release" /\ panicked' = 0
      /\ refcnt' = [refcnt EXCEPT ![b] = refcnt[b] - 1]
      /\ pc' = [pc EXCEPT ![p] = "idle"]
      /\ want' = [want EXCEPT ![p] = NoBlock] /\ buf' = [buf EXCEPT ![p] = Head]
      /\ clean' = [clean EXCEPT ![p] = 1]
      /\ \/ UNCHANGED listVars
         \/ nxt' = MovedToFront(b)[1] /\ prv' = MovedToFront(b)[2]
  BY <1>2, Zenon DEF brelse_unref, Dropped, listVars
<1>4. /\ pc'[p] = "idle" /\ buf'[p] = Head
      /\ \A q \in Procs : q # p => /\ pc'[q] = pc[q] /\ want'[q] = want[q]
                                   /\ buf'[q] = buf[q] /\ clean'[q] = clean[q]
  BY <1>3, Zenon DEF TypeOK
<1>5. ListInv' /\ nxt' \in [Nodes -> Nodes] /\ prv' \in [Nodes -> Nodes]
  <2>1. CASE UNCHANGED listVars
    <3>1. ListInv'
      BY <2>1, Zenon, ListSame
    <3> QED
      BY <2>1, <3>1, Zenon DEF listVars, TypeOK
  <2>2. CASE nxt' = MovedToFront(b)[1] /\ prv' = MovedToFront(b)[2]
    <3>1. /\ MovedToFront(b)[1] \in [Nodes -> Nodes] /\ MovedToFront(b)[2] \in [Nodes -> Nodes]
          /\ \A x \in Nodes : MovedToFront(b)[2][MovedToFront(b)[1][x]] = x
          /\ \E s : Walk(MovedToFront(b)[1], s)
      BY Zenon, FrontKeepsList
    <3> QED
      BY <2>2, <3>1, Zenon DEF ListInv
  <2> QED
    BY <1>3, <2>1, <2>2, Zenon
<1>6. p \in Refs(b) /\ Refs(b)' = Refs(b) \ {p} /\ \A c \in Bufs : c # b => Refs(c)' = Refs(c)
  <2>1. p # Nobody /\ Head \notin Bufs
    BY Zenon, SetAssumption, NodesAre
  <2>2. p \in Refs(b)
    BY <1>2, Zenon DEF Refs
  <2>3. \A q \in Procs : buf'[q] = b <=> buf[q] = b /\ q # p
    BY <1>4, <2>1, Zenon
  <2>4. \A c \in Bufs : c # b => \A q \in Procs : buf'[q] = c <=> buf[q] = c
    BY <1>2, <1>4, <2>1, Zenon
  <2>5. Refs(b)' = Refs(b) \ {p}
    BY <1>3, <2>1, <2>3, Zenon DEF Refs
  <2>6. \A c \in Bufs : c # b => Refs(c)' = Refs(c)
    BY <1>3, <2>4, Zenon DEF Refs
  <2> QED
    BY <2>2, <2>5, <2>6, Zenon
<1>7. RefInv' /\ refcnt' \in [Bufs -> Nat]
  BY <1>3, <1>6, Zenon, RefDown
<1>8. TypeOK'
  <2>1. Head \in Nodes
    BY Zenon, NodesAre
  <2> QED
    BY <1>3, <1>5, <1>7, <2>1, Zenon DEF TypeOK, PCs
<1>9. ProcOK(p)'
  BY <1>4, Zenon DEF ProcOK, Holding
<1>10. ASSUME NEW q \in Procs, q # p PROVE ProcOK(q)'
  BY <1>3, <1>4, <1>10, Zenon, ProcSame
<1>11. LockInv'
  <2>1. pc[p] \notin Holding
    BY <1>3, Zenon DEF Holding
  <2> QED
    BY <1>3, <1>4, <2>1, Zenon, LockSame
<1>12. BlockInv'
  BY <1>3, Zenon DEF BlockInv
<1>13. DataInv'
  <2>1. \A c \in Bufs : Held(c) => Held(c)'
    BY <1>3, <1>4, Zenon DEF Held
  <2> QED
    BY <1>3, <2>1, Zenon, DataSame
<1>14. PanicInv'
  BY <1>3, Zenon, NoPanic
<1> QED
  BY <1>5, <1>7, <1>8, <1>9, <1>10, <1>11, <1>12, <1>13, <1>14, Zenon DEF ProcInv

(* bpin: the log takes a reference.                                        *)
LEMMA BpinInv ==
  ASSUME IInv, NEW p \in Procs, bpin(p)
  PROVE  IInv'
<1> USE DEF IInv
<1> DEFINE b == buf[p]
<1>1. /\ UNCHANGED <<listVars, blockno, valid, data, slock, disk, panicked, pc, want, buf, clean>>
      /\ pc[p] = "hold" /\ panicked' = 0 /\ b \notin pinned
      /\ refcnt' = [refcnt EXCEPT ![b] = refcnt[b] + 1] /\ pinned' = pinned \cup {b}
  BY Zenon DEF bpin
<1>2. b \in Bufs /\ valid[b] = 1
  BY <1>1, Zenon, HasBuffer DEF ProcInv, ProcOK
<1>3. Nobody \notin Refs(b) /\ Refs(b)' = Refs(b) \cup {Nobody}
      /\ \A c \in Bufs : c # b => Refs(c)' = Refs(c)
  BY <1>1, Zenon, SetAssumption DEF Refs
<1>4. RefInv' /\ refcnt' \in [Bufs -> Nat]
  BY <1>1, <1>2, <1>3, Zenon, RefUp
<1>5. TypeOK'
  BY <1>1, <1>2, <1>4, Zenon DEF TypeOK, listVars
<1>6. ProcInv' /\ LockInv'
  BY <1>1, Zenon DEF ProcInv, ProcOK, LockInv
<1>7. BlockInv'
  BY <1>1, <1>2, Zenon DEF BlockInv
<1>8. DataInv'
  BY <1>1, Zenon, DataSame DEF Held
<1>9. ListInv' /\ PanicInv'
  BY <1>1, Zenon, ListSame, NoPanic
<1> QED
  BY <1>4, <1>5, <1>6, <1>7, <1>8, <1>9, Zenon

(* bunpin: the log gives up its reference, with the block on the disk.     *)
LEMMA BunpinInv ==
  ASSUME IInv, NEW p \in Procs, bunpin(p)
  PROVE  IInv'
<1> USE DEF IInv
<1> DEFINE b == buf[p]
<1>1. /\ UNCHANGED <<listVars, blockno, valid, data, slock, disk, panicked, pc, want, buf, clean>>
      /\ pc[p] = "hold" /\ panicked' = 0 /\ b \in pinned
      /\ refcnt' = [refcnt EXCEPT ![b] = refcnt[b] - 1] /\ pinned' = pinned \ {b}
  BY Zenon DEF bunpin, Unpinned
<1>2. b \in Bufs
  BY <1>1, Zenon, HasBuffer
<1>3. Nobody \in Refs(b) /\ Refs(b)' = Refs(b) \ {Nobody}
      /\ \A c \in Bufs : c # b => Refs(c)' = Refs(c)
  BY <1>1, Zenon, SetAssumption DEF Refs
<1>4. RefInv' /\ refcnt' \in [Bufs -> Nat]
  BY <1>1, <1>2, <1>3, Zenon, RefDown
<1>5. TypeOK'
  BY <1>1, <1>4, Zenon DEF TypeOK, listVars
<1>6. ProcInv' /\ LockInv'
  BY <1>1, Zenon DEF ProcInv, ProcOK, LockInv
<1>7. BlockInv'
  BY <1>1, Zenon DEF BlockInv
<1>8. DataInv'
  <2> SUFFICES ASSUME NEW c \in Bufs, valid[c] = 1, c \notin pinned', ~Held(c)
               PROVE  data[c] = disk[blockno[c]]
    BY <1>1, Zenon DEF DataInv, Held
  <2>1. c # b
    BY <1>1, Zenon DEF Held
  <2> QED
    BY <1>1, <2>1, Zenon DEF DataInv
<1>9. ListInv' /\ PanicInv'
  BY <1>1, Zenon, ListSame, NoPanic
<1> QED
  BY <1>4, <1>5, <1>6, <1>7, <1>8, <1>9, Zenon
-----------------------------------------------------------------------------

(* The invariant                                                           *)

(* binit builds a ring.                                                    *)
LEMMA InitList == Init => ListInv
<1> SUFFICES ASSUME Init PROVE ListInv
  OBVIOUS
<1>1. nxt = [b \in Nodes |-> IF b = Head THEN NBUF ELSE b - 1]
      /\ prv = [b \in Nodes |-> IF b = NBUF THEN Head ELSE b + 1]
  BY Zenon DEF Init
<1>2. \A x \in Nodes : prv[nxt[x]] = x
  BY <1>1, SizeAssumption, NodesAre DEF Head
<1> DEFINE s == [k \in 0..(NBUF + 1) |-> IF k = 0 THEN Head ELSE (NBUF + 1) - k]
<1>3. s \in [0..(NBUF + 1) -> Nodes] /\ s[0] = Head /\ s[NBUF + 1] = Head
  BY SizeAssumption, NodesAre DEF Head
<1>4. Follows(nxt, s)
  BY <1>1, SizeAssumption, NodesAre DEF Head, Follows
<1>5. \A j, k \in 0..NBUF : s[j] = s[k] => j = k
  BY SizeAssumption DEF Head
<1>6. ASSUME NEW x \in Nodes PROVE \E k \in 0..NBUF : s[k] = x
  <2> DEFINE k == IF x = 0 THEN 0 ELSE (NBUF + 1) - x
  <2>1. k \in 0..NBUF /\ s[k] = x
    BY SizeAssumption, NodesAre DEF Head
  <2> QED
    BY <2>1, Zenon
<1> HIDE DEF s
<1>7. Walk(nxt, s)
  BY <1>3, <1>4, <1>5, <1>6, Zenon DEF Walk
<1> QED
  BY <1>2, <1>7, Zenon DEF ListInv

(* binit establishes the invariant.                                        *)
LEMMA InitInv == Init => IInv
<1> SUFFICES ASSUME Init PROVE IInv
  OBVIOUS
<1>1. TypeOK
  BY SizeAssumption, NodesAre DEF Init, TypeOK, PCs, Head
<1>2. \A p \in Procs : pc[p] = "idle" /\ buf[p] = Head
  BY Zenon DEF Init
<1>3. ProcInv
  BY <1>2, Zenon DEF ProcInv, ProcOK, Holding
<1>4. \A b \in Bufs : Refs(b) = {} /\ refcnt[b] = 0
  BY <1>2, Zenon, NodesAre DEF Init, Refs
<1>5. RefInv
  BY <1>4, Zenon, FS_EmptySet DEF RefInv
<1>6. LockInv
  BY Zenon DEF Init, LockInv
<1>7. \A b \in Bufs : blockno[b] = NoBlock /\ valid[b] # 1 /\ b \notin pinned
  BY DEF Init
<1>8. BlockInv /\ DataInv
  BY <1>7, Zenon DEF BlockInv, DataInv
<1>9. PanicInv
  BY DEF Init, PanicInv
<1> QED
  BY <1>1, <1>3, <1>5, <1>6, <1>8, <1>9, Zenon, InitList DEF IInv

(* Every step, and every step that changes nothing, keeps it.              *)
LEMMA NextInv == IInv /\ [Next]_vars => IInv'
<1> SUFFICES ASSUME IInv, [Next]_vars PROVE IInv'
  OBVIOUS
<1>1. CASE UNCHANGED vars
  <2>1. TypeOK' /\ ProcInv' /\ LockInv' /\ BlockInv'
    BY <1>1, Zenon DEF IInv, vars, listVars, TypeOK, ProcInv, ProcOK, LockInv, BlockInv
  <2>2. DataInv' /\ ListInv'
    BY <1>1, Zenon DEF IInv, vars, listVars, DataInv, Held, ListInv
  <2>3. RefInv' /\ PanicInv'
    BY <1>1, Zenon DEF IInv, vars, listVars, RefInv, Refs, PanicInv
  <2> QED
    BY <2>1, <2>2, <2>3, Zenon DEF IInv
<1>2. ASSUME NEW p \in Procs, Step(p) PROVE IInv'
  <2>1. ASSUME NEW k \in Blocks, bget_hit(p, k) \/ bget_recycle(p, k) \/ bget_panic(p, k)
        PROVE  IInv'
    BY <2>1, Zenon, HitInv, RecycleInv, PanicKeepsInv
  <2>2. CASE acquiresleep(p) \/ bread(p) \/ bwrite(p)
    BY <2>2, Zenon, AcquireInv, BreadInv, BwriteInv
  <2>3. CASE brelse(p) \/ brelse_unref(p)
    BY <2>3, Zenon, BrelseInv, UnrefInv
  <2>4. CASE bpin(p) \/ bunpin(p)
    BY <2>4, Zenon, BpinInv, BunpinInv
  <2>5. ASSUME NEW v \in Vals, modify(p, v) PROVE IInv'
    BY <2>5, Zenon, ModifyInv
  <2> QED
    BY <1>2, <2>1, <2>2, <2>3, <2>4, <2>5, Zenon DEF Step
<1> QED
  BY <1>1, <1>2, Zenon DEF Next

(* The invariant holds in every reachable state.                           *)
LEMMA Invariance == Spec => []IInv
BY InitInv, NextInv, PTL DEF Spec

(* A block has one buffer, a process keeps the buffer of its block from    *)
(* bget to brelse, brelse keeps the list one ring, and bget panics only    *)
(* when every buffer is in use.                                            *)
THEOREM Buffers == Spec => []BufferRight
<1>1. IInv => BufferRight
  <2> SUFFICES ASSUME IInv PROVE BufferRight
    OBVIOUS
  <2>1. {Nth(nxt, k) : k \in 1..NBUF} = Bufs /\ Nth(nxt, NBUF + 1) = Head
    BY Zenon, ListIsRing DEF IInv
  <2>2. panicked = 1 => \A b \in Bufs : b \in pinned \/ \E p \in Procs : buf[p] = b
    BY Zenon DEF IInv, PanicInv, Refs
  <2>3. Ring
    BY <2>1, <2>2, Zenon DEF Ring, IInv, ListInv
  <2>4. \A b, c \in Bufs : blockno[b] = blockno[c] /\ b # c => blockno[b] = NoBlock
    BY Zenon DEF IInv, BlockInv
  <2>5. \A p \in Procs : pc[p] # "idle" => blockno[buf[p]] = want[p]
    BY Zenon DEF IInv, ProcInv, ProcOK
  <2> QED
    BY <2>3, <2>4, <2>5, Zenon DEF BufferRight
<1> QED
  BY <1>1, Invariance, PTL
-----------------------------------------------------------------------------

(* The refinement                                                          *)

\* What a block has and who holds it, as the mapping to BlockStore says.
Visible ==
  \A k \in Blocks :
    /\ \A b \in Bufs : blockno[b] = k /\ valid[b] = 1 => Content(k) = data[b]
    /\ (\A b \in Bufs : blockno[b] = k => valid[b] # 1) => Content(k) = disk[k]
    /\ \A p \in Procs : pc[p] = "hold" /\ want[p] = k => Holder(k) = p
    /\ (\A p \in Procs : pc[p] = "hold" => want[p] # k) => Holder(k) = Nobody

(* Who holds a block has the only buffer of it, and is alone.              *)
LEMMA OneReader ==
  ASSUME IInv, NEW p \in Procs, NEW q \in Procs, pc[p] \in Holding, pc[q] \in Holding,
         want[p] = want[q]
  PROVE  p = q
<1>1. pc[p] # "idle" /\ pc[q] # "idle"
  BY Zenon DEF Holding
<1>2. buf[p] \in Bufs /\ buf[q] \in Bufs /\ want[p] \in Blocks
      /\ blockno[buf[p]] = want[p] /\ blockno[buf[q]] = want[q]
  BY <1>1, Zenon, HasBuffer DEF IInv
<1>3. buf[p] = buf[q]
  BY <1>2, Zenon, OneBuffer DEF IInv
<1> QED
  BY <1>3, Zenon, OneHolder DEF IInv

(* The mapping is well defined: the choices it makes have one outcome.     *)
LEMMA MappingIs == IInv => Visible
<1> SUFFICES ASSUME IInv, NEW k \in Blocks
             PROVE  /\ \A b \in Bufs : blockno[b] = k /\ valid[b] = 1 => Content(k) = data[b]
                    /\ (\A b \in Bufs : blockno[b] = k => valid[b] # 1) => Content(k) = disk[k]
                    /\ \A p \in Procs : pc[p] = "hold" /\ want[p] = k => Holder(k) = p
                    /\ (\A p \in Procs : pc[p] = "hold" => want[p] # k) => Holder(k) = Nobody
  BY Zenon DEF Visible
<1>1. ASSUME NEW b \in Bufs, blockno[b] = k, valid[b] = 1 PROVE Content(k) = data[b]
  <2>1. b \in Cached(k)
    BY <1>1, Zenon DEF Cached
  <2>2. PICK c : c = CHOOSE x \in Cached(k) : valid[x] = 1
    BY Zenon
  <2>3. c \in Cached(k) /\ Content(k) = data[c]
    BY <1>1, <2>1, <2>2, Zenon DEF Content
  <2>4. c = b
    BY <1>1, <2>3, Zenon, OneBuffer DEF Cached, IInv
  <2> QED
    BY <2>3, <2>4, Zenon
<1>2. (\A b \in Bufs : blockno[b] = k => valid[b] # 1) => Content(k) = disk[k]
  BY Zenon DEF Content, Cached
<1> DEFINE H == {p \in Procs : pc[p] = "hold" /\ want[p] = k}
<1>3. ASSUME NEW p \in Procs, pc[p] = "hold", want[p] = k PROVE Holder(k) = p
  <2>1. PICK q : q = CHOOSE x \in H : TRUE
    BY Zenon
  <2>2. p \in H
    BY <1>3, Zenon
  <2>3. q \in H
    BY <2>1, <2>2, Zenon
  <2>4. Holder(k) = q
    BY <2>1, <2>2, Zenon DEF Holder
  <2>5. p = q
    BY <1>3, <2>3, Zenon, OneReader DEF Holding
  <2> QED
    BY <2>4, <2>5, Zenon
<1>4. (\A p \in Procs : pc[p] = "hold" => want[p] # k) => Holder(k) = Nobody
  <2> SUFFICES ASSUME \A p \in Procs : pc[p] = "hold" => want[p] # k PROVE Holder(k) = Nobody
    BY Zenon
  <2>1. H = {}
    BY Zenon
  <2> QED
    BY <2>1, Zenon DEF Holder
<1> QED
  BY <1>1, <1>2, <1>3, <1>4, Zenon

(* The same after a step.                                                  *)
LEMMA MappingWillBe == IInv' => Visible'
BY MappingIs, PTL

(* Only its buffers and the disk say what a block has.                     *)
LEMMA ContentSame ==
  ASSUME Visible, Visible', NEW k \in Blocks,
         \A c \in Bufs : (blockno'[c] = k <=> blockno[c] = k),
         \A c \in Bufs : blockno[c] = k => valid'[c] = valid[c] /\ data'[c] = data[c],
         disk'[k] = disk[k]
  PROVE  Content(k)' = Content(k)
<1>1. CASE \E b \in Bufs : blockno[b] = k /\ valid[b] = 1
  <2>1. PICK b \in Bufs : blockno[b] = k /\ valid[b] = 1
    BY <1>1, Zenon
  <2>2. Content(k) = data[b]
    BY <2>1, Zenon DEF Visible
  <2>3. Content(k)' = data'[b]
    BY <2>1, Zenon DEF Visible
  <2> QED
    BY <2>1, <2>2, <2>3, Zenon
<1>2. CASE \A b \in Bufs : blockno[b] = k => valid[b] # 1
  <2>1. Content(k) = disk[k]
    BY <1>2, Zenon DEF Visible
  <2>2. \A b \in Bufs : blockno'[b] = k => valid'[b] # 1
    BY <1>2, Zenon
  <2>3. Content(k)' = disk'[k]
    BY <2>2, Zenon DEF Visible
  <2> QED
    BY <2>1, <2>3, Zenon
<1> QED
  BY <1>1, <1>2, Zenon

(* Only who holds it says who holds it.                                    *)
LEMMA HolderSame ==
  ASSUME NEW k, \A q \in Procs : (pc'[q] = "hold" /\ want'[q] = k)
                                   <=> (pc[q] = "hold" /\ want[q] = k)
  PROVE  Holder(k)' = Holder(k)
<1> DEFINE H == {q \in Procs : pc[q] = "hold" /\ want[q] = k}
           OneOf(S) == IF S = {} THEN Nobody ELSE CHOOSE q \in S : TRUE
<1>1. H' = H
  BY Zenon
<1>2. Holder(k) = OneOf(H)
  BY Zenon DEF Holder
<1>3. Holder(k)' = OneOf(H')
  BY Zenon DEF Holder
<1> HIDE DEF H, OneOf
<1> QED
  BY <1>1, <1>2, <1>3, Zenon

(* A step that changes neither is invisible.                               *)
LEMMA Unseen ==
  ASSUME \A k \in Blocks : Content(k)' = Content(k), \A k \in Blocks : Holder(k)' = Holder(k)
  PROVE  UNCHANGED BS!vars
BY Zenon DEF BS!vars

(* Recycling a buffer is invisible: the disk has what is thrown away.      *)
LEMMA RecycleRef ==
  ASSUME IInv, Visible, Visible', NEW p \in Procs, NEW k \in Blocks, bget_recycle(p, k)
  PROVE  UNCHANGED BS!vars
<1> USE DEF IInv
<1>1. PICK b \in Bufs : /\ LeastRecent(b) /\ blockno' = [blockno EXCEPT ![b] = k]
                        /\ valid' = [valid EXCEPT ![b] = 0]
  BY Zenon DEF bget_recycle, Recycled
<1>2. /\ pc[p] = "idle" /\ \A c \in Bufs : blockno[c] # k
      /\ pc' = [pc EXCEPT ![p] = "lock"] /\ want' = [want EXCEPT ![p] = k]
      /\ UNCHANGED <<data, disk>>
  BY Zenon DEF bget_recycle, Cached
<1>3. /\ blockno'[b] = k /\ valid'[b] # 1
      /\ \A c \in Bufs : c # b => blockno'[c] = blockno[c] /\ valid'[c] = valid[c]
  BY <1>1 DEF TypeOK
<1>4. b \notin pinned /\ ~Held(b)
  <2>1. Refs(b) = {}
    BY <1>1, Zenon, UnusedIsFree DEF LeastRecent, Unused
  <2> QED
    BY <2>1, Zenon DEF Refs, Held
<1>5. ASSUME NEW j \in Blocks PROVE Content(j)' = Content(j)
  <2>1. CASE j = k
    <3>1. Content(j) = disk[j]
      BY <1>2, <2>1, Zenon DEF Visible
    <3>2. \A c \in Bufs : blockno'[c] = j => valid'[c] # 1
      BY <1>2, <1>3, <2>1, Zenon
    <3>3. Content(j)' = disk'[j]
      BY <3>2, Zenon DEF Visible
    <3> QED
      BY <1>2, <3>1, <3>3, Zenon
  <2>2. CASE j # k /\ j = blockno[b]
    <3>1. \A c \in Bufs : blockno[c] = j => c = b
      BY <2>2, Zenon, OneBuffer
    <3>2. \A c \in Bufs : blockno'[c] # j
      BY <1>3, <2>2, <3>1, Zenon
    <3>3. Content(j)' = disk'[j]
      BY <3>2, Zenon DEF Visible
    <3>4. CASE valid[b] = 1
      <4>1. Content(j) = data[b]
        BY <2>2, <3>4, Zenon DEF Visible
      <4>2. data[b] = disk[j]
        BY <1>4, <2>2, <3>4, Zenon DEF DataInv
      <4> QED
        BY <1>2, <3>3, <4>1, <4>2, Zenon
    <3>5. CASE valid[b] # 1
      <4>1. Content(j) = disk[j]
        BY <3>1, <3>5, Zenon DEF Visible
      <4> QED
        BY <1>2, <3>3, <4>1, Zenon
    <3> QED
      BY <3>4, <3>5, Zenon
  <2>3. CASE j # k /\ j # blockno[b]
    BY <1>2, <1>3, <2>3, Zenon, ContentSame
  <2> QED
    BY <2>1, <2>2, <2>3, Zenon
<1>6. ASSUME NEW j \in Blocks PROVE Holder(j)' = Holder(j)
  <2>1. pc'[p] = "lock" /\ \A q \in Procs : q # p => pc'[q] = pc[q] /\ want'[q] = want[q]
    BY <1>2, Zenon DEF TypeOK
  <2> QED
    BY <1>2, <2>1, Zenon, HolderSame
<1> QED
  BY <1>5, <1>6, Zenon, Unseen

(* Reading the block, or finding it valid, is getting hold of it.          *)
LEMMA BreadRef ==
  ASSUME IInv, Visible, Visible', NEW p \in Procs, bread(p)
  PROVE  BS!Lock(p, want[p]) /\ want[p] \in Blocks
<1> USE DEF IInv
<1> DEFINE b == buf[p]
<1>1. /\ UNCHANGED <<blockno, disk, want, buf>>
      /\ pc[p] = "check" /\ pc' = [pc EXCEPT ![p] = "hold"]
      /\ data' = IF valid[b] = 0 THEN [data EXCEPT ![b] = disk[blockno[b]]] ELSE data
      /\ valid' = [valid EXCEPT ![b] = 1]
  BY Zenon DEF bread
<1>2. b \in Bufs /\ want[p] \in Blocks /\ blockno[b] = want[p]
  BY <1>1, Zenon, HasBuffer
<1>3. pc'[p] = "hold" /\ \A q \in Procs : q # p => pc'[q] = pc[q]
  BY <1>1, Zenon DEF TypeOK
<1>4. /\ valid'[b] = 1 /\ \A c \in Bufs : c # b => valid'[c] = valid[c] /\ data'[c] = data[c]
      /\ valid[b] = 0 => data'[b] = disk[want[p]]
      /\ valid[b] # 0 => data'[b] = data[b]
  BY <1>1, <1>2, Zenon DEF TypeOK
<1>5. Holder(want[p]) = Nobody
  <2>1. \A q \in Procs : pc[q] = "hold" => want[q] # want[p]
    <3> SUFFICES ASSUME NEW q \in Procs, pc[q] = "hold", want[q] = want[p] PROVE FALSE
      BY Zenon
    <3>1. p = q
      BY <1>1, Zenon, OneReader DEF Holding
    <3> QED
      BY <1>1, <3>1, Zenon
  <2> QED
    BY <1>2, <2>1, Zenon DEF Visible
<1>6. Holder(want[p])' = p
  BY <1>1, <1>2, <1>3, Zenon DEF Visible
<1>7. \A k \in Blocks : k # want[p] => Holder(k)' = Holder(k)
  BY <1>1, <1>3, Zenon, HolderSame
<1>8. Content(want[p])' = Content(want[p])
  <2>1. Content(want[p])' = data'[b]
    BY <1>1, <1>2, <1>4, Zenon DEF Visible
  <2>2. CASE valid[b] = 0
    <3>1. \A c \in Bufs : blockno[c] = want[p] => c = b
      BY <1>2, Zenon, OneBuffer
    <3>2. valid[b] # 1
      BY <2>2
    <3>3. Content(want[p]) = disk[want[p]]
      BY <1>2, <3>1, <3>2, Zenon DEF Visible
    <3> QED
      BY <1>4, <2>1, <2>2, <3>3, Zenon
  <2>3. CASE valid[b] # 0
    <3>1. valid[b] = 1
      BY <1>2, <2>3, Zenon DEF TypeOK
    <3>2. \A c \in Bufs : blockno[c] = want[p] /\ valid[c] = 1 => Content(want[p]) = data[c]
      BY <1>2, Zenon DEF Visible
    <3>3. Content(want[p]) = data[b]
      BY <1>2, <3>1, <3>2, Zenon
    <3> QED
      BY <1>4, <2>1, <2>3, <3>3, Zenon
  <2> QED
    BY <2>2, <2>3, Zenon
<1>9. \A k \in Blocks : k # want[p] => Content(k)' = Content(k)
  BY <1>1, <1>2, <1>4, Zenon, ContentSame
<1>10. \A k \in Blocks : Content(k)' = Content(k)
  BY <1>1, <1>8, <1>9, Zenon
<1>11. \A k \in Blocks : Holder(k)' = IF k = want[p] THEN p ELSE Holder(k)
  BY <1>1, <1>6, <1>7, Zenon
<1> QED
  BY <1>2, <1>5, <1>10, <1>11, Zenon DEF BS!Lock

(* Changing the buffer is writing the block, by its holder.                *)
LEMMA ModifyRef ==
  ASSUME IInv, Visible, Visible', NEW p \in Procs, NEW v \in Vals, modify(p, v)
  PROVE  BS!Write(p, want[p], v) /\ want[p] \in Blocks
<1> USE DEF IInv
<1> DEFINE b == buf[p]
<1>1. /\ UNCHANGED <<blockno, valid, disk, pc, want, buf>>
      /\ pc[p] = "hold" /\ data' = [data EXCEPT ![b] = v]
  BY Zenon DEF modify
<1>2. b \in Bufs /\ want[p] \in Blocks /\ blockno[b] = want[p] /\ valid[b] = 1
  BY <1>1, Zenon, HasBuffer DEF ProcInv, ProcOK
<1>3. data'[b] = v /\ \A c \in Bufs : c # b => data'[c] = data[c]
  BY <1>1, <1>2, Zenon DEF TypeOK
<1>4. Holder(want[p]) = p
  BY <1>1, <1>2, Zenon DEF Visible
<1>5. \A k \in Blocks : Holder(k)' = Holder(k)
  BY <1>1, Zenon, HolderSame
<1>6. Content(want[p])' = v
  BY <1>1, <1>2, <1>3, Zenon DEF Visible
<1>7. \A k \in Blocks : k # want[p] => Content(k)' = Content(k)
  BY <1>1, <1>2, <1>3, Zenon, ContentSame
<1>8. \A k \in Blocks : Content(k)' = IF k = want[p] THEN v ELSE Content(k)
  BY <1>1, <1>6, <1>7, Zenon
<1> QED
  BY <1>2, <1>4, <1>5, <1>8, Zenon DEF BS!Write

(* brelse lets go of the block.                                            *)
LEMMA BrelseRef ==
  ASSUME IInv, Visible, Visible', NEW p \in Procs, brelse(p)
  PROVE  BS!Unlock(p, want[p]) /\ want[p] \in Blocks
<1> USE DEF IInv
<1>1. /\ UNCHANGED <<blockno, valid, data, disk, want, buf>>
      /\ pc[p] = "hold" /\ pc' = [pc EXCEPT ![p] = "release"]
  BY Zenon DEF brelse
<1>2. want[p] \in Blocks
  BY <1>1, Zenon, HasBuffer
<1>3. pc'[p] = "release" /\ \A q \in Procs : q # p => pc'[q] = pc[q]
  BY <1>1, Zenon DEF TypeOK
<1>4. Holder(want[p]) = p
  BY <1>1, <1>2, Zenon DEF Visible
<1>5. Holder(want[p])' = Nobody
  <2>1. \A q \in Procs : pc'[q] = "hold" => want'[q] # want[p]
    <3> SUFFICES ASSUME NEW q \in Procs, pc'[q] = "hold", want[q] = want[p] PROVE FALSE
      BY <1>1, Zenon
    <3>1. q # p /\ pc[q] = "hold"
      BY <1>3, Zenon
    <3> QED
      BY <1>1, <3>1, Zenon, OneReader DEF Holding
  <2> QED
    BY <1>1, <1>2, <2>1, Zenon DEF Visible
<1>6. \A k \in Blocks : k # want[p] => Holder(k)' = Holder(k)
  BY <1>1, <1>3, Zenon, HolderSame
<1>7. \A k \in Blocks : Content(k)' = Content(k)
  BY <1>1, Zenon, ContentSame
<1>8. \A k \in Blocks : Holder(k)' = IF k = want[p] THEN Nobody ELSE Holder(k)
  BY <1>1, <1>5, <1>6, Zenon
<1> QED
  BY <1>2, <1>4, <1>7, <1>8, Zenon DEF BS!Unlock

(* Writing the block to the disk is invisible: its buffer is valid.        *)
LEMMA BwriteRef ==
  ASSUME IInv, Visible, Visible', NEW p \in Procs, bwrite(p)
  PROVE  UNCHANGED BS!vars
<1> USE DEF IInv
<1> DEFINE b == buf[p]
<1>1. /\ UNCHANGED <<blockno, valid, data, pc, want, buf>>
      /\ pc[p] = "hold" /\ disk' = [disk EXCEPT ![blockno[b]] = data[b]]
  BY Zenon DEF bwrite
<1>2. b \in Bufs /\ want[p] \in Blocks /\ blockno[b] = want[p] /\ valid[b] = 1
  BY <1>1, Zenon, HasBuffer DEF ProcInv, ProcOK
<1>3. \A k \in Blocks : k # want[p] => disk'[k] = disk[k]
  BY <1>1, <1>2, Zenon DEF TypeOK
<1>4. Content(want[p])' = data'[b] /\ Content(want[p]) = data[b]
  BY <1>1, <1>2, Zenon DEF Visible
<1>5. \A k \in Blocks : k # want[p] => Content(k)' = Content(k)
  BY <1>1, <1>3, Zenon, ContentSame
<1>6. \A k \in Blocks : Content(k)' = Content(k)
  BY <1>1, <1>4, <1>5, Zenon
<1>7. \A k \in Blocks : Holder(k)' = Holder(k)
  BY <1>1, Zenon, HolderSame
<1> QED
  BY <1>6, <1>7, Zenon, Unseen

(* So is every step of a process that neither holds nor reads a block, and *)
(* every step on the reference counts.                                     *)
LEMMA QuietRef ==
  ASSUME Visible, Visible', UNCHANGED <<blockno, valid, data, disk>>,
         \A q \in Procs : (pc'[q] = "hold" <=> pc[q] = "hold")
                          /\ (pc[q] = "hold" => want'[q] = want[q])
  PROVE  UNCHANGED BS!vars
<1>1. \A k \in Blocks : Content(k)' = Content(k)
  BY Zenon, ContentSame
<1>2. \A k \in Blocks : Holder(k)' = Holder(k)
  BY Zenon, HolderSame
<1> QED
  BY <1>1, <1>2, Zenon, Unseen

(* Every step of the cache is a step of the block store or invisible there. *)
LEMMA StepRef == IInv /\ IInv' /\ [Next]_vars => [BS!Next]_(BS!vars)
<1> SUFFICES ASSUME IInv, IInv', [Next]_vars PROVE [BS!Next]_(BS!vars)
  BY Zenon
<1>1. Visible /\ Visible'
  BY Zenon, MappingIs, MappingWillBe
<1>2. CASE UNCHANGED vars
  BY <1>1, <1>2, Zenon, QuietRef DEF vars
<1>3. ASSUME NEW p \in Procs, Step(p) PROVE [BS!Next]_(BS!vars)
  <2>1. ASSUME NEW k \in Blocks, bget_hit(p, k) PROVE UNCHANGED BS!vars
    BY <1>1, <2>1, Zenon, QuietRef DEF bget_hit, IInv, TypeOK
  <2>2. ASSUME NEW k \in Blocks, bget_recycle(p, k) PROVE UNCHANGED BS!vars
    BY <1>1, <2>2, Zenon, RecycleRef
  <2>3. ASSUME NEW k \in Blocks, bget_panic(p, k) PROVE UNCHANGED BS!vars
    BY <1>1, <2>3, Zenon, QuietRef DEF bget_panic
  <2>4. CASE acquiresleep(p)
    BY <1>1, <2>4, Zenon, QuietRef DEF acquiresleep, IInv, TypeOK
  <2>5. CASE brelse_unref(p)
    BY <1>1, <2>5, Zenon, QuietRef DEF brelse_unref, IInv, TypeOK
  <2>6. CASE bpin(p) \/ bunpin(p)
    BY <1>1, <2>6, Zenon, QuietRef DEF bpin, bunpin
  <2>7. CASE bwrite(p)
    BY <1>1, <2>7, Zenon, BwriteRef
  <2>8. CASE bread(p)
    BY <1>1, <2>8, Zenon, BreadRef DEF BS!Next
  <2>9. CASE brelse(p)
    BY <1>1, <2>9, Zenon, BrelseRef DEF BS!Next
  <2>10. ASSUME NEW v \in Vals, modify(p, v) PROVE BS!Next
    BY <1>1, <2>10, Zenon, ModifyRef DEF BS!Next
  <2> QED
    BY <1>3, <2>1, <2>2, <2>3, <2>4, <2>5, <2>6, <2>7, <2>8, <2>9, <2>10, Zenon DEF Step
<1> QED
  BY <1>2, <1>3, Zenon DEF Next

(* binit starts with what the disk has, and nobody holds a block.          *)
LEMMA InitRef == Init => BS!Init
<1> SUFFICES ASSUME Init PROVE BS!Init
  BY Zenon
<1>1. Visible
  BY Zenon, InitInv, MappingIs
<1>2. \A b \in Bufs : valid[b] # 1
  BY DEF Init
<1>3. \A k \in Blocks : Content(k) = disk[k]
  BY <1>1, <1>2, Zenon DEF Visible
<1>4. \A p \in Procs : pc[p] # "hold"
  BY DEF Init
<1>5. \A k \in Blocks : Holder(k) = Nobody
  BY <1>1, <1>4, Zenon DEF Visible
<1>6. \A k \in Blocks : Content(k) \in Vals
  BY <1>3, Zenon DEF Init
<1> QED
  BY <1>5, <1>6, Zenon DEF BS!Init

(* The cache is invisible: with any number of buffers, processes and       *)
(* blocks, whoever gets a block through bread sees what its last holder    *)
(* left in it, and nobody else holds it (bget, bread, bwrite, brelse).     *)
THEOREM ImplementsStore == Spec => IsBlockStore
<1>1. Init => BS!Init
  BY Zenon, InitRef
<1>2. IInv /\ IInv' /\ [Next]_vars => [BS!Next]_(BS!vars)
  BY Zenon, StepRef
<1>3. Spec => []IInv
  BY Zenon, Invariance
<1> QED
  BY <1>1, <1>2, <1>3, PTL DEF Spec, IsBlockStore, BS!Spec
=============================================================================
