------------------------------- MODULE Malloc -------------------------------
(***************************************************************************)
(* The allocator of user programs (umalloc.c).  Memory is counted in       *)
(* headers: a block of n units is its header followed by n - 1 units.      *)
(* Free blocks form a ring through s.ptr, sorted by address, that also     *)
(* contains the empty block base; freep is where a search starts.          *)
(*                                                                         *)
(* A program has one thread, so a call is one step.  The program may also  *)
(* move the break itself, which leaves a gap in the heap.                  *)
(***************************************************************************)
EXTENDS Integers, FiniteSets, FiniteSetsExt

CONSTANTS Requests,   \* what malloc is asked for, in bytes
          HeaderSize, NALLOC,
          HEAPMAX     \* bound: where sbrk fails

ASSUME MallocAssumption == /\ Requests \subseteq Nat /\ HeaderSize \in Nat \ {0}
                           /\ NALLOC \in Nat \ {0} /\ HEAPMAX \in Nat

VARIABLES size, ptr,   \* s.size and s.ptr of the header at an address
          freep,       \* 0 before the first call
          brk,         \* the end of the heap
          core,        \* the units that morecore got
          live         \* the blocks the program has

heapVars == <<size, ptr, freep, brk, core, live>>

base == 1
HeapStart == 3
Units == base..HEAPMAX
Extent(h, n) == h..(h + n - 1)
-----------------------------------------------------------------------------
(* Faulty variants of the definitions below, kept for the sensitivity      *)
(* checks of the properties; no specification uses them.                   *)

\* free joins a block with the one below it only.
JoinsUp_Never(H, bp, p) == FALSE
-----------------------------------------------------------------------------
(* A heap H is a record of size, ptr and freep.                            *)

\* free: the place in the ring, from p on.
RECURSIVE Place(_, _, _)
Place(H, bp, p) ==
  IF \/ bp > p /\ bp < H.ptr[p]
     \/ p >= H.ptr[p] /\ (bp > p \/ bp < H.ptr[p])
  THEN p ELSE Place(H, bp, H.ptr[p])

\* What is inside a block is no longer looked at.
Forgotten(H, h) == [H EXCEPT !.size[h] = 0, !.ptr[h] = 0]

JoinsUp(H, bp, p) == bp + H.size[bp] = H.ptr[p]
JoinsDown(H, bp, p) == p + H.size[p] = bp

Freed(H, bp) ==
  LET p == Place(H, bp, H.freep)
      next == H.ptr[p]
      up == IF JoinsUp(H, bp, p)
            THEN Forgotten([H EXCEPT !.size[bp] = @ + H.size[next], !.ptr[bp] = H.ptr[next]], next)
            ELSE [H EXCEPT !.ptr[bp] = next]
      down == IF JoinsDown(H, bp, p)
              THEN Forgotten([up EXCEPT !.size[p] = @ + up.size[bp], !.ptr[p] = up.ptr[bp]], bp)
              ELSE [up EXCEPT !.ptr[p] = bp]
  IN  [down EXCEPT !.freep = p]

\* malloc: the block before the first one that is large enough, searching
\* from prevp until the ring is closed; 0 if there is none.
RECURSIVE Preceding(_, _, _)
Preceding(H, nunits, prevp) ==
  LET p == H.ptr[prevp] IN
    IF H.size[p] >= nunits THEN prevp
    ELSE IF p = H.freep THEN 0 ELSE Preceding(H, nunits, p)

\* The heap without the block taken behind prevp, from its upper end.
Taken(H, nunits, prevp) ==
  LET p == H.ptr[prevp] IN
    IF H.size[p] = nunits
    THEN [heap |-> [H EXCEPT !.ptr[prevp] = H.ptr[p], !.ptr[p] = 0, !.freep = prevp], block |-> p]
    ELSE LET q == p + H.size[p] - nunits IN
           [heap |-> [H EXCEPT !.size[p] = @ - nunits, !.size[q] = nunits, !.freep = prevp],
            block |-> q]

Heap == [size |-> size, ptr |-> ptr, freep |-> freep]
Becomes(H) == size' = H.size /\ ptr' = H.ptr /\ freep' = H.freep

\* The first call makes the ring of base alone.
Started == IF freep = 0 THEN [size |-> [size EXCEPT ![base] = 0],
                              ptr |-> [ptr EXCEPT ![base] = base], freep |-> base]
           ELSE Heap

NUnits(nbytes) == (nbytes + HeaderSize - 1) \div HeaderSize + 1
Max2(a, b) == IF a > b THEN a ELSE b

malloc(nbytes) ==
  LET nunits == NUnits(nbytes)
      H == Started
      prevp == Preceding(H, nunits, H.freep)
      nu == Max2(nunits, NALLOC)
      More == Freed([H EXCEPT !.size[brk] = nu], brk)
      Give(T) == Becomes(T.heap) /\ live' = live \cup {T.block}
  IN  \/ /\ prevp # 0
         /\ Give(Taken(H, nunits, prevp))
         /\ UNCHANGED <<brk, core>>
      \* morecore
      \/ /\ prevp = 0 /\ brk + nu <= HEAPMAX + 1
         /\ brk' = brk + nu /\ core' = core \cup Extent(brk, nu)
         /\ Give(Taken(More, nunits, Preceding(More, nunits, More.freep)))
      \/ /\ prevp = 0 /\ brk + nu > HEAPMAX + 1
         /\ Becomes(H) /\ UNCHANGED <<brk, core, live>>

free(bp) ==
  /\ bp \in live
  /\ Becomes(Freed(Heap, bp)) /\ live' = live \ {bp}
  /\ UNCHANGED <<brk, core>>

\* The program moves the break.
sbrk == brk <= HEAPMAX /\ brk' = brk + 1 /\ UNCHANGED <<size, ptr, freep, core, live>>

HeapInit == /\ size = [a \in Units |-> 0] /\ ptr = [a \in Units |-> 0]
            /\ freep = 0 /\ brk = HeapStart /\ core = {} /\ live = {}

HeapNext == \/ \E n \in Requests : malloc(n)
            \/ \E bp \in live : free(bp)
            \/ sbrk
-----------------------------------------------------------------------------

\* The blocks of the ring, from base upwards.
RECURSIVE Ring(_)
Ring(p) == {p} \cup (IF ptr[p] <= p THEN {} ELSE Ring(ptr[p]))

\* The blocks of the program and the free ones tile the memory got from
\* sbrk: none overlap and none is lost.  The ring is sorted and closed,
\* freep is on it, and free blocks that touch have been joined (umalloc.c).
HeapTiled ==
  freep # 0 =>
    LET ring == Ring(base)
        blocks == live \cup (ring \ {base})
    IN  /\ ptr[Max(ring)] = base /\ freep \in ring /\ size[base] = 0
        /\ live \cap ring = {}
        /\ \A b \in blocks : size[b] > 0 /\ Extent(b, size[b]) \subseteq core
        /\ \A a, b \in blocks : a # b => Extent(a, size[a]) \cap Extent(b, size[b]) = {}
        /\ UNION {Extent(b, size[b]) : b \in blocks} = core
        /\ \A b \in ring : b + size[b] \notin ring \ {b}
=============================================================================
