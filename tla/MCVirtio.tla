------------------------------ MODULE MCVirtio ------------------------------
(* Virtio with ring indices that wrap quickly.                             *)
EXTENDS Virtio, TLC

Symmetry == Permutations(Procs) \cup Permutations(Bufs)

\* The state without what is dead: ring entries that have been consumed, the
\* headers of finished requests, and the values of idle processes and buffers.
\* Of the values in use only their equality matters, block by block.
Pending(from, to) == {(from + k) % NUM : k \in 0..(((to - from) % WRAP) - 1)}
Live == {head[p] : p \in InIO}
View ==
  <<free, desc, info, availIdx, taken, usedIdx, used_idx, fetched, irq, intr, panicked,
    busy, pc, buf, head,
    [d \in Descs |-> IF d \in Pending(taken, availIdx) THEN avail[d] ELSE 0],
    [d \in Descs |-> IF d \in Pending(used_idx, usedIdx) THEN used[d] ELSE 0],
    [d \in Live |-> ops[d]],
    [p \in {q \in Procs : buf[q] # NoBuf} |->
       <<wr[p], val[p] = data[buf[p]], val[p] = platter[buf[p]]>>]>>
=============================================================================
