------------------------------ MODULE MCBcache ------------------------------
(* Bcache with just enough buffers for its processes and the log.          *)
EXTENDS Bcache, TLC

Symmetry == Permutations(Procs) \cup Permutations(Blocks) \cup Permutations(Vals)
=============================================================================
