----------------------------- MODULE MCFileData -----------------------------
(* Instance of FileData: blocks of two bytes, files of up to three blocks.  *)
EXTENDS FileData, TLC

MCBuffers == {<<1, 2, 1, 2, 2>>}

\* The processes are interchangeable.
Symmetry == Permutations(Procs)

\* With one bit per bitmap block, states that differ in the choice of blocks only
\* are alike up to a renaming of blocks, which all actions and properties
\* respect, as long as no block is referred to twice; what is left in a free
\* block is zeroed before it is used.
View == <<BlocksOwned, Cardinality(used), Cardinality(elsewhere), size, lk, off, pc, buf, i,
          tot, o, copied, before, Cardinality(logged),
          [k \in DOMAIN References |->
             IF References[k] = 0 THEN <<>> ELSE <<data[References[k]], References[k] \in logged>>]>>
=============================================================================
