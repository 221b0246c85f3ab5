-------------------------------- MODULE MCFs --------------------------------
(* Instance of Fs: two processes, three inodes, paths of up to two names.  *)
EXTENDS Fs, TLC

Req(c, q, r) == [call |-> c, path |-> q, new |-> r]

MCRequests == {Req("creat", <<"x">>, <<>>), Req("creat", <<"/", "x", "y">>, <<>>),
               Req("mkdir", <<"/", "x">>, <<>>), Req("mkdir", <<"/">>, <<>>),
               Req("open", <<"x", "..">>, <<>>), Req("chdir", <<"x">>, <<>>),
               Req("link", <<"x">>, <<"/", "y">>), Req("link", <<"y">>, <<"/">>),
               Req("unlink", <<"x">>, <<>>), Req("unlink", <<"/", "y">>, <<>>),
               Req("unlink", <<"x", ".">>, <<>>)}

\* The processes, and the inodes other than the root, are interchangeable.
Symmetry == {f @@ g : f \in Permutations(Procs), g \in Permutations(Inodes \ {Root})}

\* Past a step that went astray nothing is claimed.
OnTrack == astray = 0
=============================================================================
