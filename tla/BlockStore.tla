----------------------------- MODULE BlockStore -----------------------------
(***************************************************************************)
(* What the buffer cache promises: a disk of blocks, each of which one     *)
(* process at a time holds, and a process that gets hold of a block sees   *)
(* what the last one to hold it left there.                                *)
(***************************************************************************)
CONSTANTS Procs, Nobody, Blocks, Vals

VARIABLES content,   \* the current value of each block
          holder     \* the process that holds it

vars == <<content, holder>>

Init == content \in [Blocks -> Vals] /\ holder = [k \in Blocks |-> Nobody]

Lock(p, k) == /\ holder[k] = Nobody
              /\ holder' = [holder EXCEPT ![k] = p]
              /\ UNCHANGED content

Write(p, k, v) == /\ holder[k] = p
                  /\ content' = [content EXCEPT ![k] = v]
                  /\ UNCHANGED holder

Unlock(p, k) == /\ holder[k] = p
                /\ holder' = [holder EXCEPT ![k] = Nobody]
                /\ UNCHANGED content

Next == \E p \in Procs, k \in Blocks :
          \/ Lock(p, k) \/ Unlock(p, k)
          \/ \E v \in Vals : Write(p, k, v)

Spec == Init /\ [][Next]_vars
=============================================================================
