-------------------------------- MODULE Fifo --------------------------------
(***************************************************************************)
(* What a pipe promises: bytes come out in the order they went in, at most *)
(* Capacity are in between, nothing is put in once the read side is        *)
(* closed, and closing a side is final.                                    *)
(***************************************************************************)
EXTENDS Integers, Sequences

CONSTANTS Bytes, Capacity

VARIABLES queue,   \* the bytes in the pipe
          last,    \* the byte taken most recently
          ropen, wopen

vars == <<queue, last, ropen, wopen>>

Init == /\ queue = <<>> /\ last \in Bytes
        /\ ropen = 1 /\ wopen = 1

Put(b) == /\ ropen = 1 /\ wopen = 1 /\ Len(queue) < Capacity
          /\ queue' = Append(queue, b)
          /\ UNCHANGED <<last, ropen, wopen>>

Take == /\ ropen = 1 /\ queue # <<>>
        /\ last' = Head(queue)
        /\ queue' = Tail(queue)
        /\ UNCHANGED <<ropen, wopen>>

CloseRead == ropen' = 0 /\ UNCHANGED <<queue, last, wopen>>

CloseWrite == wopen' = 0 /\ UNCHANGED <<queue, last, ropen>>

Next == (\E b \in Bytes : Put(b)) \/ Take \/ CloseRead \/ CloseWrite

Spec == Init /\ [][Next]_vars
=============================================================================
