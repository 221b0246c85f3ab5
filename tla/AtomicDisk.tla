----------------------------- MODULE AtomicDisk -----------------------------
(***************************************************************************)
(* What the logging layer of kernel/log.c promises to the file system      *)
(* above it: system calls bracket their block writes with begin_op and     *)
(* end_op, see each other's writes at once, and after a crash the disk     *)
(* holds the effect of complete system calls only.                         *)
(***************************************************************************)
CONSTANTS Procs,    \* processes that run file-system system calls
          Blocks,   \* home blocks of the file system
          Vals,     \* contents of a block
          Zero      \* the contents mkfs gives every block

VARIABLES mem,      \* what a process reads from each block
          dur,      \* what each block holds if the machine stops now
          active    \* processes between begin_op and end_op

vars == <<mem, dur, active>>

Init ==
  /\ mem = [b \in Blocks |-> Zero]
  /\ dur = [b \in Blocks |-> Zero]
  /\ active = {}

Begin(p) ==
  /\ p \notin active
  /\ active' = active \cup {p}
  /\ UNCHANGED <<mem, dur>>

\* Only a process inside an operation changes a block.
Write(p, b, v) ==
  /\ p \in active
  /\ mem' = [mem EXCEPT ![b] = v]
  /\ UNCHANGED <<dur, active>>

End(p) ==
  /\ p \in active
  /\ active' = active \ {p}
  /\ UNCHANGED <<mem, dur>>

\* Everything written so far becomes durable at once, and never while some
\* operation is half done.
Commit ==
  /\ active = {}
  /\ dur' = mem
  /\ UNCHANGED <<mem, active>>

Crash ==
  /\ mem' = dur
  /\ active' = {}
  /\ UNCHANGED dur

Next ==
  \/ \E p \in Procs : Begin(p) \/ End(p)
  \/ \E p \in Procs, b \in Blocks, v \in Vals : Write(p, b, v)
  \/ Commit
  \/ Crash

Spec == Init /\ [][Next]_vars
=============================================================================
