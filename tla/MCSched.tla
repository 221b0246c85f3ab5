------------------------------ MODULE MCSched -------------------------------
(***************************************************************************)
(* Sched on two CPUs, and Trap on two CPUs of its own, of which Boot       *)
(* counts ticks.  Trap sees of Sched only that processes leave a CPU and   *)
(* get another, so each is explored while the other rests.                 *)
(***************************************************************************)
EXTENDS Sched, TLC

CONSTANTS Harts, Boot, Tasks, Devices, TICKS, UserPCs, MaxN

VARIABLES mode, sie, spp, spie, sepc, stvec, current, place, locals, irq, epc, hartid,
          status, killed, n, ticks0, passed, ticks, tickslock, paniced, at,
          part

trapVars == <<mode, sie, spp, spie, sepc, stvec, current, place, locals, irq, epc, hartid,
              status, killed, n, ticks0, passed, ticks, tickslock, paniced, at>>

T == INSTANCE Trap WITH CPUs <- Harts, Procs <- Tasks, run <- current, state <- status,
                        panicked <- paniced

ASSUME TrapAssumption == T!Constants

AllInit == Init /\ T!Init /\ part \in {"sched", "trap"}

AllNext == \/ part = "sched" /\ Next /\ UNCHANGED <<trapVars, part>>
           \/ part = "trap" /\ T!Next /\ UNCHANGED <<vars, part>>

AllSpec == AllInit /\ [][AllNext]_<<vars, trapVars, part>>

\* The CPUs of Sched are interchangeable, and so are the processes of Trap.
Symmetry == Permutations(CPUs) \cup Permutations(Tasks)

\* Every trap arrives at the right handler and is returned from to the place
\* it interrupted, whatever ran on the CPU meanwhile (Trap!TrapsReturn).
TrapsReturn == T!TrapsReturn

\* sys_sleep ends exactly when its time is up, and nobody sleeps on from
\* then on, also while ticks wraps around (Trap!SleepsInTime).
SleepsInTime == T!SleepsInTime
=============================================================================
