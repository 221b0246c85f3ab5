---------------------------- MODULE SchedProofs -----------------------------
(***************************************************************************)
(* Proofs about Sched, for any number of CPUs and of processes: no panic   *)
(* of the spin locks and of sched is reached, p->state tells the truth     *)
(* whenever p->lock is free, and the sleep lock excludes and loses no      *)
(* wakeup.                                                                 *)
(***************************************************************************)
EXTENDS SchedInvariant

(* sched gives the CPU back with p->lock still held, so p->state already   *)
(* says that p may be picked up and nobody can do it yet.                  *)
LEMMA SchedInv ==
  ASSUME IInv, NEW c \in CPUs, NEW p \in Procs, Runs(c, p), Holds(c, p), sched(c)
  PROVE  IInv'
<1>1. /\ pc[p] \in {"sl_sched", "y_sched"} /\ pc'[p] = IF pc[p] = "sl_sched" THEN "sl_wake" ELSE "y_wake"
      /\ \A r \in Procs \ {p} : pc'[r] = pc[r]
      /\ pc' \in [Procs -> PCs]
  BY Zenon DEF sched, Goto, Runs, PCs
<1>2. owner[p] = c /\ noff[c] = 1 /\ state[p] # "RUNNING" /\ intr[c] = 0 /\ owner[LK] # c
  BY <1>1 DEF Runs, Holds, StateOf, LockTypes, Depth, Open, Nested, HasOwn, HasLK
<1>3. panicked' = 0
  BY <1>2, Zenon DEF sched, Holds
<1>4. /\ run'[c] = Nobody /\ run' \in [CPUs -> 0..NPROC]
      /\ \A d \in CPUs \ {c} : run'[d] = run[d] /\ run[d] # p
  <2>1. run' = [run EXCEPT ![c] = Nobody] /\ run \in [CPUs -> 0..NPROC] /\ Nobody \in 0..NPROC
    BY NPROCAssumption DEF sched, IInv, TypeOK, Nobody
  <2>2. ASSUME NEW d \in CPUs, run[d] = p PROVE d = c
    <3>1. run[d] # Nobody
      BY <2>2 DEF Nobody, Procs
    <3>2. spc[d] = "back" /\ scan[d] = p
      BY <2>2, <3>1, Zenon DEF IInv, CpuInv
    <3> QED
      BY <3>2, Zenon DEF IInv, OneCPU, Runs
  <2> QED
    BY <2>1, <2>2, Zenon
<1>5. /\ save' \in [Procs -> {0, 1}] /\ save'[p] = intena[c]
      /\ \A r \in Procs \ {p} : save'[r] = save[r]
  BY Zenon DEF sched, Runs, Holds, ProcTypes, LockTypes, SavedIntena
<1>6. UNCHANGED <<lockVars, cpuproc, scan, spc, state, chan, ret, wk, holder>>
  BY Zenon DEF sched
<1>7. TypeOK'
  BY <1>1, <1>3, <1>4, <1>5, <1>6, Zenon DEF IInv, TypeOK, lockVars
<1>8. Place(c)' = "back" /\ spc[c] = "back" /\ scan[c] = p /\ Place(c) = pc[p]
  BY <1>4, <1>6, Zenon DEF Place, Runs
<1>9. \A d \in CPUs \ {c} : Place(d)' = Place(d)
  BY <1>1, <1>4, <1>6 DEF Place, Nobody, Procs
<1>10. CpuInv'
  BY <1>2, <1>4, <1>6, <1>8, <1>9 DEF IInv, CpuInv, lockVars, Depth, Open, Nested
<1>11. LockInv' /\ OneCPU'
  BY <1>2, <1>6, <1>8, <1>9 DEF IInv, LockInv, OneCPU, lockVars, HasLK, HasOwn
<1>12. ASSUME NEW r \in Procs PROVE ProcOK(r)'
  <2>1. ProcOK(r)
    BY Zenon DEF IInv, ProcInv
  <2>2. CASE r = p
    <3>1. \A d \in CPUs : run'[d] # p
      BY <1>4 DEF Nobody, Procs
    <3>2. pc[p] = "y_sched" => intena[c] = 0
      BY <1>8, Zenon DEF IInv, CpuInv
    <3> QED
      BY <1>1, <1>2, <1>5, <1>6, <2>1, <2>2, <3>1, <3>2 DEF ProcOK, Trapped
  <2>3. CASE r # p
    <3>1. \A d \in CPUs : run'[d] = r <=> run[d] = r
      BY <1>4, <2>3 DEF Nobody, Procs, Holds
    <3> QED
      BY <1>1, <1>5, <1>6, <2>1, <2>3, <3>1, Zenon DEF Goto, ProcOK
  <2> QED
    BY <2>2, <2>3, Zenon
<1>13. ASSUME NEW r \in Procs PROVE HolderOK(r)'
  <2>1. HolderOK(r)
    BY Zenon DEF IInv, HolderInv
  <2>2. At(r)' \in {"crit", "rs_spin"} => At(r) \in {"crit", "rs_spin"}
    BY <1>1, <1>6, Zenon DEF At
  <2>3. pc'[r] \in Nested => pc[r] \in Nested
    BY <1>1, Zenon DEF Nested
  <2>4. \A s \in Procs : pc[s] = "wk" => pc'[s] = "wk"
    BY <1>1, Zenon
  <2> QED
    BY <1>6, <2>1, <2>2, <2>3, <2>4, Zenon DEF HolderOK
<1> QED
  BY <1>3, <1>7, <1>10, <1>11, <1>12, <1>13, Zenon DEF IInv, ProcInv, HolderInv
-----------------------------------------------------------------------------
(* Steps of the scheduler's own context on CPU c.                          *)

(* A step that touches no process keeps what is said of processes.         *)
LEMMA ProcessesStay ==
  ASSUME IInv, UNCHANGED <<run, procVars, holder>>
  PROVE  ProcInv' /\ HolderInv'
<1>1. ASSUME NEW p \in Procs PROVE ProcOK(p)'
  BY Zenon DEF IInv, ProcInv, ProcOK, procVars
<1>2. ASSUME NEW p \in Procs PROVE HolderOK(p)'
  <2>1. At(p)' = At(p)
    BY Zenon DEF At, procVars
  <2> QED
    BY <2>1, Zenon DEF IInv, HolderInv, HolderOK, procVars
<1> QED
  BY <1>1, <1>2, Zenon DEF ProcInv, HolderInv

(* The loop variable advances, out of the switch.                          *)
LEMMA LoopAdvances ==
  ASSUME IInv, NEW c \in CPUs, Next_p(c)
  PROVE  /\ scan' \in [CPUs -> Procs] /\ spc' \in [CPUs -> {"top", "loop", "back"}]
         /\ spc'[c] \in {"top", "loop"}
         /\ \A d \in CPUs \ {c} : scan'[d] = scan[d] /\ spc'[d] = spc[d]
<1>1. scan \in [CPUs -> 1..NPROC] /\ spc \in [CPUs -> {"top", "loop", "back"}] /\ scan[c] \in 1..NPROC
  BY Zenon DEF IInv, TypeOK, Procs
<1>2. CASE scan[c] = NPROC
  BY <1>1, NPROCAssumption DEF Next_p, Procs
<1>3. CASE scan[c] # NPROC
  <2>1. scan[c] + 1 \in 1..NPROC
    BY <1>1, <1>3, NPROCAssumption
  <2> QED
    BY <1>1, <2>1 DEF Next_p, Procs
<1> QED
  BY <1>2, <1>3, Zenon

(* The head of the loop switches interrupts on.                            *)
LEMMA SchedulerTopInv ==
  ASSUME IInv, NEW c \in CPUs, scheduler_top(c)
  PROVE  IInv'
<1>1. ProcInv' /\ HolderInv'
  BY Zenon, ProcessesStay DEF scheduler_top
<1>2. /\ intr' \in [CPUs -> {0, 1}] /\ \A d \in CPUs \ {c} : intr'[d] = intr[d] /\ spc'[d] = spc[d]
      /\ spc' \in [CPUs -> {"top", "loop", "back"}] /\ spc'[c] = "loop"
  BY Zenon DEF scheduler_top, IInv, TypeOK
<1>3. TypeOK' /\ panicked' = 0
  BY Zenon DEF scheduler_top, IInv, TypeOK, procVars
<1>4. /\ Place(c) = "top" /\ Place(c)' = "loop"
      /\ \A d \in CPUs \ {c} : Place(d)' = Place(d)
  BY <1>2, Zenon DEF scheduler_top, Place, procVars
<1>5. CpuInv'
  BY <1>4 DEF scheduler_top, IInv, CpuInv, Depth, Open
<1>6. LockInv' /\ OneCPU'
  BY <1>4 DEF scheduler_top, IInv, LockInv, OneCPU, HasLK
<1> QED
  BY <1>1, <1>3, <1>5, <1>6, Zenon DEF IInv

(* The scheduler passes a process by.                                      *)
LEMMA SchedulerSkipInv ==
  ASSUME IInv, NEW c \in CPUs, scheduler_skip(c)
  PROVE  IInv'
<1>1. ProcInv' /\ HolderInv'
  BY Zenon, ProcessesStay DEF scheduler_skip
<1>2. /\ scan' \in [CPUs -> Procs] /\ spc' \in [CPUs -> {"top", "loop", "back"}]
      /\ spc'[c] \in {"top", "loop"}
      /\ \A d \in CPUs \ {c} : scan'[d] = scan[d] /\ spc'[d] = spc[d]
  BY Zenon, LoopAdvances DEF scheduler_skip
<1>3. panicked' = 0
  <2>1. scan[c] \in Procs
    BY Zenon DEF IInv, TypeOK
  <2> QED
    BY <2>1, Zenon DEF scheduler_skip, IInv, LockInv
<1>4. TypeOK'
  BY <1>2, <1>3, Zenon DEF scheduler_skip, IInv, TypeOK, procVars, lockVars
<1>5. /\ Place(c) = "loop" /\ Place(c)' = spc'[c]
      /\ \A d \in CPUs \ {c} : Place(d)' = Place(d)
  BY <1>2, Zenon DEF scheduler_skip, Place, procVars
<1>6. CpuInv'
  BY <1>2, <1>5 DEF scheduler_skip, IInv, CpuInv, Depth, Open, lockVars
<1>7. LockInv' /\ OneCPU'
  BY <1>2, <1>5 DEF scheduler_skip, IInv, LockInv, OneCPU, HasLK, lockVars
<1> QED
  BY <1>1, <1>3, <1>4, <1>6, <1>7, Zenon DEF IInv

(* The scheduler takes up a process: with its p->lock free and its state   *)
(* RUNNABLE, no CPU has it in hand.                                        *)
LEMMA SchedulerSwitchInv ==
  ASSUME IInv, NEW c \in CPUs, scheduler_switch(c)
  PROVE  IInv'
<1>1. PICK p \in Procs : p = scan[c]
  BY Zenon DEF IInv, TypeOK
<1>2. Place(c) = "loop" /\ noff[c] = 0 /\ owner[LK] # c /\ owner[p] # c /\ spc[c] = "loop"
  BY DEF scheduler_switch, Place, IInv, CpuInv, LockInv, Depth, Open, HasLK
<1>3. LockTypes /\ p \in 0..NPROC /\ p # LK /\ p # Nobody
  BY DEF IInv, TypeOK, LockTypes, Procs, LK, Nobody
<1>4. /\ owner' \in [0..NPROC -> CPUs \cup {NoCPU}] /\ panicked' = 0
      /\ owner[p] = NoCPU /\ owner'[p] = c
      /\ \A k \in 0..NPROC \ {p} : owner'[k] = owner[k]
  BY <1>1, <1>2, <1>3, Acquire DEF scheduler_switch
<1>5. /\ noff' \in [CPUs -> 0..2] /\ intena' \in [CPUs -> {0, 1}] /\ intr' \in [CPUs -> {0, 1}]
      /\ noff'[c] = 1 /\ intr'[c] = 0 /\ Elsewhere(c)
  BY <1>2, <1>3, PushOff DEF scheduler_switch
<1>6. /\ cpuproc' \in [CPUs -> 0..NPROC] /\ cpuproc'[c] = p
      /\ run' \in [CPUs -> 0..NPROC] /\ run'[c] = p
      /\ spc' \in [CPUs -> {"top", "loop", "back"}] /\ spc'[c] = "back"
      /\ \A d \in CPUs \ {c} : cpuproc'[d] = cpuproc[d] /\ run'[d] = run[d] /\ spc'[d] = spc[d]
  BY <1>1, <1>3, Zenon DEF scheduler_switch, IInv, TypeOK
<1>7. /\ state' \in [Procs -> {"RUNNABLE", "RUNNING", "SLEEPING"}] /\ state'[p] = "RUNNING"
      /\ \A r \in Procs \ {p} : state'[r] = state[r]
  BY <1>1, Zenon DEF scheduler_switch, IInv, TypeOK
<1>8. TypeOK'
  BY <1>4, <1>5, <1>6, <1>7, Zenon DEF scheduler_switch, IInv, TypeOK
<1>9. \A d \in CPUs : ~(spc[d] = "back" /\ scan[d] = p)
  <2>1. SUFFICES ASSUME NEW d \in CPUs, spc[d] = "back", scan[d] = p PROVE FALSE
    BY Zenon
  <2>2. CASE run[d] = Nobody
    BY <1>4, <2>1, <2>2, CPUAssumption DEF IInv, LockInv, Place, HasOwn
  <2>3. CASE run[d] # Nobody
    <3>1. run[d] = p
      BY <2>1, <2>3, Zenon DEF IInv, CpuInv
    <3>2. state[p] = "RUNNABLE" /\ state[p] = StateOf(pc[p])
      BY <1>1, <3>1, Zenon DEF scheduler_switch, Runnable, IInv, ProcInv, ProcOK
    <3> QED
      BY <1>4, <2>1, <3>1, <3>2, CPUAssumption DEF IInv, LockInv, Place, StateOf, HasOwn
  <2> QED
    BY <2>2, <2>3, Zenon
<1>10. \A d \in CPUs : run[d] # p
  BY <1>3, <1>9, Zenon DEF IInv, CpuInv
<1>11. pc[p] \in {"forkret", "sl_wake", "y_wake"}
  BY <1>10, Zenon DEF IInv, ProcInv, ProcOK
<1>12. /\ Place(c)' = pc[p]
       /\ \A d \in CPUs \ {c} : Place(d)' = Place(d)
  BY <1>3, <1>6 DEF scheduler_switch, Place
<1>13. CpuInv'
  BY <1>5, <1>6, <1>11, <1>12 DEF scheduler_switch, IInv, CpuInv, Depth, Open, Nested,
     Elsewhere
<1>14. OneCPU'
  BY <1>6, <1>9 DEF scheduler_switch, IInv, OneCPU
<1>15. LockInv'
  <2>1. \A d \in CPUs : owner'[LK] = d <=> Place(d)' \in HasLK
    <3>1. owner'[LK] = owner[LK]
      BY <1>3, <1>4, NPROCAssumption DEF LK
    <3> QED
      BY <1>2, <1>11, <1>12, <3>1 DEF IInv, LockInv, HasLK
  <2>2. ASSUME NEW d \in CPUs, NEW r \in Procs
        PROVE  owner'[r] = d <=> spc'[d] = "back" /\ scan'[d] = r /\ Place(d)' \in HasOwn
    <3>1. CASE r = p
      BY <1>4, <1>6, <1>9, <1>11, <1>12, <3>1 DEF scheduler_switch, HasOwn
    <3>2. CASE r # p
      <4>1. owner'[r] = owner[r]
        BY <1>4, <3>2 DEF Procs
      <4> QED
        BY <1>6, <1>12, <3>2, <4>1 DEF scheduler_switch, IInv, LockInv
    <3> QED
      BY <3>1, <3>2, Zenon
  <2> QED
    BY <2>1, <2>2, Zenon DEF LockInv
<1>16. ASSUME NEW r \in Procs PROVE ProcOK(r)'
  <2>1. ProcOK(r)
    BY Zenon DEF IInv, ProcInv
  <2>2. CASE r = p
    BY <1>6, <1>7, <1>11, <2>1, <2>2 DEF scheduler_switch, ProcOK, StateOf
  <2>3. CASE r # p
    <3>1. \A d \in CPUs : run'[d] = r <=> run[d] = r
      BY <1>6, <2>3 DEF scheduler_switch, Nobody, Procs
    <3> QED
      BY <1>7, <2>1, <2>3, <3>1 DEF scheduler_switch, ProcOK
  <2> QED
    BY <2>2, <2>3, Zenon
<1>17. ASSUME NEW r \in Procs PROVE HolderOK(r)'
  <2>1. HolderOK(r) /\ At(r)' = At(r)
    BY Zenon DEF scheduler_switch, IInv, HolderInv, At
  <2>2. state'[r] = "SLEEPING" => state[r] = "SLEEPING"
    BY <1>7, Zenon
  <2> QED
    BY <2>1 DEF scheduler_switch, HolderOK
<1> QED
  BY <1>4, <1>8, <1>13, <1>14, <1>15, <1>16, <1>17, Zenon DEF IInv, ProcInv, HolderInv

(* The scheduler releases the p->lock of the process that switched back.   *)
LEMMA SchedulerBackInv ==
  ASSUME IInv, NEW c \in CPUs, scheduler_back(c)
  PROVE  IInv'
<1>1. ProcInv' /\ HolderInv' /\ run[c] = Nobody /\ spc[c] = "back"
  BY Zenon, ProcessesStay DEF scheduler_back
<1>2. /\ scan' \in [CPUs -> Procs] /\ spc' \in [CPUs -> {"top", "loop", "back"}]
      /\ spc'[c] \in {"top", "loop"}
      /\ \A d \in CPUs \ {c} : scan'[d] = scan[d] /\ spc'[d] = spc[d]
  BY Zenon, LoopAdvances DEF scheduler_back
<1>3. PICK p \in Procs : p = scan[c]
  BY Zenon DEF IInv, TypeOK
<1>4. LockTypes /\ p \in 0..NPROC /\ p # LK /\ intena[c] \in {0, 1} /\ LK \in 0..NPROC
  BY NPROCAssumption DEF IInv, TypeOK, LockTypes, Procs, LK
<1>5. UNCHANGED <<run, procVars, holder>>
  BY Zenon DEF scheduler_back
<1>6. Place(c) = "back" /\ noff[c] = 1 /\ intr[c] = 0 /\ owner[p] = c /\ owner[LK] # c
  BY <1>1, <1>3, <1>4 DEF Place, IInv, CpuInv, LockInv, LockTypes, Depth, Open, Nested, HasLK, HasOwn
<1>7. /\ LockTypes' /\ panicked' = 0
      /\ owner'[p] = NoCPU /\ \A k \in 0..NPROC \ {p} : owner'[k] = owner[k]
      /\ noff'[c] = 0 /\ Elsewhere(c)
  <2>1. release(c, p, intena[c])
    BY <1>3, Zenon DEF scheduler_back
  <2> QED
    BY <1>4, <1>6, <2>1, Release
<1>8. /\ cpuproc' \in [CPUs -> 0..NPROC] /\ cpuproc'[c] = Nobody
      /\ \A d \in CPUs \ {c} : cpuproc'[d] = cpuproc[d]
  BY Zenon DEF scheduler_back, IInv, TypeOK, AfterSwitch
<1>9. TypeOK'
  BY <1>2, <1>5, <1>7, <1>8, Zenon DEF IInv, TypeOK, LockTypes, procVars
<1>10. Place(c)' = spc'[c] /\ \A d \in CPUs \ {c} : Place(d)' = Place(d)
  BY <1>1, <1>2, <1>5, Zenon DEF Place, procVars
<1>11. CpuInv'
  BY <1>1, <1>2, <1>5, <1>7, <1>8, <1>10 DEF IInv, CpuInv, Depth, Open, Elsewhere
<1>12. OneCPU'
  BY <1>2 DEF IInv, OneCPU
<1>13. LockInv'
  <2>1. \A d \in CPUs : owner'[LK] = d <=> Place(d)' \in HasLK
    BY <1>2, <1>4, <1>6, <1>7, <1>10 DEF IInv, LockInv, HasLK
  <2>2. ASSUME NEW d \in CPUs, NEW r \in Procs
        PROVE  owner'[r] = d <=> spc'[d] = "back" /\ scan'[d] = r /\ Place(d)' \in HasOwn
    <3>1. CASE r = p
      BY <1>2, <1>6, <1>7, <1>10, <3>1, CPUAssumption DEF IInv, LockInv
    <3>2. CASE r # p
      <4>1. owner'[r] = owner[r]
        BY <1>7, <3>2 DEF Procs
      <4> QED
        BY <1>2, <1>6, <1>10, <3>2, <4>1 DEF IInv, LockInv
    <3> QED
      BY <3>1, <3>2, Zenon
  <2> QED
    BY <2>1, <2>2, Zenon DEF LockInv
<1> QED
  BY <1>1, <1>7, <1>9, <1>11, <1>12, <1>13 DEF IInv
-----------------------------------------------------------------------------
(* The invariant holds when the CPUs enter their schedulers.               *)
LEMMA InitInv == Init => IInv
<1> SUFFICES ASSUME Init PROVE IInv
  BY Zenon
<1>1. TypeOK /\ panicked = 0
  BY NPROCAssumption DEF Init, TypeOK, Procs, PCs, Nobody
<1>2. \A c \in CPUs : Place(c) = "top"
  BY Zenon DEF Init, Place
<1>3. CpuInv /\ OneCPU
  BY <1>2, Zenon DEF Init, CpuInv, OneCPU, Depth, Open
<1>4. LockInv
  BY <1>2, NPROCAssumption, CPUAssumption DEF Init, LockInv, HasLK, LK, Procs
<1>5. ProcInv
  BY DEF Init, ProcInv, ProcOK, Nobody, Procs
<1>6. HolderInv
  BY Zenon DEF Init, HolderInv, HolderOK, At, Nested
<1> QED
  BY <1>1, <1>3, <1>4, <1>5, <1>6, Zenon DEF IInv

(* Every step of every CPU keeps it.                                       *)
LEMMA NextInv == IInv /\ [Next]_vars => IInv'
<1> SUFFICES ASSUME IInv, [Next]_vars PROVE IInv'
  BY Zenon
<1>1. CASE UNCHANGED vars
  <2>1. ProcInv' /\ HolderInv'
    BY <1>1, Zenon, ProcessesStay DEF vars, cpuVars
  <2>2. \A c \in CPUs : Place(c)' = Place(c)
    BY <1>1, Zenon DEF Place, vars, cpuVars, procVars
  <2>3. TypeOK' /\ panicked' = 0
    BY <1>1, Zenon DEF IInv, TypeOK, vars, lockVars, cpuVars, procVars
  <2>4. CpuInv' /\ LockInv' /\ OneCPU'
    BY <1>1, <2>2 DEF IInv, CpuInv, LockInv, OneCPU, vars, lockVars, cpuVars
  <2> QED
    BY <2>1, <2>3, <2>4, Zenon DEF IInv
<1>2. ASSUME NEW c \in CPUs, run[c] # Nobody,
             Spin(c) \/ Run(c) \/ acquiresleep(c) \/ timer(c)
      PROVE  IInv'
  <2>1. PICK p \in Procs : Runs(c, p) /\ Holds(c, p)
    BY <1>2, Zenon, Executed
  <2>2. ~(scheduler_skip(c) \/ scheduler_switch(c) \/ scheduler_top(c) \/ scheduler_back(c))
    BY <1>2, Zenon DEF scheduler_skip, scheduler_switch, scheduler_top, scheduler_back
  <2>3. CASE Spin(c)
    BY <2>1, <2>2, <2>3, Zenon, YieldInv, AcquireSleepLockedInv, SleepLockedInv,
       ReleaseSleepLockedInv, WakeupInv DEF Spin
  <2>4. CASE Run(c)
    BY <2>1, <2>2, <2>4, Zenon, SchedInv, ForkretInv, YieldResumeInv, KernelTrapReturnInv,
       AcquireSleepTakeInv, AcquireSleepWaitInv, SleepInv, SleepResumeInv, ReleaseSleepInv,
       ReleaseSleepDoneInv DEF Run
  <2> QED
    BY <1>2, <2>1, <2>3, <2>4, Zenon, AcquireSleepInv, TimerInv
<1>3. ASSUME NEW c \in CPUs, run[c] = Nobody,
             Spin(c) \/ Run(c) \/ acquiresleep(c) \/ timer(c)
      PROVE  IInv'
  <2>1. scheduler_skip(c) \/ scheduler_switch(c) \/ scheduler_top(c) \/ scheduler_back(c)
    BY <1>3, Zenon DEF Spin, Run, yield, acquiresleep_locked, sleep_locked,
       releasesleep_locked, wakeup, sched, forkret, yield_resume, kerneltrap_return,
       acquiresleep_take, acquiresleep_wait, sleep, sleep_resume, releasesleep,
       releasesleep_done, acquiresleep, timer
  <2> QED
    BY <2>1, Zenon, SchedulerSkipInv, SchedulerSwitchInv, SchedulerTopInv, SchedulerBackInv
<1>4. CASE Next
  BY <1>2, <1>3, <1>4, Zenon DEF Next
<1> QED
  BY <1>1, <1>4, Zenon

(* IInv holds always, on any number of CPUs and for any number of          *)
(* processes.                                                              *)
THEOREM Invariance == Spec => []IInv
BY InitInv, NextInv, PTL DEF Spec

(* No panic of acquire, release, pop_off and sched is ever reached, and a  *)
(* CPU that holds a spin lock, or is inside a trap handler, has its        *)
(* interrupts off.                                                         *)
THEOREM Panics == Spec => []NoPanic
<1>1. IInv => NoPanic
  <2> SUFFICES ASSUME IInv PROVE NoPanic
    BY Zenon
  <2>1. ASSUME NEW c \in CPUs, intr[c] = 1 PROVE Place(c) \in Open
    BY <2>1, Zenon DEF IInv, CpuInv
  <2>2. ASSUME NEW c \in CPUs, intr[c] = 1, NEW l \in 0..NPROC PROVE owner[l] # c
    <3>1. CASE l = LK
      BY <2>1, <2>2, <3>1, Zenon DEF IInv, LockInv, Open, HasLK
    <3>2. CASE l \in Procs
      BY <2>1, <2>2, <3>2 DEF IInv, LockInv, Open, HasOwn
    <3> QED
      BY <3>1, <3>2 DEF Procs, LK
  <2>3. ASSUME NEW c \in CPUs, intr[c] = 1, run[c] # Nobody PROVE pc[run[c]] # "iret"
    BY <2>1, <2>3, Zenon DEF Place, Open
  <2> QED
    BY <2>2, <2>3, Zenon DEF NoPanic, IInv
<1> QED
  BY <1>1, Invariance, PTL

(* When p->lock is free, p->state is RUNNING exactly when a CPU executes   *)
(* p; no two CPUs execute one process; myproc() is right whenever an       *)
(* interrupt can ask for it.                                               *)
THEOREM States == Spec => []StateTruthful
<1>1. IInv => StateTruthful
  <2> SUFFICES ASSUME IInv PROVE StateTruthful
    BY Zenon
  <2>1. TypeOK /\ \A c, d \in CPUs : run[c] # Nobody /\ run[c] = run[d] => c = d
    BY DEF IInv, CpuInv, OneCPU
  <2>2. ASSUME NEW p \in Procs, owner[p] = NoCPU
        PROVE  state[p] = "RUNNING" <=> \E c \in CPUs : run[c] = p
    <3>1. ASSUME NEW c \in CPUs, run[c] = p PROVE state[p] = "RUNNING"
      <4>1. Place(c) = pc[p] /\ spc[c] = "back" /\ scan[c] = p
        BY <3>1 DEF IInv, CpuInv, Place, Procs, Nobody
      <4>2. pc[p] \notin HasOwn
        BY <2>2, <4>1, CPUAssumption DEF IInv, LockInv
      <4> QED
        BY <4>2 DEF IInv, ProcInv, ProcOK, StateOf, HasOwn
    <3> QED
      BY <3>1, Zenon DEF IInv, ProcInv, ProcOK
  <2>3. ASSUME NEW c \in CPUs, intr[c] = 1 PROVE cpuproc[c] = run[c]
    <3>1. Place(c) \in Open /\ spc[c] \in {"top", "loop", "back"}
      BY <2>3 DEF IInv, CpuInv, TypeOK
    <3> QED
      BY <3>1 DEF IInv, CpuInv, Place, Open
  <2> QED
    BY <2>1, <2>2, <2>3, Zenon DEF StateTruthful
<1> QED
  BY <1>1, Invariance, PTL

(* The sleep lock excludes, and nobody sleeps on a free sleep lock unless  *)
(* the wakeup of its release is still to reach them.                       *)
THEOREM SleepLocks == Spec => []SleepLock
<1>1. IInv => SleepLock
  BY Zenon DEF IInv, HolderInv, HolderOK, SleepLock
<1> QED
  BY <1>1, Invariance, PTL
=============================================================================
