--------------------------- MODULE SchedInvariant ---------------------------
(***************************************************************************)
(* The inductive invariant of Sched, for any number of CPUs and of         *)
(* processes, and the proofs that the steps of a process keep it.  The     *)
(* other steps and the theorems are in SchedProofs.                        *)
(***************************************************************************)
EXTENDS Sched, TLAPS

\* Where the context that CPU c executes is: a process or the scheduler.
Place(c) == IF run[c] = Nobody THEN spc[c] ELSE pc[run[c]]

\* Outside every spin lock, with interrupts on or about to be.
Open == {"top", "loop", "run", "crit", "sl_re"}
Trapped == {"y_spin", "y_sched", "y_wake", "iret"}

\* Places with the spin lock of the sleep lock held, with the process's own
\* p->lock held (by the scheduler on its behalf, in "back"), with two push_offs.
HasLK == {"as_test", "sl_spin", "sl_go", "wk"}
HasOwn == {"back", "forkret", "sl_go", "sl_sched", "sl_wake", "y_sched", "y_wake"}
Nested == {"sl_spin", "sl_go"}

Depth(l) == IF l \in Open \cup {"iret"} THEN 0 ELSE IF l \in Nested THEN 2 ELSE 1

\* What a CPU is at.  A scheduler that has switched to scan[c] is "back".
CpuInv ==
  \A c \in CPUs :
    /\ run[c] # Nobody => spc[c] = "back" /\ run[c] = scan[c]
    /\ cpuproc[c] = IF spc[c] = "back" THEN scan[c] ELSE Nobody
    /\ noff[c] = Depth(Place(c))
    /\ intr[c] = 1 => Place(c) \in Open
    /\ Place(c) \in {"y_spin", "y_sched"} => intena[c] = 0

\* Who holds which spin lock follows from where the CPUs are.
LockInv ==
  \A c \in CPUs :
    /\ owner[LK] = c <=> Place(c) \in HasLK
    /\ \A p \in Procs :
         owner[p] = c <=> spc[c] = "back" /\ scan[c] = p /\ Place(c) \in HasOwn

\* A process is in the hands of one CPU at most.
OneCPU ==
  \A c, d \in CPUs : spc[c] = "back" /\ spc[d] = "back" /\ scan[c] = scan[d] => c = d

StateOf(l) == IF l = "y_sched" THEN "RUNNABLE" ELSE IF l = "sl_sched" THEN "SLEEPING" ELSE "RUNNING"

\* What p->state says, and what a process that is not executed is waiting for.
ProcOK(p) ==
  /\ \A c \in CPUs : run[c] = p => state[p] = StateOf(pc[p])
  /\ (\A c \in CPUs : run[c] # p) =>
       state[p] # "RUNNING" /\ pc[p] \in {"forkret", "sl_wake", "y_wake"}
  /\ state[p] = "SLEEPING" => chan[p] = 1 /\ pc[p] \in {"sl_sched", "sl_wake"}
  /\ pc[p] \in Trapped => ret[p] \in {"run", "crit", "sl_re"}
  /\ pc[p] = "y_wake" => save[p] = 0
  /\ pc[p] = "wk" => wk[p] >= 1

\* The holder of the sleep lock, and who may be about to sleep on it.
HolderOK(p) ==
  /\ At(p) \in {"crit", "rs_spin"} => holder = p
  /\ pc[p] \in Nested => holder # Nobody
  /\ state[p] = "SLEEPING" /\ holder = Nobody =>
       \E q \in Procs : pc[q] = "wk" /\ wk[q] <= p

ProcInv == \A p \in Procs : ProcOK(p)
HolderInv == \A p \in Procs : HolderOK(p)

IInv ==
  /\ TypeOK /\ panicked = 0
  /\ CpuInv /\ LockInv /\ OneCPU /\ ProcInv /\ HolderInv
-----------------------------------------------------------------------------
\* Nothing changes on the other CPUs.
Elsewhere(c) ==
  \A d \in CPUs \ {c} : noff'[d] = noff[d] /\ intr'[d] = intr[d] /\ intena'[d] = intena[d]

LockTypes ==
  /\ owner \in [0..NPROC -> CPUs \cup {NoCPU}]
  /\ noff \in [CPUs -> 0..2] /\ intena \in [CPUs -> {0, 1}] /\ intr \in [CPUs -> {0, 1}]

ProcTypes ==
  /\ state \in [Procs -> {"RUNNABLE", "RUNNING", "SLEEPING"}] /\ chan \in [Procs -> {0, 1}]
  /\ ret \in [Procs -> PCs] /\ save \in [Procs -> {0, 1}] /\ wk \in [Procs -> 0..(NPROC + 1)]
  /\ holder \in 0..NPROC

\* A step of process p on CPU c to place l, as far as CPUs and spin locks
\* are concerned: what c holds changes to what belongs to l.
Moves(c, p, l) ==
  /\ run[c] = p /\ pc' = [pc EXCEPT ![p] = l] /\ UNCHANGED cpuVars
  /\ noff'[c] = Depth(l) /\ Elsewhere(c)
  /\ intr'[c] = 1 => l \in Open
  /\ l \in {"y_spin", "y_sched"} => intena'[c] = 0
  /\ \A q \in Procs \ {p} : owner'[q] = owner[q]
  /\ owner'[LK] = IF l \in HasLK THEN c
                  ELSE IF pc[p] \in HasLK THEN NoCPU ELSE owner[LK]
  /\ owner'[p] = IF l \in HasOwn THEN c
                 ELSE IF pc[p] \in HasOwn THEN NoCPU ELSE owner[p]
  /\ l \in HasLK => Takes(c, LK)
  /\ l \in HasOwn => Takes(c, p)

\* The same step, as far as the process itself is concerned.
OwnStep(p, l) ==
  /\ \A q \in Procs \ {p} : /\ state'[q] = state[q] /\ chan'[q] = chan[q]
                            /\ ret'[q] = ret[q] /\ save'[q] = save[q] /\ wk'[q] = wk[q]
  /\ state'[p] = StateOf(l) /\ l # "y_wake"
  /\ l = "sl_sched" => chan'[p] = 1
  /\ l \in Trapped => ret'[p] \in {"run", "crit", "sl_re"}
  /\ l = "wk" => wk'[p] >= 1

\* And as far as the sleep lock is: it does not change hands.
HolderStep(p, l) ==
  /\ holder' = holder
  /\ At(p)' \in {"crit", "rs_spin"} => At(p) \in {"crit", "rs_spin"}
  /\ l \in Nested \cup {"sl_sched"} => holder # Nobody
  /\ pc[p] = "wk" => \A q \in Procs : state[q] = "SLEEPING" => holder # Nobody

(* Only the mover is at another place afterwards.                          *)
LEMMA PlaceMoves ==
  ASSUME IInv, NEW c \in CPUs, NEW p \in Procs, NEW l \in PCs, Moves(c, p, l)
  PROVE  /\ Place(c) = pc[p] /\ Place(c)' = l /\ spc[c] = "back" /\ scan[c] = p
         /\ \A d \in CPUs \ {c} : run[d] # p /\ Place(d)' = Place(d)
<1>1. p # Nobody /\ pc \in [Procs -> PCs]
  BY DEF IInv, TypeOK, Procs, Nobody
<1>2. spc[c] = "back" /\ scan[c] = p /\ \A d \in CPUs \ {c} : run[d] # p
  BY <1>1 DEF IInv, CpuInv, OneCPU, Moves
<1>3. \A d \in CPUs : run[d] # Nobody => run[d] \in Procs
  BY DEF IInv, TypeOK, Procs, Nobody
<1> QED
  BY <1>1, <1>2 DEF Place, Moves, cpuVars

(* The CPUs and the spin locks stay in step.                               *)
LEMMA MovesCpuInv ==
  ASSUME IInv, NEW c \in CPUs, NEW p \in Procs, NEW l \in PCs, Moves(c, p, l)
  PROVE  CpuInv'
<1>1. Place(c)' = l /\ \A d \in CPUs \ {c} : Place(d)' = Place(d)
  BY Zenon, PlaceMoves
<1> QED
  BY <1>1 DEF IInv, CpuInv, Moves, Elsewhere, cpuVars

(* A spin lock that is taken was free, so ownership stays exclusive.       *)
LEMMA MovesLockInv ==
  ASSUME IInv, NEW c \in CPUs, NEW p \in Procs, NEW l \in PCs, Moves(c, p, l)
  PROVE  LockInv'
<1>1. /\ Place(c) = pc[p] /\ Place(c)' = l /\ spc[c] = "back" /\ scan[c] = p
      /\ \A d \in CPUs \ {c} : Place(d)' = Place(d)
  BY Zenon, PlaceMoves
<1>2. UNCHANGED <<spc, scan>>
  BY Zenon DEF Moves, cpuVars
<1>3. \A d \in CPUs : d # NoCPU
  BY Zenon, CPUAssumption
<1>4. ASSUME NEW d \in CPUs
      PROVE  owner'[LK] = d <=> Place(d)' \in HasLK
  BY <1>1, <1>3 DEF IInv, LockInv, Moves, Takes
<1>5. ASSUME NEW d \in CPUs, NEW q \in Procs
      PROVE  owner'[q] = d <=> spc'[d] = "back" /\ scan'[d] = q /\ Place(d)' \in HasOwn
  <2>1. CASE q = p
    BY <1>1, <1>2, <1>3 DEF IInv, LockInv, Moves, OneCPU
  <2>2. CASE q # p
    BY <1>1, <1>2, <2>2 DEF IInv, LockInv, Moves
  <2> QED
    BY <2>1, <2>2, Zenon
<1> QED
  BY <1>4, <1>5, Zenon DEF LockInv

(* Nothing is said of the other processes that could become false.         *)
LEMMA MovesProcInv ==
  ASSUME IInv, NEW c \in CPUs, NEW p \in Procs, NEW l \in PCs, Moves(c, p, l), OwnStep(p, l)
  PROVE  ProcInv'
<1>a. \A d \in CPUs \ {c} : run[d] # p
  BY Zenon, PlaceMoves
<1>1. run' = run /\ run[c] = p /\ \A d \in CPUs \ {c} : run[d] # p
  BY <1>a, Zenon DEF Moves, cpuVars
<1>2. pc'[p] = l /\ \A q \in Procs \ {p} : pc'[q] = pc[q]
  BY Zenon DEF IInv, TypeOK, Moves
<1>3. ASSUME NEW q \in Procs, q # p
      PROVE  ProcOK(q)'
  BY <1>1, <1>2, <1>3 DEF IInv, ProcInv, ProcOK, OwnStep
<1>4. ProcOK(p)'
  BY <1>1, <1>2, Zenon DEF OwnStep, StateOf, ProcOK
<1> QED
  BY <1>3, <1>4, Zenon DEF ProcInv

(* Nobody new is in the critical section, and nobody new sleeps on a free  *)
(* sleep lock.                                                             *)
LEMMA MovesHolderInv ==
  ASSUME IInv, NEW c \in CPUs, NEW p \in Procs, NEW l \in PCs,
         Moves(c, p, l), OwnStep(p, l), HolderStep(p, l)
  PROVE  HolderInv'
<1>2. pc'[p] = l /\ \A q \in Procs \ {p} : pc'[q] = pc[q]
  BY Zenon DEF IInv, TypeOK, Moves
<1>3. ASSUME NEW q \in Procs, q # p
      PROVE  HolderOK(q)'
  <2>1. At(q)' = At(q) /\ state'[q] = state[q]
    BY <1>2, <1>3, Zenon DEF At, OwnStep
  <2>2. ASSUME state[q] = "SLEEPING", holder = Nobody
        PROVE  \E r \in Procs : pc'[r] = "wk" /\ wk'[r] <= q
    <3>1. PICK r \in Procs : pc[r] = "wk" /\ wk[r] <= q
      BY <2>2, Zenon DEF IInv, HolderInv, HolderOK
    <3>2. r # p
      BY <2>2, <3>1, Zenon DEF HolderStep
    <3> QED
      BY <1>2, <3>1, <3>2, Zenon DEF OwnStep
  <2> QED
    BY <1>2, <2>1, <2>2, Zenon DEF IInv, HolderInv, HolderOK, HolderStep
<1>4. HolderOK(p)'
  BY <1>2, Zenon DEF IInv, HolderInv, HolderOK, HolderStep, OwnStep, StateOf
<1> QED
  BY <1>3, <1>4, Zenon DEF HolderInv

(* The parts together, where the sleep lock is accounted for separately,   *)
LEMMA MoveParts ==
  ASSUME IInv, NEW c \in CPUs, NEW p \in Procs, NEW l \in PCs,
         Moves(c, p, l), OwnStep(p, l), HolderInv',
         LockTypes', ProcTypes', panicked' = 0
  PROVE  IInv'
<1>1. OneCPU'
  BY Zenon DEF IInv, OneCPU, Moves, cpuVars
<1>2. CpuInv' /\ LockInv'
  BY Zenon, MovesCpuInv, MovesLockInv
<1>3. ProcInv'
  BY Zenon, MovesProcInv
<1>4. pc' \in [Procs -> PCs]
  BY Zenon DEF IInv, TypeOK, Moves
<1>5. /\ cpuproc' \in [CPUs -> 0..NPROC] /\ run' \in [CPUs -> 0..NPROC]
      /\ scan' \in [CPUs -> Procs] /\ spc' \in [CPUs -> {"top", "loop", "back"}]
  BY Zenon DEF IInv, TypeOK, Moves, cpuVars
<1>6. TypeOK'
  BY <1>4, <1>5, Zenon DEF TypeOK, LockTypes, ProcTypes
<1> QED
  BY <1>1, <1>2, <1>3, <1>6, Zenon DEF IInv

(* and where it does not change hands.                                     *)
LEMMA MoveInv ==
  ASSUME IInv, NEW c \in CPUs, NEW p \in Procs, NEW l \in PCs,
         Moves(c, p, l), OwnStep(p, l), HolderStep(p, l),
         LockTypes', ProcTypes', panicked' = 0
  PROVE  IInv'
BY Zenon, MovesHolderInv, MoveParts
-----------------------------------------------------------------------------
(* What the operations on spin locks do where the checks in them pass.     *)
(* push_off: one level deeper, with interrupts off.                        *)
LEMMA PushOff ==
  ASSUME LockTypes, NEW c \in CPUs, push_off(c), noff[c] \in {0, 1}
  PROVE  /\ noff' \in [CPUs -> 0..2] /\ intena' \in [CPUs -> {0, 1}] /\ intr' \in [CPUs -> {0, 1}]
         /\ noff'[c] = noff[c] + 1 /\ intr'[c] = 0 /\ Elsewhere(c)
BY DEF push_off, LockTypes, Elsewhere

(* pop_off: one level up, with interrupts back on at the outermost.        *)
LEMMA PopOff ==
  ASSUME LockTypes, NEW c \in CPUs, NEW e \in {0, 1}, pop_off(c, e), noff[c] \in {1, 2}
  PROVE  /\ noff' \in [CPUs -> 0..2] /\ intena' \in [CPUs -> {0, 1}] /\ intr' \in [CPUs -> {0, 1}]
         /\ noff'[c] = noff[c] - 1 /\ Elsewhere(c)
         /\ intr'[c] = IF noff[c] = 1 /\ e = 1 THEN 1 ELSE intr[c]
BY DEF pop_off, Popped, Enables, LockTypes, Elsewhere

(* acquire, once it returns: the lock was free and is held.                *)
LEMMA Acquire ==
  ASSUME LockTypes, NEW c \in CPUs, NEW l \in 0..NPROC, acquire(c, l), owner[l] # c
  PROVE  /\ owner' \in [0..NPROC -> CPUs \cup {NoCPU}] /\ panicked' = 0
         /\ owner[l] = NoCPU /\ owner'[l] = c
         /\ \A k \in 0..NPROC \ {l} : owner'[k] = owner[k]
BY Zenon DEF acquire, Takes, LockTypes

(* release by the holder: the lock is free, one level up.                  *)
LEMMA Release ==
  ASSUME LockTypes, NEW c \in CPUs, NEW l \in 0..NPROC, NEW e \in {0, 1}, release(c, l, e),
         owner[l] = c, intr[c] = 0, noff[c] \in {1, 2}
  PROVE  /\ LockTypes' /\ panicked' = 0
         /\ owner'[l] = NoCPU /\ \A k \in 0..NPROC \ {l} : owner'[k] = owner[k]
         /\ noff'[c] = noff[c] - 1 /\ Elsewhere(c)
         /\ intr'[c] = IF noff[c] = 1 /\ e = 1 THEN 1 ELSE 0
<1>1. /\ owner' \in [0..NPROC -> CPUs \cup {NoCPU}] /\ owner'[l] = NoCPU
      /\ \A k \in 0..NPROC \ {l} : owner'[k] = owner[k]
  BY Zenon DEF release, LockTypes
<1>2. panicked' = 0
  BY DEF release, BadRelease
<1>3. pop_off(c, e)
  BY Zenon DEF release
<1> QED
  BY <1>1, <1>2, <1>3, PopOff DEF LockTypes

\* What the invariant says of process p, which CPU c executes: of the process,
Runs(c, p) ==
  /\ run[c] = p /\ Place(c) = pc[p] /\ spc[c] = "back" /\ scan[c] = p
  /\ state[p] = StateOf(pc[p])
  /\ ProcTypes /\ pc \in [Procs -> PCs]

\* and of the CPU and its spin locks.
Holds(c, p) ==
  /\ run[c] = p
  /\ noff[c] = Depth(pc[p]) /\ (intr[c] = 1 => pc[p] \in Open)
  /\ (owner[LK] = c <=> pc[p] \in HasLK) /\ (owner[p] = c <=> pc[p] \in HasOwn)
  /\ c # NoCPU /\ LK \in 0..NPROC /\ \A q \in Procs : q \in 0..NPROC /\ q # LK
  /\ LockTypes /\ panicked = 0

(* A CPU that executes a process executes one of the table, and that one   *)
(* is as its place in the code says.                                       *)
LEMMA Executed ==
  ASSUME IInv, NEW c \in CPUs, run[c] # Nobody
  PROVE  \E p \in Procs : Runs(c, p) /\ Holds(c, p)
<1>1. run[c] \in Procs
  BY DEF IInv, TypeOK, Procs, Nobody
<1>2. Runs(c, run[c]) /\ Holds(c, run[c])
  <2>1. /\ LockTypes /\ ProcTypes /\ pc \in [Procs -> PCs]
        /\ LK \in 0..NPROC /\ \A q \in Procs : q \in 0..NPROC /\ q # LK
    BY NPROCAssumption DEF IInv, TypeOK, LockTypes, ProcTypes, Procs, LK
  <2>2. state[run[c]] = StateOf(pc[run[c]])
    BY <1>1, Zenon DEF IInv, ProcInv, ProcOK
  <2> QED
    BY <1>1, <2>1, <2>2, Zenon, CPUAssumption DEF Runs, Holds, IInv, CpuInv, LockInv, Place
<1> QED
  BY <1>1, <1>2, Zenon

(* The steps of a process that do not give the sleep lock to another.      *)

(* forkret, the first thing a process executes, releases p->lock.          *)
LEMMA ForkretInv ==
  ASSUME IInv, NEW c \in CPUs, NEW p \in Procs, Runs(c, p), Holds(c, p), forkret(c)
  PROVE  IInv'
<1>1. /\ pc[p] = "forkret"
      /\ noff[c] = 1 /\ intr[c] = 0 /\ owner[LK] # c /\ owner[p] = c
  BY Zenon DEF forkret, Holds, LockTypes, Depth, Open, Nested, HasLK, HasOwn
<1>2. /\ LockTypes' /\ panicked' = 0
      /\ owner'[p] = NoCPU /\ \A k \in 0..NPROC \ {p} : owner'[k] = owner[k]
      /\ noff'[c] = 0 /\ Elsewhere(c)
  BY <1>1 DEF forkret, Holds, LockTypes, Elsewhere, Popped, BadRelease
<1>3. Moves(c, p, "run")
  BY <1>2, Zenon DEF forkret, Goto, Holds, Moves, Depth, Open, HasLK, HasOwn
<1>4. OwnStep(p, "run")
  BY Zenon DEF forkret, Runs, OwnStep, StateOf, Trapped
<1>5. HolderStep(p, "run")
  BY <1>1 DEF forkret, Goto, HolderStep, At, Nested
<1>6. ProcTypes'
  BY Zenon DEF forkret, Runs, ProcTypes
<1> QED
  BY <1>2, <1>3, <1>4, <1>5, <1>6, Zenon, MoveInv DEF PCs

(* A timer interrupt starts a yield.                                       *)
LEMMA TimerInv ==
  ASSUME IInv, NEW c \in CPUs, NEW p \in Procs, Runs(c, p), Holds(c, p), timer(c)
  PROVE  IInv'
<1>1. /\ pc[p] \in {"crit", "run", "sl_re"}
      /\ noff[c] = 0 /\ owner[LK] # c /\ owner[p] # c
  BY Zenon DEF timer, Goto, Runs, Holds, LockTypes, Depth, Open, Nested, HasLK, HasOwn, PCs
<1>2. /\ LockTypes' /\ panicked' = 0 /\ owner' = owner
      /\ noff'[c] = 1 /\ intr'[c] = 0 /\ intena'[c] = 0 /\ Elsewhere(c)
  BY <1>1 DEF timer, Holds, LockTypes, Elsewhere
<1>3. Moves(c, p, "y_spin")
  BY <1>2 DEF timer, Goto, Holds, Moves, Depth, Open, HasLK, HasOwn, Nested
<1>4. OwnStep(p, "y_spin")
  BY <1>1, Zenon DEF timer, Runs, OwnStep, ProcTypes, StateOf
<1>5. HolderStep(p, "y_spin")
  BY <1>1, Zenon DEF timer, Goto, Runs, HolderStep, ProcTypes, At, Nested
<1>6. ProcTypes'
  BY Zenon DEF timer, Runs, ProcTypes
<1> QED
  BY <1>2, <1>3, <1>4, <1>5, <1>6, Zenon, MoveInv DEF PCs

(* yield makes the process runnable under its p->lock.                     *)
LEMMA YieldInv ==
  ASSUME IInv, NEW c \in CPUs, NEW p \in Procs, Runs(c, p), Holds(c, p), yield(c)
  PROVE  IInv'
<1>1. /\ pc[p] = "y_spin"
      /\ noff[c] = 1 /\ intr[c] = 0 /\ owner[LK] # c /\ owner[p] # c
  BY Zenon DEF yield, Holds, LockTypes, Depth, Open, Nested, HasLK, HasOwn
<1>2. /\ LockTypes' /\ panicked' = 0 /\ owner[p] = NoCPU /\ owner'[p] = c
      /\ \A k \in 0..NPROC \ {p} : owner'[k] = owner[k]
      /\ noff'[c] = 1 /\ intr'[c] = 0 /\ intena'[c] = 0 /\ Elsewhere(c)
  BY <1>1, Zenon DEF yield, Runs, Holds, LockTypes, Elsewhere, Takes, IInv, CpuInv
<1>3. Moves(c, p, "y_sched")
  BY <1>2, Zenon DEF yield, Goto, Holds, Moves, Depth, Open, HasLK, HasOwn, Nested
<1>4. OwnStep(p, "y_sched")
  BY DEF yield, Runs, OwnStep, ProcTypes, StateOf, Trapped, IInv, ProcInv, ProcOK
<1>5. HolderStep(p, "y_sched")
  BY <1>1 DEF yield, Goto, HolderStep, At, Nested
<1>6. ProcTypes'
  BY Zenon DEF yield, Runs, ProcTypes
<1> QED
  BY <1>2, <1>3, <1>4, <1>5, <1>6, Zenon, MoveInv DEF PCs

(* yield releases p->lock when the process is executed again.              *)
LEMMA YieldResumeInv ==
  ASSUME IInv, NEW c \in CPUs, NEW p \in Procs, Runs(c, p), Holds(c, p), yield_resume(c)
  PROVE  IInv'
<1>1. /\ pc[p] = "y_wake"
      /\ noff[c] = 1 /\ intr[c] = 0 /\ owner[LK] # c /\ owner[p] = c /\ save[p] \in {0, 1}
  BY Zenon DEF yield_resume, Runs, Holds, LockTypes, Depth, Open, Nested, HasLK, HasOwn,
     ProcTypes
<1>2. save[p] = 0
  BY <1>1, Zenon DEF IInv, ProcInv, ProcOK
<1>3. /\ LockTypes' /\ panicked' = 0
      /\ owner'[p] = NoCPU /\ \A k \in 0..NPROC \ {p} : owner'[k] = owner[k]
      /\ noff'[c] = noff[c] - 1 /\ Elsewhere(c)
      /\ intr'[c] = IF noff[c] = 1 /\ save[p] = 1 THEN 1 ELSE 0
  BY <1>1, Release DEF yield_resume, Holds
<1>4. Moves(c, p, "iret")
  BY <1>1, <1>2, <1>3 DEF yield_resume, Goto, Holds, Moves, Depth, HasLK, HasOwn
<1>5. OwnStep(p, "iret")
  BY DEF yield_resume, Runs, OwnStep, StateOf, Trapped, IInv, ProcInv, ProcOK
<1>6. HolderStep(p, "iret")
  BY <1>1 DEF yield_resume, Goto, HolderStep, At, Nested
<1>7. ProcTypes'
  BY Zenon DEF yield_resume, Runs, ProcTypes
<1> QED
  BY <1>3, <1>4, <1>5, <1>6, <1>7, Zenon, MoveInv DEF PCs

(* The trap returns to where the timer interrupted.                        *)
LEMMA KernelTrapReturnInv ==
  ASSUME IInv, NEW c \in CPUs, NEW p \in Procs, Runs(c, p), Holds(c, p), kerneltrap_return(c)
  PROVE  IInv'
<1>1. /\ pc[p] = "iret"
      /\ noff[c] = 0 /\ intr[c] = 0 /\ owner[LK] # c /\ owner[p] # c
  BY Zenon DEF kerneltrap_return, Holds, LockTypes, Depth, Open, HasLK, HasOwn
<1>2. ret[p] \in {"crit", "run", "sl_re"}
  BY <1>1, Zenon DEF IInv, ProcInv, ProcOK, Trapped
<1>3. /\ LockTypes' /\ panicked' = 0 /\ owner' = owner
      /\ noff'[c] = 0 /\ Elsewhere(c)
  BY <1>1, Zenon DEF kerneltrap_return, Holds, LockTypes, Elsewhere
<1>4. Moves(c, p, ret[p])
  BY <1>2, <1>3, Zenon DEF kerneltrap_return, Goto, Holds, Moves, Depth, Open, HasLK, HasOwn
<1>5. OwnStep(p, ret[p])
  BY <1>2 DEF kerneltrap_return, Runs, OwnStep, StateOf
<1>6. HolderStep(p, ret[p])
  BY <1>1, <1>2 DEF kerneltrap_return, Goto, HolderStep, At, Nested
<1>7. ProcTypes'
  BY Zenon DEF kerneltrap_return, Runs, ProcTypes, PCs
<1> QED
  BY <1>3, <1>4, <1>5, <1>6, <1>7, <1>2, Zenon, MoveInv DEF PCs

(* acquiresleep starts to acquire the spin lock of the sleep lock,         *)
LEMMA AcquireSleepInv ==
  ASSUME IInv, NEW c \in CPUs, NEW p \in Procs, Runs(c, p), Holds(c, p), acquiresleep(c)
  PROVE  IInv'
<1>1. /\ pc[p] \in {"run", "sl_re"}
      /\ noff[c] = 0 /\ owner[LK] # c /\ owner[p] # c
  BY Zenon DEF acquiresleep, Holds, Depth, Open, HasLK, HasOwn
<1>2. /\ LockTypes' /\ panicked' = 0 /\ owner' = owner
      /\ noff'[c] = noff[c] + 1 /\ intr'[c] = 0 /\ Elsewhere(c)
  BY <1>1, Zenon, PushOff DEF acquiresleep, Holds, LockTypes
<1>3. Moves(c, p, "as_spin")
  BY <1>2 DEF acquiresleep, Goto, Holds, Moves, Depth, Open, HasLK, HasOwn, Nested
<1>4. OwnStep(p, "as_spin")
  BY Zenon DEF acquiresleep, Runs, OwnStep, StateOf, Trapped
<1>5. HolderStep(p, "as_spin")
  BY <1>1 DEF acquiresleep, Goto, HolderStep, At, Nested
<1>6. ProcTypes'
  BY Zenon DEF acquiresleep, Runs, ProcTypes
<1> QED
  BY <1>2, <1>3, <1>4, <1>5, <1>6, Zenon, MoveInv DEF PCs

(* has acquired it,                                                        *)
LEMMA AcquireSleepLockedInv ==
  ASSUME IInv, NEW c \in CPUs, NEW p \in Procs, Runs(c, p), Holds(c, p), acquiresleep_locked(c)
  PROVE  IInv'
<1>1. /\ pc[p] = "as_spin"
      /\ noff[c] = 1 /\ intr[c] = 0 /\ owner[LK] # c /\ owner[p] # c
  BY Zenon DEF acquiresleep_locked, Holds, LockTypes, Depth, Open, Nested, HasLK, HasOwn
<1>2. /\ LockTypes' /\ panicked' = 0 /\ owner[LK] = NoCPU /\ owner'[LK] = c
      /\ \A k \in 0..NPROC \ {LK} : owner'[k] = owner[k]
      /\ noff'[c] = noff[c] /\ intr'[c] = 0 /\ intena' = intena /\ Elsewhere(c)
  BY <1>1, Acquire DEF acquiresleep_locked, Holds, LockTypes, Elsewhere
<1>3. Moves(c, p, "as_test")
  BY <1>2, Zenon DEF acquiresleep_locked, Goto, Holds, Moves, Takes, Depth, Open, HasLK,
     HasOwn, Nested
<1>4. OwnStep(p, "as_test")
  BY Zenon DEF acquiresleep_locked, Runs, OwnStep, StateOf, Trapped
<1>5. HolderStep(p, "as_test")
  BY <1>1 DEF acquiresleep_locked, Goto, HolderStep, At, Nested
<1>6. ProcTypes'
  BY Zenon DEF acquiresleep_locked, Runs, ProcTypes
<1> QED
  BY <1>2, <1>3, <1>4, <1>5, <1>6, Zenon, MoveInv DEF PCs

(* and calls sleep when the sleep lock is taken.                           *)
LEMMA AcquireSleepWaitInv ==
  ASSUME IInv, NEW c \in CPUs, NEW p \in Procs, Runs(c, p), Holds(c, p), acquiresleep_wait(c)
  PROVE  IInv'
<1>1. /\ pc[p] = "as_test"
      /\ noff[c] = 1 /\ intr[c] = 0 /\ owner[LK] = c /\ owner[p] # c
  BY Zenon DEF acquiresleep_wait, Holds, LockTypes, Depth, Open, Nested, HasLK, HasOwn
<1>2. /\ LockTypes' /\ panicked' = 0 /\ owner' = owner
      /\ noff'[c] = noff[c] + 1 /\ intr'[c] = 0 /\ Elsewhere(c)
  BY <1>1, Zenon, PushOff DEF acquiresleep_wait, Holds, LockTypes
<1>3. Moves(c, p, "sl_spin")
  BY <1>2 DEF acquiresleep_wait, Goto, Holds, Moves, Takes, Depth, Open, HasLK, HasOwn, Nested
<1>4. OwnStep(p, "sl_spin")
  BY Zenon DEF acquiresleep_wait, Runs, OwnStep, StateOf, Trapped
<1>5. HolderStep(p, "sl_spin")
  BY DEF acquiresleep_wait, Goto, HolderStep, At
<1>6. ProcTypes'
  BY Zenon DEF acquiresleep_wait, Runs, ProcTypes
<1> QED
  BY <1>2, <1>3, <1>4, <1>5, <1>6, Zenon, MoveInv DEF PCs

(* sleep has acquired p->lock as well,                                     *)
LEMMA SleepLockedInv ==
  ASSUME IInv, NEW c \in CPUs, NEW p \in Procs, Runs(c, p), Holds(c, p), sleep_locked(c)
  PROVE  IInv'
<1>1. /\ pc[p] = "sl_spin"
      /\ noff[c] = 2 /\ intr[c] = 0 /\ owner[LK] = c /\ owner[p] # c
  BY Zenon DEF sleep_locked, Holds, LockTypes, Depth, Open, Nested, HasLK, HasOwn
<1>2. /\ LockTypes' /\ panicked' = 0 /\ owner[p] = NoCPU /\ owner'[p] = c
      /\ \A k \in 0..NPROC \ {p} : owner'[k] = owner[k]
      /\ noff'[c] = noff[c] /\ intr'[c] = 0 /\ intena' = intena /\ Elsewhere(c)
  BY <1>1, Acquire DEF sleep_locked, Holds, LockTypes, Elsewhere
<1>3. Moves(c, p, "sl_go")
  BY <1>2, Zenon DEF sleep_locked, Goto, Holds, Moves, Takes, Depth, Open, HasLK, HasOwn,
     Nested
<1>4. OwnStep(p, "sl_go")
  BY Zenon DEF sleep_locked, Runs, OwnStep, StateOf, Trapped
<1>5. HolderStep(p, "sl_go")
  BY <1>1 DEF sleep_locked, Goto, HolderStep, At, Nested, IInv, HolderInv, HolderOK
<1>6. ProcTypes'
  BY Zenon DEF sleep_locked, Runs, ProcTypes
<1> QED
  BY <1>2, <1>3, <1>4, <1>5, <1>6, Zenon, MoveInv DEF PCs

(* so it may release the spin lock and mark the process asleep.            *)
LEMMA SleepInv ==
  ASSUME IInv, NEW c \in CPUs, NEW p \in Procs, Runs(c, p), Holds(c, p), sleep(c)
  PROVE  IInv'
<1>1. /\ pc[p] = "sl_go"
      /\ noff[c] = 2 /\ intr[c] = 0 /\ owner[LK] = c /\ owner[p] = c /\ intena[c] \in {0, 1}
  BY Zenon DEF sleep, Holds, LockTypes, Depth, Open, Nested, HasLK, HasOwn
<1>2. /\ LockTypes' /\ panicked' = 0
      /\ owner'[LK] = NoCPU /\ \A k \in 0..NPROC \ {LK} : owner'[k] = owner[k]
      /\ noff'[c] = noff[c] - 1 /\ Elsewhere(c)
      /\ intr'[c] = IF noff[c] = 1 /\ intena[c] = 1 THEN 1 ELSE 0
  BY <1>1, Release DEF sleep, Holds
<1>3. Moves(c, p, "sl_sched")
  BY <1>2 DEF sleep, Goto, Holds, Moves, Takes, Depth, Open, HasLK, HasOwn, Nested
<1>4. OwnStep(p, "sl_sched")
  BY Zenon DEF sleep, Runs, OwnStep, ProcTypes, StateOf, Trapped
<1>5. HolderStep(p, "sl_sched")
  BY <1>1 DEF sleep, Goto, HolderStep, At, Nested, IInv, HolderInv, HolderOK
<1>6. ProcTypes'
  BY Zenon DEF sleep, Runs, ProcTypes
<1> QED
  BY <1>2, <1>3, <1>4, <1>5, <1>6, Zenon, MoveInv DEF PCs

(* sleep releases p->lock when the process is executed again.              *)
LEMMA SleepResumeInv ==
  ASSUME IInv, NEW c \in CPUs, NEW p \in Procs, Runs(c, p), Holds(c, p), sleep_resume(c)
  PROVE  IInv'
<1>1. /\ pc[p] = "sl_wake"
      /\ noff[c] = 1 /\ intr[c] = 0 /\ owner[LK] # c /\ owner[p] = c /\ save[p] \in {0, 1}
  BY Zenon DEF sleep_resume, Runs, Holds, LockTypes, Depth, Open, Nested, HasLK, HasOwn,
     ProcTypes
<1>2. /\ LockTypes' /\ panicked' = 0
      /\ owner'[p] = NoCPU /\ \A k \in 0..NPROC \ {p} : owner'[k] = owner[k]
      /\ noff'[c] = noff[c] - 1 /\ Elsewhere(c)
      /\ intr'[c] = IF noff[c] = 1 /\ save[p] = 1 THEN 1 ELSE 0
  BY <1>1, Release DEF sleep_resume, Holds
<1>3. Moves(c, p, "sl_re")
  BY <1>1, <1>2 DEF sleep_resume, Goto, Holds, Moves, Depth, Open, HasLK, HasOwn
<1>4. OwnStep(p, "sl_re")
  BY DEF sleep_resume, Runs, OwnStep, StateOf, Trapped
<1>5. HolderStep(p, "sl_re")
  BY <1>1 DEF sleep_resume, Goto, HolderStep, At, Nested
<1>6. ProcTypes'
  BY Zenon DEF sleep_resume, Runs, ProcTypes
<1> QED
  BY <1>2, <1>3, <1>4, <1>5, <1>6, Zenon, MoveInv DEF PCs

(* releasesleep starts to acquire the spin lock.                           *)
LEMMA ReleaseSleepInv ==
  ASSUME IInv, NEW c \in CPUs, NEW p \in Procs, Runs(c, p), Holds(c, p), releasesleep(c)
  PROVE  IInv'
<1>1. /\ pc[p] = "crit"
      /\ noff[c] = 0 /\ owner[LK] # c /\ owner[p] # c
  BY Zenon DEF releasesleep, Holds, Depth, Open, HasLK, HasOwn
<1>2. /\ LockTypes' /\ panicked' = 0 /\ owner' = owner
      /\ noff'[c] = noff[c] + 1 /\ intr'[c] = 0 /\ Elsewhere(c)
  BY <1>1, Zenon, PushOff DEF releasesleep, Holds, LockTypes
<1>3. Moves(c, p, "rs_spin")
  BY <1>2 DEF releasesleep, Goto, Holds, Moves, Depth, Open, HasLK, HasOwn, Nested
<1>4. OwnStep(p, "rs_spin")
  BY Zenon DEF releasesleep, Runs, OwnStep, StateOf, Trapped
<1>5. HolderStep(p, "rs_spin")
  BY <1>1, Zenon DEF releasesleep, HolderStep, At, Nested
<1>6. ProcTypes'
  BY Zenon DEF releasesleep, Runs, ProcTypes
<1> QED
  BY <1>2, <1>3, <1>4, <1>5, <1>6, Zenon, MoveInv DEF PCs

(* The steps that give the sleep lock away, or depend on who is inside.    *)

(* A process inside the spin lock of the sleep lock is executed by the CPU *)
(* that holds it.                                                          *)
LEMMA InsideLK ==
  ASSUME IInv, NEW r \in Procs, pc[r] \in HasLK
  PROVE  owner[LK] \in CPUs /\ run[owner[LK]] = r
<1>1. PICK d \in CPUs : run[d] = r
  BY Zenon DEF IInv, ProcInv, ProcOK, HasLK
<1>2. Place(d) = pc[r]
  BY <1>1 DEF Place, Procs, Nobody
<1> QED
  BY <1>1, <1>2 DEF IInv, LockInv

(* acquiresleep takes the free sleep lock.                                 *)
LEMMA AcquireSleepTakeInv ==
  ASSUME IInv, NEW c \in CPUs, NEW p \in Procs, Runs(c, p), Holds(c, p), acquiresleep_take(c)
  PROVE  IInv'
<1>1. /\ pc[p] = "as_test"
      /\ noff[c] = 1 /\ intr[c] = 0 /\ owner[LK] = c /\ owner[p] # c /\ intena[c] \in {0, 1}
  BY Zenon DEF acquiresleep_take, Holds, LockTypes, Depth, Open, Nested, HasLK, HasOwn
<1>2. /\ LockTypes' /\ panicked' = 0
      /\ owner'[LK] = NoCPU /\ \A k \in 0..NPROC \ {LK} : owner'[k] = owner[k]
      /\ noff'[c] = noff[c] - 1 /\ Elsewhere(c)
      /\ intr'[c] = IF noff[c] = 1 /\ intena[c] = 1 THEN 1 ELSE 0
  BY <1>1, Release DEF acquiresleep_take, Holds
<1>3. Moves(c, p, "crit")
  BY <1>1, <1>2 DEF acquiresleep_take, Goto, Holds, Moves, Depth, Open, HasLK, HasOwn
<1>4. OwnStep(p, "crit")
  BY Zenon DEF acquiresleep_take, Runs, OwnStep, StateOf, Trapped
<1>5. ProcTypes'
  BY Zenon DEF acquiresleep_take, Runs, Holds, ProcTypes, Taken
<1>6. ASSUME NEW q \in Procs PROVE HolderOK(q)'
  <2>1. holder' = p /\ p # Nobody /\ pc'[p] = "crit"
    BY Zenon DEF acquiresleep_take, Goto, Runs, Taken
  <2>2. CASE q # p
    <3>1. At(q) \notin {"crit", "rs_spin"}
      BY DEF acquiresleep_take, IInv, HolderInv, HolderOK, Nobody, Procs
    <3>2. At(q)' = At(q)
      BY <2>2 DEF acquiresleep_take, Goto, At, Holds
    <3> QED
      BY <2>1, <3>1, <3>2, Zenon DEF HolderOK
  <2> QED
    BY <2>1, <2>2, Zenon DEF HolderOK
<1> QED
  BY <1>2, <1>3, <1>4, <1>5, <1>6, Zenon, MoveParts DEF PCs, HolderInv

(* releasesleep frees it: nobody is between the test of it and sleep,      *)
(* because that takes the spin lock.                                       *)
LEMMA ReleaseSleepLockedInv ==
  ASSUME IInv, NEW c \in CPUs, NEW p \in Procs, Runs(c, p), Holds(c, p), releasesleep_locked(c)
  PROVE  IInv'
<1>1. /\ pc[p] = "rs_spin"
      /\ noff[c] = 1 /\ intr[c] = 0 /\ owner[LK] # c /\ owner[p] # c
  BY Zenon DEF releasesleep_locked, Holds, LockTypes, Depth, Open, Nested, HasLK, HasOwn
<1>2. /\ LockTypes' /\ panicked' = 0 /\ owner[LK] = NoCPU /\ owner'[LK] = c
      /\ \A k \in 0..NPROC \ {LK} : owner'[k] = owner[k]
      /\ noff'[c] = noff[c] /\ intr'[c] = 0 /\ intena' = intena /\ Elsewhere(c)
  BY <1>1, Acquire DEF releasesleep_locked, Holds, LockTypes, Elsewhere
<1>3. Moves(c, p, "wk")
  BY <1>2, Zenon DEF releasesleep_locked, Goto, Holds, Moves, Takes, Depth, Open, HasLK,
     HasOwn, Nested
<1>4. OwnStep(p, "wk")
  BY DEF releasesleep_locked, Runs, OwnStep, ProcTypes, StateOf, Trapped
<1>5. ProcTypes'
  BY NPROCAssumption DEF releasesleep_locked, Runs, ProcTypes, Nobody
<1>6. ASSUME NEW q \in Procs PROVE HolderOK(q)'
  <2>1. holder' = Nobody /\ pc'[p] = "wk" /\ wk'[p] = 1 /\ q >= 1
    BY DEF releasesleep_locked, Goto, Runs, ProcTypes, Procs
  <2>2. ~(At(q)' \in {"crit", "rs_spin"})
    <3>1. holder = p
      BY <1>1, Zenon DEF IInv, HolderInv, HolderOK, At
    <3>2. CASE q # p
      BY <3>1, <3>2 DEF releasesleep_locked, Goto, IInv, HolderInv, HolderOK, At
    <3>3. CASE q = p
      BY <2>1, <3>3, Zenon DEF At
    <3> QED
      BY <3>2, <3>3, Zenon
  <2>3. pc'[q] \notin Nested
    <3>1. pc[q] \notin Nested
      BY <1>2, Zenon, InsideLK, CPUAssumption DEF Nested, HasLK
    <3> QED
      BY <3>1 DEF releasesleep_locked, Goto, Nested
  <2> QED
    BY <2>1, <2>2, <2>3, Zenon DEF HolderOK
<1> QED
  BY <1>2, <1>3, <1>4, <1>5, <1>6, Zenon, MoveParts DEF PCs, HolderInv

(* The end of wakeup's loop: it has passed every sleeper.                  *)
LEMMA ReleaseSleepDoneInv ==
  ASSUME IInv, NEW c \in CPUs, NEW p \in Procs, Runs(c, p), Holds(c, p), releasesleep_done(c)
  PROVE  IInv'
<1>1. /\ pc[p] = "wk"
      /\ noff[c] = 1 /\ intr[c] = 0 /\ owner[LK] = c /\ owner[p] # c /\ intena[c] \in {0, 1}
  BY Zenon DEF releasesleep_done, Holds, LockTypes, Depth, Open, Nested, HasLK, HasOwn
<1>2. /\ LockTypes' /\ panicked' = 0
      /\ owner'[LK] = NoCPU /\ \A k \in 0..NPROC \ {LK} : owner'[k] = owner[k]
      /\ noff'[c] = noff[c] - 1 /\ Elsewhere(c)
      /\ intr'[c] = IF noff[c] = 1 /\ intena[c] = 1 THEN 1 ELSE 0
  BY <1>1, Release DEF releasesleep_done, Holds
<1>3. Moves(c, p, "run")
  BY <1>1, <1>2 DEF releasesleep_done, Goto, Holds, Moves, Depth, Open, HasLK, HasOwn
<1>4. OwnStep(p, "run")
  BY DEF releasesleep_done, Runs, OwnStep, StateOf, Trapped
<1>5. ProcTypes'
  BY NPROCAssumption DEF releasesleep_done, Runs, ProcTypes
<1>6. HolderStep(p, "run")
  <2>1. ASSUME NEW q \in Procs, state[q] = "SLEEPING", holder = Nobody
        PROVE  FALSE
    <3>1. PICK r \in Procs : pc[r] = "wk" /\ wk[r] <= q
      BY <2>1, Zenon DEF IInv, HolderInv, HolderOK
    <3>2. r = p
      BY <1>1, <3>1, Zenon, InsideLK DEF Holds
    <3> QED
      BY <3>1, <3>2, NPROCAssumption DEF releasesleep_done, WakeupEnd, Holds
  <2> QED
    BY <2>1 DEF releasesleep_done, Goto, HolderStep, At, Nested
<1> QED
  BY <1>2, <1>3, <1>4, <1>5, <1>6, Zenon, MoveInv DEF PCs
-----------------------------------------------------------------------------
(* wakeup makes a sleeper runnable under its p->lock, so no CPU is still   *)
(* putting it to sleep.                                                    *)
LEMMA WakeupInv ==
  ASSUME IInv, NEW c \in CPUs, NEW p \in Procs, Runs(c, p), Holds(c, p), wakeup(c)
  PROVE  IInv'
<1>1. PICK q \in Procs : q = wk[p]
  <2>1. pc[p] = "wk" /\ wk[p] \in 0..NPROC + 1 /\ wk[p] <= NPROC
    BY Zenon DEF wakeup, Runs, ProcTypes, WakeupEnd
  <2>2. wk[p] >= 1
    BY <2>1, Zenon DEF IInv, ProcInv, ProcOK
  <2> QED
    BY <2>1, <2>2 DEF Procs
<1>2. pc[p] = "wk" /\ state[p] = "RUNNING" /\ owner[LK] = c
  BY Zenon DEF wakeup, Runs, Holds, StateOf, HasLK
<1>3. ASSUME q # p PROVE owner[q] = NoCPU
  <2>1. owner[q] # c
    BY <1>3, Zenon DEF IInv, LockInv, Runs
  <2> QED
    BY <1>1, <1>3, <2>1, Zenon DEF wakeup, Takes, Holds
<1>4. panicked' = 0
  BY <1>1, <1>3, Zenon DEF wakeup, Holds
<1>5. /\ wk'[p] = q + 1 /\ \A r \in Procs \ {p} : wk'[r] = wk[r]
      /\ wk' \in [Procs -> 0..(NPROC + 1)]
  BY <1>1, NPROCAssumption DEF wakeup, Runs, ProcTypes, Procs
<1>6. /\ \A r \in Procs \ {q} : state'[r] = state[r]
      /\ state'[q] = IF q # p /\ state[q] = "SLEEPING" /\ chan[q] = 1 THEN "RUNNABLE" ELSE state[q]
      /\ state' \in [Procs -> {"RUNNABLE", "RUNNING", "SLEEPING"}]
  BY <1>1, Zenon DEF wakeup, Runs, ProcTypes
<1>7. UNCHANGED <<lockVars, cpuVars, chan, pc, ret, save, holder>>
  BY Zenon DEF wakeup
<1>8. TypeOK' /\ CpuInv' /\ LockInv' /\ OneCPU'
  <2>1. TypeOK'
    BY <1>4, <1>5, <1>6, <1>7, Zenon DEF IInv, TypeOK, lockVars, cpuVars
  <2>2. \A d \in CPUs : Place(d)' = Place(d)
    BY <1>7, Zenon DEF Place, cpuVars
  <2>3. CpuInv'
    BY <1>7, <2>2, Zenon DEF IInv, CpuInv, lockVars, cpuVars
  <2>4. LockInv' /\ OneCPU'
    BY <1>7, <2>2 DEF IInv, LockInv, OneCPU, lockVars, cpuVars
  <2> QED
    BY <2>1, <2>3, <2>4, Zenon
<1>9. ASSUME NEW r \in Procs PROVE ProcOK(r)'
  <2>1. ProcOK(r)
    BY Zenon DEF IInv, ProcInv
  <2>2. CASE state'[r] = state[r]
    BY <1>5, <1>7, <2>1, <2>2 DEF ProcOK, cpuVars, Procs
  <2>3. CASE state'[r] # state[r]
    <3>1. r = q /\ q # p /\ state[q] = "SLEEPING" /\ state'[q] = "RUNNABLE"
      BY <1>6, <2>3, Zenon
    <3>2. ASSUME NEW d \in CPUs, run[d] = q PROVE FALSE
      <4>1. pc[q] = "sl_sched" /\ owner[q] = NoCPU
        BY <1>3, <2>1, <3>1, <3>2, Zenon DEF ProcOK, StateOf
      <4>2. Place(d) = pc[q] /\ spc[d] = "back" /\ scan[d] = q
        BY <3>2 DEF IInv, CpuInv, Place, Procs, Nobody
      <4> QED
        BY <4>1, <4>2, CPUAssumption DEF IInv, LockInv, HasOwn
    <3> QED
      BY <1>7, <2>1, <3>1, <3>2, Zenon DEF ProcOK, cpuVars
  <2> QED
    BY <2>2, <2>3, Zenon
<1>10. ASSUME NEW r \in Procs PROVE HolderOK(r)'
  <2>1. HolderOK(r) /\ ProcOK(r)
    BY Zenon DEF IInv, ProcInv, HolderInv
  <2>2. At(r)' = At(r)
    BY <1>7, Zenon DEF At
  <2>3. ASSUME state'[r] = "SLEEPING", holder = Nobody
        PROVE  pc'[p] = "wk" /\ wk'[p] <= r
    <3>1. state[r] = "SLEEPING" /\ r # q
      BY <1>2, <1>6, <2>1, <2>3, Zenon DEF ProcOK
    <3>2. PICK s \in Procs : pc[s] = "wk" /\ wk[s] <= r
      BY <2>1, <2>3, <3>1, Zenon DEF HolderOK
    <3>3. s = p
      BY <1>2, <3>2, Zenon, InsideLK DEF Holds
    <3> QED
      BY <1>1, <1>5, <1>7, <3>1, <3>2, <3>3 DEF Procs
  <2> QED
    BY <1>7, <2>1, <2>2, <2>3, Zenon DEF HolderOK
<1> QED
  BY <1>4, <1>8, <1>9, <1>10, Zenon DEF IInv, ProcInv, HolderInv
=============================================================================
