------------------------------- MODULE Sched --------------------------------
(***************************************************************************)
(* Processes on several CPUs: the scheduler threads, sleep and wakeup      *)
(* (proc.c), spin locks with their interrupt bookkeeping (spinlock.c),     *)
(* timer preemption (trap.c), and a sleep lock (sleeplock.c) as the code   *)
(* that sleeps and wakes.                                                  *)
(*                                                                         *)
(* An action runs from one acquisition of a spin lock to the next.  The    *)
(* state and the channel of a process are touched under its p->lock only,  *)
(* so "acquire p->lock, look, release" is one action.                      *)
(***************************************************************************)
EXTENDS Integers, FiniteSets

CONSTANTS CPUs, NoCPU, NPROC

ASSUME CPUAssumption == NoCPU \notin CPUs
ASSUME NPROCAssumption == NPROC \in Nat \ {0}

Procs == 1..NPROC
Nobody == 0         \* c->proc = 0, the scheduler's own context; lk->pid = 0
LK == 0             \* the spin lock inside the sleep lock; p names p->lock

VARIABLES
  owner,     \* spin lock -> the CPU that holds it, or NoCPU
  noff,      \* CPU -> depth of push_off nesting
  intena,    \* CPU -> were interrupts enabled before push_off?
  intr,      \* CPU -> are interrupts enabled (SSTATUS.SIE)?
  cpuproc,   \* CPU -> c->proc
  run,       \* CPU -> the context it executes: a process or its scheduler
  scan,      \* CPU -> the scheduler's loop variable
  spc,       \* CPU -> where the scheduler is
  state,     \* process -> p->state
  chan,      \* process -> is p->chan set to the sleep lock?
  pc,        \* process -> where it is
  ret,       \* process -> where the timer interrupted it
  save,      \* process -> the local variable intena of sched
  wk,        \* process -> wakeup's loop variable
  holder,    \* the process holding the sleep lock (locked and pid)
  panicked

lockVars == <<owner, noff, intena, intr>>
cpuVars == <<cpuproc, run, scan, spc>>
procVars == <<state, chan, pc, ret, save, wk>>
vars == <<lockVars, cpuVars, procVars, holder, panicked>>

PCs == {"forkret", "run", "as_spin", "as_test", "crit", "sl_spin", "sl_go",
        "sl_sched", "sl_wake", "sl_re", "y_spin", "y_sched", "y_wake", "iret",
        "rs_spin", "wk"}

Goto(p, l) == pc' = [pc EXCEPT ![p] = l]
-----------------------------------------------------------------------------
(* Faulty variants of the definitions below, kept for the sensitivity      *)
(* checks of the properties; no specification uses them.                   *)

\* wakeup does not look at the last process.
WakeupEnd_Short == NPROC - 1

\* The scheduler forgets c->proc = 0.
AfterSwitch_Stale(c) == cpuproc

\* pop_off enables interrupts although an outer lock is still held.
Enables_Inner(c, e) == e = 1
-----------------------------------------------------------------------------
(* spinlock.c                                                              *)

push_off(c) ==
  /\ noff' = [noff EXCEPT ![c] = @ + 1]
  /\ intena' = IF noff[c] = 0 THEN [intena EXCEPT ![c] = intr[c]] ELSE intena
  /\ intr' = [intr EXCEPT ![c] = 0]

\* The outermost pop_off restores what the outermost push_off found.
Enables(c, e) == noff[c] = 1 /\ e = 1

Popped(c) == [noff EXCEPT ![c] = @ - 1]

\* e is the value of c->intena that pop_off finds.
pop_off(c, e) ==
  /\ noff' = Popped(c)
  /\ intena' = [intena EXCEPT ![c] = e]
  /\ intr' = IF Enables(c, e) THEN [intr EXCEPT ![c] = 1] ELSE intr

\* The test-and-set succeeds, or the CPU finds that it holds l already.
Takes(c, l) == owner[l] \in {NoCPU, c}

acquire(c, l) ==
  /\ Takes(c, l)
  /\ owner' = [owner EXCEPT ![l] = c]
  /\ panicked' = IF owner[l] = c THEN 1 ELSE 0

\* release's and pop_off's checks fail.
BadRelease(c, l) == owner[l] # c \/ intr[c] = 1 \/ noff[c] < 1

release(c, l, e) ==
  /\ owner' = [owner EXCEPT ![l] = NoCPU]
  /\ pop_off(c, e)
  /\ panicked' = IF BadRelease(c, l) THEN 1 ELSE 0
-----------------------------------------------------------------------------
(* scheduler, one per CPU                                                  *)

Next_p(c) == IF scan[c] = NPROC
               THEN scan' = [scan EXCEPT ![c] = 1] /\ spc' = [spc EXCEPT ![c] = "top"]
               ELSE scan' = [scan EXCEPT ![c] = @ + 1] /\ spc' = [spc EXCEPT ![c] = "loop"]

\* The head of the for(;;) loop.  wfi only delays it until an interrupt.
scheduler_top(c) ==
  /\ run[c] = Nobody /\ spc[c] = "top"
  /\ intr' = [intr EXCEPT ![c] = 1]
  /\ spc' = [spc EXCEPT ![c] = "loop"]
  /\ UNCHANGED <<owner, noff, intena, cpuproc, run, scan, procVars, holder, panicked>>

Runnable(p) == state[p] = "RUNNABLE"

scheduler_skip(c) ==
  LET p == scan[c] IN
  /\ run[c] = Nobody /\ spc[c] = "loop"
  /\ Takes(c, p) /\ ~Runnable(p)
  /\ panicked' = IF owner[p] = c THEN 1 ELSE 0
  /\ Next_p(c)
  /\ UNCHANGED <<lockVars, cpuproc, run, procVars, holder>>

scheduler_switch(c) ==
  LET p == scan[c] IN
  /\ run[c] = Nobody /\ spc[c] = "loop"
  /\ Runnable(p)
  /\ acquire(c, p) /\ push_off(c)
  /\ state' = [state EXCEPT ![p] = "RUNNING"]
  /\ cpuproc' = [cpuproc EXCEPT ![c] = p]
  /\ run' = [run EXCEPT ![c] = p]
  /\ spc' = [spc EXCEPT ![c] = "back"]
  /\ UNCHANGED <<scan, chan, pc, ret, save, wk, holder>>

AfterSwitch(c) == [cpuproc EXCEPT ![c] = Nobody]

\* The process has switched back.
scheduler_back(c) ==
  /\ run[c] = Nobody /\ spc[c] = "back"
  /\ cpuproc' = AfterSwitch(c)
  /\ release(c, scan[c], intena[c])
  /\ Next_p(c)
  /\ UNCHANGED <<run, procVars, holder>>
-----------------------------------------------------------------------------
(* Processes.  p = run[c] throughout.                                      *)

SavedIntena(c) == intena[c]

\* sched: the checks, then swtch to the scheduler.
sched(c) ==
  LET p == run[c] IN
  /\ p # Nobody /\ pc[p] \in {"sl_sched", "y_sched"}
  /\ panicked' = IF owner[p] # c \/ noff[c] # 1 \/ state[p] = "RUNNING" \/ intr[c] = 1
                   THEN 1 ELSE 0
  /\ save' = [save EXCEPT ![p] = SavedIntena(c)]
  /\ Goto(p, IF pc[p] = "sl_sched" THEN "sl_wake" ELSE "y_wake")
  /\ run' = [run EXCEPT ![c] = Nobody]
  /\ UNCHANGED <<lockVars, cpuproc, scan, spc, state, chan, ret, wk, holder>>

\* A new process starts here, with its p->lock held by the scheduler.
forkret(c) ==
  LET p == run[c] IN
  /\ p # Nobody /\ pc[p] = "forkret"
  /\ owner' = [owner EXCEPT ![p] = NoCPU]
  /\ noff' = Popped(c)
  /\ intr' = [intr EXCEPT ![c] = 1]
  /\ panicked' = IF BadRelease(c, p) THEN 1 ELSE 0
  /\ Goto(p, "run")
  /\ UNCHANGED <<intena, cpuVars, state, chan, ret, save, wk, holder>>

\* A timer interrupt: kerneltrap or usertrap calls yield, which starts to
\* acquire p->lock.  The hardware has switched interrupts off.
timer(c) ==
  LET p == run[c] IN
  /\ p # Nobody /\ intr[c] = 1
  /\ intr' = [intr EXCEPT ![c] = 0]
  /\ noff' = [noff EXCEPT ![c] = @ + 1]
  /\ intena' = IF noff[c] = 0 THEN [intena EXCEPT ![c] = 0] ELSE intena
  /\ ret' = [ret EXCEPT ![p] = pc[p]]
  /\ Goto(p, "y_spin")
  /\ UNCHANGED <<owner, cpuVars, state, chan, save, wk, holder, panicked>>

yield(c) ==
  LET p == run[c] IN
  /\ p # Nobody /\ pc[p] = "y_spin"
  /\ Takes(c, p)
  /\ owner' = [owner EXCEPT ![p] = c]
  /\ panicked' = IF owner[p] = c THEN 1 ELSE 0
  /\ state' = [state EXCEPT ![p] = "RUNNABLE"]
  /\ Goto(p, "y_sched")
  /\ UNCHANGED <<noff, intena, intr, cpuVars, chan, ret, save, wk, holder>>

\* sched returns into yield, which releases p->lock.
yield_resume(c) ==
  LET p == run[c] IN
  /\ p # Nobody /\ pc[p] = "y_wake"
  /\ release(c, p, save[p])
  /\ Goto(p, "iret")
  /\ UNCHANGED <<cpuVars, state, chan, ret, save, wk, holder>>

\* kerneltrap restores sstatus and returns: interrupts are on again.
kerneltrap_return(c) ==
  LET p == run[c] IN
  /\ p # Nobody /\ pc[p] = "iret"
  /\ intr' = [intr EXCEPT ![c] = 1]
  /\ Goto(p, ret[p])
  /\ ret' = [ret EXCEPT ![p] = "run"]
  /\ UNCHANGED <<owner, noff, intena, cpuVars, state, chan, save, wk, holder, panicked>>

\* acquiresleep: acquire(&lk->lk) begins,
acquiresleep(c) ==
  LET p == run[c] IN
  /\ p # Nobody /\ pc[p] \in {"run", "sl_re"}
  /\ push_off(c)
  /\ Goto(p, "as_spin")
  /\ UNCHANGED <<owner, cpuVars, state, chan, ret, save, wk, holder, panicked>>

\* ends,
acquiresleep_locked(c) ==
  LET p == run[c] IN
  /\ p # Nobody /\ pc[p] = "as_spin"
  /\ acquire(c, LK)
  /\ Goto(p, "as_test")
  /\ UNCHANGED <<noff, intena, intr, cpuVars, state, chan, ret, save, wk, holder>>

Taken(p) == p

\* and the while loop: take the lock,
acquiresleep_take(c) ==
  LET p == run[c] IN
  /\ p # Nobody /\ pc[p] = "as_test" /\ holder = Nobody
  /\ holder' = Taken(p)
  /\ release(c, LK, intena[c])
  /\ Goto(p, "crit")
  /\ UNCHANGED <<cpuVars, state, chan, ret, save, wk>>

\* or call sleep, which starts to acquire p->lock.
acquiresleep_wait(c) ==
  LET p == run[c] IN
  /\ p # Nobody /\ pc[p] = "as_test" /\ holder # Nobody
  /\ push_off(c)
  /\ Goto(p, "sl_spin")
  /\ UNCHANGED <<owner, cpuVars, state, chan, ret, save, wk, holder, panicked>>

sleep_locked(c) ==
  LET p == run[c] IN
  /\ p # Nobody /\ pc[p] = "sl_spin"
  /\ acquire(c, p)
  /\ Goto(p, "sl_go")
  /\ UNCHANGED <<noff, intena, intr, cpuVars, state, chan, ret, save, wk, holder>>

sleep(c) ==
  LET p == run[c] IN
  /\ p # Nobody /\ pc[p] = "sl_go"
  /\ release(c, LK, intena[c])
  /\ chan' = [chan EXCEPT ![p] = 1]
  /\ state' = [state EXCEPT ![p] = "SLEEPING"]
  /\ Goto(p, "sl_sched")
  /\ UNCHANGED <<cpuVars, ret, save, wk, holder>>

\* sched returns into sleep: tidy up, release p->lock, reacquire lk.
sleep_resume(c) ==
  LET p == run[c] IN
  /\ p # Nobody /\ pc[p] = "sl_wake"
  /\ release(c, p, save[p])
  /\ chan' = [chan EXCEPT ![p] = 0]
  /\ Goto(p, "sl_re")
  /\ UNCHANGED <<cpuVars, state, ret, save, wk, holder>>

releasesleep(c) ==
  LET p == run[c] IN
  /\ p # Nobody /\ pc[p] = "crit"
  /\ push_off(c)
  /\ Goto(p, "rs_spin")
  /\ UNCHANGED <<owner, cpuVars, state, chan, ret, save, wk, holder, panicked>>

releasesleep_locked(c) ==
  LET p == run[c] IN
  /\ p # Nobody /\ pc[p] = "rs_spin"
  /\ acquire(c, LK)
  /\ holder' = Nobody
  /\ wk' = [wk EXCEPT ![p] = 1]
  /\ Goto(p, "wk")
  /\ UNCHANGED <<noff, intena, intr, cpuVars, state, chan, ret, save>>

WakeupEnd == NPROC

\* One turn of wakeup's loop.
wakeup(c) ==
  LET p == run[c]
      q == wk[p]
  IN
  /\ p # Nobody /\ pc[p] = "wk" /\ q <= WakeupEnd
  /\ q # p => Takes(c, q)
  /\ panicked' = IF q # p /\ owner[q] = c THEN 1 ELSE 0
  /\ state' = IF q # p /\ state[q] = "SLEEPING" /\ chan[q] = 1
                THEN [state EXCEPT ![q] = "RUNNABLE"] ELSE state
  /\ wk' = [wk EXCEPT ![p] = q + 1]
  /\ UNCHANGED <<lockVars, cpuVars, chan, pc, ret, save, holder>>

releasesleep_done(c) ==
  LET p == run[c] IN
  /\ p # Nobody /\ pc[p] = "wk" /\ wk[p] = WakeupEnd + 1
  /\ release(c, LK, intena[c])
  /\ wk' = [wk EXCEPT ![p] = 0]
  /\ Goto(p, "run")
  /\ UNCHANGED <<cpuVars, state, chan, ret, save, holder>>
-----------------------------------------------------------------------------

Init ==
  /\ owner = [l \in 0..NPROC |-> NoCPU]
  /\ noff = [c \in CPUs |-> 0] /\ intena = [c \in CPUs |-> 0]
  /\ intr = [c \in CPUs |-> 0]
  /\ cpuproc = [c \in CPUs |-> Nobody] /\ run = [c \in CPUs |-> Nobody]
  /\ scan = [c \in CPUs |-> 1] /\ spc = [c \in CPUs |-> "top"]
  /\ state = [p \in Procs |-> "RUNNABLE"] /\ chan = [p \in Procs |-> 0]
  /\ pc = [p \in Procs |-> "forkret"] /\ ret = [p \in Procs |-> "run"]
  /\ save = [p \in Procs |-> 0] /\ wk = [p \in Procs |-> 0]
  /\ holder = Nobody
  /\ panicked = 0

\* Steps that wait for a spin lock.
Spin(c) ==
  \/ scheduler_skip(c) \/ scheduler_switch(c)
  \/ yield(c) \/ acquiresleep_locked(c) \/ sleep_locked(c)
  \/ releasesleep_locked(c) \/ wakeup(c)

\* Steps of kernel code that runs on without waiting.
Run(c) ==
  \/ scheduler_top(c) \/ scheduler_back(c) \/ sched(c) \/ forkret(c)
  \/ yield_resume(c) \/ kerneltrap_return(c)
  \/ acquiresleep_take(c) \/ acquiresleep_wait(c) \/ sleep(c) \/ sleep_resume(c)
  \/ releasesleep(c) \/ releasesleep_done(c)

Next == panicked = 0 /\ \E c \in CPUs :
          Spin(c) \/ Run(c) \/ acquiresleep(c) \/ timer(c)

Spec == Init /\ [][Next]_vars
-----------------------------------------------------------------------------

(* Every variable has its type, and nesting stays within the two spin locks *)
(* that this code ever holds on one CPU plus the one being acquired.        *)
TypeOK ==
  /\ owner \in [0..NPROC -> CPUs \cup {NoCPU}]
  /\ noff \in [CPUs -> 0..2]
  /\ intena \in [CPUs -> {0, 1}] /\ intr \in [CPUs -> {0, 1}]
  /\ cpuproc \in [CPUs -> 0..NPROC] /\ run \in [CPUs -> 0..NPROC]
  /\ scan \in [CPUs -> Procs] /\ spc \in [CPUs -> {"top", "loop", "back"}]
  /\ state \in [Procs -> {"RUNNABLE", "RUNNING", "SLEEPING"}]
  /\ chan \in [Procs -> {0, 1}]
  /\ pc \in [Procs -> PCs] /\ ret \in [Procs -> PCs]
  /\ save \in [Procs -> {0, 1}] /\ wk \in [Procs -> 0..(NPROC + 1)]
  /\ holder \in 0..NPROC
  /\ panicked \in {0, 1}

\* None of the panics of acquire, release, pop_off and sched is reached, and
\* interrupts are off on a CPU that holds a spin lock, and in an interrupt
\* handler until it returns (a nested interrupt would lose sepc).
NoPanic ==
  /\ panicked = 0
  /\ \A c \in CPUs : intr[c] = 1 =>
       /\ \A l \in 0..NPROC : owner[l] # c
       /\ run[c] # Nobody => pc[run[c]] # "iret"

\* When p->lock is free, p->state tells the truth about p: RUNNING exactly
\* when a CPU executes it.  And myproc() is right whenever an interrupt can
\* call it: a timer interrupt in the scheduler never yields a process that
\* has left the CPU.  So no two CPUs execute on one kernel stack: a process
\* that yields or sleeps is not picked up before swtch has saved its registers.
StateTruthful ==
  /\ TypeOK
  /\ \A c, d \in CPUs : run[c] # Nobody /\ run[c] = run[d] => c = d
  /\ \A p \in Procs : owner[p] = NoCPU =>
       (state[p] = "RUNNING" <=> \E c \in CPUs : run[c] = p)
  /\ \A c \in CPUs : intr[c] = 1 => cpuproc[c] = run[c]

At(p) == IF pc[p] \in {"y_spin", "y_sched", "y_wake", "iret"} THEN ret[p] ELSE pc[p]

\* The sleep lock excludes, one process at a time between acquiresleep and
\* releasesleep, and no wakeup is lost: nobody sleeps on a free sleep lock,
\* except while releasesleep's wakeup is still on its way.
SleepLock ==
  /\ \A p, q \in Procs :
       At(p) \in {"crit", "rs_spin"} /\ At(q) \in {"crit", "rs_spin"} => p = q
  /\ \A p \in Procs : state[p] = "SLEEPING" /\ holder = Nobody =>
       \E q \in Procs : pc[q] = "wk" /\ wk[q] <= p
=============================================================================
