-------------------------------- MODULE Trap --------------------------------
(***************************************************************************)
(* Traps and time (trap.c, sysproc.c): the way from user space into the    *)
(* kernel and back, interrupts of the kernel, and sleeping on ticks.       *)
(*                                                                         *)
(* A context is a process or the scheduler of a CPU.  Its place is a pair: *)
(* <<"user">> in user space, "u" in usertrap and what it calls, "k" in     *)
(* kerneltrap, "s" in the scheduler.  What runs with interrupts off and    *)
(* without waiting is one step.  Sched has yield, sleep and wakeup in      *)
(* detail: here a process just leaves its CPU, and any CPU takes it up.    *)
(***************************************************************************)
EXTENDS Integers, Sequences, FiniteSets

CONSTANTS CPUs, Boot,      \* Boot: the CPU with number 0, which counts ticks
          Procs, Nobody, Devices,
          TICKS,           \* ticks is unsigned and wraps here
          UserPCs, MaxN    \* bounds: places in a program, ticks of a sleep

Constants == /\ Boot \in CPUs /\ Nobody \notin CPUs /\ CPUs \cap Procs = {}
             /\ MaxN \in Nat \ {0} /\ TICKS \in Nat /\ TICKS > MaxN + 1 /\ UserPCs \subseteq Nat

VARIABLES
  mode, sie, spp, spie, sepc, stvec,   \* CPU -> its registers
  run,                    \* CPU -> c->proc
  place,                  \* context -> where it is
  locals,                 \* context -> sepc and sstatus as kerneltrap keeps them
  irq,                    \* context -> the interrupt devintr has claimed
  epc, hartid,            \* process -> p->trapframe
  state, killed,          \* process -> runnable, running or asleep; p->killed
  n, ticks0,              \* process -> locals of sys_sleep
  ticks, tickslock,       \* tickslock: the CPU that holds it
  panicked,
  at,                     \* context -> where the last trap really came from
  passed                  \* process -> ticks since its sys_sleep began

regs == <<mode, sie, spp, spie, sepc, stvec>>
procVars == <<epc, hartid, state, killed, n, ticks0, passed>>
timeVars == <<ticks, tickslock>>
vars == <<regs, run, place, locals, irq, procVars, timeVars, panicked, at>>

Context(c) == IF run[c] = Nobody THEN c ELSE run[c]
Contexts == Procs \cup CPUs
User == <<"user">>
At(c, l, where) == mode[c] = "S" /\ place[Context(c)] = <<l, where>>
Level(c) == place[Context(c)][1]
Goto(x, l, where) == place' = [place EXCEPT ![x] = <<l, where>>]
NoTrap == [sepc |-> User, spp |-> "U", spie |-> 0]
-----------------------------------------------------------------------------
(* Faulty variants of the definitions below, kept for the sensitivity      *)
(* checks of the properties; no specification uses them.                   *)

\* kerneltrap does not restore sepc.
Restored_Missing(c, x) == sepc

\* sys_sleep compares with the tick at which it should end.
TimeLeft_Sum(p) == ticks < ticks0[p] + n[p]
-----------------------------------------------------------------------------
(* Entering the kernel                                                     *)

\* An interrupt or exception on CPU c, up to the branches of the handler: the
\* hardware saves where it was, the trap vector leads to usertrap or
\* kerneltrap, and a handler called from the wrong mode panics.  It goes on
\* at next, with interrupts on if it has turned them on, and should return
\* to back.  uservec takes the number of the CPU out of the trap frame.
Trap(c, from, back, next, on) ==
  LET x == Context(c) IN
    /\ sepc' = [sepc EXCEPT ![c] = from]
    /\ spie' = [spie EXCEPT ![c] = sie[c]] /\ sie' = [sie EXCEPT ![c] = on]
    /\ spp' = [spp EXCEPT ![c] = mode[c]] /\ mode' = [mode EXCEPT ![c] = "S"]
    /\ at' = IF mode[c] = "U" THEN [at EXCEPT ![x].u = back] ELSE [at EXCEPT ![x].k = back]
    /\ hartid' = IF mode[c] = "U" THEN [hartid EXCEPT ![x] = Nobody] ELSE hartid
    /\ IF stvec[c] = "uservec"
       THEN /\ panicked' = IF mode[c] = "S" THEN 1 ELSE 0
            /\ stvec' = [stvec EXCEPT ![c] = "kernelvec"]
            /\ Goto(x, "u", next)
            /\ UNCHANGED locals
       ELSE /\ panicked' = IF mode[c] = "U" THEN 1 ELSE 0
            /\ locals' = [locals EXCEPT ![x] = [sepc |-> from, spp |-> mode[c], spie |-> sie[c]]]
            /\ Goto(x, "k", next)
            /\ UNCHANGED stvec

\* Interrupts are on in user space, and in the kernel if sie says so.
Interruptible(c) == mode[c] = "U" \/ sie[c] = 1
Here(c, k) == IF mode[c] = "U" THEN <<"user", k>> ELSE place[Context(c)]

\* devintr tells the interrupts apart by scause.
interrupt(c, k, scause) ==
  /\ Interruptible(c)
  /\ Trap(c, Here(c, k), Here(c, k), IF scause = "external" THEN "devintr" ELSE "clockintr", 0)
  /\ epc' = IF mode[c] = "U" THEN [epc EXCEPT ![run[c]] = k] ELSE epc
  /\ UNCHANGED <<run, irq, state, killed, n, ticks0, passed, timeVars>>

\* ecall; a process that was killed does not get to the system call.
usertrap_syscall(c, k) ==
  LET p == run[c] IN
    /\ mode[c] = "U"
    /\ IF killed[p] = 1
       THEN Trap(c, <<"user", k>>, <<"user", k>>, "end", 0) /\ epc' = [epc EXCEPT ![p] = k]
       ELSE /\ Trap(c, <<"user", k>>, <<"user", k + 4>>, "syscall", 1)
            /\ epc' = [epc EXCEPT ![p] = k + 4]
    /\ UNCHANGED <<run, irq, state, killed, n, ticks0, passed, timeVars>>

\* Any other exception kills the process.
usertrap_fault(c, k) ==
  /\ mode[c] = "U"
  /\ Trap(c, <<"user", k>>, <<"user", k>>, "end", 0)
  /\ epc' = [epc EXCEPT ![run[c]] = k] /\ killed' = [killed EXCEPT ![run[c]] = 1]
  /\ UNCHANGED <<run, irq, state, n, ticks0, passed, timeVars>>
-----------------------------------------------------------------------------
(* Leaving the CPU and getting one                                         *)

\* swtch to the scheduler of c; the process will go on at <<l, where>>.
Leave(c, st, l, where) ==
  /\ state' = [state EXCEPT ![run[c]] = st]
  /\ run' = [run EXCEPT ![c] = Nobody]
  /\ Goto(run[c], l, where)
  /\ sie' = [sie EXCEPT ![c] = 0]

scheduler_top(c) ==
  /\ run[c] = Nobody /\ place[c] = <<"s", "loop">> /\ sie[c] = 0
  /\ sie' = [sie EXCEPT ![c] = 1]
  /\ UNCHANGED <<mode, spp, spie, sepc, stvec, run, place, locals, irq, procVars, timeVars, panicked, at>>

\* What a process finds when it runs again: yield in a handler leaves
\* interrupts off; sleep and forkret release p->lock, which turns them on.
InterruptsOn(p) == place[p] \in {<<"u", "awake">>, <<"u", "ret">>}

scheduler_switch(c, p) ==
  /\ run[c] = Nobody /\ place[c] = <<"s", "loop">> /\ state[p] = "RUNNABLE"
  /\ run' = [run EXCEPT ![c] = p] /\ state' = [state EXCEPT ![p] = "RUNNING"]
  /\ sie' = [sie EXCEPT ![c] = IF InterruptsOn(p) THEN 1 ELSE 0]
  /\ UNCHANGED <<mode, spp, spie, sepc, stvec, place, locals, irq, epc, hartid, killed, n, ticks0,
                 passed, timeVars, panicked, at>>

\* exit; a new process takes the slot, and starts in forkret.
exit(c) ==
  LET p == run[c] IN
    /\ Leave(c, "RUNNABLE", "u", "ret")
    /\ killed' = [killed EXCEPT ![p] = 0]
    /\ epc' = [epc EXCEPT ![p] = 0] /\ at' = [at EXCEPT ![p].u = <<"user", 0>>]

\* The rest of usertrap after its branches; a timer interrupt yields.
usertrap_end(c, timer) ==
  LET p == run[c] IN
    \/ killed[p] = 1 /\ exit(c)
    \/ /\ killed[p] = 0 /\ timer
       /\ Leave(c, "RUNNABLE", "u", "yielded") /\ UNCHANGED <<killed, epc, at>>
    \/ /\ killed[p] = 0 /\ ~timer
       /\ Goto(p, "u", "ret") /\ UNCHANGED <<sie, run, state, killed, epc, at>>

\* kerneltrap yields on a timer interrupt, unless it interrupted a scheduler.
kerneltrap_end(c, timer) ==
  /\ IF timer /\ run[c] # Nobody
     THEN Leave(c, "RUNNABLE", "k", "end")
     ELSE Goto(Context(c), "k", "end") /\ UNCHANGED <<state, run, sie>>
  /\ UNCHANGED <<killed, epc, at>>

\* devintr returns 2 (timer) or 1.
After(c, timer) ==
  /\ IF Level(c) = "u" THEN usertrap_end(c, timer) ELSE kerneltrap_end(c, timer)
  /\ UNCHANGED <<mode, spp, spie, sepc, stvec, locals, hartid, n, ticks0, panicked>>
-----------------------------------------------------------------------------
(* devintr                                                                 *)

\* The PLIC gives an interrupt to one CPU until it is completed, and nothing
\* to a CPU that comes late.
Claimed == {irq[x] : x \in Contexts} \ {Nobody}

devintr_claim(c) ==
  LET x == Context(c) IN
    /\ \E l \in {"u", "k"} : At(c, l, "devintr") /\ irq[x] = Nobody
    /\ \/ \E d \in Devices \ Claimed :
            /\ irq' = [irq EXCEPT ![x] = d]
            /\ UNCHANGED <<regs, run, place, locals, procVars, panicked, at>>
       \/ After(c, FALSE) /\ UNCHANGED <<irq, passed>>
    /\ UNCHANGED timeVars

\* After the driver's handler.
devintr_complete(c) ==
  /\ \E l \in {"u", "k"} : At(c, l, "devintr") /\ irq[Context(c)] # Nobody
  /\ irq' = [irq EXCEPT ![Context(c)] = Nobody]
  /\ After(c, FALSE)
  /\ UNCHANGED <<passed, timeVars>>

(* clockintr                                                               *)

\* The bound: nobody is kept from running for so long that ticks goes round.
InTime == \A p \in Procs : n[p] > 0 => passed[p] < TICKS - 1

clockintr(c) ==
  /\ \E l \in {"u", "k"} : At(c, l, "clockintr")
  /\ \/ c # Boot /\ After(c, TRUE) /\ UNCHANGED <<timeVars, passed>>
     \/ /\ c = Boot /\ tickslock = Nobody /\ InTime
        /\ tickslock' = c
        /\ ticks' = (ticks + 1) % TICKS
        /\ passed' = [p \in Procs |-> IF n[p] > 0 THEN passed[p] + 1 ELSE 0]
        /\ Goto(Context(c), Level(c), "wakeup")
        /\ UNCHANGED <<regs, run, locals, epc, hartid, state, killed, n, ticks0, panicked, at>>
  /\ UNCHANGED irq

\* Everybody who sleeps on ticks becomes runnable; then the lock is released.
clockintr_wakeup(c) ==
  /\ \E l \in {"u", "k"} : At(c, l, "wakeup")
  /\ state' = [p \in Procs |-> IF state[p] = "SLEEPING" THEN "RUNNABLE" ELSE state[p]]
  /\ tickslock' = Nobody
  /\ Goto(Context(c), Level(c), "woken")
  /\ UNCHANGED <<regs, run, locals, irq, epc, hartid, killed, n, ticks0, passed, ticks, panicked, at>>

clockintr_end(c) ==
  /\ \E l \in {"u", "k"} : At(c, l, "woken")
  /\ After(c, TRUE)
  /\ UNCHANGED <<irq, passed, timeVars>>
-----------------------------------------------------------------------------
(* The ends of the handlers                                                *)

\* usertrapret up to userret in trampoline.S.
usertrapret(c) ==
  LET p == run[c] IN
    /\ p # Nobody /\ (At(c, "u", "ret") \/ At(c, "u", "yielded"))
    /\ sie' = [sie EXCEPT ![c] = 0]
    /\ stvec' = [stvec EXCEPT ![c] = "uservec"]
    /\ hartid' = [hartid EXCEPT ![p] = c]
    /\ spp' = [spp EXCEPT ![c] = "U"] /\ spie' = [spie EXCEPT ![c] = 1]
    /\ sepc' = [sepc EXCEPT ![c] = <<"user", epc[p]>>]
    /\ Goto(p, "u", "userret")
    /\ UNCHANGED <<mode, run, locals, irq, epc, state, killed, n, ticks0, passed, timeVars, panicked, at>>

Restored(c, x) == [sepc EXCEPT ![c] = locals[x].sepc]

\* kerneltrap restores the registers that traps of others may have changed.
kerneltrap_return(c) ==
  LET x == Context(c) IN
    /\ At(c, "k", "end")
    /\ sepc' = Restored(c, x)
    /\ spp' = [spp EXCEPT ![c] = locals[x].spp] /\ spie' = [spie EXCEPT ![c] = locals[x].spie]
    /\ locals' = [locals EXCEPT ![x] = NoTrap]
    /\ Goto(x, "k", "sret")
    /\ UNCHANGED <<mode, sie, stvec, run, irq, procVars, timeVars, panicked, at>>

\* The sret of userret and of kernelvec.  What the next trap overwrites is
\* forgotten.
sret(c) ==
  LET x == Context(c) IN
    /\ At(c, "u", "userret") \/ At(c, "k", "sret")
    /\ mode' = [mode EXCEPT ![c] = spp[c]]
    /\ sie' = [sie EXCEPT ![c] = spie[c]] /\ spie' = [spie EXCEPT ![c] = 1]
    /\ spp' = [spp EXCEPT ![c] = "U"] /\ sepc' = [sepc EXCEPT ![c] = User]
    /\ place' = [place EXCEPT ![x] = IF spp[c] = "U" THEN User ELSE sepc[c]]
    /\ IF spp[c] = "U"
       THEN epc' = [epc EXCEPT ![x] = 0] /\ at' = [at EXCEPT ![x].u = User]
       ELSE at' = [at EXCEPT ![x].k = User] /\ UNCHANGED epc
    /\ UNCHANGED <<stvec, run, locals, irq, hartid, state, killed, n, ticks0, passed, timeVars, panicked>>

\* The end of a system call.
usertrap_syscall_end(c) ==
  /\ At(c, "u", "end")
  /\ usertrap_end(c, FALSE)
  /\ UNCHANGED <<mode, spp, spie, sepc, stvec, locals, irq, hartid, n, ticks0, passed, timeVars, panicked>>
-----------------------------------------------------------------------------
(* System calls                                                            *)

\* Most of them; sys_uptime looks at ticks on the way.
syscall(c) ==
  /\ run[c] # Nobody /\ At(c, "u", "syscall") /\ tickslock = Nobody
  /\ Goto(run[c], "u", "end")
  /\ UNCHANGED <<regs, run, locals, irq, procVars, timeVars, panicked, at>>

sys_kill(c, q) ==
  /\ run[c] # Nobody /\ At(c, "u", "syscall")
  /\ killed' = [killed EXCEPT ![q] = 1]
  /\ state' = [state EXCEPT ![q] = IF @ = "SLEEPING" THEN "RUNNABLE" ELSE @]
  /\ Goto(run[c], "u", "end")
  /\ UNCHANGED <<regs, run, locals, irq, epc, hartid, n, ticks0, passed, timeVars, panicked, at>>

\* acquire(&tickslock) starts with push_off.
sys_sleep(c) ==
  /\ run[c] # Nobody /\ At(c, "u", "syscall")
  /\ sie' = [sie EXCEPT ![c] = 0]
  /\ Goto(run[c], "u", "acquire")
  /\ UNCHANGED <<mode, spp, spie, sepc, stvec, run, locals, irq, procVars, timeVars, panicked, at>>

\* k is the argument of the call.
sys_sleep_acquired(c, k) ==
  LET p == run[c] IN
    /\ p # Nobody /\ tickslock = Nobody
    /\ \/ /\ At(c, "u", "acquire")
          /\ n' = [n EXCEPT ![p] = k] /\ ticks0' = [ticks0 EXCEPT ![p] = ticks]
       \/ At(c, "u", "reacquire") /\ k = n[p] /\ UNCHANGED <<n, ticks0>>
    /\ tickslock' = c
    /\ Goto(p, "u", "test")
    /\ UNCHANGED <<regs, run, locals, irq, epc, hartid, state, killed, passed, ticks, panicked, at>>

TimeLeft(p) == (ticks - ticks0[p]) % TICKS < n[p]

\* sleep(&ticks, &tickslock), or the return of 0 or -1.
sys_sleep_test(c) ==
  LET p == run[c] IN
    /\ p # Nobody /\ At(c, "u", "test")
    /\ tickslock' = Nobody
    /\ IF TimeLeft(p) /\ killed[p] = 0
       THEN Leave(c, "SLEEPING", "u", "awake") /\ UNCHANGED <<n, ticks0, passed>>
       ELSE /\ Goto(p, "u", "end")
            /\ sie' = [sie EXCEPT ![c] = 1]
            /\ n' = [n EXCEPT ![p] = 0] /\ ticks0' = [ticks0 EXCEPT ![p] = 0]
            /\ passed' = [passed EXCEPT ![p] = 0]
            /\ UNCHANGED <<run, state>>
    /\ UNCHANGED <<mode, spp, spie, sepc, stvec, locals, irq, epc, hartid, killed, ticks, panicked, at>>

sys_sleep_awake(c) ==
  /\ run[c] # Nobody /\ At(c, "u", "awake")
  /\ sie' = [sie EXCEPT ![c] = 0]
  /\ Goto(run[c], "u", "reacquire")
  /\ UNCHANGED <<mode, spp, spie, sepc, stvec, run, locals, irq, procVars, timeVars, panicked, at>>

-----------------------------------------------------------------------------

\* The schedulers have started; every process is new.
Init ==
  /\ mode = [c \in CPUs |-> "S"] /\ sie = [c \in CPUs |-> 0] /\ stvec = [c \in CPUs |-> "kernelvec"]
  /\ spp = [c \in CPUs |-> "U"] /\ spie = [c \in CPUs |-> 0] /\ sepc = [c \in CPUs |-> User]
  /\ run = [c \in CPUs |-> Nobody]
  /\ place = [x \in Contexts |-> IF x \in CPUs THEN <<"s", "loop">> ELSE <<"u", "ret">>]
  /\ locals = [x \in Contexts |-> NoTrap] /\ irq = [x \in Contexts |-> Nobody]
  /\ epc = [p \in Procs |-> 0] /\ hartid = [p \in Procs |-> Nobody]
  /\ state = [p \in Procs |-> "RUNNABLE"] /\ killed = [p \in Procs |-> 0]
  /\ n = [p \in Procs |-> 0] /\ ticks0 = [p \in Procs |-> 0] /\ passed = [p \in Procs |-> 0]
  /\ ticks = 0 /\ tickslock = Nobody /\ panicked = 0
  /\ at = [x \in Contexts |-> [u |-> <<"user", 0>>, k |-> User]]

Step(c) ==
  \/ devintr_claim(c) \/ devintr_complete(c)
  \/ clockintr(c) \/ clockintr_wakeup(c) \/ clockintr_end(c)
  \/ scheduler_top(c) \/ (\E p \in Procs : scheduler_switch(c, p))
  \/ usertrap_syscall_end(c) \/ usertrapret(c) \/ kerneltrap_return(c) \/ sret(c)
  \/ syscall(c) \/ (\E q \in Procs : sys_kill(c, q)) \/ sys_sleep(c)
  \/ (\E k \in 0..MaxN : sys_sleep_acquired(c, k)) \/ sys_sleep_test(c) \/ sys_sleep_awake(c)

Next ==
  /\ panicked = 0
  /\ \E c \in CPUs :
       \/ Step(c)
       \/ \E k \in UserPCs, cause \in {"external", "timer"} : interrupt(c, k, cause)
       \/ \E k \in UserPCs : usertrap_syscall(c, k) \/ usertrap_fault(c, k)

Spec == Init /\ [][Next]_vars
-----------------------------------------------------------------------------

(* Every variable has its type.                                            *)
TypeOK ==
  /\ \A c \in CPUs : /\ mode[c] \in {"U", "S"} /\ sie[c] \in {0, 1} /\ spp[c] \in {"U", "S"}
                     /\ spie[c] \in {0, 1} /\ stvec[c] \in {"uservec", "kernelvec"}
  /\ run \in [CPUs -> Procs \cup {Nobody}] /\ irq \in [Contexts -> Devices \cup {Nobody}]
  /\ hartid \in [Procs -> CPUs \cup {Nobody}] /\ state \in [Procs -> {"RUNNABLE", "RUNNING", "SLEEPING"}]
  /\ killed \in [Procs -> {0, 1}] /\ n \in [Procs -> 0..MaxN] /\ ticks \in 0..(TICKS - 1)
  /\ ticks0 \in [Procs -> 0..(TICKS - 1)] /\ passed \in [Procs -> 0..(TICKS - 1)]
  /\ tickslock \in CPUs \cup {Nobody} /\ panicked \in {0, 1}

\* Every trap arrives at the right handler and is returned from to the place
\* it interrupted, also if other processes trapped on the same CPU meanwhile
\* or the process has moved to another CPU; the trap frame of a process in
\* user space names the CPU it is on (usertrap, usertrapret, kerneltrap).
TrapsReturn ==
  /\ TypeOK /\ panicked = 0
  /\ \A c \in CPUs :
       /\ mode[c] = "U" => stvec[c] = "uservec" /\ hartid[run[c]] = c
       /\ mode[c] = "S" /\ sie[c] = 1 => stvec[c] = "kernelvec"
       /\ At(c, "u", "userret") => spp[c] = "U" /\ spie[c] = 1 /\ sepc[c] = at[run[c]].u
       /\ At(c, "k", "sret") => spp[c] = "S" /\ spie[c] = 1 /\ sepc[c] = at[Context(c)].k

\* sys_sleep ends exactly when its time is up, and nobody sleeps on from
\* then on, except while clockintr is about to wake them; both also while
\* ticks wraps around.
SleepsInTime ==
  \A p \in Procs :
    /\ place[p] = <<"u", "test">> => (TimeLeft(p) <=> passed[p] < n[p])
    /\ state[p] = "SLEEPING" /\ passed[p] >= n[p] =>
         \E c \in CPUs : \E l \in {"u", "k"} : At(c, l, "wakeup")
=============================================================================
