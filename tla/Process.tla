------------------------------ MODULE Process -------------------------------
(***************************************************************************)
(* The life of a process: fork, exit, wait and kill (proc.c).              *)
(*                                                                         *)
(* Scheduling is abstracted: a process that Sched shows to be RUNNABLE or  *)
(* RUNNING may take its next step.  p->lock is visible only where it is    *)
(* held across two steps, by an exiting process until it has left its      *)
(* kernel stack.  wait_lock is held by wait from its scan until it sleeps. *)
(***************************************************************************)
EXTENDS Integers, FiniteSets

CONSTANTS NPROC,
          KillPids,   \* the arguments passed to kill
          MaxPid      \* bound: no fork once nextpid reaches it

ASSUME BoundAssumption == NPROC \in Nat \ {0} /\ MaxPid \in Nat \ {0} /\ KillPids \subseteq Nat

Slots == 1..NPROC
Nobody == 0
initproc == 1

VARIABLES
  state,     \* p->state; RUNNABLE stands for RUNNING too
  pid, parent, killed,
  xstate,
  nextpid,
  pc,        \* where the process is
  child,     \* np in fork
  onstack,   \* does a CPU still run on p's kernel stack with p->lock held?
  wait_lock, \* its holder
  victims    \* ghost: the pids kill has been asked to kill, or that faulted

vars == <<state, pid, parent, killed, xstate, nextpid, pc, child, onstack,
          wait_lock, victims>>

Children(p) == {c \in Slots : parent[c] = p}
Zombies(p) == {c \in Children(p) : state[c] = "ZOMBIE"}
First(S) == CHOOSE s \in S : \A t \in S : s <= t

\* Can p take a step at program point l?
Active(p, l) == state[p] = "RUNNABLE" /\ pc[p] = l
-----------------------------------------------------------------------------
(* Faulty variants of the definitions below, kept for the sensitivity      *)
(* checks of the properties; no specification uses them.                   *)

\* exit wakes only the parent, not init, about children it hands over.
Woken_ParentOnly(p) == {parent[p]}

\* wait gives wait_lock up before sleep has changed the state.
LockAfterScan_Released(p) == Nobody

\* wait does not acquire the child's p->lock.
Scannable_Unlocked(S) == TRUE

-----------------------------------------------------------------------------

allocpid == nextpid + 1

\* allocproc takes the first of these.
Unused == {s \in Slots : state[s] = "UNUSED"}

\* fork, first part: allocproc and the copies, under np->lock.
fork(p) ==
  LET np == First(Unused) IN
  /\ Active(p, "user") /\ nextpid <= MaxPid
  /\ Unused # {}
  /\ pid' = [pid EXCEPT ![np] = nextpid]
  /\ nextpid' = allocpid
  /\ state' = [state EXCEPT ![np] = "USED"]
  /\ child' = [child EXCEPT ![p] = np]
  /\ pc' = [pc EXCEPT ![p] = "fork_parent", ![np] = "user"]
  /\ UNCHANGED <<parent, killed, xstate, onstack, wait_lock, victims>>

\* What freeproc leaves in p->killed.
FreedKilled(p) == 0

\* allocproc or uvmcopy runs out of memory: freeproc under the same np->lock.
fork_fails(p) ==
  LET np == First(Unused) IN
  /\ Active(p, "user") /\ nextpid <= MaxPid
  /\ Unused # {}
  /\ nextpid' = allocpid
  /\ killed' = [killed EXCEPT ![np] = FreedKilled(np)]
  /\ UNCHANGED <<state, pid, parent, xstate, pc, child, onstack, wait_lock, victims>>

\* fork, second part, under wait_lock.
fork_parent(p) ==
  /\ Active(p, "fork_parent") /\ wait_lock = Nobody
  /\ parent' = [parent EXCEPT ![child[p]] = p]
  /\ pc' = [pc EXCEPT ![p] = "fork_run"]
  /\ UNCHANGED <<state, pid, killed, xstate, nextpid, child, onstack, wait_lock, victims>>

\* fork, last part, under np->lock again.
fork_run(p) ==
  /\ Active(p, "fork_run")
  /\ state' = [state EXCEPT ![child[p]] = "RUNNABLE"]
  /\ pc' = [pc EXCEPT ![p] = "user"]
  /\ child' = [child EXCEPT ![p] = Nobody]
  /\ UNCHANGED <<pid, parent, killed, xstate, nextpid, onstack, wait_lock, victims>>

\* usertrap finds p->killed set, on entry to a system call or on the way out.
usertrap_killed(p) ==
  /\ Active(p, "user") /\ killed[p] = 1
  /\ p # initproc
  /\ pc' = [pc EXCEPT ![p] = "exit"]
  /\ xstate' = [xstate EXCEPT ![p] = -1]
  /\ UNCHANGED <<state, pid, parent, killed, nextpid, child, onstack, wait_lock, victims>>

\* An exception the kernel does not handle.
setkilled(p) ==
  /\ Active(p, "user") /\ p # initproc
  /\ killed' = [killed EXCEPT ![p] = 1]
  /\ victims' = victims \cup {pid[p]}
  /\ UNCHANGED <<state, pid, parent, xstate, nextpid, pc, child, onstack, wait_lock>>

\* The exit system call, up to the point where the files are closed.
exit(p) ==
  /\ Active(p, "user") /\ p # initproc
  /\ pc' = [pc EXCEPT ![p] = "exit"]
  /\ xstate' = [xstate EXCEPT ![p] = 0]
  /\ UNCHANGED <<state, pid, parent, killed, nextpid, child, onstack, wait_lock, victims>>

reparent(p) == [c \in Slots |-> IF parent[c] = p THEN initproc ELSE parent[c]]

\* The processes exit wakes: init if it gets a child, and the parent.
Woken(p) == {parent[p]} \cup (IF Children(p) # {} THEN {initproc} ELSE {})

\* The rest of exit, under wait_lock and then p->lock, which stays held.
exit_zombie(p) ==
  /\ Active(p, "exit") /\ wait_lock = Nobody
  /\ parent' = reparent(p)
  /\ state' = [s \in Slots |->
                 IF s = p THEN "ZOMBIE"
                 ELSE IF state[s] = "SLEEPING" /\ s \in Woken(p) THEN "RUNNABLE"
                 ELSE state[s]]
  /\ onstack' = [onstack EXCEPT ![p] = 1]
  /\ pc' = [pc EXCEPT ![p] = "swtch"]
  /\ UNCHANGED <<pid, killed, xstate, nextpid, child, wait_lock, victims>>

\* sched has switched away, and the scheduler releases p->lock.
exit_switched(p) ==
  /\ pc[p] = "swtch"
  /\ onstack' = [onstack EXCEPT ![p] = 0]
  /\ pc' = [pc EXCEPT ![p] = "gone"]
  /\ UNCHANGED <<state, pid, parent, killed, xstate, nextpid, child, wait_lock, victims>>

\* wait can lock each of the children in S.
Scannable(S) == \A c \in S : onstack[c] = 0

\* wait finds a zombie: the first one in the table is freed.
wait_reap(p) ==
  LET z == First(Zombies(p)) IN
  /\ Active(p, "user") /\ wait_lock = Nobody
  /\ Zombies(p) # {}
  /\ Scannable({c \in Children(p) : c <= z})
  /\ state' = [state EXCEPT ![z] = "UNUSED"]
  /\ pid' = [pid EXCEPT ![z] = 0]
  /\ parent' = [parent EXCEPT ![z] = Nobody]
  /\ killed' = [killed EXCEPT ![z] = FreedKilled(z)]
  /\ xstate' = [xstate EXCEPT ![z] = 0]
  /\ UNCHANGED <<nextpid, pc, child, onstack, wait_lock, victims>>

\* wait returns -1: nothing to wait for, a kill, or a bad status address.
wait_fails(p) ==
  /\ Active(p, "user") /\ wait_lock = Nobody
  /\ Scannable(Children(p))
  /\ Children(p) = {} \/ killed[p] = 1 \/ Zombies(p) # {}
  /\ UNCHANGED vars

\* wait has to sleep; wait_lock stays held.
LockAfterScan(p) == p

wait_scan(p) ==
  /\ Active(p, "user") /\ wait_lock = Nobody
  /\ Scannable(Children(p))
  /\ Children(p) # {} /\ Zombies(p) = {} /\ killed[p] = 0
  /\ wait_lock' = LockAfterScan(p)
  /\ pc' = [pc EXCEPT ![p] = "wait"]
  /\ UNCHANGED <<state, pid, parent, killed, xstate, nextpid, child, onstack, victims>>

\* sleep(p, &wait_lock); when woken, wait scans again.
wait_sleep(p) ==
  /\ Active(p, "wait")
  /\ state' = [state EXCEPT ![p] = "SLEEPING"]
  /\ wait_lock' = Nobody
  /\ pc' = [pc EXCEPT ![p] = "user"]
  /\ UNCHANGED <<pid, parent, killed, xstate, nextpid, child, onstack, victims>>

KilledFlag(v) == 1

\* kill(k): the first slot with that pid.
kill(p, k) ==
  LET hits == {s \in Slots : pid[s] = k}
      v == First(hits)
  IN
  /\ Active(p, "user") /\ hits # {}
  /\ onstack[v] = 0
  /\ killed' = [killed EXCEPT ![v] = KilledFlag(v)]
  /\ state' = [state EXCEPT ![v] = IF @ = "SLEEPING" THEN "RUNNABLE" ELSE @]
  /\ victims' = victims \cup {k}
  /\ UNCHANGED <<pid, parent, xstate, nextpid, pc, child, onstack, wait_lock>>
-----------------------------------------------------------------------------

\* userinit has started the first process.
Init ==
  /\ state = [s \in Slots |-> IF s = initproc THEN "RUNNABLE" ELSE "UNUSED"]
  /\ pid = [s \in Slots |-> IF s = initproc THEN 1 ELSE 0]
  /\ parent = [s \in Slots |-> Nobody]
  /\ killed = [s \in Slots |-> 0]
  /\ xstate = [s \in Slots |-> 0]
  /\ nextpid = 2
  /\ pc = [s \in Slots |-> "user"]
  /\ child = [s \in Slots |-> Nobody]
  /\ onstack = [s \in Slots |-> 0]
  /\ wait_lock = Nobody
  /\ victims = {}

\* Steps inside the kernel that a process does not stop in.
Kernel(p) == \/ fork_parent(p) \/ fork_run(p) \/ usertrap_killed(p)
             \/ exit_zombie(p) \/ exit_switched(p) \/ wait_sleep(p)

Next == \E p \in Slots :
          \/ Kernel(p)
          \/ fork(p) \/ fork_fails(p) \/ exit(p) \/ setkilled(p)
          \/ wait_reap(p) \/ wait_fails(p) \/ wait_scan(p)
          \/ \E k \in KillPids : kill(p, k)

Spec == Init /\ [][Next]_vars

\* The kernel runs on, and init keeps calling wait (user/init.c).
Fairness ==
  /\ \A p \in Slots : WF_vars(Kernel(p)) /\ SF_vars(exit_zombie(p))
  /\ SF_vars(wait_reap(initproc))

FairSpec == Spec /\ Fairness
-----------------------------------------------------------------------------

(* Every variable has its type.                                            *)
TypeOK ==
  /\ state \in [Slots -> {"UNUSED", "USED", "SLEEPING", "RUNNABLE", "ZOMBIE"}]
  /\ pid \in [Slots -> 0..MaxPid] /\ nextpid \in 2..(MaxPid + 1)
  /\ parent \in [Slots -> 0..NPROC] /\ child \in [Slots -> 0..NPROC]
  /\ killed \in [Slots -> {0, 1}] /\ xstate \in [Slots -> {-1, 0}]
  /\ pc \in [Slots -> {"user", "fork_parent", "fork_run", "exit", "swtch",
                       "gone", "wait"}]
  /\ onstack \in [Slots -> {0, 1}]
  /\ wait_lock \in 0..NPROC
  /\ victims \subseteq Nat

\* wait never sleeps through an exit: a process asleep in wait has a child and
\* none of its children is a zombie.  And every process that runs or has
\* exited has a parent that can still wait for it: exit hands all its children
\* to init, whatever fork and wait do meanwhile.
NoMissedExit ==
  /\ \A p \in Slots : state[p] = "SLEEPING" => Children(p) # {} /\ Zombies(p) = {}
  /\ \A p \in Slots \ {initproc} : state[p] \in {"RUNNABLE", "SLEEPING", "ZOMBIE"} =>
       parent[p] # Nobody /\ state[parent[p]] \in {"RUNNABLE", "SLEEPING"}

\* A slot has one user at a time: it is not freed while a CPU is still on its
\* kernel stack, no two processes have the same pid, and no process inherits
\* the kill or the fault of an earlier user of its slot (proc.h: killed, "If
\* non-zero, have been killed").  The exception is kill(0): it finds the first
\* unused slot, whose pid is 0, and allocproc leaves the mark to the next user.
SlotsExclusive ==
  /\ TypeOK
  /\ \A p \in Slots : state[p] # "UNUSED" /\ killed[p] = 1 =>
       pid[p] \in victims \/ 0 \in victims
  /\ \A p \in Slots : state[p] = "UNUSED" => onstack[p] = 0
  /\ \A p, q \in Slots : state[p] # "UNUSED" =>
       pid[p] # 0 /\ (pid[p] = pid[q] => p = q)


\* An orphan that has exited is reaped by init.
OrphansReaped ==
  \A p \in Slots :
    (state[p] = "ZOMBIE" /\ parent[p] = initproc) ~> state[p] = "UNUSED"
=============================================================================
