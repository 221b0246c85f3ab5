--------------------------- MODULE ProcessProofs ----------------------------
(***************************************************************************)
(* Proofs about Process, for any size of the process table, any number of  *)
(* pids and any calls of kill: wait sleeps through no exit, every process  *)
(* has a parent that can wait for it, and a slot has one user at a time.   *)
(***************************************************************************)
EXTENDS Process, WellFoundedInduction, TLAPS

Forking == {"fork_parent", "fork_run"}
Alive == {"RUNNABLE", "SLEEPING"}

\* init cannot exit.
InitLives == state[initproc] \in Alive /\ pc[initproc] # "exit"

\* p->state and the place of the process go together.
SlotOK(p) ==
  /\ state[p] = "UNUSED" => pc[p] \in {"user", "gone"} /\ pid[p] = 0 /\ parent[p] = Nobody
  /\ state[p] \in {"USED", "SLEEPING"} => pc[p] = "user"
  /\ state[p] = "RUNNABLE" => pc[p] \notin {"swtch", "gone"}
  /\ state[p] = "ZOMBIE" => pc[p] \in {"swtch", "gone"}
  /\ onstack[p] = 1 <=> pc[p] = "swtch"
  /\ pc[p] = "wait" <=> wait_lock = p
  /\ pc[p] \in Forking <=> child[p] # Nobody

\* pids in use are different from each other and from those to come.
PidOK(p) ==
  /\ state[p] # "UNUSED" => pid[p] # 0
  /\ pid[p] < nextpid
  /\ killed[p] = 1 => pid[p] \in victims \/ 0 \in victims
  /\ \A q \in Slots : pid[p] = pid[q] /\ pid[p] # 0 => p = q

\* A parent has not exited; only init and a process in the making have none.
ParentOK(p) ==
  /\ parent[p] # Nobody => state[parent[p]] \in Alive
  /\ p # initproc /\ state[p] \in Alive \cup {"ZOMBIE"} => parent[p] # Nobody

\* The child that fork is making is not in use, and belongs to one fork.
ForkOK(p) ==
  pc[p] \in Forking =>
    /\ child[p] \in Slots /\ state[child[p]] = "USED"
    /\ pc[p] = "fork_parent" => parent[child[p]] = Nobody
    /\ pc[p] = "fork_run" => parent[child[p]] # Nobody
    /\ \A q \in Slots : child[p] = child[q] => p = q

\* Who sleeps in wait, or has decided to under wait_lock, has living children.
WaitOK(p) ==
  state[p] = "SLEEPING" \/ pc[p] = "wait" =>
    /\ \E c \in Slots : parent[c] = p
    /\ \A c \in Slots : parent[c] = p => state[c] # "ZOMBIE"

SlotInv == \A p \in Slots : SlotOK(p)
PidInv == \A p \in Slots : PidOK(p)
ParentInv == \A p \in Slots : ParentOK(p)
ForkInv == \A p \in Slots : ForkOK(p)
WaitInv == \A p \in Slots : WaitOK(p)

IInv ==
  /\ TypeOK /\ InitLives
  /\ SlotInv /\ PidInv /\ ParentInv /\ ForkInv /\ WaitInv
-----------------------------------------------------------------------------
(* The order of the naturals as a relation, for the library's theorem on   *)
(* minimal elements.                                                       *)
LEMMA LessThanRelation ==
  ASSUME NEW s \in Nat, NEW t \in Nat, t < s
  PROVE  <<t, s>> \in OpToRel(<, Nat)
<1>1. <<t, s>> \in Nat \X Nat /\ <<t, s>>[1] < <<t, s>>[2]
  BY Zenon
<1> QED
  BY <1>1, Zenon DEF OpToRel

(* A nonempty set of slots has a first one: the scans of the process table *)
(* find it.                                                                *)
LEMMA FirstIsIn ==
  ASSUME NEW S, S \subseteq Slots, S # {}
  PROVE  First(S) \in S
<1>1. S \subseteq Nat
  BY BoundAssumption DEF Slots
<1>2. PICK s \in S : \A t \in S : ~(<<t, s>> \in OpToRel(<, Nat))
  BY <1>1, Zenon, WFMin, NatLessThanWellFounded
<1>3. \A t \in S : t \in Nat /\ s \in Nat /\ ~(t < s)
  BY <1>1, <1>2, Zenon, LessThanRelation
<1>4. \A t \in S : s <= t
  BY <1>3
<1> QED
  BY <1>4, Zenon DEF First

(* init has a slot, and nobody has none.                                   *)
LEMMA InitSlot == initproc \in Slots /\ Nobody \notin Slots
BY BoundAssumption DEF initproc, Slots, Nobody

(* A parent is a slot or nobody.                                           *)
LEMMA ParentSlot ==
  ASSUME IInv, NEW p \in Slots
  PROVE  parent[p] # Nobody => parent[p] \in Slots
BY BoundAssumption DEF IInv, TypeOK, Slots, Nobody

(* What is said of places and parents stays where they do.                 *)
LEMMA PlacesStay ==
  ASSUME IInv, UNCHANGED <<state, pc, pid, parent, onstack, wait_lock, child>>
  PROVE  InitLives' /\ SlotInv' /\ ParentInv' /\ ForkInv' /\ WaitInv'
<1>1. InitLives'
  BY Zenon DEF IInv, InitLives
<1>2. SlotInv'
  BY Zenon DEF IInv, SlotInv, SlotOK
<1>3. ParentInv'
  BY Zenon DEF IInv, ParentInv, ParentOK
<1>4. ForkInv'
  BY Zenon DEF IInv, ForkInv, ForkOK
<1>5. WaitInv'
  BY Zenon DEF IInv, WaitInv, WaitOK
<1> QED
  BY <1>1, <1>2, <1>3, <1>4, <1>5, Zenon

(* What is said of pids stays while no slot is taken into use.             *)
LEMMA PidsStay ==
  ASSUME IInv, UNCHANGED <<pid, nextpid, killed, victims>>,
         \A p \in Slots : state[p] = "UNUSED" => state'[p] = "UNUSED"
  PROVE  PidInv'
BY Zenon DEF IInv, PidInv, PidOK
-----------------------------------------------------------------------------
(* fork makes a process of an unused slot.                                 *)
LEMMA Fork ==
  ASSUME IInv, NEW p \in Slots, fork(p)
  PROVE  IInv'
<1>1. PICK np \in Slots : np = First(Unused) /\ state[np] = "UNUSED"
  <2>1. First(Unused) \in Unused
    BY Zenon, FirstIsIn DEF fork, Unused
  <2> QED
    BY <2>1, Zenon DEF Unused
<1> USE DEF fork, Active
<1>2. np # p /\ pid[np] = 0 /\ parent[np] = Nobody /\ np # initproc /\ pc[np] \in {"user", "gone"}
  BY <1>1, Zenon DEF IInv, SlotInv, SlotOK, InitLives, Alive
<1>3. /\ state'[np] = "USED" /\ \A s \in Slots \ {np} : state'[s] = state[s]
      /\ pid'[np] = nextpid /\ \A s \in Slots \ {np} : pid'[s] = pid[s]
      /\ child'[p] = np /\ \A s \in Slots \ {p} : child'[s] = child[s]
      /\ pc'[np] = "user" /\ pc'[p] = "fork_parent"
      /\ \A s \in Slots \ {p, np} : pc'[s] = pc[s]
  BY <1>1, <1>2, Zenon DEF IInv, TypeOK
<1>4. /\ nextpid' = nextpid + 1 /\ nextpid \in 2..MaxPid
      /\ UNCHANGED <<parent, killed, xstate, onstack, wait_lock, victims>>
  BY BoundAssumption DEF allocpid, IInv, TypeOK
<1> HIDE DEF fork
<1>5. TypeOK'
  <2>1. state' \in [Slots -> {"UNUSED", "USED", "SLEEPING", "RUNNABLE", "ZOMBIE"}]
    BY <1>1, Zenon DEF fork, IInv, TypeOK
  <2>2. pid' \in [Slots -> 0..MaxPid] /\ nextpid' \in 2..(MaxPid + 1)
    BY <1>1, <1>4, BoundAssumption DEF fork, IInv, TypeOK
  <2>3. child' \in [Slots -> 0..NPROC]
    BY <1>1 DEF fork, IInv, TypeOK, Slots
  <2>4. pc' \in [Slots -> {"user", "fork_parent", "fork_run", "exit", "swtch", "gone", "wait"}]
    BY <1>1, Zenon DEF fork, IInv, TypeOK
  <2> QED
    BY <1>4, <2>1, <2>2, <2>3, <2>4, Zenon DEF IInv, TypeOK
<1>6. InitLives'
  BY <1>2, <1>3, Zenon, InitSlot DEF IInv, InitLives
<1>7. SlotInv'
  <2>1. pc[p] = "user" /\ state[p] = "RUNNABLE"
    BY Zenon DEF fork
  <2> QED
    BY <1>1, <1>2, <1>3, <1>4, <2>1, InitSlot DEF IInv, SlotInv, SlotOK, Forking
<1>8. PidInv'
  BY <1>1, <1>2, <1>3, <1>4, BoundAssumption DEF IInv, TypeOK, PidInv, PidOK
<1>9. ParentInv'
  BY <1>1, <1>2, <1>3, <1>4, Zenon, ParentSlot DEF IInv, ParentInv, ParentOK, Alive
<1>10. ForkInv'
  <2>1. ASSUME NEW q \in Slots, child[q] = np PROVE FALSE
    BY <1>1, <1>2, <2>1, InitSlot DEF IInv, SlotInv, SlotOK, ForkInv, ForkOK
  <2>2. ForkOK(p)'
    BY <1>1, <1>2, <1>3, <1>4, <2>1, Zenon DEF ForkOK
  <2>3. ASSUME NEW q \in Slots \ {p} PROVE ForkOK(q)'
    <3>1. CASE q = np
      BY <1>3, <3>1, Zenon DEF ForkOK, Forking
    <3>2. CASE q # np
      BY <1>1, <1>2, <1>3, <1>4, <2>1, <3>2 DEF IInv, ForkInv, ForkOK
    <3> QED
      BY <3>1, <3>2, Zenon
  <2> QED
    BY <2>2, <2>3, Zenon DEF ForkInv
<1>11. WaitInv'
  BY <1>1, <1>2, <1>3, <1>4, Zenon DEF IInv, WaitInv, WaitOK
<1> QED
  BY <1>5, <1>6, <1>7, <1>8, <1>9, <1>10, <1>11, Zenon DEF IInv

(* fork gives the slot back when memory runs out.                          *)
LEMMA ForkFails ==
  ASSUME IInv, NEW p \in Slots, fork_fails(p)
  PROVE  IInv'
<1>1. PICK np \in Slots : np = First(Unused) /\ state[np] = "UNUSED"
  <2>1. First(Unused) \in Unused
    BY Zenon, FirstIsIn DEF fork_fails, Unused
  <2> QED
    BY <2>1, Zenon DEF Unused
<1> USE DEF fork_fails
<1>2. /\ nextpid' = nextpid + 1 /\ nextpid \in 2..MaxPid
      /\ killed' \in [Slots -> {0, 1}] /\ \A s \in Slots : killed'[s] \in {0, killed[s]}
  BY <1>1, BoundAssumption DEF allocpid, IInv, TypeOK, FreedKilled
<1>3. TypeOK'
  BY <1>2, BoundAssumption DEF IInv, TypeOK
<1>4. PidInv'
  BY <1>2, BoundAssumption DEF IInv, TypeOK, PidInv, PidOK
<1> QED
  BY <1>3, <1>4, Zenon, PlacesStay DEF IInv

(* fork links the child to its parent under wait_lock.                     *)
LEMMA ForkParent ==
  ASSUME IInv, NEW p \in Slots, fork_parent(p)
  PROVE  IInv'
<1> USE DEF fork_parent, Active
<1>1. PICK np \in Slots : np = child[p] /\ state[np] = "USED" /\ parent[np] = Nobody
  BY Zenon DEF IInv, ForkInv, ForkOK, Forking
<1>2. np # initproc /\ np # p /\ state[p] = "RUNNABLE" /\ pc[p] = "fork_parent"
  BY <1>1, Zenon DEF IInv, InitLives, Alive
<1>3. /\ parent'[np] = p /\ \A s \in Slots \ {np} : parent'[s] = parent[s]
      /\ pc'[p] = "fork_run" /\ \A s \in Slots \ {p} : pc'[s] = pc[s]
  BY <1>1, Zenon DEF IInv, TypeOK
<1>4. UNCHANGED <<state, pid, killed, xstate, nextpid, child, onstack, wait_lock, victims>>
  BY Zenon
<1>5. TypeOK'
  <2>1. parent' \in [Slots -> 0..NPROC]
    BY <1>1 DEF IInv, TypeOK, Slots
  <2>2. pc' \in [Slots -> {"user", "fork_parent", "fork_run", "exit", "swtch", "gone", "wait"}]
    BY Zenon DEF IInv, TypeOK
  <2> QED
    BY <1>4, <2>1, <2>2, Zenon DEF IInv, TypeOK
<1>6. InitLives' /\ PidInv'
  BY <1>3, <1>4, Zenon, InitSlot, PidsStay DEF IInv, InitLives
<1>7. SlotInv'
  BY <1>1, <1>2, <1>3, <1>4, InitSlot DEF IInv, SlotInv, SlotOK, Forking
<1>8. ParentInv'
  BY <1>1, <1>2, <1>3, <1>4, InitSlot DEF IInv, ParentInv, ParentOK, Alive
<1>9. ForkInv'
  BY <1>1, <1>2, <1>3, <1>4, InitSlot DEF IInv, SlotInv, SlotOK, ForkInv, ForkOK, Forking
<1>10. WaitInv'
  BY <1>1, <1>2, <1>3, <1>4, InitSlot DEF IInv, WaitInv, WaitOK
<1> QED
  BY <1>5, <1>6, <1>7, <1>8, <1>9, <1>10, Zenon DEF IInv

(* fork lets the child run.                                                *)
LEMMA ForkRun ==
  ASSUME IInv, NEW p \in Slots, fork_run(p)
  PROVE  IInv'
<1> USE DEF fork_run, Active
<1>1. PICK np \in Slots : np = child[p] /\ state[np] = "USED" /\ parent[np] # Nobody
  BY Zenon DEF IInv, ForkInv, ForkOK, Forking
<1>2. np # initproc /\ np # p /\ state[p] = "RUNNABLE" /\ pc[p] = "fork_run" /\ pc[np] = "user"
  BY <1>1, Zenon DEF IInv, InitLives, Alive, SlotInv, SlotOK
<1>3. /\ state'[np] = "RUNNABLE" /\ \A s \in Slots \ {np} : state'[s] = state[s]
      /\ child'[p] = Nobody /\ \A s \in Slots \ {p} : child'[s] = child[s]
      /\ pc'[p] = "user" /\ \A s \in Slots \ {p} : pc'[s] = pc[s]
  BY <1>1, Zenon DEF IInv, TypeOK
<1>4. UNCHANGED <<pid, parent, killed, xstate, nextpid, onstack, wait_lock, victims>>
  BY Zenon
<1>5. TypeOK'
  <2>1. state' \in [Slots -> {"UNUSED", "USED", "SLEEPING", "RUNNABLE", "ZOMBIE"}]
    BY <1>1, Zenon DEF IInv, TypeOK
  <2>2. child' \in [Slots -> 0..NPROC]
    BY BoundAssumption DEF IInv, TypeOK, Nobody
  <2>3. pc' \in [Slots -> {"user", "fork_parent", "fork_run", "exit", "swtch", "gone", "wait"}]
    BY Zenon DEF IInv, TypeOK
  <2> QED
    BY <1>4, <2>1, <2>2, <2>3, Zenon DEF IInv, TypeOK
<1>6. InitLives' /\ PidInv'
  BY <1>1, <1>2, <1>3, <1>4, Zenon, InitSlot, PidsStay DEF IInv, InitLives
<1>7. SlotInv'
  BY <1>1, <1>2, <1>3, <1>4, InitSlot DEF IInv, SlotInv, SlotOK, Forking
<1>8. ParentInv'
  BY <1>1, <1>2, <1>3, <1>4, ParentSlot DEF IInv, ParentInv, ParentOK, Alive
<1>9. ForkInv'
  BY <1>1, <1>2, <1>3, <1>4, InitSlot DEF IInv, SlotInv, SlotOK, ForkInv, ForkOK, Forking
<1>10. WaitInv'
  BY <1>1, <1>2, <1>3, <1>4, InitSlot DEF IInv, WaitInv, WaitOK
<1> QED
  BY <1>5, <1>6, <1>7, <1>8, <1>9, <1>10, Zenon DEF IInv

(* A process starts to exit, because it calls exit or finds itself killed. *)
LEMMA UsertrapKilled ==
  ASSUME IInv, NEW p \in Slots, usertrap_killed(p) \/ exit(p)
  PROVE  IInv'
<1>1. /\ pc' = [pc EXCEPT ![p] = "exit"] /\ p # initproc
      /\ state[p] = "RUNNABLE" /\ pc[p] = "user"
      /\ UNCHANGED <<state, pid, parent, killed, nextpid, child, onstack, wait_lock, victims>>
  BY Zenon DEF usertrap_killed, exit, Active
<1>2. pc'[p] = "exit" /\ \A s \in Slots \ {p} : pc'[s] = pc[s]
  BY <1>1, Zenon DEF IInv, TypeOK
<1>3. TypeOK'
  <2>1. xstate' \in [Slots -> {-1, 0}]
    BY Zenon DEF usertrap_killed, exit, IInv, TypeOK
  <2>2. pc' \in [Slots -> {"user", "fork_parent", "fork_run", "exit", "swtch", "gone", "wait"}]
    BY <1>1, Zenon DEF IInv, TypeOK
  <2> QED
    BY <1>1, <2>1, <2>2, Zenon DEF IInv, TypeOK
<1>4. InitLives' /\ PidInv'
  BY <1>1, <1>2, Zenon, InitSlot, PidsStay DEF IInv, InitLives
<1>5. SlotInv'
  BY <1>1, <1>2 DEF IInv, SlotInv, SlotOK, Forking
<1>6. ParentInv' /\ WaitInv'
  BY <1>1, <1>2, Zenon DEF IInv, ParentInv, ParentOK, WaitInv, WaitOK
<1>7. ForkInv'
  BY <1>1, <1>2, Zenon DEF IInv, ForkInv, ForkOK, Forking
<1> QED
  BY <1>3, <1>4, <1>5, <1>6, <1>7, Zenon DEF IInv

(* A fault marks the process itself as killed.                             *)
LEMMA SetKilled ==
  ASSUME IInv, NEW p \in Slots, setkilled(p)
  PROVE  IInv'
<1> USE DEF setkilled
<1>1. /\ killed'[p] = 1 /\ \A s \in Slots \ {p} : killed'[s] = killed[s]
      /\ killed' \in [Slots -> {0, 1}]
  BY Zenon DEF IInv, TypeOK
<1>2. TypeOK'
  <2>1. pid[p] \in Nat
    BY BoundAssumption DEF IInv, TypeOK
  <2> QED
    BY <1>1, <2>1, Zenon DEF IInv, TypeOK
<1>3. PidInv'
  BY <1>1, Zenon DEF IInv, PidInv, PidOK
<1> QED
  BY <1>2, <1>3, Zenon, PlacesStay DEF IInv

(* kill marks the first slot with the pid and wakes it.  Whom it wakes is  *)
(* no longer asleep; nobody becomes a zombie.                              *)
LEMMA Kill ==
  ASSUME IInv, NEW p \in Slots, NEW k \in KillPids, kill(p, k)
  PROVE  IInv'
<1>1. PICK v \in Slots : v = First({s \in Slots : pid[s] = k}) /\ pid[v] = k
  <2> DEFINE hits == {s \in Slots : pid[s] = k}
  <2>1. hits # {} /\ hits \subseteq Slots
    BY Zenon DEF kill
  <2>2. First(hits) \in hits
    BY <2>1, Zenon, FirstIsIn
  <2> QED
    BY <2>2, Zenon
<1>2. /\ killed' = [killed EXCEPT ![v] = 1]
      /\ state' = [state EXCEPT ![v] = IF @ = "SLEEPING" THEN "RUNNABLE" ELSE @]
      /\ victims' = victims \cup {k}
      /\ UNCHANGED <<pid, parent, xstate, nextpid, pc, child, onstack, wait_lock>>
  BY <1>1, Zenon DEF kill, KilledFlag
<1>3. /\ killed'[v] = 1 /\ \A s \in Slots \ {v} : killed'[s] = killed[s]
      /\ state'[v] = (IF state[v] = "SLEEPING" THEN "RUNNABLE" ELSE state[v])
      /\ \A s \in Slots \ {v} : state'[s] = state[s]
  BY <1>1, <1>2, Zenon DEF IInv, TypeOK
<1>4. TypeOK'
  <2>1. state' \in [Slots -> {"UNUSED", "USED", "SLEEPING", "RUNNABLE", "ZOMBIE"}]
    BY <1>2, Zenon DEF IInv, TypeOK
  <2>2. killed' \in [Slots -> {0, 1}] /\ victims' \subseteq Nat
    BY <1>2, Zenon, BoundAssumption DEF IInv, TypeOK
  <2> QED
    BY <1>2, <2>1, <2>2, Zenon DEF IInv, TypeOK
<1>5. InitLives'
  BY <1>1, <1>2, <1>3, Zenon, InitSlot DEF IInv, InitLives, Alive
<1>6. SlotInv'
  BY <1>1, <1>2, <1>3 DEF IInv, SlotInv, SlotOK
<1>7. PidInv'
  BY <1>1, <1>2, <1>3, Zenon DEF IInv, PidInv, PidOK
<1>8. ParentInv'
  BY <1>1, <1>2, <1>3, ParentSlot DEF IInv, ParentInv, ParentOK, Alive
<1>9. ForkInv'
  BY <1>1, <1>2, <1>3 DEF IInv, ForkInv, ForkOK
<1>10. WaitInv'
  BY <1>1, <1>2, <1>3 DEF IInv, WaitInv, WaitOK
<1> QED
  BY <1>4, <1>5, <1>6, <1>7, <1>8, <1>9, <1>10, Zenon DEF IInv
-----------------------------------------------------------------------------
(* exit hands the children to init, wakes whom that concerns and becomes a *)
(* zombie, all under wait_lock.                                            *)
LEMMA ExitZombie ==
  ASSUME IInv, NEW p \in Slots, exit_zombie(p)
  PROVE  IInv'
<1>1. state[p] = "RUNNABLE" /\ pc[p] = "exit" /\ wait_lock = Nobody /\ p # initproc
  BY Zenon DEF exit_zombie, Active, IInv, InitLives
<1>2. \A c \in Slots : parent'[c] = IF parent[c] = p THEN initproc ELSE parent[c]
  BY Zenon DEF exit_zombie, reparent
<1>3. /\ state'[p] = "ZOMBIE"
      /\ \A s \in Slots \ {p} :
           state'[s] = IF state[s] = "SLEEPING" /\ s \in Woken(p) THEN "RUNNABLE" ELSE state[s]
  BY Zenon DEF exit_zombie
<1>4. /\ onstack'[p] = 1 /\ \A s \in Slots \ {p} : onstack'[s] = onstack[s]
      /\ pc'[p] = "swtch" /\ \A s \in Slots \ {p} : pc'[s] = pc[s]
      /\ UNCHANGED <<pid, killed, xstate, nextpid, child, wait_lock, victims>>
  BY Zenon DEF exit_zombie, IInv, TypeOK
<1>5. state'[initproc] \in Alive /\ pc'[initproc] # "exit" /\ initproc \in Slots
  BY <1>1, <1>3, <1>4, Zenon, InitSlot DEF IInv, InitLives, Alive
<1>6. TypeOK'
  <2>1. state' \in [Slots -> {"UNUSED", "USED", "SLEEPING", "RUNNABLE", "ZOMBIE"}]
    BY Zenon DEF exit_zombie, IInv, TypeOK
  <2>2. parent' \in [Slots -> 0..NPROC]
    BY BoundAssumption DEF exit_zombie, reparent, IInv, TypeOK, initproc
  <2>3. pc' \in [Slots -> {"user", "fork_parent", "fork_run", "exit", "swtch", "gone", "wait"}]
    BY Zenon DEF exit_zombie, IInv, TypeOK
  <2>4. onstack' \in [Slots -> {0, 1}]
    BY Zenon DEF exit_zombie, IInv, TypeOK
  <2> QED
    BY <1>4, <2>1, <2>2, <2>3, <2>4, Zenon DEF IInv, TypeOK
<1>7. PidInv'
  BY <1>1, <1>3, <1>4, Zenon, PidsStay
<1>8. SlotInv'
  <2>1. ASSUME NEW q \in Slots \ {p} PROVE SlotOK(q)'
    <3>1. SlotOK(q) /\ (state[q] = "UNUSED" => parent'[q] = Nobody)
      BY <1>2, InitSlot DEF IInv, SlotInv, SlotOK
    <3> QED
      BY <1>3, <1>4, <2>1, <3>1, Zenon DEF SlotOK
  <2>2. SlotOK(p)'
    BY <1>1, <1>3, <1>4, Zenon, InitSlot DEF IInv, SlotInv, SlotOK, Forking
  <2> QED
    BY <2>1, <2>2, Zenon DEF SlotInv
<1>9. ParentInv'
  <2> SUFFICES ASSUME NEW q \in Slots PROVE ParentOK(q)'
    BY Zenon DEF ParentInv
  <2>1. ParentOK(q) /\ ParentOK(p)
    BY Zenon DEF IInv, ParentInv
  <2>2. parent'[q] # Nobody => state'[parent'[q]] \in Alive
    BY <1>2, <1>3, <1>5, <2>1, Zenon, ParentSlot DEF ParentOK, Alive
  <2>3. parent'[q] = Nobody => parent[q] = Nobody
    BY <1>2, Zenon, InitSlot
  <2>4. state'[q] \in Alive \cup {"ZOMBIE"} => state[q] \in Alive \cup {"ZOMBIE"}
    BY <1>1, <1>3, Zenon DEF Alive
  <2> QED
    BY <2>1, <2>2, <2>3, <2>4, Zenon DEF ParentOK
<1>10. ForkInv'
  <2> SUFFICES ASSUME NEW q \in Slots, pc'[q] \in Forking PROVE ForkOK(q)'
    BY Zenon DEF ForkInv, ForkOK
  <2>1. q # p /\ pc'[q] = pc[q] /\ ForkOK(q)
    BY <1>4, Zenon DEF Forking, IInv, ForkInv
  <2>2. child[q] \in Slots /\ state[child[q]] = "USED" /\ child[q] # p
    BY <1>1, <2>1, Zenon DEF ForkOK
  <2> QED
    BY <1>2, <1>3, <1>4, <2>1, <2>2, Zenon, InitSlot DEF ForkOK
<1>11. WaitInv'
  <2> SUFFICES ASSUME NEW q \in Slots, state'[q] = "SLEEPING" \/ pc'[q] = "wait" PROVE WaitOK(q)'
    BY Zenon DEF WaitInv, WaitOK
  <2>1. pc'[q] # "wait"
    BY <1>1, <1>4, Zenon, InitSlot DEF IInv, SlotInv, SlotOK
  <2>2. q # p /\ state[q] = "SLEEPING" /\ q \notin Woken(p)
    BY <1>3, <2>1, Zenon
  <2>3. q # parent[p] /\ (q = initproc => \A c \in Slots : parent[c] # p)
    BY <2>2, Zenon DEF Woken, Children
  <2>4. \A c \in Slots : parent'[c] = q <=> parent[c] = q
    BY <1>2, <2>2, <2>3, Zenon
  <2>5. WaitOK(q)
    BY Zenon DEF IInv, WaitInv
  <2> QED
    BY <1>3, <2>2, <2>3, <2>4, <2>5, Zenon DEF WaitOK
<1> QED
  BY <1>5, <1>6, <1>7, <1>8, <1>9, <1>10, <1>11, Zenon DEF IInv, InitLives

(* The scheduler has released the p->lock of a zombie.                     *)
LEMMA ExitSwitched ==
  ASSUME IInv, NEW p \in Slots, exit_switched(p)
  PROVE  IInv'
<1> USE DEF exit_switched
<1>1. state[p] = "ZOMBIE" /\ p # initproc
  BY DEF IInv, TypeOK, SlotInv, SlotOK, InitLives, Alive
<1>2. /\ onstack'[p] = 0 /\ \A s \in Slots \ {p} : onstack'[s] = onstack[s]
      /\ pc'[p] = "gone" /\ \A s \in Slots \ {p} : pc'[s] = pc[s]
      /\ onstack' \in [Slots -> {0, 1}]
      /\ pc' \in [Slots -> {"user", "fork_parent", "fork_run", "exit", "swtch", "gone", "wait"}]
  BY Zenon DEF IInv, TypeOK
<1>3. TypeOK'
  BY <1>2, Zenon DEF IInv, TypeOK
<1>4. InitLives' /\ PidInv'
  BY <1>1, <1>2, Zenon, InitSlot, PidsStay DEF IInv, InitLives
<1>5. SlotInv'
  BY <1>1, <1>2 DEF IInv, SlotInv, SlotOK, Forking
<1>6. ParentInv' /\ WaitInv'
  BY <1>2 DEF IInv, ParentInv, ParentOK, WaitInv, WaitOK
<1>7. ForkInv'
  BY <1>1, <1>2 DEF IInv, ForkInv, ForkOK, Forking
<1> QED
  BY <1>3, <1>4, <1>5, <1>6, <1>7, Zenon DEF IInv

(* wait frees a zombie child, whose p->lock it has acquired.               *)
LEMMA WaitReap ==
  ASSUME IInv, NEW p \in Slots, wait_reap(p)
  PROVE  IInv'
<1>1. PICK z \in Slots : /\ z = First(Zombies(p)) /\ state[z] = "ZOMBIE"
                        /\ parent[z] = p /\ onstack[z] = 0
  <2>1. Zombies(p) # {} /\ Zombies(p) \subseteq Slots
    BY Zenon DEF wait_reap, Zombies, Children
  <2>2. First(Zombies(p)) \in Zombies(p)
    BY <2>1, Zenon, FirstIsIn
  <2>3. First(Zombies(p)) \in {c \in Children(p) : c <= First(Zombies(p))}
    BY <2>2, BoundAssumption DEF Zombies, Children, Slots
  <2>4. onstack[First(Zombies(p))] = 0
    BY <2>3, Zenon DEF wait_reap, Scannable
  <2> QED
    BY <2>2, <2>4, Zenon DEF Zombies, Children
<1>2. /\ state' = [state EXCEPT ![z] = "UNUSED"] /\ pid' = [pid EXCEPT ![z] = 0]
      /\ parent' = [parent EXCEPT ![z] = Nobody] /\ killed' = [killed EXCEPT ![z] = 0]
      /\ xstate' = [xstate EXCEPT ![z] = 0]
      /\ state[p] = "RUNNABLE" /\ pc[p] = "user"
      /\ UNCHANGED <<nextpid, pc, child, onstack, wait_lock, victims>>
  BY <1>1, Zenon DEF wait_reap, FreedKilled, Active
<1>3. /\ state'[z] = "UNUSED" /\ pid'[z] = 0 /\ parent'[z] = Nobody /\ killed'[z] = 0
      /\ \A s \in Slots \ {z} : /\ state'[s] = state[s] /\ pid'[s] = pid[s]
                               /\ parent'[s] = parent[s] /\ killed'[s] = killed[s]
  BY <1>1, <1>2, Zenon DEF IInv, TypeOK
<1>4. TypeOK'
  <2>1. state' \in [Slots -> {"UNUSED", "USED", "SLEEPING", "RUNNABLE", "ZOMBIE"}]
    BY <1>2, Zenon DEF IInv, TypeOK
  <2>2. pid' \in [Slots -> 0..MaxPid] /\ parent' \in [Slots -> 0..NPROC]
    BY <1>2, BoundAssumption DEF IInv, TypeOK, Nobody
  <2>3. killed' \in [Slots -> {0, 1}] /\ xstate' \in [Slots -> {-1, 0}]
    BY <1>2, Zenon DEF IInv, TypeOK
  <2> QED
    BY <1>2, <2>1, <2>2, <2>3, Zenon DEF IInv, TypeOK
<1>5. InitLives'
  BY <1>1, <1>2, <1>3, Zenon, InitSlot DEF IInv, InitLives, Alive
<1>6. SlotInv'
  BY <1>1, <1>2, <1>3 DEF IInv, SlotInv, SlotOK, Forking
<1>7. PidInv'
  <2>1. PidOK(z)'
    <3>1. pid[z] \in Nat /\ nextpid \in Int /\ pid[z] < nextpid
      BY <1>1, BoundAssumption DEF IInv, TypeOK, PidInv, PidOK
    <3> QED
      BY <1>2, <1>3, <3>1 DEF PidOK
  <2>2. ASSUME NEW q \in Slots, q # z PROVE PidOK(q)'
    <3>1. PidOK(q)
      BY Zenon DEF IInv, PidInv
    <3> QED
      BY <1>2, <1>3, <2>2, <3>1 DEF PidOK
  <2> QED
    BY <2>1, <2>2, Zenon DEF PidInv
<1>8. ParentInv'
  BY <1>1, <1>2, <1>3, ParentSlot DEF IInv, ParentInv, ParentOK, Alive
<1>9. ForkInv'
  <2> SUFFICES ASSUME NEW q \in Slots PROVE ForkOK(q)'
    BY Zenon DEF ForkInv
  <2>1. ForkOK(q)
    BY Zenon DEF IInv, ForkInv
  <2> QED
    BY <1>1, <1>2, <1>3, <2>1 DEF ForkOK, Forking
<1>10. WaitInv'
  BY <1>1, <1>2, <1>3, InitSlot DEF IInv, WaitInv, WaitOK
<1> QED
  BY <1>4, <1>5, <1>6, <1>7, <1>8, <1>9, <1>10, Zenon DEF IInv

(* wait has found children and no zombie, and keeps wait_lock,             *)
LEMMA WaitScan ==
  ASSUME IInv, NEW p \in Slots, wait_scan(p)
  PROVE  IInv'
<1> USE DEF wait_scan, Active, LockAfterScan
<1>1. /\ pc'[p] = "wait" /\ \A s \in Slots \ {p} : pc'[s] = pc[s]
      /\ pc' \in [Slots -> {"user", "fork_parent", "fork_run", "exit", "swtch", "gone", "wait"}]
      /\ wait_lock' = p /\ wait_lock = Nobody
  BY Zenon DEF IInv, TypeOK
<1>2. TypeOK'
  BY <1>1 DEF IInv, TypeOK, Slots
<1>3. InitLives' /\ PidInv'
  BY <1>1, Zenon, InitSlot, PidsStay DEF IInv, InitLives
<1>4. SlotInv'
  BY <1>1, InitSlot DEF IInv, SlotInv, SlotOK, Forking
<1>5. ParentInv'
  BY Zenon DEF IInv, ParentInv, ParentOK
<1>6. ForkInv'
  BY <1>1 DEF IInv, ForkInv, ForkOK, Forking
<1>7. WaitInv'
  BY <1>1 DEF IInv, WaitInv, WaitOK, Children, Zombies
<1> QED
  BY <1>2, <1>3, <1>4, <1>5, <1>6, <1>7, Zenon DEF IInv

(* until it is asleep.                                                     *)
LEMMA WaitSleep ==
  ASSUME IInv, NEW p \in Slots, wait_sleep(p)
  PROVE  IInv'
<1> USE DEF wait_sleep, Active
<1>1. /\ pc'[p] = "user" /\ \A s \in Slots \ {p} : pc'[s] = pc[s]
      /\ state'[p] = "SLEEPING" /\ \A s \in Slots \ {p} : state'[s] = state[s]
      /\ state[p] = "RUNNABLE" /\ pc[p] = "wait" /\ wait_lock' = Nobody /\ wait_lock = p
  BY Zenon DEF IInv, TypeOK, SlotInv, SlotOK
<1>2. TypeOK'
  <2>1. state' \in [Slots -> {"UNUSED", "USED", "SLEEPING", "RUNNABLE", "ZOMBIE"}]
    BY Zenon DEF IInv, TypeOK
  <2>2. pc' \in [Slots -> {"user", "fork_parent", "fork_run", "exit", "swtch", "gone", "wait"}]
    BY Zenon DEF IInv, TypeOK
  <2> QED
    BY <2>1, <2>2, BoundAssumption DEF IInv, TypeOK, Nobody
<1>3. InitLives' /\ PidInv'
  BY <1>1, Zenon, InitSlot, PidsStay DEF IInv, InitLives, Alive
<1>4. SlotInv'
  BY <1>1, InitSlot DEF IInv, SlotInv, SlotOK, Forking
<1>5. ParentInv'
  BY <1>1, ParentSlot DEF IInv, ParentInv, ParentOK, Alive
<1>6. ForkInv'
  BY <1>1 DEF IInv, ForkInv, ForkOK, Forking
<1>7. WaitInv'
  BY <1>1 DEF IInv, WaitInv, WaitOK
<1> QED
  BY <1>2, <1>3, <1>4, <1>5, <1>6, <1>7, Zenon DEF IInv
-----------------------------------------------------------------------------
(* userinit establishes the invariant,                                     *)
LEMMA InitInv == Init => IInv
<1> SUFFICES ASSUME Init PROVE IInv
  BY Zenon
<1> USE DEF Init
<1>1. TypeOK /\ InitLives
  BY BoundAssumption, InitSlot DEF TypeOK, InitLives, Alive, Nobody, Slots
<1>2. SlotInv /\ PidInv
  BY InitSlot DEF SlotInv, SlotOK, PidInv, PidOK, Forking
<1>3. ParentInv /\ ForkInv /\ WaitInv
  BY Zenon, InitSlot DEF ParentInv, ParentOK, ForkInv, ForkOK, WaitInv, WaitOK, Forking, Alive
<1> QED
  BY <1>1, <1>2, <1>3, Zenon DEF IInv

(* and every step keeps it.                                                *)
LEMMA NextInv == IInv /\ [Next]_vars => IInv'
<1> SUFFICES ASSUME IInv, [Next]_vars PROVE IInv'
  BY Zenon
<1>1. ASSUME UNCHANGED vars PROVE IInv'
  BY <1>1, Zenon, PlacesStay, PidsStay DEF IInv, TypeOK, vars
<1>2. ASSUME NEW p \in Slots, Kernel(p) PROVE IInv'
  BY <1>2, Zenon, ForkParent, ForkRun, UsertrapKilled, ExitZombie, ExitSwitched, WaitSleep DEF Kernel
<1>3. ASSUME NEW p \in Slots, wait_fails(p) PROVE IInv'
  BY <1>1, <1>3, Zenon DEF wait_fails
<1>4. CASE Next
  BY <1>2, <1>3, <1>4, Zenon, Fork, ForkFails, UsertrapKilled, SetKilled, WaitReap, WaitScan, Kill
  DEF Next
<1> QED
  BY <1>1, <1>4, Zenon

(* IInv holds always, whatever the size of the process table, the bound on *)
(* pids and the arguments of kill.                                         *)
THEOREM Invariance == Spec => []IInv
BY InitInv, NextInv, PTL DEF Spec

(* A process asleep in wait has a child and no zombie child, and every     *)
(* process but init has a parent that can wait for it.                     *)
THEOREM Exits == Spec => []NoMissedExit
<1>1. IInv => NoMissedExit
  <2> SUFFICES ASSUME IInv PROVE NoMissedExit
    BY Zenon
  <2>1. ASSUME NEW p \in Slots, state[p] = "SLEEPING"
        PROVE  Children(p) # {} /\ Zombies(p) = {}
    BY <2>1, Zenon DEF IInv, WaitInv, WaitOK, Children, Zombies
  <2>2. ASSUME NEW p \in Slots \ {initproc}, state[p] \in {"RUNNABLE", "SLEEPING", "ZOMBIE"}
        PROVE  parent[p] # Nobody /\ state[parent[p]] \in {"RUNNABLE", "SLEEPING"}
    BY <2>2, Zenon DEF IInv, ParentInv, ParentOK, Alive
  <2> QED
    BY <2>1, <2>2, Zenon DEF NoMissedExit
<1> QED
  BY <1>1, Invariance, PTL

(* A slot is freed only when no CPU is on its kernel stack, pids in use    *)
(* are distinct, and only kill(0) can mark a slot for its next user.       *)
THEOREM Slots_Exclusive == Spec => []SlotsExclusive
<1>1. IInv => SlotsExclusive
  <2> SUFFICES ASSUME IInv PROVE SlotsExclusive
    BY Zenon
  <2>1. ASSUME NEW p \in Slots
        PROVE  /\ killed[p] = 1 => pid[p] \in victims \/ 0 \in victims
               /\ state[p] # "UNUSED" => pid[p] # 0
               /\ \A q \in Slots : pid[p] = pid[q] /\ pid[p] # 0 => p = q
    BY Zenon DEF IInv, PidInv, PidOK
  <2>2. ASSUME NEW p \in Slots, state[p] = "UNUSED" PROVE onstack[p] = 0
    BY <2>2, Zenon DEF IInv, TypeOK, SlotInv, SlotOK
  <2>3. TypeOK
    BY Zenon DEF IInv
  <2> QED
    BY <2>1, <2>2, <2>3, Zenon DEF SlotsExclusive
<1> QED
  BY <1>1, Invariance, PTL
=============================================================================
