----------------------------- MODULE PipeProofs -----------------------------
(***************************************************************************)
(* Proofs about Pipe, for any set of processes, any buffer size and any    *)
(* width of the counters: nobody sleeps on the pipe without a reason,      *)
(* nobody uses it after it is freed, and the ring buffer implements the    *)
(* queue of Fifo.                                                          *)
(***************************************************************************)
EXTENDS Pipe, FiniteSetTheorems, TLAPS

\* Inside pipewrite and inside piperead, and there with pi->lock held.
Writing == {"w_check", "w_act", "w_sleep", "w_acquire"}
Reading == {"r_check", "r_act", "r_sleep", "r_acquire", "r_copy"}
Locked == {"w_check", "w_act", "r_check", "r_act", "r_copy"}

\* The reference counts count, and a file is open until its last reference
\* has gone through pipeclose.
RefInv ==
  /\ rref = Cardinality(rfd) /\ wref = Cardinality(wfd)
  /\ freed = IF readopen = 0 /\ writeopen = 0 THEN 1 ELSE 0
  /\ rfd # {} => readopen = 1
  /\ wfd # {} => writeopen = 1

\* Who is inside has a descriptor; one process at most closes an end.
PlaceOK(p) ==
  /\ pc[p] \in Reading => p \in rfd
  /\ pc[p] \in Writing => p \in wfd
  /\ pc[p] = "close_r" => rfd = {} /\ readopen = 1 /\ \A q \in Procs : pc[q] = "close_r" => q = p
  /\ pc[p] = "close_w" => wfd = {} /\ writeopen = 1 /\ \A q \in Procs : pc[q] = "close_w" => q = p
  /\ pc[p] \in Locked <=> lock = p

\* What a process that holds pi->lock has found out, and who will wake the
\* sleepers when the reason for their sleep has gone.
SleepOK(p) ==
  /\ pc[p] = "w_act" => readopen = 1 /\ left[p] > 0
  /\ pc[p] = "r_act" => MustWait
  /\ cut = 0 /\ pc[p] = "r_sleep" =>
       MustWait \/ \E q \in Procs : pc[q] \in {"w_check", "w_act"}
  /\ cut = 0 /\ pc[p] = "w_sleep" =>
       (Full /\ readopen = 1) \/ \E q \in Procs : pc[q] = "r_copy"

PlaceInv == \A p \in Procs : PlaceOK(p)
SleepInv == \A p \in Procs : SleepOK(p)

\* The counters are never further apart than the buffer is long.
CountInv == Used <= PIPESIZE

\* The part of the type invariant about a process's own variables.
OwnTypes == left \in [Procs -> 0..MaxN] /\ killed \in [Procs -> {0, 1}] /\ cut \in {0, 1}

IInv == TypeOK /\ RefInv /\ PlaceInv /\ SleepInv /\ CountInv
-----------------------------------------------------------------------------
\* A step of process p to place l that leaves the ends of the pipe alone and
\* may wake sleepers.
Moves(p, l) ==
  /\ pc' \in [Procs -> PCs] /\ pc'[p] = l
  /\ \A q \in Procs \ {p} :
       \/ pc'[q] = pc[q]
       \/ pc[q] = "r_sleep" /\ pc'[q] = "r_acquire"
       \/ pc[q] = "w_sleep" /\ pc'[q] = "w_acquire"
  /\ lock' = IF l \in Locked THEN p ELSE IF pc[p] \in Locked THEN Nobody ELSE lock
  /\ l \in Locked /\ pc[p] \notin Locked => lock = Nobody
  /\ l \in Reading => p \in rfd
  /\ l \in Writing => p \in wfd
  /\ l \notin {"close_r", "close_w"}
  /\ UNCHANGED <<fileVars, readopen, writeopen, freed>>

\* The same step leaves nobody asleep for whom p was responsible.
Rouses(p, l) ==
  /\ UNCHANGED <<data, nread, nwrite, ch>> /\ cut \in {0, cut'}
  /\ \A q \in Procs \ {p} : left'[q] = left[q]
  /\ l = "w_act" => readopen = 1 /\ left'[p] > 0
  /\ l \in {"r_act", "r_sleep"} => MustWait
  /\ l = "w_sleep" => Full /\ readopen = 1
  /\ cut' = 0 /\ pc[p] \in {"w_check", "w_act"} /\ l \notin {"w_check", "w_act"} =>
       \A q \in Procs \ {p} : pc'[q] # "r_sleep"
  /\ pc[p] = "r_copy" /\ l # "r_copy" => \A q \in Procs \ {p} : pc'[q] # "w_sleep"

(* The descriptors and the lock stay in step with the places.              *)
LEMMA MovePlace ==
  ASSUME IInv, NEW p \in Procs, NEW l \in PCs, Moves(p, l)
  PROVE  RefInv' /\ PlaceInv'
<1>1. RefInv'
  BY Zenon DEF IInv, RefInv, Moves, fileVars
<1>2. ASSUME NEW q \in Procs, q # p
      PROVE  PlaceOK(q)'
  <2>1. PlaceOK(q) /\ PlaceOK(p)
    BY Zenon DEF IInv, PlaceInv
  <2>2. \A r \in Procs : /\ pc'[r] = "close_r" => pc[r] = "close_r"
                        /\ pc'[r] = "close_w" => pc[r] = "close_w"
    BY Zenon DEF Moves
  <2> QED
    BY <1>2, <2>1, Zenon, ProcAssumption DEF PlaceOK, Moves, Reading, Writing, Locked, fileVars
<1>3. PlaceOK(p)'
  BY Zenon, ProcAssumption DEF IInv, PlaceInv, PlaceOK, Moves, fileVars
<1> QED
  BY <1>1, <1>2, <1>3, Zenon DEF PlaceInv

(* And whoever sleeps does so for a reason, or will be woken by the holder *)
(* of the lock.                                                            *)
LEMMA MoveSleep ==
  ASSUME IInv, NEW p \in Procs, NEW l \in PCs, Moves(p, l), Rouses(p, l)
  PROVE  SleepInv'
<1>1. MustWait' = MustWait /\ Full' = Full /\ readopen' = readopen
  BY Zenon DEF MustWait, Empty, Full, Moves, Rouses
<1>2. ASSUME NEW q \in Procs, q # p
      PROVE  SleepOK(q)'
  <2>1. SleepOK(q)
    BY Zenon DEF IInv, SleepInv
  <2>2. ASSUME cut' = 0, pc'[q] = "r_sleep", ~MustWait
        PROVE  \E r \in Procs : pc'[r] \in {"w_check", "w_act"}
    <3>1. PICK r \in Procs : pc[r] \in {"w_check", "w_act"}
      BY <2>1, <2>2, Zenon DEF SleepOK, Moves, Rouses
    <3> QED
      BY <2>2, <3>1, Zenon DEF Moves, Rouses
  <2>3. ASSUME cut' = 0, pc'[q] = "w_sleep", ~(Full /\ readopen = 1)
        PROVE  \E r \in Procs : pc'[r] = "r_copy"
    <3>1. PICK r \in Procs : pc[r] = "r_copy"
      BY <2>1, <2>3, Zenon DEF SleepOK, Moves, Rouses
    <3> QED
      BY <2>3, <3>1, Zenon DEF Moves, Rouses
  <2> QED
    BY <1>1, <1>2, <2>1, <2>2, Zenon DEF SleepOK, Moves, Rouses
<1>3. SleepOK(p)'
  BY <1>1, Zenon DEF SleepOK, Moves, Rouses
<1> QED
  BY <1>2, <1>3, Zenon DEF SleepInv

(* The step keeps the invariant if it keeps the types.                     *)
LEMMA MoveInv ==
  ASSUME IInv, NEW p \in Procs, NEW l \in PCs, Moves(p, l), Rouses(p, l), OwnTypes'
  PROVE  IInv'
<1>1. CountInv'
  BY Zenon DEF IInv, CountInv, Used, Rouses
<1>2. TypeOK'
  BY Zenon DEF IInv, TypeOK, OwnTypes, Moves, Rouses, fileVars
<1> QED
  BY <1>1, <1>2, MovePlace, MoveSleep DEF IInv

(* What becomes of pc when p goes to l and nobody is woken,                *)
LEMMA Goes ==
  ASSUME IInv, NEW p \in Procs, NEW l \in PCs, pc' = [pc EXCEPT ![p] = l]
  PROVE  /\ pc' \in [Procs -> PCs] /\ pc'[p] = l
         /\ \A q \in Procs \ {p} : pc'[q] = pc[q]
BY Zenon DEF IInv, TypeOK

(* when the readers are woken,                                             *)
LEMMA GoesReaders ==
  ASSUME IInv, NEW p \in Procs, NEW l \in PCs, l # "r_sleep",
         pc' = WakeReaders([pc EXCEPT ![p] = l])
  PROVE  /\ pc' \in [Procs -> PCs] /\ pc'[p] = l
         /\ \A q \in Procs \ {p} : pc'[q] = IF pc[q] = "r_sleep" THEN "r_acquire" ELSE pc[q]
BY Zenon DEF IInv, TypeOK, WakeReaders, Wakeup, PCs

(* and when the writers are.                                               *)
LEMMA GoesWriters ==
  ASSUME IInv, NEW p \in Procs, NEW l \in PCs, l # "w_sleep",
         pc' = WakeWriters([pc EXCEPT ![p] = l])
  PROVE  /\ pc' \in [Procs -> PCs] /\ pc'[p] = l
         /\ \A q \in Procs \ {p} : pc'[q] = IF pc[q] = "w_sleep" THEN "w_acquire" ELSE pc[q]
BY Zenon DEF IInv, TypeOK, WakeWriters, Wakeup, PCs

(* acquire takes the lock when it is free.                                 *)
LEMMA AcquireInv ==
  ASSUME IInv, NEW p \in Procs, acquire(p)
  PROVE  IInv'
<1>a. (IF pc[p] = "w_acquire" THEN "w_check" ELSE "r_check") \in PCs
  BY Zenon DEF PCs
<1>1. /\ pc[p] \in {"w_acquire", "r_acquire"}
      /\ pc' \in [Procs -> PCs] /\ pc'[p] = (IF pc[p] = "w_acquire" THEN "w_check" ELSE "r_check")
      /\ \A q \in Procs \ {p} : pc'[q] = pc[q]
  BY <1>a, Zenon, Goes DEF acquire
<1>2. Moves(p, (IF pc[p] = "w_acquire" THEN "w_check" ELSE "r_check"))
  BY <1>1, Zenon DEF acquire, Moves, Reading, Writing, Locked, pipeVars, IInv, PlaceInv,
     PlaceOK
<1>3. Rouses(p, (IF pc[p] = "w_acquire" THEN "w_check" ELSE "r_check"))
  BY Zenon DEF acquire, Rouses, pipeVars
<1>4. OwnTypes'
  BY Zenon DEF acquire, IInv, TypeOK, OwnTypes
<1> QED
  BY <1>a, <1>2, <1>3, <1>4, Zenon, MoveInv

(* A write starts without the lock.                                        *)
LEMMA WriteInv ==
  ASSUME IInv, NEW p \in Procs, NEW k \in 0..MaxN, pipewrite(p, k)
  PROVE  IInv'
<1>a. "w_acquire" \in PCs
  BY Zenon DEF PCs
<1>1. /\ pc[p] = "idle"
      /\ pc' \in [Procs -> PCs] /\ pc'[p] = "w_acquire"
      /\ \A q \in Procs \ {p} : pc'[q] = pc[q]
  BY <1>a, Zenon, Goes DEF pipewrite
<1>2. Moves(p, "w_acquire")
  BY <1>1, Zenon DEF pipewrite, Moves, Reading, Locked, pipeVars
<1>3. Rouses(p, "w_acquire")
  BY DEF pipewrite, Rouses, pipeVars
<1>4. OwnTypes'
  BY Zenon DEF pipewrite, IInv, TypeOK, OwnTypes
<1> QED
  BY <1>a, <1>2, <1>3, <1>4, Zenon, MoveInv

(* So does a read.                                                         *)
LEMMA ReadInv ==
  ASSUME IInv, NEW p \in Procs, NEW k \in 0..MaxN, piperead(p, k)
  PROVE  IInv'
<1>a. "r_acquire" \in PCs
  BY Zenon DEF PCs
<1>1. /\ pc[p] = "idle"
      /\ pc' \in [Procs -> PCs] /\ pc'[p] = "r_acquire"
      /\ \A q \in Procs \ {p} : pc'[q] = pc[q]
  BY <1>a, Zenon, Goes DEF piperead
<1>2. Moves(p, "r_acquire")
  BY <1>1, Zenon DEF piperead, Moves, Writing, Locked, pipeVars
<1>3. Rouses(p, "r_acquire")
  BY DEF piperead, Rouses, pipeVars
<1>4. OwnTypes'
  BY Zenon DEF piperead, IInv, TypeOK, OwnTypes
<1> QED
  BY <1>a, <1>2, <1>3, <1>4, Zenon, MoveInv

(* pipewrite goes on only while the pipe can be read.                      *)
LEMMA WriteCheckInv ==
  ASSUME IInv, NEW p \in Procs, pipewrite_check(p)
  PROVE  IInv'
<1>a. "w_act" \in PCs
  BY Zenon DEF PCs
<1>1. /\ pc[p] = "w_check"
      /\ pc' \in [Procs -> PCs] /\ pc'[p] = "w_act"
      /\ \A q \in Procs \ {p} : pc'[q] = pc[q]
  BY <1>a, Zenon, Goes DEF pipewrite_check
<1>2. Moves(p, "w_act")
  BY <1>1, Zenon DEF pipewrite_check, Moves, Reading, Writing, Locked, pipeVars, IInv,
     PlaceInv, PlaceOK
<1>3. Rouses(p, "w_act")
  BY Zenon DEF pipewrite_check, Rouses, pipeVars
<1>4. OwnTypes'
  BY Zenon DEF pipewrite_check, IInv, TypeOK, OwnTypes
<1> QED
  BY <1>a, <1>2, <1>3, <1>4, Zenon, MoveInv

(* pipewrite wakes the readers before it sleeps on a full pipe.            *)
LEMMA WriteSleepInv ==
  ASSUME IInv, NEW p \in Procs, pipewrite_sleep(p)
  PROVE  IInv'
<1>a. "w_sleep" \in PCs
  BY Zenon DEF PCs
<1>1. /\ pc[p] = "w_act"
      /\ pc' \in [Procs -> PCs] /\ pc'[p] = "w_sleep"
      /\ \A q \in Procs \ {p} : pc'[q] = IF pc[q] = "r_sleep" THEN "r_acquire" ELSE pc[q]
  BY <1>a, Zenon, GoesReaders DEF pipewrite_sleep
<1>2. Moves(p, "w_sleep")
  BY <1>1, Zenon DEF pipewrite_sleep, Moves, Reading, Writing, Locked, pipeVars, IInv,
     PlaceInv, PlaceOK
<1>3. Rouses(p, "w_sleep")
  BY <1>1, Zenon DEF pipewrite_sleep, Rouses, pipeVars, IInv, TypeOK, SleepInv, SleepOK
<1>4. OwnTypes'
  BY Zenon DEF pipewrite_sleep, IInv, TypeOK, OwnTypes
<1> QED
  BY <1>a, <1>2, <1>3, <1>4, Zenon, MoveInv

(* and when copyin fails.                                                  *)
LEMMA WriteFaultInv ==
  ASSUME IInv, NEW p \in Procs, pipewrite_fault(p)
  PROVE  IInv'
<1>a. "idle" \in PCs
  BY Zenon DEF PCs
<1>1. /\ pc[p] = "w_act"
      /\ pc' \in [Procs -> PCs] /\ pc'[p] = "idle"
      /\ \A q \in Procs \ {p} : pc'[q] = IF pc[q] = "r_sleep" THEN "r_acquire" ELSE pc[q]
  BY <1>a, Zenon, GoesReaders DEF pipewrite_fault, Written
<1>2. Moves(p, "idle")
  BY <1>1, Zenon DEF pipewrite_fault, Moves, Reading, Writing, Locked, pipeVars
<1>3. Rouses(p, "idle")
  BY <1>1, Zenon DEF pipewrite_fault, Rouses, pipeVars, IInv, TypeOK
<1>4. OwnTypes'
  BY SizeAssumption DEF pipewrite_fault, IInv, TypeOK, OwnTypes
<1> QED
  BY <1>a, <1>2, <1>3, <1>4, Zenon, MoveInv

(* A killed reader gives up when there is nothing to read.                 *)
LEMMA ReadKilledInv ==
  ASSUME IInv, NEW p \in Procs, piperead_killed(p)
  PROVE  IInv'
<1>a. "idle" \in PCs
  BY Zenon DEF PCs
<1>1. /\ pc[p] = "r_check"
      /\ pc' \in [Procs -> PCs] /\ pc'[p] = "idle"
      /\ \A q \in Procs \ {p} : pc'[q] = pc[q]
  BY <1>a, Zenon, Goes DEF piperead_killed
<1>2. Moves(p, "idle")
  BY <1>1, Zenon DEF piperead_killed, Moves, Reading, Writing, Locked, pipeVars
<1>3. Rouses(p, "idle")
  BY DEF piperead_killed, Rouses, pipeVars
<1>4. OwnTypes'
  BY SizeAssumption DEF piperead_killed, IInv, TypeOK, OwnTypes
<1> QED
  BY <1>a, <1>2, <1>3, <1>4, Zenon, MoveInv

(* A reader sleeps when it has found the pipe empty, under the same lock.  *)
LEMMA ReadSleepInv ==
  ASSUME IInv, NEW p \in Procs, piperead_sleep(p)
  PROVE  IInv'
<1>a. "r_sleep" \in PCs
  BY Zenon DEF PCs
<1>1. /\ pc[p] = "r_act"
      /\ pc' \in [Procs -> PCs] /\ pc'[p] = "r_sleep"
      /\ \A q \in Procs \ {p} : pc'[q] = pc[q]
  BY <1>a, Zenon, Goes DEF piperead_sleep
<1>2. Moves(p, "r_sleep")
  BY <1>1, Zenon DEF piperead_sleep, Moves, Reading, Writing, Locked, pipeVars, IInv, PlaceInv,
     PlaceOK
<1>3. Rouses(p, "r_sleep")
  BY Zenon DEF piperead_sleep, Rouses, pipeVars, IInv, SleepInv, SleepOK
<1>4. OwnTypes'
  BY Zenon DEF piperead_sleep, IInv, TypeOK, OwnTypes
<1> QED
  BY <1>a, <1>2, <1>3, <1>4, Zenon, MoveInv

(* piperead wakes the writers when it is done.                             *)
LEMMA ReadDoneInv ==
  ASSUME IInv, NEW p \in Procs, piperead_done(p)
  PROVE  IInv'
<1>a. "idle" \in PCs
  BY Zenon DEF PCs
<1>1. /\ pc[p] = "r_copy"
      /\ pc' \in [Procs -> PCs] /\ pc'[p] = "idle"
      /\ \A q \in Procs \ {p} : pc'[q] = IF pc[q] = "w_sleep" THEN "w_acquire" ELSE pc[q]
  BY <1>a, Zenon, GoesWriters DEF piperead_done
<1>2. Moves(p, "idle")
  BY <1>1, Zenon DEF piperead_done, Moves, Reading, Writing, Locked, pipeVars, IInv, PlaceInv,
     PlaceOK
<1>3. Rouses(p, "idle")
  BY <1>1, Zenon DEF piperead_done, Rouses, pipeVars, IInv, TypeOK
<1>4. OwnTypes'
  BY SizeAssumption DEF piperead_done, IInv, TypeOK, OwnTypes
<1> QED
  BY <1>a, <1>2, <1>3, <1>4, Zenon, MoveInv

(* pipewrite returns with the readers awake, or cut short by a kill, or    *)
(* because there are no readers any more.                                  *)
LEMMA WriteReturnInv ==
  ASSUME IInv, NEW p \in Procs, pipewrite_return(p)
  PROVE  IInv'
<1>a. "idle" \in PCs
  BY Zenon DEF PCs
<1>1. /\ pc[p] = "w_check" /\ pc' \in [Procs -> PCs] /\ pc'[p] = "idle"
      /\ \A q \in Procs \ {p} : pc'[q] \in {pc[q], IF pc[q] = "r_sleep" THEN "r_acquire" ELSE pc[q]}
      /\ cut' = 0 => \A q \in Procs \ {p} : pc'[q] # "r_sleep"
  <2>1. CASE pc' = Written(p)
    <3>1. /\ pc' \in [Procs -> PCs] /\ pc'[p] = "idle"
          /\ \A q \in Procs \ {p} : pc'[q] = IF pc[q] = "r_sleep" THEN "r_acquire" ELSE pc[q]
      BY <1>a, <2>1, Zenon, GoesReaders DEF Written
    <3> QED
      BY <3>1, Zenon DEF pipewrite_return
  <2>2. CASE pc' = [pc EXCEPT ![p] = "idle"] /\ (readopen = 1 => cut' = 1)
    <3>1. /\ pc' \in [Procs -> PCs] /\ pc'[p] = "idle"
          /\ \A q \in Procs \ {p} : pc'[q] = pc[q]
      BY <1>a, <2>2, Zenon, Goes
    <3>2. readopen = 0 => \A q \in Procs : pc[q] # "r_sleep"
      BY DEF IInv, RefInv, PlaceInv, PlaceOK, Reading
    <3> QED
      BY <2>2, <3>1, <3>2, Zenon DEF pipewrite_return, IInv, TypeOK
  <2> QED
    BY <2>1, <2>2, Zenon DEF pipewrite_return
<1>2. Moves(p, "idle")
  BY <1>1, Zenon DEF pipewrite_return, Moves, Reading, Writing, Locked, pipeVars
<1>3. Rouses(p, "idle")
  BY <1>1, Zenon DEF pipewrite_return, Rouses, pipeVars, IInv, TypeOK
<1>4. OwnTypes'
  BY SizeAssumption DEF pipewrite_return, IInv, TypeOK, OwnTypes
<1> QED
  BY <1>a, <1>2, <1>3, <1>4, Zenon, MoveInv

(* piperead waits or starts to copy.                                       *)
LEMMA ReadCheckInv ==
  ASSUME IInv, NEW p \in Procs, piperead_check(p)
  PROVE  IInv'
<1>1. PICK l \in {"r_copy", "r_act"} : pc' = [pc EXCEPT ![p] = l] /\ (l = "r_act" => MustWait)
  BY Zenon DEF piperead_check
<1>a. l \in PCs
  BY Zenon DEF PCs
<1>2. /\ pc' \in [Procs -> PCs] /\ pc'[p] = l
      /\ \A q \in Procs \ {p} : pc'[q] = pc[q]
  BY <1>a, <1>1, Zenon, Goes
<1>3. Moves(p, l)
  BY <1>2 DEF piperead_check, Moves, Reading, Writing, Locked, pipeVars, IInv, PlaceInv, PlaceOK
<1>4. Rouses(p, l)
  BY <1>2, Zenon DEF piperead_check, Rouses, pipeVars
<1>5. OwnTypes'
  BY Zenon DEF piperead_check, IInv, TypeOK, OwnTypes
<1> QED
  BY <1>a, <1>3, <1>4, <1>5, Zenon, MoveInv

(* A step that leaves pipe, places and counters alone disturbs nobody's    *)
(* sleep,                                                                  *)
LEMMA SameSleep ==
  ASSUME IInv, UNCHANGED <<nread, nwrite, readopen, writeopen, pc, left, cut>>
  PROVE  SleepInv' /\ CountInv'
BY Zenon DEF IInv, SleepInv, SleepOK, MustWait, Empty, Full, CountInv, Used

(* nor the rest of the invariant if it leaves the descriptors alone.       *)
LEMMA SameInv ==
  ASSUME IInv, UNCHANGED <<pipeVars, lock, freed, fileVars, pc, left, ch, cut>>, OwnTypes'
  PROVE  IInv'
<1>1. TypeOK'
  BY Zenon DEF IInv, TypeOK, OwnTypes, pipeVars, fileVars
<1>2. RefInv' /\ PlaceInv'
  BY Zenon DEF IInv, RefInv, PlaceInv, PlaceOK, pipeVars, fileVars
<1>3. SleepInv' /\ CountInv'
  BY Zenon, SameSleep DEF pipeVars
<1> QED
  BY <1>1, <1>2, <1>3, Zenon DEF IInv

(* A kill wakes its victim, who looks again.                               *)
LEMMA KillInv ==
  ASSUME IInv, NEW p \in Procs, kill(p)
  PROVE  IInv'
<1>1. OwnTypes'
  BY Zenon DEF kill, IInv, TypeOK, OwnTypes
<1>2. ASSUME NEW s \in {"r_sleep", "w_sleep"}, NEW l \in {"r_acquire", "w_acquire"},
             pc[p] = s, pc' = [pc EXCEPT ![p] = l], s = "r_sleep" <=> l = "r_acquire"
      PROVE  IInv'
  <2>a. l \in PCs
    BY Zenon DEF PCs
  <2>1. /\ pc' \in [Procs -> PCs] /\ pc'[p] = l
        /\ \A q \in Procs \ {p} : pc'[q] = pc[q]
    BY <1>2, <2>a, Zenon, Goes
  <2>2. Moves(p, l)
    BY <2>1, Zenon DEF kill, Moves, Reading, Writing, Locked, pipeVars, IInv, PlaceInv, PlaceOK
  <2>3. Rouses(p, l)
    BY <2>1, Zenon DEF kill, Rouses, pipeVars
  <2> QED
    BY <1>1, <2>a, <2>2, <2>3, Zenon, MoveInv
<1>3. CASE pc[p] \notin {"r_sleep", "w_sleep"}
  <2>1. pc' = pc
    BY <1>3, Zenon DEF kill, IInv, TypeOK
  <2> QED
    BY <1>1, <2>1, Zenon, SameInv DEF kill
<1>4. CASE pc[p] = "r_sleep"
  <2>1. pc' = [pc EXCEPT ![p] = "r_acquire"]
    BY <1>4, Zenon DEF kill
  <2> QED
    BY <1>2, <1>4, <2>1, Zenon
<1>5. CASE pc[p] = "w_sleep"
  <2>1. pc' = [pc EXCEPT ![p] = "w_acquire"]
    BY <1>5, Zenon DEF kill
  <2> QED
    BY <1>2, <1>5, <2>1, Zenon
<1> QED
  BY <1>3, <1>4, <1>5
-----------------------------------------------------------------------------
(* A set of processes has no more members than there are processes.        *)
LEMMA Counts ==
  ASSUME NEW S \in SUBSET Procs
  PROVE  /\ IsFiniteSet(S) /\ Cardinality(S) \in 0..Cardinality(Procs)
         /\ Cardinality(S) = 0 <=> S = {}
<1>1. IsFiniteSet(S) /\ Cardinality(S) <= Cardinality(Procs)
  BY Zenon, ProcAssumption, FS_Subset
<1> QED
  BY <1>1, FS_CardinalityType, FS_EmptySet

(* One descriptor more,                                                    *)
LEMMA CountsUp ==
  ASSUME NEW S \in SUBSET Procs, NEW q \in Procs, q \notin S
  PROVE  /\ Cardinality(S \cup {q}) = Cardinality(S) + 1
         /\ Cardinality(S \cup {q}) \in 0..Cardinality(Procs)
<1>1. S \cup {q} \in SUBSET Procs
  BY Zenon
<1> QED
  BY Counts, FS_AddElement

(* and one less.                                                           *)
LEMMA CountsDown ==
  ASSUME NEW S \in SUBSET Procs, NEW p \in S
  PROVE  /\ Cardinality(S \ {p}) = Cardinality(S) - 1
         /\ Cardinality(S \ {p}) \in 0..Cardinality(Procs)
         /\ Cardinality(S) = 1 <=> S \ {p} = {}
<1>1. S \ {p} \in SUBSET Procs
  BY Zenon
<1>2. Cardinality(S \ {p}) = Cardinality(S) - 1
  BY Counts, FS_RemoveElement
<1>3. Cardinality(S) \in Nat
  BY Counts
<1> QED
  BY <1>2, Counts

(* fork shares the descriptors of a process that has some, so no end of    *)
(* the pipe that is being closed comes back.                               *)
LEMMA DupInv ==
  ASSUME IInv, NEW p \in Procs, NEW q \in Procs, filedup(p, q)
  PROVE  IInv'
<1>1. /\ rfd \in SUBSET Procs /\ wfd \in SUBSET Procs /\ q \notin rfd \cup wfd
      /\ rref = Cardinality(rfd) /\ wref = Cardinality(wfd)
  BY Zenon DEF filedup, IInv, TypeOK, RefInv
<1>2. /\ rref' = Cardinality(rfd') /\ rref' \in 0..Cardinality(Procs)
      /\ rfd' \in SUBSET Procs /\ rfd \subseteq rfd' /\ (rfd = {} => rfd' = {})
  <2>1. CASE p \in rfd
    <3>1. rfd' = rfd \cup {q} /\ rref' = rref + 1
      BY <2>1, Zenon DEF filedup
    <3> QED
      BY <1>1, <2>1, <3>1, CountsUp
  <2>2. CASE p \notin rfd
    <3>1. rfd' = rfd /\ rref' = rref
      BY <1>1, <2>2, Counts DEF filedup
    <3> QED
      BY <1>1, <3>1, Counts
  <2> QED
    BY <2>1, <2>2, Zenon
<1>3. /\ wref' = Cardinality(wfd') /\ wref' \in 0..Cardinality(Procs)
      /\ wfd' \in SUBSET Procs /\ wfd \subseteq wfd' /\ (wfd = {} => wfd' = {})
  <2>1. CASE p \in wfd
    <3>1. wfd' = wfd \cup {q} /\ wref' = wref + 1
      BY <2>1, Zenon DEF filedup
    <3> QED
      BY <1>1, <2>1, <3>1, CountsUp
  <2>2. CASE p \notin wfd
    <3>1. wfd' = wfd /\ wref' = wref
      BY <1>1, <2>2, Counts DEF filedup
    <3> QED
      BY <1>1, <3>1, Counts
  <2> QED
    BY <2>1, <2>2, Zenon
<1>4. TypeOK'
  BY <1>2, <1>3, Zenon DEF filedup, IInv, TypeOK, pipeVars
<1>5. RefInv'
  BY <1>2, <1>3, Zenon DEF filedup, IInv, RefInv, pipeVars
<1>6. PlaceInv'
  BY DEF filedup, IInv, PlaceInv, PlaceOK, pipeVars
<1>7. SleepInv' /\ CountInv'
  BY Zenon, SameSleep DEF filedup, pipeVars
<1> QED
  BY <1>4, <1>5, <1>6, <1>7 DEF IInv

(* Who gives up the last descriptor for the read end goes on to close it. *)
LEMMA CloseRInv ==
  ASSUME IInv, NEW p \in Procs, fileclose_r(p)
  PROVE  IInv'
<1>1. rfd \in SUBSET Procs /\ p \in rfd /\ rref = Cardinality(rfd)
  BY Zenon DEF fileclose_r, IInv, TypeOK, RefInv
<1>2. /\ rref' = Cardinality(rfd') /\ rref' \in 0..Cardinality(Procs)
      /\ rfd' = rfd \ {p} /\ (LastRef(rref) <=> rfd' = {})
  BY <1>1, CountsDown DEF fileclose_r, LastRef
<1>3. /\ pc' \in [Procs -> PCs] /\ pc[p] = "idle"
      /\ pc'[p] = IF rfd' = {} THEN "close_r" ELSE "idle"
      /\ \A q \in Procs \ {p} : pc'[q] = pc[q]
  BY <1>2, Zenon DEF fileclose_r, IInv, TypeOK, PCs
<1>4. TypeOK'
  BY <1>2, <1>3 DEF fileclose_r, IInv, TypeOK, pipeVars
<1>5. RefInv'
  BY <1>2, Zenon DEF fileclose_r, IInv, RefInv, pipeVars
<1>6. ASSUME NEW q \in Procs
      PROVE  PlaceOK(q)'
  <2>1. \A o \in Procs : pc[o] # "close_r"
    BY <1>1, Zenon DEF IInv, PlaceInv, PlaceOK
  <2>2. readopen = 1
    BY <1>1, Zenon DEF IInv, RefInv
  <2> QED
    BY <1>3, <2>2 DEF fileclose_r, IInv, PlaceInv, PlaceOK, Reading, Writing, Locked, pipeVars
<1>7. ASSUME NEW q \in Procs
      PROVE  SleepOK(q)'
  <2>1. MustWait' = MustWait /\ Full' = Full /\ readopen' = readopen /\ cut' = cut /\ left' = left
    BY Zenon DEF fileclose_r, pipeVars, MustWait, Empty, Full
  <2>2. SleepOK(q)
    BY Zenon DEF IInv, SleepInv
  <2>3. \A o \in Procs : pc[o] \in {"w_check", "w_act", "r_copy"} => pc'[o] = pc[o]
    BY <1>3, Zenon
  <2> QED
    BY <1>3, <2>1, <2>2 DEF SleepOK
<1>8. CountInv'
  BY Zenon DEF fileclose_r, pipeVars, IInv, CountInv, Used
<1> QED
  BY <1>4, <1>5, <1>6, <1>7, <1>8 DEF IInv, PlaceInv, SleepInv

(* Who gives up the last descriptor for the write end goes on to close it. *)
LEMMA CloseWInv ==
  ASSUME IInv, NEW p \in Procs, fileclose_w(p)
  PROVE  IInv'
<1>1. wfd \in SUBSET Procs /\ p \in wfd /\ wref = Cardinality(wfd)
  BY Zenon DEF fileclose_w, IInv, TypeOK, RefInv
<1>2. /\ wref' = Cardinality(wfd') /\ wref' \in 0..Cardinality(Procs)
      /\ wfd' = wfd \ {p} /\ (LastRef(wref) <=> wfd' = {})
  BY <1>1, CountsDown DEF fileclose_w, LastRef
<1>3. /\ pc' \in [Procs -> PCs] /\ pc[p] = "idle"
      /\ pc'[p] = IF wfd' = {} THEN "close_w" ELSE "idle"
      /\ \A q \in Procs \ {p} : pc'[q] = pc[q]
  BY <1>2, Zenon DEF fileclose_w, IInv, TypeOK, PCs
<1>4. TypeOK'
  BY <1>2, <1>3, Zenon DEF fileclose_w, IInv, TypeOK, pipeVars
<1>5. RefInv'
  BY <1>2, Zenon DEF fileclose_w, IInv, RefInv, pipeVars
<1>6. ASSUME NEW q \in Procs
      PROVE  PlaceOK(q)'
  <2>1. \A o \in Procs : pc[o] # "close_w"
    BY <1>1, Zenon DEF IInv, PlaceInv, PlaceOK
  <2>2. writeopen = 1
    BY <1>1, Zenon DEF IInv, RefInv
  <2> QED
    BY <1>3, <2>2 DEF fileclose_w, IInv, PlaceInv, PlaceOK, Reading, Writing, Locked, pipeVars
<1>7. ASSUME NEW q \in Procs
      PROVE  SleepOK(q)'
  <2>1. MustWait' = MustWait /\ Full' = Full /\ readopen' = readopen /\ cut' = cut /\ left' = left
    BY Zenon DEF fileclose_w, pipeVars, MustWait, Empty, Full
  <2>2. SleepOK(q)
    BY Zenon DEF IInv, SleepInv
  <2>3. \A o \in Procs : pc[o] \in {"w_check", "w_act", "r_copy"} => pc'[o] = pc[o]
    BY <1>3, Zenon
  <2> QED
    BY <1>3, <2>1, <2>2 DEF SleepOK
<1>8. CountInv'
  BY Zenon DEF fileclose_w, pipeVars, IInv, CountInv, Used
<1> QED
  BY <1>4, <1>5, <1>6, <1>7, <1>8 DEF IInv, PlaceInv, SleepInv

(* pipeclose wakes the other end, and frees the page once both are closed; *)
(* nobody can be inside at an end that is closed.                          *)
LEMMA PipecloseInv ==
  ASSUME IInv, NEW p \in Procs, pipeclose(p)
  PROVE  IInv'
<1>a. "idle" \in PCs /\ lock = Nobody /\ pc[p] \in {"close_r", "close_w"} /\ PlaceOK(p)
  BY Zenon DEF PCs, pipeclose, IInv, PlaceInv
<1>1. /\ pc' \in [Procs -> PCs] /\ pc'[p] = "idle"
      /\ \A q \in Procs \ {p} :
           pc'[q] = IF pc[p] = "close_w" /\ pc[q] = "r_sleep" THEN "r_acquire"
                    ELSE IF pc[p] = "close_r" /\ pc[q] = "w_sleep" THEN "w_acquire" ELSE pc[q]
  <2>1. CASE pc[p] = "close_w"
    <3>1. pc' = WakeReaders([pc EXCEPT ![p] = "idle"])
      BY <2>1, Zenon DEF pipeclose, Closed
    <3> QED
      BY <1>a, <2>1, Zenon, <3>1, GoesReaders
  <2>2. CASE pc[p] = "close_r"
    <3>1. pc' = WakeWriters([pc EXCEPT ![p] = "idle"])
      BY <2>2, Zenon DEF pipeclose, Closed
    <3> QED
      BY <1>a, <2>2, Zenon, <3>1, GoesWriters
  <2> QED
    BY <1>a, <2>1, <2>2
<1>2. /\ readopen' = IF pc[p] = "close_r" THEN 0 ELSE readopen
      /\ writeopen' = IF pc[p] = "close_w" THEN 0 ELSE writeopen
      /\ freed' = IF readopen' = 0 /\ writeopen' = 0 THEN 1 ELSE 0
      /\ freed = 0 /\ UNCHANGED fileVars
  BY <1>a DEF pipeclose, IInv, RefInv, PlaceOK
<1>3. TypeOK'
  BY <1>1, <1>2 DEF pipeclose, IInv, TypeOK, fileVars
<1>4. RefInv'
  BY <1>a, <1>2 DEF IInv, RefInv, PlaceOK, fileVars
<1>5. ASSUME NEW q \in Procs
      PROVE  PlaceOK(q)'
  <2>1. PlaceOK(q) /\ lock' = lock
    BY Zenon DEF pipeclose, IInv, PlaceInv
  <2>2. \A o \in Procs : /\ pc'[o] = "close_r" => pc[o] = "close_r" /\ o # p
                         /\ pc'[o] = "close_w" => pc[o] = "close_w" /\ o # p
    BY <1>1, Zenon
  <2> QED
    BY <1>a, <1>1, <1>2, <2>1, <2>2, ProcAssumption DEF PlaceOK, Reading, Writing, Locked, fileVars
<1>6. ASSUME NEW q \in Procs
      PROVE  SleepOK(q)'
  <2>1. SleepOK(q) /\ PlaceOK(q) /\ cut' = cut /\ left' = left /\ Full' = Full /\ Empty' = Empty
    BY Zenon DEF pipeclose, IInv, SleepInv, PlaceInv, Full, Empty
  <2>2. \A o \in Procs : pc[o] \notin Locked
    BY <1>a, ProcAssumption DEF IInv, PlaceInv, PlaceOK
  <2> QED
    BY <1>a, <1>1, <1>2, <2>1, <2>2 DEF SleepOK, PlaceOK, MustWait, Locked
<1>7. CountInv'
  BY Zenon DEF pipeclose, IInv, CountInv, Used
<1> QED
  BY <1>3, <1>4, <1>5, <1>6, <1>7 DEF IInv, PlaceInv, SleepInv

-----------------------------------------------------------------------------
(* Arithmetic of the wrapping counters.  Quotient and remainder, and that  *)
(* a remainder is the only one of its kind:                                *)
LEMMA DivMod ==
  ASSUME NEW n \in Nat \ {0}, NEW x \in Int
  PROVE  x \div n \in Int /\ x % n \in 0..(n - 1) /\ x = n * (x \div n) + (x % n)
OBVIOUS

(* a number below n on top of a multiple of n is the remainder.            *)
LEMMA ModUnique ==
  ASSUME NEW n \in Nat \ {0}, NEW q \in Int, NEW r \in 0..(n - 1)
  PROVE  (n * q + r) % n = r
OBVIOUS

(* A counter advanced by at most WRAP wraps once at most.                  *)
LEMMA AddIs ==
  ASSUME NEW a \in 0..(WRAP - 1), NEW k \in 0..WRAP
  PROVE  Add(a, k) = IF a + k < WRAP THEN a + k ELSE a + k - WRAP
<1>1. WRAP \in Nat \ {0}
  BY SizeAssumption
<1>2. CASE a + k < WRAP
  BY <1>1 DEF Add
<1>3. CASE a + k >= WRAP
  <2>1. a + k - WRAP \in 0..(WRAP - 1) /\ a + k = WRAP * 1 + (a + k - WRAP)
    BY <1>1, <1>3
  <2> QED
    BY <1>1 DEF Add
<1> QED
  BY <1>1, <1>2, <1>3

(* The distance between two counters.                                      *)
LEMMA Distance ==
  ASSUME NEW r \in 0..(WRAP - 1), NEW w \in 0..(WRAP - 1)
  PROVE  (w - r) % WRAP = IF w >= r THEN w - r ELSE w - r + WRAP
<1>1. WRAP \in Nat \ {0}
  BY SizeAssumption
<1>2. CASE w >= r
  BY <1>1
<1>3. CASE w < r
  <2>1. w - r + WRAP \in 0..(WRAP - 1) /\ w - r = WRAP * (-1) + (w - r + WRAP)
    BY <1>1, <1>3
  <2> QED
    BY <1>1
<1> QED
  BY <1>2, <1>3

(* What the tests for an empty and for a full pipe say about how far       *)
(* nwrite is ahead of nread.                                               *)
LEMMA UsedIs ==
  ASSUME nread \in 0..(WRAP - 1), nwrite \in 0..(WRAP - 1)
  PROVE  /\ Used = IF nwrite >= nread THEN nwrite - nread ELSE nwrite - nread + WRAP
         /\ Used \in 0..(WRAP - 1) /\ nwrite = Add(nread, Used)
         /\ Empty <=> Used = 0
         /\ Full <=> Used = PIPESIZE
<1>1. WRAP \in Nat /\ PIPESIZE \in Nat \ {0} /\ WRAP > PIPESIZE
  BY Zenon, SizeAssumption
<1>2. Used = IF nwrite >= nread THEN nwrite - nread ELSE nwrite - nread + WRAP
  BY Zenon, Distance DEF Used
<1>3. Used \in 0..(WRAP - 1)
  BY <1>1, <1>2
<1>4. nwrite = Add(nread, Used)
  BY <1>1, <1>2, AddIs
<1>5. Empty <=> Used = 0
  BY <1>1, <1>2 DEF Empty
<1>6. Add(nread, PIPESIZE) = IF nread + PIPESIZE < WRAP THEN nread + PIPESIZE
                                                       ELSE nread + PIPESIZE - WRAP
  BY <1>1, AddIs
<1>7. Full <=> Used = PIPESIZE
  BY <1>1, <1>2, <1>6 DEF Full
<1> QED
  BY <1>2, <1>3, <1>4, <1>5, <1>7

(* A byte more in the pipe,                                                *)
LEMMA UsedUp ==
  ASSUME nread \in 0..(WRAP - 1), nwrite \in 0..(WRAP - 1), Used < PIPESIZE,
         nread' = nread, nwrite' = Add(nwrite, 1)
  PROVE  Used' = Used + 1 /\ nwrite' \in 0..(WRAP - 1)
<1>1. WRAP \in Nat /\ PIPESIZE \in Nat \ {0} /\ WRAP > PIPESIZE
  BY Zenon, SizeAssumption
<1>2. nwrite' = IF nwrite + 1 < WRAP THEN nwrite + 1 ELSE nwrite + 1 - WRAP
  BY <1>1, AddIs
<1>3. nwrite' \in 0..(WRAP - 1) /\ nread' \in 0..(WRAP - 1)
  BY <1>1, <1>2
<1>4. /\ Used = IF nwrite >= nread THEN nwrite - nread ELSE nwrite - nread + WRAP
      /\ Used' = IF nwrite' >= nread' THEN nwrite' - nread' ELSE nwrite' - nread' + WRAP
  BY <1>3, Distance DEF Used
<1> QED
  BY <1>1, <1>2, <1>4

(* and one less.                                                           *)
LEMMA UsedDown ==
  ASSUME nread \in 0..(WRAP - 1), nwrite \in 0..(WRAP - 1), ~Empty,
         nwrite' = nwrite, nread' = Add(nread, 1)
  PROVE  Used' = Used - 1 /\ nread' \in 0..(WRAP - 1)
<1>1. WRAP \in Nat /\ PIPESIZE \in Nat \ {0} /\ WRAP > PIPESIZE
  BY Zenon, SizeAssumption
<1>2. nread' = IF nread + 1 < WRAP THEN nread + 1 ELSE nread + 1 - WRAP
  BY <1>1, AddIs
<1>3. nwrite' \in 0..(WRAP - 1) /\ nread' \in 0..(WRAP - 1)
  BY <1>1, <1>2
<1>4. /\ Used = IF nwrite >= nread THEN nwrite - nread ELSE nwrite - nread + WRAP
      /\ Used' = IF nwrite' >= nread' THEN nwrite' - nread' ELSE nwrite' - nread' + WRAP
  BY <1>3, Distance DEF Used
<1> QED
  BY <1>1, <1>2, <1>4 DEF Empty

(* The slot of a position is the same whether or not the counter has       *)
(* wrapped on the way,                                                     *)
LEMMA SlotAdd ==
  ASSUME NEW a \in 0..(WRAP - 1), NEW k \in 0..(PIPESIZE - 1)
  PROVE  Slot(Add(a, k)) = (a + k) % PIPESIZE
<1>1. WRAP \in Nat /\ PIPESIZE \in Nat \ {0} /\ WRAP > PIPESIZE /\ WRAP % PIPESIZE = 0
  BY Zenon, SizeAssumption
<1>2. Add(a, k) = IF a + k < WRAP THEN a + k ELSE a + k - WRAP
  BY <1>1, AddIs
<1>3. CASE a + k < WRAP
  BY <1>2, <1>3, Zenon DEF Slot
<1>4. CASE a + k >= WRAP
  <2>1. WRAP = PIPESIZE * (WRAP \div PIPESIZE) /\ WRAP \div PIPESIZE \in Int
    BY <1>1
  <2> DEFINE q == (a + k) \div PIPESIZE
             r == (a + k) % PIPESIZE
             m == WRAP \div PIPESIZE
  <2>2. q \in Int /\ r \in 0..(PIPESIZE - 1) /\ a + k = PIPESIZE * q + r
    BY <1>1
  <2>3. a + k - WRAP = PIPESIZE * (q - m) + r
    <3> HIDE DEF q, r, m
    <3>1. m \in Int /\ WRAP = PIPESIZE * m
      BY <2>1, Zenon DEF m
    <3> QED
      BY <1>1, <2>2, <3>1
  <2>4. (a + k - WRAP) % PIPESIZE = r
    <3> HIDE DEF q, r, m
    <3>1. q - m \in Int
      BY <2>1, <2>2 DEF m
    <3>2. (PIPESIZE * (q - m) + r) % PIPESIZE = r
      BY <1>1, <2>2, <3>1, Zenon, ModUnique
    <3> QED
      BY <2>3, <3>2
  <2> QED
    BY <1>2, <2>4, Zenon DEF Slot
<1> QED
  BY <1>1, <1>3, <1>4

(* and two positions less than the buffer apart have different slots.      *)
LEMMA SlotsDiffer ==
  ASSUME NEW x \in Nat, NEW i \in 0..(PIPESIZE - 1), NEW j \in 0..(PIPESIZE - 1), i < j
  PROVE  (x + i) % PIPESIZE # (x + j) % PIPESIZE
<1> SUFFICES ASSUME (x + i) % PIPESIZE = (x + j) % PIPESIZE PROVE FALSE
  BY Zenon
<1>1. PIPESIZE \in Nat \ {0}
  BY Zenon, SizeAssumption
<1> DEFINE q == (x + i) \div PIPESIZE
           s == (x + j) \div PIPESIZE
           r == (x + i) % PIPESIZE
<1>2. /\ q \in Int /\ s \in Int /\ r \in 0..(PIPESIZE - 1)
      /\ x + i = PIPESIZE * q + r /\ x + j = PIPESIZE * s + r
  <2>1. x + i \in Int /\ x + j \in Int
    OBVIOUS
  <2>2. /\ q \in Int /\ s \in Int /\ r \in 0..(PIPESIZE - 1)
        /\ x + i = PIPESIZE * q + ((x + i) % PIPESIZE)
        /\ x + j = PIPESIZE * s + ((x + j) % PIPESIZE)
    BY <1>1, <2>1, Zenon, DivMod
  <2> QED
    BY <2>2, Zenon
<1> HIDE DEF q, s, r
<1>3. j - i = PIPESIZE * (s - q)
  BY <1>1, <1>2
<1>4. s - q >= 1 => PIPESIZE * (s - q) >= PIPESIZE
  BY <1>1, <1>2
<1>5. s - q <= 0 => PIPESIZE * (s - q) <= 0
  BY <1>1, <1>2
<1> QED
  BY <1>1, <1>2, <1>5
-----------------------------------------------------------------------------
(* A byte goes in where there is room: no writer can be asleep, and the    *)
(* sleeping readers depend on this writer.                                 *)
LEMMA WriteByteInv ==
  ASSUME IInv, NEW p \in Procs, NEW b \in Bytes, pipewrite_byte(p, b)
  PROVE  IInv' /\ Used < PIPESIZE /\ Used' = Used + 1
<1>a. "w_check" \in PCs
  BY Zenon DEF PCs
<1>1. /\ pc[p] = "w_act" /\ pc' \in [Procs -> PCs] /\ pc'[p] = "w_check"
      /\ \A q \in Procs \ {p} : pc'[q] = pc[q]
  BY <1>a, Zenon, Goes DEF pipewrite_byte
<1>2. Moves(p, "w_check")
  BY <1>1, Zenon DEF pipewrite_byte, Moves, Reading, Writing, Locked, IInv, PlaceInv, PlaceOK
<1>3. RefInv' /\ PlaceInv'
  BY <1>a, <1>2, Zenon, MovePlace
<1>4. nread \in 0..(WRAP - 1) /\ nwrite \in 0..(WRAP - 1) /\ Used <= PIPESIZE /\ ~Full
  BY Zenon DEF pipewrite_byte, IInv, TypeOK, CountInv
<1>5. Used \in Int /\ Used < PIPESIZE
  BY <1>4, UsedIs, SizeAssumption
<1>6. Used' = Used + 1 /\ nwrite' \in 0..(WRAP - 1)
  BY <1>4, <1>5, UsedUp DEF pipewrite_byte
<1>7. TypeOK'
  <2>1. Slot(nwrite) \in 0..(PIPESIZE - 1)
    BY <1>4, SizeAssumption DEF Slot
  <2>2. left' \in [Procs -> 0..MaxN]
    BY SizeAssumption DEF pipewrite_byte, IInv, TypeOK, SleepInv, SleepOK
  <2> QED
    BY <1>1, <1>6, <2>1, <2>2 DEF pipewrite_byte, IInv, TypeOK, fileVars
<1>8. CountInv'
  BY <1>5, <1>6, SizeAssumption DEF CountInv
<1>9. ASSUME NEW q \in Procs
      PROVE  SleepOK(q)'
  <2>1. lock = p /\ lock' = p /\ readopen' = readopen /\ cut' = cut
    BY Zenon DEF pipewrite_byte, IInv, PlaceInv, PlaceOK, Locked
  <2>2. \A o \in Procs : pc[o] \in Locked => o = p
    BY <2>1, Zenon DEF IInv, PlaceInv, PlaceOK
  <2>3. cut = 0 => pc[q] # "w_sleep"
    BY <1>1, <1>4, <2>2 DEF IInv, SleepInv, SleepOK, Locked
  <2> QED
    BY <1>1, <2>1, <2>2, <2>3 DEF SleepOK, Locked
<1> QED
  BY <1>3, <1>5, <1>6, <1>7, <1>8, <1>9 DEF IInv, SleepInv

(* A byte comes out of a pipe that has one: no reader can be asleep, and   *)
(* the sleeping writers depend on this reader.                             *)
LEMMA ReadByteInv ==
  ASSUME IInv, NEW p \in Procs, piperead_byte(p)
  PROVE  IInv' /\ Used' = Used - 1
<1>a. "r_copy" \in PCs
  BY Zenon DEF PCs
<1>1. pc[p] = "r_copy" /\ pc' = pc /\ pc \in [Procs -> PCs]
  BY Zenon DEF piperead_byte, IInv, TypeOK
<1>2. Moves(p, "r_copy")
  BY <1>1, Zenon DEF piperead_byte, Moves, IInv, PlaceInv, PlaceOK
<1>3. RefInv' /\ PlaceInv'
  BY <1>a, <1>2, Zenon, MovePlace
<1>4. nread \in 0..(WRAP - 1) /\ nwrite \in 0..(WRAP - 1) /\ Used <= PIPESIZE /\ ~Empty
  BY Zenon DEF piperead_byte, IInv, TypeOK, CountInv
<1>5. Used \in Int
  BY <1>4, UsedIs
<1>6. Used' = Used - 1 /\ nread' \in 0..(WRAP - 1)
  BY <1>4, UsedDown DEF piperead_byte
<1>7. TypeOK'
  <2>1. Slot(nread) \in 0..(PIPESIZE - 1)
    BY <1>4, SizeAssumption DEF Slot
  <2>2. left' \in [Procs -> 0..MaxN]
    BY SizeAssumption DEF piperead_byte, IInv, TypeOK
  <2> QED
    BY <1>1, <1>6, <2>1, <2>2 DEF piperead_byte, IInv, TypeOK, fileVars
<1>8. CountInv'
  BY <1>4, <1>5, <1>6, SizeAssumption DEF CountInv
<1>9. ASSUME NEW q \in Procs
      PROVE  SleepOK(q)'
  <2>1. lock = p /\ readopen' = readopen /\ cut' = cut
    BY Zenon DEF piperead_byte, IInv, PlaceInv, PlaceOK, Locked
  <2>2. \A o \in Procs : pc[o] \in Locked => o = p
    BY <2>1 DEF IInv, PlaceInv, PlaceOK
  <2>3. cut = 0 => pc[q] # "r_sleep"
    BY <1>1, <1>4, <2>2 DEF IInv, SleepInv, SleepOK, MustWait, Locked
  <2> QED
    BY <1>1, <2>1, <2>2, <2>3 DEF SleepOK, Locked
<1> QED
  BY <1>3, <1>6, <1>7, <1>8, <1>9 DEF IInv, SleepInv

(* pipealloc leaves one process with both ends of an empty pipe.           *)
LEMMA InitInv == Init => IInv
<1> SUFFICES ASSUME Init PROVE IInv
  BY Zenon
<1>1. PICK p \in Procs : rfd = {p} /\ wfd = {p}
  BY Zenon DEF Init
<1>2. Cardinality({p}) = 1 /\ 1 \in 0..Cardinality(Procs)
  <2>1. {p} \in SUBSET Procs /\ Cardinality({p}) = 1
    BY Zenon, FS_Singleton
  <2> QED
    BY <2>1, Counts
<1>3. TypeOK
  BY <1>2, ProcAssumption, SizeAssumption DEF Init, TypeOK, PCs
<1>4. RefInv
  BY <1>1, <1>2, Zenon DEF Init, RefInv
<1>5. PlaceInv /\ SleepInv
  BY ProcAssumption DEF Init, PlaceInv, PlaceOK, SleepInv, SleepOK, Reading, Writing, Locked
<1>6. CountInv
  BY UsedIs, SizeAssumption DEF Init, CountInv
<1> QED
  BY <1>3, <1>4, <1>5, <1>6 DEF IInv

(* Every step keeps the invariant.                                         *)
LEMMA NextInv == IInv /\ [Next]_vars => IInv'
<1> SUFFICES ASSUME IInv, [Next]_vars PROVE IInv'
  BY Zenon
<1>1. CASE UNCHANGED vars
  BY <1>1, SameInv DEF vars, IInv, TypeOK, OwnTypes
<1>2. ASSUME NEW p \in Procs, Kernel(p) \/ pipewrite_fault(p)
      PROVE  IInv'
  BY <1>2, Zenon, WriteCheckInv, WriteReturnInv, WriteSleepInv, WriteByteInv, WriteFaultInv,
     ReadCheckInv, ReadKilledInv, ReadSleepInv, ReadByteInv, ReadDoneInv, AcquireInv, PipecloseInv
     DEF Kernel
<1>3. ASSUME NEW p \in Procs,
             \/ \E k \in 0..MaxN : pipewrite(p, k) \/ piperead(p, k)
             \/ fileclose_r(p) \/ fileclose_w(p) \/ kill(p)
             \/ \E q \in Procs : filedup(p, q)
      PROVE  IInv'
  BY <1>3, Zenon, WriteInv, ReadInv, CloseRInv, CloseWInv, KillInv, DupInv
<1> QED
  BY <1>1, <1>2, <1>3 DEF Next

(* The invariant holds throughout.                                         *)
THEOREM Invariance == Spec => []IInv
<1>1. Init => IInv
  BY Zenon, InitInv
<1>2. IInv /\ [Next]_vars => IInv'
  BY Zenon, NextInv
<1> QED
  BY <1>1, <1>2, PTL DEF Spec

(* Nobody sleeps on the pipe without a reason unless a kill has cut a      *)
(* write short (pipewrite, piperead, pipeclose), and the page of the pipe  *)
(* is freed once, when nobody is inside or can come back (fileclose).      *)
THEOREM Sleeps == Spec => []SleepJustified
<1>1. IInv => SleepJustified
  <2> SUFFICES ASSUME IInv PROVE SleepJustified
    BY Zenon
  <2>1. ASSUME freed > 0
        PROVE  freed = 1 /\ rfd = {} /\ wfd = {} /\ \A p \in Procs : pc[p] = "idle"
    BY <2>1 DEF IInv, TypeOK, RefInv, PlaceInv, PlaceOK, Reading, Writing, PCs
  <2>2. ASSUME lock = Nobody, cut = 0, NEW p \in Procs
        PROVE  /\ pc[p] = "r_sleep" => MustWait
               /\ pc[p] = "w_sleep" => Full /\ readopen = 1
    <3>1. \A q \in Procs : pc[q] \notin Locked
      BY <2>2, ProcAssumption DEF IInv, PlaceInv, PlaceOK
    <3> QED
      BY <2>2, <3>1 DEF IInv, SleepInv, SleepOK, Locked
  <2> QED
    BY <2>1, <2>2 DEF SleepJustified, NoUseAfterFree, SleepOnlyAsDocumented, IInv
<1> QED
  BY <1>1, Invariance, PTL
-----------------------------------------------------------------------------

\* The u bytes of d from counter r on; what is in the pipe: the queue of the
\* refinement mapping.
Ring(r, u, d) == [k \in 1..u |-> d[Slot(Add(r, k - 1))]]
Queue == Ring(nread, Used, data)

(* The u bytes that follow counter r in the ring form a sequence.          *)
LEMMA QueueIs ==
  ASSUME NEW r \in 0..(WRAP - 1), NEW u \in 0..PIPESIZE,
         NEW d \in [0..(PIPESIZE - 1) -> Bytes]
  PROVE  /\ Ring(r, u, d) \in Seq(Bytes) /\ Len(Ring(r, u, d)) = u
         /\ \A k \in 1..u : Ring(r, u, d)[k] = d[(r + (k - 1)) % PIPESIZE]
<1>1. PIPESIZE \in Nat \ {0} /\ WRAP \in Nat
  BY SizeAssumption
<1>2. ASSUME NEW k \in 1..u
      PROVE  /\ Slot(Add(r, k - 1)) = (r + (k - 1)) % PIPESIZE
             /\ (r + (k - 1)) % PIPESIZE \in 0..(PIPESIZE - 1)
  <2>1. k - 1 \in 0..(PIPESIZE - 1) /\ r + (k - 1) \in Int
    BY <1>1
  <2> QED
    BY <1>1, <2>1, Zenon, SlotAdd, DivMod
<1>3. Ring(r, u, d) \in [1..u -> Bytes] /\ u \in Nat
  BY <1>2 DEF Ring
<1>4. \A k \in 1..u : Ring(r, u, d)[k] = d[(r + (k - 1)) % PIPESIZE]
  BY <1>2 DEF Ring
<1> QED
  BY <1>3, <1>4

(* The same of the pipe's own counters and buffer.                         *)
LEMMA RingIs ==
  ASSUME IInv
  PROVE  /\ nread \in 0..(WRAP - 1) /\ nwrite \in 0..(WRAP - 1) /\ Used \in 0..PIPESIZE
         /\ data \in [0..(PIPESIZE - 1) -> Bytes]
         /\ nwrite = Add(nread, Used) /\ (Empty <=> Used = 0)
  BY UsedIs DEF IInv, TypeOK, CountInv

(* pipealloc's pipe is an empty queue.                                     *)
LEMMA InitRef == Init => F!Init
<1> SUFFICES ASSUME Init PROVE F!Init
  BY Zenon
<1>1. IInv
  BY InitInv
<1>2. Used = 0
  BY <1>1, RingIs DEF Init, Empty
<1>3. Queue = <<>>
  BY <1>2 DEF Queue, Ring
<1> QED
  BY <1>1, <1>3 DEF Init, F!Init, Queue, Ring, IInv, TypeOK

(* A byte is put at the end, in a slot none of the others has.             *)
LEMMA PutRef ==
  ASSUME IInv, NEW p \in Procs, NEW b \in Bytes, pipewrite_byte(p, b)
  PROVE  F!Put(b)
<1>1. /\ nread \in 0..(WRAP - 1) /\ nwrite \in 0..(WRAP - 1) /\ Used \in 0..PIPESIZE
      /\ data \in [0..(PIPESIZE - 1) -> Bytes] /\ nwrite = Add(nread, Used)
  BY Zenon, RingIs
<1>2. /\ Used < PIPESIZE /\ Used' = Used + 1 /\ nread' = nread
      /\ data' = [data EXCEPT ![Slot(nwrite)] = b] /\ data' \in [0..(PIPESIZE - 1) -> Bytes]
  <2>1. IInv' /\ Used < PIPESIZE /\ Used' = Used + 1
    BY Zenon, WriteByteInv
  <2> QED
    BY <2>1, Zenon DEF pipewrite_byte, IInv, TypeOK
<1>3. PIPESIZE \in Nat \ {0} /\ Used + 1 \in 0..PIPESIZE /\ Used \in 0..(PIPESIZE - 1)
  BY <1>1, <1>2, SizeAssumption
<1>4. /\ Queue \in Seq(Bytes) /\ Len(Queue) = Used
      /\ \A k \in 1..Used : Queue[k] = data[(nread + (k - 1)) % PIPESIZE]
  BY <1>1, Zenon, QueueIs DEF Queue
<1>5. /\ Queue' \in Seq(Bytes) /\ Len(Queue') = Used + 1
      /\ \A k \in 1..(Used + 1) : Queue'[k] = data'[(nread + (k - 1)) % PIPESIZE]
  <2>1. Queue' = Ring(nread, Used + 1, data')
    BY <1>2, Zenon DEF Queue
  <2>2. nread \in 0..(WRAP - 1) /\ data' \in [0..(PIPESIZE - 1) -> Bytes] /\ Used + 1 \in 0..PIPESIZE
    BY <1>1, <1>2, <1>3
  <2> QED
    BY <2>1, <2>2, Zenon, QueueIs
<1>6. Slot(nwrite) = (nread + Used) % PIPESIZE /\ Slot(nwrite) \in 0..(PIPESIZE - 1)
  <2>1. nread + Used \in Int
    BY <1>1
  <2> QED
    BY <1>1, <1>3, <2>1, Zenon, SlotAdd, DivMod
<1>7. ASSUME NEW k \in 1..Used
      PROVE  Queue'[k] = Queue[k]
  <2>1. k - 1 \in 0..(PIPESIZE - 1) /\ k - 1 < Used /\ nread \in Nat /\ nread + (k - 1) \in Int
        /\ k \in 1..(Used + 1)
    BY <1>1, <1>3
  <2>2. (nread + (k - 1)) % PIPESIZE # Slot(nwrite)
    BY <1>3, <1>6, <2>1, Zenon, SlotsDiffer
  <2>3. (nread + (k - 1)) % PIPESIZE \in 0..(PIPESIZE - 1)
    BY <1>3, <2>1
  <2> QED
    BY <1>2, <1>4, <1>5, <2>2
<1>8. Queue'[Used + 1] = b
  <2>1. Used + 1 \in 1..(Used + 1) /\ (nread + ((Used + 1) - 1)) = nread + Used
    BY <1>1
  <2> QED
    BY <1>2, <1>5, <1>6, <2>1
<1>9. Queue' = Append(Queue, b)
  BY <1>4, <1>5, <1>7, <1>8
<1>10. readopen = 1 /\ writeopen = 1
  BY Zenon DEF pipewrite_byte, IInv, SleepInv, SleepOK, PlaceInv, PlaceOK, RefInv, Writing
<1>11. UNCHANGED <<ch, readopen, writeopen>>
  BY Zenon DEF pipewrite_byte
<1> QED
  BY <1>2, <1>4, <1>9, <1>10, <1>11, Zenon DEF F!Put, Queue, Ring

(* The byte at nread is the first, and what follows it stays in order.     *)
LEMMA TakeRef ==
  ASSUME IInv, NEW p \in Procs, piperead_byte(p)
  PROVE  F!Take
<1>1. /\ nread \in 0..(WRAP - 1) /\ nwrite \in 0..(WRAP - 1) /\ Used \in 0..PIPESIZE
      /\ data \in [0..(PIPESIZE - 1) -> Bytes] /\ Used # 0
  BY Zenon, RingIs DEF piperead_byte
<1>2. /\ Used' = Used - 1 /\ nread' = Add(nread, 1) /\ data' = data
      /\ nread' \in 0..(WRAP - 1) /\ Used - 1 \in 0..PIPESIZE
  <2>1. IInv' /\ Used' = Used - 1
    BY Zenon, ReadByteInv
  <2> QED
    BY <1>1, <2>1, SizeAssumption DEF piperead_byte, IInv, TypeOK
<1>3. PIPESIZE \in Nat \ {0} /\ WRAP \in Nat /\ WRAP > PIPESIZE
  BY Zenon, SizeAssumption
<1>4. /\ Queue \in Seq(Bytes) /\ Len(Queue) = Used
      /\ \A k \in 1..Used : Queue[k] = data[(nread + (k - 1)) % PIPESIZE]
  BY <1>1, Zenon, QueueIs DEF Queue
<1>5. Queue' \in Seq(Bytes) /\ Len(Queue') = Used - 1
  <2>1. Queue' = Ring(nread', Used - 1, data)
    BY <1>2, Zenon DEF Queue
  <2> QED
    BY <1>1, <1>2, <2>1, Zenon, QueueIs
<1>6. ASSUME NEW k \in 1..(Used - 1)
      PROVE  Queue'[k] = Queue[k + 1]
  <2>1. k - 1 \in 0..WRAP /\ k \in 0..WRAP /\ 1 \in 0..WRAP /\ k + 1 \in 1..Used
    BY <1>1, <1>3
  <2>2. Add(Add(nread, 1), k - 1) = Add(nread, k)
    <3>1. Add(nread, 1) \in 0..(WRAP - 1)
      BY <1>2
    <3>2. /\ Add(nread, 1) = IF nread + 1 < WRAP THEN nread + 1 ELSE nread + 1 - WRAP
          /\ Add(nread, k) = IF nread + k < WRAP THEN nread + k ELSE nread + k - WRAP
          /\ Add(Add(nread, 1), k - 1) = IF Add(nread, 1) + (k - 1) < WRAP
                                           THEN Add(nread, 1) + (k - 1)
                                           ELSE Add(nread, 1) + (k - 1) - WRAP
      BY <1>1, <2>1, <3>1, Zenon, AddIs
    <3> QED
      BY <1>1, <1>3, <3>2
  <2>3. Queue'[k] = data[Slot(Add(nread', k - 1))] /\ Queue[k + 1] = data[Slot(Add(nread, k))]
    BY <1>2, <2>1 DEF Queue, Ring
  <2> QED
    BY <1>2, <2>2, <2>3
<1>7. Queue # <<>> /\ Head(Queue) = Queue[1] /\ Queue' = Tail(Queue)
  BY <1>4, <1>5, <1>6
<1>8. Queue[1] = data[Slot(nread)]
  <2>1. Add(nread, 0) = nread
    BY <1>1, <1>3, AddIs
  <2> QED
    BY <1>1, <2>1 DEF Queue, Ring
<1>9. readopen = 1
  BY Zenon DEF piperead_byte, IInv, PlaceInv, PlaceOK, RefInv, Reading
<1>10. ch' = data[Slot(nread)] /\ UNCHANGED <<readopen, writeopen>>
  BY Zenon DEF piperead_byte
<1> QED
  BY <1>7, <1>8, <1>9, <1>10, Zenon DEF F!Take, Queue, Ring

(* A step that leaves the buffer and its ends alone is invisible.          *)
LEMMA StillRef ==
  ASSUME UNCHANGED <<data, nread, nwrite, readopen, writeopen, ch>>
  PROVE  UNCHANGED F!vars
<1>1. Used' = Used
  BY Zenon DEF Used
<1> QED
  BY <1>1, Zenon DEF F!vars

(* Closing an end closes that end of the queue.                            *)
LEMMA CloseRef ==
  ASSUME NEW p \in Procs, pipeclose(p)
  PROVE  F!CloseRead \/ F!CloseWrite
<1>1. Queue' = Queue
  BY Zenon DEF pipeclose, Queue, Used
<1> QED
  BY <1>1, Zenon DEF pipeclose, F!CloseRead, F!CloseWrite, Queue, Ring

(* Every step of the pipe is a step of the queue or invisible there.       *)
LEMMA StepRef == IInv /\ [Next]_vars => [F!Next]_(F!vars)
<1> SUFFICES ASSUME IInv, [Next]_vars PROVE [F!Next]_(F!vars)
  BY Zenon
<1>1. ASSUME UNCHANGED <<data, nread, nwrite, readopen, writeopen, ch>>
      PROVE  [F!Next]_(F!vars)
  BY <1>1, Zenon, StillRef
<1>2. CASE UNCHANGED vars
  <2>1. UNCHANGED <<data, nread, nwrite, readopen, writeopen, ch>>
    BY <1>2, Zenon DEF vars, pipeVars
  <2> QED
    BY <1>1, <2>1, Zenon
<1>3. ASSUME NEW p \in Procs, Kernel(p)
      PROVE  [F!Next]_(F!vars)
  <2>1. CASE \E b \in Bytes : pipewrite_byte(p, b)
    BY <2>1, PutRef DEF F!Next
  <2>2. CASE piperead_byte(p)
    BY <2>2, Zenon, TakeRef DEF F!Next
  <2>3. CASE pipeclose(p)
    BY <2>3, Zenon, CloseRef DEF F!Next
  <2>4. CASE pipewrite_check(p) \/ pipewrite_return(p) \/ pipewrite_sleep(p)
    BY <1>1, <2>4, Zenon DEF pipewrite_check, pipewrite_return, pipewrite_sleep, pipeVars
  <2>5. CASE piperead_check(p) \/ piperead_killed(p) \/ piperead_sleep(p) \/ piperead_done(p)
    BY <1>1, <2>5 DEF piperead_check, piperead_killed, piperead_sleep, piperead_done, pipeVars
  <2>6. CASE acquire(p)
    BY <1>1, <2>6 DEF acquire, pipeVars
  <2> QED
    BY <1>3, <2>1, <2>2, <2>3, <2>4, <2>5, <2>6, Zenon DEF Kernel
<1>4. ASSUME NEW p \in Procs,
             \/ pipewrite_fault(p) \/ fileclose_r(p) \/ fileclose_w(p) \/ kill(p)
             \/ \E k \in 0..MaxN : pipewrite(p, k) \/ piperead(p, k)
             \/ \E q \in Procs : filedup(p, q)
      PROVE  [F!Next]_(F!vars)
  BY <1>1, <1>4 DEF pipewrite_fault, fileclose_r, fileclose_w, kill, pipewrite, piperead,
     filedup, pipeVars
<1> QED
  BY <1>2, <1>3, <1>4 DEF Next

(* The ring buffer is a first-in first-out queue of at most PIPESIZE bytes *)
(* for every PIPESIZE and every width of nread and nwrite that PIPESIZE    *)
(* divides (pipewrite, piperead, pipeclose).                               *)
THEOREM Implements == Spec => IsFifo
<1>1. Init => F!Init
  BY Zenon, InitRef
<1>2. IInv /\ [Next]_vars => [F!Next]_(F!vars)
  BY Zenon, StepRef
<1>3. Spec => []IInv
  BY Zenon, Invariance
<1> QED
  BY <1>1, <1>2, <1>3, PTL DEF Spec, IsFifo, F!Spec
=============================================================================
