-------------------------------- MODULE Pipe --------------------------------
(***************************************************************************)
(* A pipe (pipe.c), shared by processes through reference-counted open     *)
(* files (file.c).                                                         *)
(*                                                                         *)
(* The loops of pipewrite and piperead run under pi->lock, one action per  *)
(* turn, because a kill can fall between any two turns: it needs only the  *)
(* p->lock of its victim.  nread and nwrite are unsigned and wrap at WRAP. *)
(***************************************************************************)
EXTENDS Integers, Sequences, FiniteSets

CONSTANTS Procs, Nobody, Bytes, Zero,
          PIPESIZE,
          WRAP,      \* 2^32 in the code
          MaxN,      \* bound: bytes per read or write
          Killable   \* processes that may be killed

ASSUME ProcAssumption == /\ IsFiniteSet(Procs) /\ Nobody \notin Procs /\ Killable \subseteq Procs
                         /\ Zero \in Bytes
ASSUME SizeAssumption == /\ PIPESIZE \in Nat \ {0} /\ MaxN \in Nat
                         /\ WRAP \in Nat /\ WRAP > PIPESIZE
                         /\ WRAP % PIPESIZE = 0

VARIABLES
  data, nread, nwrite, readopen, writeopen,   \* struct pipe
  lock,        \* the holder of pi->lock
  freed,       \* how often the page of the pipe has been freed
  rfd, wfd,    \* processes with a descriptor for each end
  rref, wref,  \* the reference counts of the two files
  killed,      \* p->killed
  pc, left,    \* position of each process, and n - i: the bytes it has left
  ch,          \* the byte copied out last
  cut          \* history: a kill has cut a write short

pipeVars == <<data, nread, nwrite, readopen, writeopen>>
fileVars == <<rfd, wfd, rref, wref>>
vars == <<pipeVars, lock, freed, fileVars, killed, pc, left, ch, cut>>

PCs == {"idle", "close_r", "close_w",
        "w_check", "w_act", "w_sleep", "w_acquire",
        "r_check", "r_act", "r_sleep", "r_acquire", "r_copy"}

Empty == nread = nwrite

Wakeup(f, s, w) == [p \in Procs |-> IF f[p] = s THEN w ELSE f[p]]
WakeReaders(f) == Wakeup(f, "r_sleep", "r_acquire")
WakeWriters(f) == Wakeup(f, "w_sleep", "w_acquire")
-----------------------------------------------------------------------------
(* Faulty variants of the definitions below, kept for the sensitivity      *)
(* checks of the properties; no specification uses them.                   *)

\* The full test compares without wrapping.
Full_NoWrap == nwrite = nread + PIPESIZE

\* pipewrite ends without waking the readers.
Written_Silent(p) == [pc EXCEPT ![p] = "idle"]

\* pipeclose does not wake the other side.
Closed_Silent(p) == [pc EXCEPT ![p] = "idle"]

-----------------------------------------------------------------------------

Add(a, k) == (a + k) % WRAP

Full == nwrite = Add(nread, PIPESIZE)

Slot(k) == k % PIPESIZE

\* acquire(&pi->lock), at the start of a call and again when sleep returns.
acquire(p) ==
  /\ pc[p] \in {"w_acquire", "r_acquire"} /\ lock = Nobody
  /\ lock' = p
  /\ pc' = [pc EXCEPT ![p] = IF @ = "w_acquire" THEN "w_check" ELSE "r_check"]
  /\ UNCHANGED <<pipeVars, freed, fileVars, killed, left, ch, cut>>

(* pipewrite, called by a process that usertrap has not found killed       *)

pipewrite(p, k) ==
  /\ pc[p] = "idle" /\ killed[p] = 0 /\ p \in wfd
  /\ left' = [left EXCEPT ![p] = k]
  /\ pc' = [pc EXCEPT ![p] = "w_acquire"]
  /\ UNCHANGED <<pipeVars, lock, freed, fileVars, killed, ch, cut>>

\* The end of pipewrite: wakeup(&pi->nread), release, return.
Written(p) == WakeReaders([pc EXCEPT ![p] = "idle"])

\* The head of the loop and its first test.
pipewrite_check(p) ==
  /\ pc[p] = "w_check" /\ left[p] > 0 /\ readopen = 1 /\ killed[p] = 0
  /\ pc' = [pc EXCEPT ![p] = "w_act"]
  /\ UNCHANGED <<pipeVars, lock, freed, fileVars, killed, left, ch, cut>>

pipewrite_return(p) ==
  /\ pc[p] = "w_check"
  /\ \/ left[p] = 0 /\ pc' = Written(p) /\ UNCHANGED cut
     \/ /\ left[p] > 0 /\ (readopen = 0 \/ killed[p] = 1)
        /\ pc' = [pc EXCEPT ![p] = "idle"]
        /\ cut' = IF readopen = 1 THEN 1 ELSE cut
  /\ lock' = Nobody /\ left' = [left EXCEPT ![p] = 0]
  /\ UNCHANGED <<pipeVars, freed, fileVars, killed, ch>>

pipewrite_sleep(p) ==
  /\ pc[p] = "w_act" /\ Full
  /\ pc' = WakeReaders([pc EXCEPT ![p] = "w_sleep"])
  /\ lock' = Nobody
  /\ UNCHANGED <<pipeVars, freed, fileVars, killed, left, ch, cut>>

pipewrite_byte(p, b) ==
  /\ pc[p] = "w_act" /\ ~Full
  /\ data' = [data EXCEPT ![Slot(nwrite)] = b]
  /\ nwrite' = Add(nwrite, 1)
  /\ left' = [left EXCEPT ![p] = @ - 1]
  /\ pc' = [pc EXCEPT ![p] = "w_check"]
  /\ UNCHANGED <<nread, readopen, writeopen, lock, freed, fileVars, killed, ch, cut>>

\* copyin fails: break out of the loop.
pipewrite_fault(p) ==
  /\ pc[p] = "w_act" /\ ~Full
  /\ pc' = Written(p)
  /\ lock' = Nobody /\ left' = [left EXCEPT ![p] = 0]
  /\ UNCHANGED <<pipeVars, freed, fileVars, killed, ch, cut>>

(* piperead                                                                *)

piperead(p, k) ==
  /\ pc[p] = "idle" /\ killed[p] = 0 /\ p \in rfd
  /\ left' = [left EXCEPT ![p] = k]
  /\ pc' = [pc EXCEPT ![p] = "r_acquire"]
  /\ UNCHANGED <<pipeVars, lock, freed, fileVars, killed, ch, cut>>

MustWait == Empty /\ writeopen = 1

piperead_check(p) ==
  /\ pc[p] = "r_check"
  /\ \/ ~MustWait /\ pc' = [pc EXCEPT ![p] = "r_copy"]
     \/ MustWait /\ killed[p] = 0 /\ pc' = [pc EXCEPT ![p] = "r_act"]
  /\ UNCHANGED <<pipeVars, lock, freed, fileVars, killed, left, ch, cut>>

piperead_killed(p) ==
  /\ pc[p] = "r_check" /\ MustWait /\ killed[p] = 1
  /\ pc' = [pc EXCEPT ![p] = "idle"]
  /\ lock' = Nobody /\ left' = [left EXCEPT ![p] = 0]
  /\ UNCHANGED <<pipeVars, freed, fileVars, killed, ch, cut>>

piperead_sleep(p) ==
  /\ pc[p] = "r_act"
  /\ pc' = [pc EXCEPT ![p] = "r_sleep"]
  /\ lock' = Nobody
  /\ UNCHANGED <<pipeVars, freed, fileVars, killed, left, ch, cut>>

\* A turn of the copying loop; copyout may fail after the byte is consumed.
piperead_byte(p) ==
  /\ pc[p] = "r_copy" /\ left[p] > 0 /\ ~Empty
  /\ ch' = data[Slot(nread)]
  /\ nread' = Add(nread, 1)
  /\ \E k \in {left[p] - 1, 0} : left' = [left EXCEPT ![p] = k]
  /\ UNCHANGED <<data, nwrite, readopen, writeopen, lock, freed, fileVars, killed, pc, cut>>

piperead_done(p) ==
  /\ pc[p] = "r_copy" /\ (left[p] = 0 \/ Empty)
  /\ pc' = WakeWriters([pc EXCEPT ![p] = "idle"])
  /\ lock' = Nobody /\ left' = [left EXCEPT ![p] = 0]
  /\ UNCHANGED <<pipeVars, freed, fileVars, killed, ch, cut>>

(* Files.                                                                  *)

\* fork: a new process shares every descriptor of its parent (filedup).
filedup(p, q) ==
  /\ pc[p] = "idle" /\ killed[p] = 0 /\ p \in rfd \cup wfd
  /\ q # p /\ q \notin rfd \cup wfd /\ pc[q] = "idle"
  /\ rfd' = rfd \cup (IF p \in rfd THEN {q} ELSE {})
  /\ wfd' = wfd \cup (IF p \in wfd THEN {q} ELSE {})
  /\ rref' = rref + (IF p \in rfd THEN 1 ELSE 0)
  /\ wref' = wref + (IF p \in wfd THEN 1 ELSE 0)
  /\ killed' = [killed EXCEPT ![q] = 0]
  /\ UNCHANGED <<pipeVars, lock, freed, pc, left, ch, cut>>

LastRef(ref) == ref = 1

\* fileclose under ftable.lock.
fileclose_r(p) ==
  /\ pc[p] = "idle" /\ p \in rfd
  /\ rfd' = rfd \ {p}
  /\ rref' = rref - 1
  /\ pc' = IF LastRef(rref) THEN [pc EXCEPT ![p] = "close_r"] ELSE pc
  /\ UNCHANGED <<pipeVars, lock, freed, wfd, wref, killed, left, ch, cut>>

fileclose_w(p) ==
  /\ pc[p] = "idle" /\ p \in wfd
  /\ wfd' = wfd \ {p}
  /\ wref' = wref - 1
  /\ pc' = IF LastRef(wref) THEN [pc EXCEPT ![p] = "close_w"] ELSE pc
  /\ UNCHANGED <<pipeVars, lock, freed, rfd, rref, killed, left, ch, cut>>

Closed(p) == IF pc[p] = "close_w" THEN WakeReaders([pc EXCEPT ![p] = "idle"])
                                  ELSE WakeWriters([pc EXCEPT ![p] = "idle"])

\* pipeclose, after ftable.lock has been released.
pipeclose(p) ==
  /\ pc[p] \in {"close_r", "close_w"} /\ lock = Nobody
  /\ readopen' = IF pc[p] = "close_r" THEN 0 ELSE readopen
  /\ writeopen' = IF pc[p] = "close_w" THEN 0 ELSE writeopen
  /\ freed' = IF readopen' = 0 /\ writeopen' = 0 THEN freed + 1 ELSE freed
  /\ pc' = Closed(p)
  /\ UNCHANGED <<data, nread, nwrite, lock, fileVars, killed, left, ch, cut>>

kill(p) ==
  /\ p \in Killable /\ killed[p] = 0
  /\ killed' = [killed EXCEPT ![p] = 1]
  /\ pc' = [pc EXCEPT ![p] = CASE @ = "w_sleep" -> "w_acquire"
                               [] @ = "r_sleep" -> "r_acquire"
                               [] OTHER -> @]
  /\ UNCHANGED <<pipeVars, lock, freed, fileVars, left, ch, cut>>
-----------------------------------------------------------------------------

\* pipealloc: one process has both ends of an empty pipe.
Init ==
  /\ data = [k \in 0..(PIPESIZE - 1) |-> Zero] /\ nread = 0 /\ nwrite = 0
  /\ readopen = 1 /\ writeopen = 1 /\ lock = Nobody /\ freed = 0
  /\ \E p \in Procs : rfd = {p} /\ wfd = {p}
  /\ rref = 1 /\ wref = 1
  /\ killed = [p \in Procs |-> 0]
  /\ pc = [p \in Procs |-> "idle"]
  /\ left = [p \in Procs |-> 0]
  /\ ch = Zero /\ cut = 0

\* Steps of a process inside the kernel.
Kernel(p) ==
  \/ pipewrite_check(p) \/ pipewrite_return(p) \/ pipewrite_sleep(p)
  \/ (\E b \in Bytes : pipewrite_byte(p, b))
  \/ piperead_check(p) \/ piperead_killed(p) \/ piperead_sleep(p) \/ piperead_byte(p) \/ piperead_done(p)
  \/ acquire(p) \/ pipeclose(p)

Next == \E p \in Procs :
          \/ Kernel(p) \/ pipewrite_fault(p)
          \/ \E k \in 0..MaxN : pipewrite(p, k) \/ piperead(p, k)
          \/ fileclose_r(p) \/ fileclose_w(p) \/ kill(p)
          \/ \E q \in Procs : filedup(p, q)

Spec == Init /\ [][Next]_vars

\* A process in the kernel keeps going, and the spin lock does not starve it.
FairSpec == Spec /\ \A p \in Procs : SF_vars(Kernel(p))
-----------------------------------------------------------------------------

(* Every variable has its type; the counters stay below WRAP.              *)
TypeOK ==
  /\ data \in [0..(PIPESIZE - 1) -> Bytes] /\ ch \in Bytes
  /\ nread \in 0..(WRAP - 1) /\ nwrite \in 0..(WRAP - 1)
  /\ readopen \in {0, 1} /\ writeopen \in {0, 1}
  /\ lock \in Procs \cup {Nobody}
  /\ freed \in {0, 1}
  /\ rfd \subseteq Procs /\ wfd \subseteq Procs
  /\ rref \in 0..Cardinality(Procs) /\ wref \in 0..Cardinality(Procs)
  /\ killed \in [Procs -> {0, 1}] /\ pc \in [Procs -> PCs]
  /\ left \in [Procs -> 0..MaxN] /\ cut \in {0, 1}

Used == (nwrite - nread) % WRAP

F == INSTANCE Fifo WITH
       queue <- [k \in 1..Used |-> data[Slot(Add(nread, k - 1))]],
       last <- ch, ropen <- readopen, wopen <- writeopen, Capacity <- PIPESIZE

\* The ring buffer is a first-in first-out queue of at most PIPESIZE bytes,
\* also when nread and nwrite wrap around.
IsFifo == F!Spec

\* The page of the pipe is freed once, and only when no process is inside the
\* pipe or still has a descriptor for it.
NoUseAfterFree ==
  /\ TypeOK
  /\ freed > 0 => /\ freed = 1 /\ rfd = {} /\ wfd = {}
                  /\ \A p \in Procs : pc[p] = "idle"

\* Readers sleep only on an empty pipe that can still be written, as
\* "DOC: pipe-empty" says, writers only on a full one that can still be read
\* ("DOC: pipewrite-full").  Evaluated when pi->lock is free.
SleepOnlyAsDocumented ==
  lock = Nobody => \A p \in Procs :
    /\ pc[p] = "r_sleep" => MustWait
    /\ pc[p] = "w_sleep" => Full /\ readopen = 1

\* Unless a kill has cut a write short, nobody sleeps without a reason: no
\* wakeup of pipewrite, piperead and pipeclose is missing or comes too early.
\* And in any case nobody uses the pipe after it is freed (NoUseAfterFree).
SleepJustified ==
  /\ NoUseAfterFree
  /\ cut = 0 => SleepOnlyAsDocumented

\* When one end of the pipe is closed, every process at the other end
\* returns: a reader with what is left or end of file, a writer with an error.
CloseReleases ==
  \A p \in Procs :
    /\ pc[p] \in {"r_check", "r_act", "r_sleep", "r_acquire", "r_copy"} /\ writeopen = 0
         ~> pc[p] = "idle"
    /\ pc[p] \in {"w_check", "w_act", "w_sleep", "w_acquire"} /\ readopen = 0
         ~> pc[p] = "idle"
=============================================================================
