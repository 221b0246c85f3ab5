-------------------------------- MODULE Log ---------------------------------
(***************************************************************************)
(* The write-ahead log of kernel/log.c: system calls that share one        *)
(* transaction, group commit, installation, a crash at any moment and      *)
(* recovery at boot.                                                       *)
(*                                                                         *)
(* The disk is external: a block is written whole or not at all, and       *)
(* virtio_disk_rw returns only when it has been.  A buffer is modelled by  *)
(* the contents cached for its block, its bpin count and the process that  *)
(* holds its sleep lock.  The buffers of the log area are written through  *)
(* before they are released, so only their disk contents are kept.         *)
(***************************************************************************)
EXTENDS Integers, Sequences, FiniteSets

CONSTANTS Procs, Blocks, Vals, Zero,
          NoVal,        \* "block not cached"
          NoBlock,      \* "no buffer held"
          MAXOPBLOCKS, LOGSIZE,
          NLOG,         \* superblock's nlog: header block plus log blocks
          OpBlocks,     \* distinct blocks one system call really writes
          WriteFaults   \* may a write's user buffer turn out to be unmapped?

ASSUME SetAssumption ==
  /\ Zero \in Vals
  /\ NoVal \notin Vals
  /\ NoBlock \notin Blocks
  /\ IsFiniteSet(Procs)
  /\ WriteFaults \in BOOLEAN

ASSUME SizeAssumption ==
  /\ MAXOPBLOCKS \in Nat
  /\ LOGSIZE \in Nat
  /\ NLOG \in Nat
  /\ OpBlocks \in Nat

VARIABLES
  home,         \* disk: the home location of every block
  logdata,      \* disk: the blocks of the log area
  hdr,          \* disk: the log header, block[0..n-1]
  cache,        \* buffer cache: contents of a cached block, or NoVal
  pin,          \* buffer cache: bpin'ed references to a block's buffer
  lh,           \* log.lh, block[0..n-1]
  outstanding,  \* log.outstanding
  committing,   \* log.committing
  tail,         \* the loop variable of write_log and install_trans
  boot,         \* progress of recover_from_log
  pc,           \* where each process is
  hold,         \* the buffer each process has locked
  wrote,        \* blocks the current operation of a process has written
  panicked      \* has log.c panicked?

diskVars == <<home, logdata, hdr>>
bufVars == <<cache, pin>>
logVars == <<lh, outstanding, committing, tail>>
procVars == <<pc, hold, wrote>>
vars == <<diskVars, bufVars, logVars, procVars, boot, panicked>>

PCs == {"idle", "begin", "sleep", "op",
        "write_log", "write_head", "install", "clear", "finish"}

InSeq(s, b) == \E i \in 1..Len(s) : s[i] = b

Running == boot = "done" /\ panicked = 0

\* Nobody has block b's sleep lock.
Unlocked(b) == \A p \in Procs : hold[p] # b

\* The contents bread returns: the cached ones, else the disk's.
Contents(b) == IF cache[b] # NoVal THEN cache[b] ELSE home[b]

\* wakeup(&log): every sleeper on the channel tests its condition again.
Wakeup(f) == [p \in Procs |-> IF f[p] = "sleep" THEN "begin" ELSE f[p]]

-----------------------------------------------------------------------------
(* Faulty variants of the definitions below, kept for the sensitivity      *)
(* checks of the properties; no specification uses them.                   *)

MustWait_NoReserve == committing = 1 \/ Len(lh) + MAXOPBLOCKS > LOGSIZE

bunpin_Missing(b) == pin

Absorb_Never(b) == Append(lh, b)

AfterWriteLog_InstallFirst == "install"

AfterCommit_Silent(p) == [pc EXCEPT ![p] = "idle"]

FirstRecovery_Clear == "clear"

-----------------------------------------------------------------------------

(* begin_op's two reasons to sleep.                                        *)
MustWait ==
  committing = 1 \/ Len(lh) + (outstanding + 1) * MAXOPBLOCKS > LOGSIZE

\* begin_op: one turn of its loop under log.lock; sleep() gives the lock up
\* and blocks in one step.
begin_op(p) ==
  /\ Running
  /\ pc[p] \in {"idle", "begin"} /\ hold[p] = NoBlock
  /\ IF MustWait
       THEN /\ pc' = [pc EXCEPT ![p] = "sleep"]
            /\ UNCHANGED <<outstanding, wrote>>
       ELSE /\ pc' = [pc EXCEPT ![p] = "op"]
            /\ outstanding' = outstanding + 1
            /\ wrote' = [wrote EXCEPT ![p] = {}]
  /\ UNCHANGED <<diskVars, bufVars, lh, committing, tail, hold, boot, panicked>>

(* Buffers.  A process outside an operation may read blocks as well        *)
(* (fileread calls readi without begin_op).                                *)
bread(p, b) ==
  /\ Running
  /\ pc[p] \in {"idle", "op"} /\ hold[p] = NoBlock
  /\ Unlocked(b)
  /\ hold' = [hold EXCEPT ![p] = b]
  /\ cache' = [cache EXCEPT ![b] = Contents(b)]
  /\ UNCHANGED <<diskVars, pin, logVars, pc, wrote, boot, panicked>>

brelse(p) ==
  /\ Running
  /\ hold[p] # NoBlock
  /\ hold' = [hold EXCEPT ![p] = NoBlock]
  /\ UNCHANGED <<diskVars, bufVars, logVars, pc, wrote, boot, panicked>>

\* bget recycles a buffer for another block: only one with no reference left.
\* Whatever it held is forgotten, there is no write-back.
Recycle(b) ==
  /\ Running
  /\ cache[b] # NoVal /\ pin[b] = 0 /\ Unlocked(b)
  /\ cache' = [cache EXCEPT ![b] = NoVal]
  /\ UNCHANGED <<diskVars, pin, logVars, procVars, boot, panicked>>

bpin(b) == [pin EXCEPT ![b] = @ + 1]

bunpin(b) == [pin EXCEPT ![b] = @ - 1]

\* log_write's search loop: a block already in the log is absorbed.
Absorb(b) == IF InSeq(lh, b) THEN lh ELSE Append(lh, b)

TooBig == Len(lh) >= LOGSIZE \/ Len(lh) >= NLOG - 1

\* The caller modifies the buffer it holds and calls log_write.  An operation
\* writes at most OpBlocks distinct blocks, each as often as it likes.
log_write(p, v) ==
  LET b == hold[p] IN
  /\ Running
  /\ pc[p] = "op" /\ b # NoBlock
  /\ b \in wrote[p] \/ Cardinality(wrote[p]) < OpBlocks
  /\ cache' = [cache EXCEPT ![b] = v]
  /\ wrote' = [wrote EXCEPT ![p] = @ \cup {b}]
  /\ IF TooBig \/ outstanding < 1
       THEN panicked' = 1 /\ UNCHANGED <<lh, pin>>
       ELSE /\ lh' = Absorb(b)
            /\ pin' = IF Len(lh') > Len(lh) THEN bpin(b) ELSE pin
            /\ UNCHANGED panicked
  /\ UNCHANGED <<diskVars, outstanding, committing, tail, pc, hold, boot>>

\* writei when either_copyin fails after copying a part: the buffer has been
\* modified and log_write is skipped.
write_fault(p, v) ==
  /\ Running /\ WriteFaults
  /\ pc[p] = "op" /\ hold[p] # NoBlock
  /\ cache' = [cache EXCEPT ![hold[p]] = v]
  /\ UNCHANGED <<diskVars, pin, logVars, procVars, boot, panicked>>

\* end_op: the last operation commits; the others give their reservation back.
end_op(p) ==
  /\ Running
  /\ pc[p] = "op" /\ hold[p] = NoBlock
  /\ outstanding' = outstanding - 1
  /\ panicked' = committing
  /\ IF outstanding = 1
       THEN /\ committing' = 1
            /\ tail' = 1
            /\ pc' = [pc EXCEPT ![p] = IF lh = <<>> THEN "finish" ELSE "write_log"]
       ELSE pc' = Wakeup([pc EXCEPT ![p] = "idle"]) /\ UNCHANGED <<committing, tail>>
  /\ UNCHANGED <<diskVars, bufVars, lh, hold, wrote, boot>>

(* commit(), run by the process whose end_op was the last.                 *)

AfterWriteLog == "write_head"

\* One block of write_log: copy the cached block into the log.
write_log(p) ==
  LET b == lh[tail] IN
  /\ Running
  /\ pc[p] = "write_log"
  /\ Unlocked(b)
  /\ logdata' = [logdata EXCEPT ![tail] = Contents(b)]
  /\ cache' = [cache EXCEPT ![b] = Contents(b)]
  /\ IF tail = Len(lh)
       THEN tail' = 1 /\ pc' = [pc EXCEPT ![p] = AfterWriteLog]
       ELSE tail' = tail + 1 /\ UNCHANGED pc
  /\ UNCHANGED <<home, hdr, pin, lh, outstanding, committing, hold, wrote,
                 boot, panicked>>

\* The header block write_head writes.
CommitHead == lh

\* The commit point: one write of the header block.
write_head(p) ==
  /\ Running
  /\ pc[p] = "write_head"
  /\ hdr' = CommitHead
  /\ pc' = [pc EXCEPT ![p] = "install"]
  /\ UNCHANGED <<home, logdata, bufVars, logVars, hold, wrote, boot, panicked>>

\* One block of install_trans(0).
install_trans(p) ==
  LET b == lh[tail] IN
  /\ Running
  /\ pc[p] = "install"
  /\ Unlocked(b)
  /\ home' = [home EXCEPT ![b] = logdata[tail]]
  /\ cache' = [cache EXCEPT ![b] = logdata[tail]]
  /\ pin' = bunpin(b)
  /\ IF tail = Len(lh)
       THEN tail' = 1 /\ pc' = [pc EXCEPT ![p] = "clear"]
       ELSE tail' = tail + 1 /\ UNCHANGED pc
  /\ UNCHANGED <<logdata, hdr, lh, outstanding, committing, hold, wrote,
                 boot, panicked>>

\* commit's last two statements: lh.n = 0 and the second write_head.
clear_head(p) ==
  /\ Running
  /\ pc[p] = "clear"
  /\ lh' = <<>> /\ hdr' = <<>>
  /\ pc' = [pc EXCEPT ![p] = "finish"]
  /\ UNCHANGED <<home, logdata, bufVars, outstanding, committing, tail, hold,
                 wrote, boot, panicked>>

\* end_op after commit returns.
AfterCommit(p) == Wakeup([pc EXCEPT ![p] = "idle"])

end_commit(p) ==
  /\ Running
  /\ pc[p] = "finish"
  /\ committing' = 0
  /\ pc' = AfterCommit(p)
  /\ UNCHANGED <<diskVars, bufVars, lh, outstanding, tail, hold, wrote, boot,
                 panicked>>

(* Crash and recovery.  initlog runs recover_from_log in the first process *)
(* before any system call.                                                 *)

Crash ==
  /\ cache' = [b \in Blocks |-> NoVal]
  /\ pin' = [b \in Blocks |-> 0]
  /\ lh' = <<>>
  /\ outstanding' = 0
  /\ committing' = 0
  /\ tail' = 1
  /\ boot' = "read_head"
  /\ pc' = [p \in Procs |-> "idle"]
  /\ hold' = [p \in Procs |-> NoBlock]
  /\ wrote' = [p \in Procs |-> {}]
  /\ panicked' = 0
  /\ UNCHANGED diskVars

\* What recovery does after read_head found a transaction.
FirstRecovery == "install"

read_head ==
  /\ boot = "read_head"
  /\ lh' = hdr
  /\ boot' = IF hdr = <<>> THEN "clear" ELSE FirstRecovery
  /\ UNCHANGED <<diskVars, bufVars, outstanding, committing, tail, procVars,
                 panicked>>

\* One block of install_trans(1): the block ends up cached, not pinned.
recover_install ==
  LET b == lh[tail] IN
  /\ boot = "install"
  /\ home' = [home EXCEPT ![b] = logdata[tail]]
  /\ cache' = [cache EXCEPT ![b] = logdata[tail]]
  /\ IF tail = Len(lh)
       THEN tail' = 1 /\ boot' = "clear"
       ELSE tail' = tail + 1 /\ UNCHANGED boot
  /\ UNCHANGED <<logdata, hdr, pin, lh, outstanding, committing, procVars,
                 panicked>>

recover_clear ==
  /\ boot = "clear"
  /\ lh' = <<>> /\ hdr' = <<>>
  /\ boot' = "done"
  /\ UNCHANGED <<home, logdata, bufVars, outstanding, committing, tail,
                 procVars, panicked>>
-----------------------------------------------------------------------------

(* A file system fresh from mkfs, about to be booted.                      *)
Init ==
  /\ home = [b \in Blocks |-> Zero]
  /\ logdata = [i \in 1..LOGSIZE |-> Zero]
  /\ hdr = <<>>
  /\ cache = [b \in Blocks |-> NoVal]
  /\ pin = [b \in Blocks |-> 0]
  /\ lh = <<>> /\ outstanding = 0 /\ committing = 0 /\ tail = 1
  /\ boot = "read_head"
  /\ pc = [p \in Procs |-> "idle"]
  /\ hold = [p \in Procs |-> NoBlock]
  /\ wrote = [p \in Procs |-> {}]
  /\ panicked = 0

Commit(p) == write_log(p) \/ write_head(p) \/ install_trans(p)
               \/ clear_head(p) \/ end_commit(p)

Recover == read_head \/ recover_install \/ recover_clear

Next ==
  \/ \E p \in Procs :
       \/ begin_op(p) \/ end_op(p) \/ brelse(p) \/ Commit(p)
       \/ \E b \in Blocks : bread(p, b)
       \/ \E v \in Vals : log_write(p, v) \/ write_fault(p, v)
  \/ \E b \in Blocks : Recycle(b)
  \/ Recover
  \/ Crash

Spec == Init /\ [][Next]_vars

\* A process that is runnable inside log.c keeps running, and so does boot.
\* Every system call reaches its end_op.
Fairness ==
  /\ WF_vars(Recover)
  /\ \A p \in Procs :
       /\ WF_vars(pc[p] = "begin" /\ begin_op(p))
       /\ WF_vars(brelse(p))
       /\ WF_vars(Commit(p))
       /\ SF_vars(end_op(p))

FairSpec == Spec /\ Fairness
-----------------------------------------------------------------------------

(* Every variable has its type; the sizes that matter are the subject of   *)
(* the properties below.                                                   *)
TypeOK ==
  /\ home \in [Blocks -> Vals]
  /\ logdata \in [1..LOGSIZE -> Vals]
  /\ hdr \in Seq(Blocks)
  /\ cache \in [Blocks -> Vals \cup {NoVal}]
  /\ pin \in [Blocks -> Nat]
  /\ lh \in Seq(Blocks)
  /\ outstanding \in Nat
  /\ committing \in {0, 1}
  /\ tail \in Nat \ {0}
  /\ boot \in {"read_head", "install", "clear", "done"}
  /\ pc \in [Procs -> PCs]
  /\ hold \in [Procs -> Blocks \cup {NoBlock}]
  /\ wrote \in [Procs -> SUBSET Blocks]
  /\ panicked \in {0, 1}

\* log.c never panics: begin_op's reservation is enough for every log_write,
\* absorbed ones included, and end_op never finds a commit in progress.
NoPanic == panicked = 0

\* When the reservation is enough: an operation writes fewer blocks than it
\* reserves, by a margin that makes up for the header block and any other
\* block by which the log area falls short of LOGSIZE data blocks.
Reservation == /\ OpBlocks < MAXOPBLOCKS
               /\ LOGSIZE + OpBlocks < NLOG - 1 + MAXOPBLOCKS

\* What the home locations will hold once recovery has run.
Durable ==
  [b \in Blocks |->
     IF InSeq(hdr, b)
       THEN logdata[CHOOSE i \in 1..Len(hdr) : hdr[i] = b]
       ELSE home[b]]

View == [b \in Blocks |-> IF cache[b] # NoVal THEN cache[b] ELSE Durable[b]]

InOp == {p \in Procs : pc[p] = "op"}

AD == INSTANCE AtomicDisk WITH mem <- View, dur <- Durable, active <- InOp

\* The log implements AtomicDisk: whatever the interleaving of operations,
\* commit, recycling of buffers and crashes (a crash during recovery included),
\* the disk recovers to the effect of complete system calls.
AtomicTransactions == AD!Spec

\* Write-ahead rule: a home location changes only to the contents that a
\* committed header says the log holds for it.
WriteAhead ==
  [][\A b \in Blocks :
       home'[b] # home[b] =>
         \E i \in 1..Len(hdr) : hdr[i] = b /\ home'[b] = logdata[i]]_vars

\* Between transactions (the last end_op has returned) everything written is
\* in its home location, the log is empty and no buffer is left pinned.
QuiescentDurable ==
  (Running /\ outstanding = 0 /\ committing = 0) =>
     /\ hdr = <<>> /\ lh = <<>>
     /\ \A b \in Blocks : Contents(b) = home[b] /\ pin[b] = 0

\* Has install_trans already copied the i-th logged block home?
Installed(i) ==
  \E p \in Procs : pc[p] = "clear" \/ (pc[p] = "install" /\ i < tail)

\* A block of the running transaction has exactly one pin, is cached and is
\* listed once, until install_trans has copied it home.
LoggedBlocksPinned ==
  /\ TypeOK
  /\ Running =>
       \A b \in Blocks :
         LET waiting == {i \in 1..Len(lh) : lh[i] = b /\ ~Installed(i)}
         IN  pin[b] = Cardinality(waiting) /\ pin[b] <= 1
               /\ (pin[b] = 1 => cache[b] # NoVal)

\* Plain readers do not keep locking buffers for ever (sleep locks have no queue).
ReadersPause == <>[](\A p \in Procs : pc[p] = "idle" => hold[p] = NoBlock)

\* No lost wakeup: a process asleep in begin_op runs again, once readers pause.
BeginOpReturns ==
  ReadersPause => \A p \in Procs : (pc[p] = "sleep") ~> (pc[p] # "sleep")
=============================================================================
