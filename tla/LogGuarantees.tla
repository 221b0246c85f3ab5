--------------------------- MODULE LogGuarantees ----------------------------
(***************************************************************************)
(* What the file system relies on: begin_op's reservation is enough, so    *)
(* that log.c never panics, and Log implements AtomicDisk.                 *)
(*                                                                         *)
(* Sums over the operations in progress are counted as the cardinality of  *)
(* a set: an operation owns one slot for every block it reserved and has   *)
(* not written yet.                                                        *)
(***************************************************************************)
EXTENDS LogProofs

Slots == {s \in Procs \X (1..MAXOPBLOCKS) :
            pc[s[1]] = "op" /\ s[2] > Cardinality(wrote[s[1]])}

\* An operation in progress has written no more than it may, all of it logged.
OpInv ==
  \A p \in Procs : pc[p] = "op" =>
    /\ IsFiniteSet(wrote[p]) /\ Cardinality(wrote[p]) <= OpBlocks
    /\ \A b \in wrote[p] : InSeq(lh, b)

\* The blocks logged and the slots still owned fit in the log.
ReserveInv == panicked = 0 /\ (Running => OpInv /\ Len(lh) + Cardinality(Slots) <= LOGSIZE)

(* There are finitely many slots, before a step and after it.              *)
LEMMA SlotsFinite ==
  /\ IsFiniteSet(Slots) /\ Cardinality(Slots) \in Nat
  /\ IsFiniteSet(Slots') /\ Cardinality(Slots') \in Nat
<1>1. IsFiniteSet(1..MAXOPBLOCKS)
  BY SizeAssumption, FS_Interval
<1>2. IsFiniteSet(Procs \X (1..MAXOPBLOCKS))
  BY <1>1, SetAssumption, FS_Product, Zenon
<1>3. /\ Slots \in SUBSET (Procs \X (1..MAXOPBLOCKS))
      /\ Slots' \in SUBSET (Procs \X (1..MAXOPBLOCKS))
  BY Zenon DEF Slots
<1>4. IsFiniteSet(Slots) /\ IsFiniteSet(Slots')
  BY <1>2, <1>3, Zenon, FS_Subset
<1> QED
  BY <1>4, Zenon, FS_CardinalityType

(* A subset of the slots fits where the slots fitted.                      *)
LEMMA FewerSlots ==
  ASSUME Slots' \subseteq Slots
  PROVE  Cardinality(Slots') <= Cardinality(Slots)
BY Zenon, SlotsFinite, FS_Subset

(* While an operation is in progress its spare slots leave room for a      *)
(* log_write, even one that will be absorbed.                              *)
LEMMA RoomForWrite ==
  ASSUME Reservation, TypeOK, NEW p \in Procs, pc[p] = "op",
         Cardinality(wrote[p]) <= OpBlocks, IsFiniteSet(wrote[p]),
         Len(lh) + Cardinality(Slots) <= LOGSIZE
  PROVE  ~TooBig
<1> DEFINE Spare == (OpBlocks + 1)..MAXOPBLOCKS
<1>1. IsFiniteSet(Spare) /\ Cardinality(Spare) = MAXOPBLOCKS - OpBlocks
  BY SizeAssumption, FS_Interval DEF Reservation
<1>2. Cardinality({p}) = 1 /\ IsFiniteSet({p})
  BY FS_Singleton, Zenon
<1>3. Cardinality({p} \X Spare) = 1 * Cardinality(Spare)
  BY <1>1, <1>2, FS_Product, Zenon
<1>4. {p} \X Spare \in SUBSET Slots
  <2>1. Cardinality(wrote[p]) \in Nat
    BY Zenon, FS_CardinalityType
  <2> QED
    BY <2>1, SizeAssumption DEF Slots
<1>5. Cardinality({p} \X Spare) <= Cardinality(Slots)
  BY <1>4, Zenon, SlotsFinite, FS_Subset
<1>6. MAXOPBLOCKS - OpBlocks <= Cardinality(Slots)
  BY <1>1, <1>3, <1>5, SizeAssumption
<1>7. Len(lh) \in Nat
  BY DEF TypeOK
<1> QED
  BY <1>6, <1>7, SlotsFinite, SizeAssumption DEF Reservation, TooBig

(* log_write of a block new to the operation uses up one of its slots.     *)
LEMMA SlotUsed ==
  ASSUME TypeOK, NEW p \in Procs, pc[p] = "op", NEW b \in Blocks,
         b \notin wrote[p], IsFiniteSet(wrote[p]),
         Cardinality(wrote[p]) < MAXOPBLOCKS,
         wrote' = [wrote EXCEPT ![p] = @ \cup {b}], pc' = pc
  PROVE  Cardinality(Slots') = Cardinality(Slots) - 1
<1> DEFINE n == Cardinality(wrote[p]) + 1
<1>1. n \in 1..MAXOPBLOCKS /\ Cardinality(wrote[p]) \in Nat
  BY FS_CardinalityType, SizeAssumption
<1>2. wrote'[p] = wrote[p] \cup {b} /\ \A q \in Procs : q # p => wrote'[q] = wrote[q]
  BY Zenon DEF TypeOK
<1>3. Cardinality(wrote'[p]) = n
  BY <1>2, FS_AddElement, Zenon
<1>4. <<p, n>> \in Slots
  BY <1>1 DEF Slots
<1>5. Slots' = Slots \ {<<p, n>>}
  <2>1. ASSUME NEW q \in Procs, NEW k \in 1..MAXOPBLOCKS
        PROVE  <<q, k>> \in Slots' <=> <<q, k>> \in Slots /\ <<q, k>> # <<p, n>>
    <3>1. CASE q = p
      <4>1. <<p, k>> \in Slots' <=> k > n
        BY <1>3, Zenon DEF Slots
      <4>2. <<p, k>> \in Slots <=> k > Cardinality(wrote[p])
        BY Zenon DEF Slots
      <4>3. k > n <=> k > Cardinality(wrote[p]) /\ k # n
        BY <1>1
      <4> QED
        BY <3>1, <4>1, <4>2, <4>3, Zenon
    <3>2. CASE q # p
      BY <1>2, <3>2, Zenon DEF Slots
    <3> QED
      BY <3>1, <3>2, Zenon
  <2>2. \A s \in Procs \X (1..MAXOPBLOCKS) :
          s \in Slots' <=> s \in Slots /\ s # <<p, n>>
    BY <2>1
  <2> QED
    BY <2>2, Zenon DEF Slots
<1> QED
  BY <1>4, <1>5, Zenon, SlotsFinite, FS_RemoveElement
-----------------------------------------------------------------------------

(* Nothing is reserved at first.                                           *)
LEMMA ReserveInit == Init => ReserveInv
BY Zenon DEF Init, ReserveInv, Running

(* Steps that neither log a block nor start an operation.                  *)
LEMMA ReserveFrame ==
  ASSUME IInv, ReserveInv, lh' = lh, wrote' = wrote, panicked' = 0,
         boot' = boot, \A p \in Procs : pc'[p] = "op" => pc[p] = "op"
  PROVE  ReserveInv'
<1> SUFFICES ASSUME Running' PROVE OpInv' /\ Len(lh') + Cardinality(Slots') <= LOGSIZE
  BY Zenon DEF ReserveInv
<1>1. Running
  BY Zenon DEF Running, ReserveInv
<1>2. OpInv'
  BY <1>1, Zenon DEF ReserveInv, OpInv, InSeq
<1>3. Slots' \subseteq Slots
  BY Zenon DEF Slots
<1>4. Cardinality(Slots') <= Cardinality(Slots)
  BY <1>3, Zenon, FewerSlots
<1>5. Len(lh) + Cardinality(Slots) <= LOGSIZE /\ Len(lh) \in Nat
  BY <1>1 DEF ReserveInv, IInv, TypeOK
<1> QED
  BY <1>2, <1>4, <1>5, SlotsFinite, SizeAssumption

(* begin_op: its guard leaves MAXOPBLOCKS slots for each operation.        *)
LEMMA ReserveBegin ==
  ASSUME IInv, IInv', ReserveInv, NEW p \in Procs, begin_op(p)
  PROVE  ReserveInv'
<1>0. Running /\ Running' /\ panicked' = 0
  BY Zenon DEF begin_op, Running, ReserveInv
<1>1. CASE MustWait
  <2>1. \A q \in Procs : pc'[q] = "op" => pc[q] = "op"
    BY <1>1, Zenon DEF begin_op, IInv, TypeOK
  <2> QED
    BY <1>0, <1>1, <2>1, ReserveFrame DEF begin_op
<1>2. CASE ~MustWait
  <2>1. /\ pc' = [pc EXCEPT ![p] = "op"] /\ wrote' = [wrote EXCEPT ![p] = {}]
        /\ lh' = lh /\ outstanding' = outstanding + 1 /\ pc[p] # "op"
    BY <1>2, Zenon DEF begin_op
  <2>2. /\ outstanding = Cardinality(InOp) /\ outstanding \in Nat
        /\ Len(lh) \in Nat
    BY <1>0 DEF IInv, ProcInv, TypeOK
  <2>3. Cardinality(InOp') = outstanding + 1
    BY <2>1, <2>2, InOpGrows, Zenon DEF IInv
  <2>4. Cardinality(Slots') <= Cardinality(InOp') * MAXOPBLOCKS
    <3>1. IsFiniteSet(1..MAXOPBLOCKS) /\ Cardinality(1..MAXOPBLOCKS) = MAXOPBLOCKS
      BY SizeAssumption, FS_Interval
    <3>2. InOp' \in SUBSET Procs
      BY Zenon DEF InOp
    <3>3. IsFiniteSet(InOp')
      BY <3>2, Zenon, FS_Subset, SetAssumption
    <3>4. /\ IsFiniteSet(InOp' \X (1..MAXOPBLOCKS))
          /\ Cardinality(InOp' \X (1..MAXOPBLOCKS)) = Cardinality(InOp') * MAXOPBLOCKS
      BY <3>1, <3>3, FS_Product, Zenon
    <3>5. Slots' \in SUBSET (InOp' \X (1..MAXOPBLOCKS))
      BY Zenon DEF Slots, InOp
    <3> QED
      BY <3>4, <3>5, Zenon, FS_Subset
  <2>5. ~(Len(lh) + (outstanding + 1) * MAXOPBLOCKS > LOGSIZE)
    BY <1>2, Zenon DEF MustWait
  <2>6. Len(lh') + Cardinality(Slots') <= LOGSIZE
    <3> DEFINE m == (outstanding + 1) * MAXOPBLOCKS
    <3>1. m \in Nat
      BY <2>2, SizeAssumption
    <3>2. Cardinality(Slots') <= m
      BY <2>3, <2>4, Zenon
    <3>3. Len(lh) + m <= LOGSIZE
      BY <2>2, <2>5, <3>1, SizeAssumption
    <3> HIDE DEF m
    <3> QED
      BY <2>1, <2>2, <3>1, <3>2, <3>3, SlotsFinite, SizeAssumption
  <2>7. OpInv'
    <3>1. IsFiniteSet({}) /\ Cardinality({}) = 0
      BY Zenon, FS_EmptySet
    <3>2. wrote'[p] = {} /\ \A q \in Procs : q # p => wrote'[q] = wrote[q] /\ pc'[q] = pc[q]
      BY <2>1, Zenon DEF IInv, TypeOK
    <3>3. \A q \in Procs : q # p => (pc'[q] = "op" =>
            /\ IsFiniteSet(wrote'[q]) /\ Cardinality(wrote'[q]) <= OpBlocks
            /\ \A b \in wrote'[q] : InSeq(lh, b))
      BY <1>0, <3>2, Zenon DEF ReserveInv, OpInv
    <3>4. /\ IsFiniteSet(wrote'[p]) /\ Cardinality(wrote'[p]) <= OpBlocks
          /\ \A b \in wrote'[p] : InSeq(lh, b)
      BY <3>1, <3>2, SizeAssumption
    <3> QED
      BY <2>1, <3>3, <3>4, Zenon DEF OpInv, InSeq
  <2> QED
    BY <1>0, <2>6, <2>7, Zenon DEF ReserveInv
<1> QED
  BY <1>1, <1>2, Zenon

(* log_write uses one of the slots of its operation.                       *)
LEMMA ReserveWrite ==
  ASSUME Reservation, IInv, ReserveInv, NEW p \in Procs, NEW v \in Vals,
         log_write(p, v)
  PROVE  ReserveInv'
<1> USE DEF IInv
<1>1. PICK b \in Blocks : b = hold[p]
  BY Zenon DEF log_write, TypeOK
<1>2. /\ Running /\ pc[p] = "op" /\ pc' = pc /\ boot' = boot
      /\ b \in wrote[p] \/ Cardinality(wrote[p]) < OpBlocks
      /\ wrote' = [wrote EXCEPT ![p] = @ \cup {b}]
  BY <1>1, Zenon DEF log_write
<1>3. /\ OpInv /\ Len(lh) + Cardinality(Slots) <= LOGSIZE
      /\ IsFiniteSet(wrote[p]) /\ Cardinality(wrote[p]) <= OpBlocks
      /\ \A c \in wrote[p] : InSeq(lh, c)
  BY <1>2, Zenon DEF ReserveInv, OpInv
<1>4. ~TooBig
  BY <1>2, <1>3, Zenon, RoomForWrite
<1>5. outstanding >= 1
  <2>1. p \in InOp
    BY <1>2, Zenon DEF InOp
  <2>2. outstanding = Cardinality(InOp) /\ InOp # {}
    BY <1>2, <2>1, Zenon DEF ProcInv
  <2> QED
    BY <2>2, InOpFinite, FS_EmptySet
<1>6. panicked' = 0 /\ lh' = Absorb(b)
  BY <1>1, <1>4, <1>5 DEF log_write, ReserveInv, TypeOK
<1>7. lh \in Seq(Blocks) /\ Len(lh) \in Nat
  BY DEF TypeOK
<1>8. \A c : InSeq(lh', c) <=> InSeq(lh, c) \/ c = b
  <2>1. CASE InSeq(lh, b)
    BY <1>6, <2>1, Zenon DEF Absorb
  <2>2. CASE ~InSeq(lh, b)
    <3>1. /\ Len(lh') = Len(lh) + 1 /\ lh'[Len(lh) + 1] = b
          /\ \A i \in 1..Len(lh) : lh'[i] = lh[i]
      BY <1>6, <1>7, <2>2 DEF Absorb
    <3> QED
      BY <1>7, <3>1 DEF InSeq
  <2> QED
    BY <2>1, <2>2, Zenon
<1>9. /\ wrote'[p] = wrote[p] \cup {b}
      /\ \A q \in Procs : q # p => wrote'[q] = wrote[q]
  BY <1>2, Zenon DEF TypeOK
<1>10. CASE b \in wrote[p]
  <2>1. wrote' = wrote
    <3>1. wrote[p] \cup {b} = wrote[p]
      BY <1>10, Zenon
    <3> QED
      BY <1>2, <3>1 DEF TypeOK
  <2>2. lh' = lh
    BY <1>3, <1>6, <1>10, Zenon DEF Absorb
  <2> QED
    BY <1>2, <1>6, <2>1, <2>2, ReserveFrame
<1>11. CASE b \notin wrote[p]
  <2>1. Cardinality(wrote[p]) < OpBlocks /\ Cardinality(wrote[p]) \in Nat
    BY <1>2, <1>3, <1>11, Zenon, FS_CardinalityType
  <2>2. Cardinality(wrote[p]) < MAXOPBLOCKS
    BY <2>1, SizeAssumption DEF Reservation
  <2>3. Cardinality(Slots') = Cardinality(Slots) - 1
    BY <1>2, <1>3, <1>11, <2>2, SlotUsed, Zenon
  <2>4. Len(lh') <= Len(lh) + 1 /\ Len(lh') \in Nat
    BY <1>6, <1>7 DEF Absorb
  <2>5. Len(lh') + Cardinality(Slots') <= LOGSIZE
    BY <1>3, <1>7, <2>3, <2>4, SlotsFinite, SizeAssumption
  <2>6. IsFiniteSet(wrote'[p]) /\ Cardinality(wrote'[p]) = Cardinality(wrote[p]) + 1
    BY <1>3, <1>9, <1>11, FS_AddElement, Zenon
  <2>7. Cardinality(wrote'[p]) <= OpBlocks
    BY <2>1, <2>6, SizeAssumption
  <2>8. \A c \in wrote'[p] : InSeq(lh', c)
    BY <1>3, <1>8, <1>9, Zenon
  <2>9. \A q \in Procs : q # p /\ pc'[q] = "op" =>
          /\ IsFiniteSet(wrote'[q]) /\ Cardinality(wrote'[q]) <= OpBlocks
          /\ \A c \in wrote'[q] : InSeq(lh', c)
    BY <1>2, <1>3, <1>8, <1>9, Zenon DEF OpInv
  <2>10. OpInv'
    BY <2>6, <2>7, <2>8, <2>9, Zenon DEF OpInv, InSeq
  <2> QED
    BY <1>6, <2>5, <2>10, Zenon DEF ReserveInv
<1> QED
  BY <1>10, <1>11, Zenon

(* end_op gives back the slots of its operation.                           *)
LEMMA ReserveEnd ==
  ASSUME IInv, ReserveInv, NEW p \in Procs, end_op(p)
  PROVE  ReserveInv'
<1> USE DEF IInv
<1>1. /\ Running /\ pc[p] = "op" /\ panicked' = committing /\ lh' = lh
      /\ wrote' = wrote /\ boot' = boot
  BY Zenon DEF end_op
<1>2. committing = 0
  BY <1>1 DEF ProcInv, PhaseInv, TypeOK
<1>3. ASSUME NEW q \in Procs, pc'[q] = "op"
      PROVE  pc[q] = "op"
  <2>1. CASE outstanding = 1
    BY <1>3, <2>1 DEF end_op, TypeOK
  <2>2. CASE outstanding # 1
    BY <1>3, <2>2, Zenon DEF end_op, TypeOK, Wakeup
  <2> QED
    BY <2>1, <2>2, Zenon
<1> QED
  BY <1>1, <1>2, <1>3, Zenon, ReserveFrame

(* commit(): no operation is in progress, so no slot is owned.             *)
LEMMA ReserveCommit ==
  ASSUME IInv, ReserveInv, NEW p \in Procs, Commit(p)
  PROVE  ReserveInv'
<1> USE DEF IInv
<1>1. CASE write_log(p)
  <2>1. \A q \in Procs : pc'[q] = "op" => pc[q] = "op"
    BY <1>1, Zenon DEF write_log, AfterWriteLog, TypeOK
  <2> QED
    BY <1>1, <2>1, ReserveFrame DEF write_log, ReserveInv
<1>2. CASE write_head(p)
  <2>1. \A q \in Procs : pc'[q] = "op" => pc[q] = "op"
    BY <1>2, Zenon DEF write_head, TypeOK
  <2> QED
    BY <1>2, <2>1, ReserveFrame DEF write_head, ReserveInv, logVars
<1>3. CASE install_trans(p)
  <2>1. \A q \in Procs : pc'[q] = "op" => pc[q] = "op"
    BY <1>3, Zenon DEF install_trans, TypeOK
  <2> QED
    BY <1>3, <2>1, Zenon, ReserveFrame DEF install_trans, ReserveInv
<1>4. CASE end_commit(p)
  <2>1. \A q \in Procs : pc'[q] = "op" => pc[q] = "op"
    BY <1>4, Zenon DEF end_commit, AfterCommit, Wakeup, TypeOK
  <2> QED
    BY <1>4, <2>1, Zenon, ReserveFrame DEF end_commit, ReserveInv
<1>5. CASE clear_head(p)
  <2>1. /\ Running /\ pc[p] = "clear" /\ pc' = [pc EXCEPT ![p] = "finish"]
        /\ lh' = <<>> /\ wrote' = wrote /\ panicked' = panicked
    BY <1>5, Zenon DEF clear_head
  <2>2. \A q \in Procs : pc[q] # "op"
    BY <2>1, Zenon DEF ProcInv, CommitPCs
  <2>3. \A q \in Procs : pc'[q] # "op"
    BY <2>1, <2>2, Zenon DEF TypeOK
  <2>4. OpInv' /\ Slots' = {}
    BY <2>3, Zenon DEF OpInv, Slots
  <2> QED
    BY <2>1, <2>4, FS_EmptySet, SizeAssumption DEF ReserveInv
<1> QED
  BY <1>1, <1>2, <1>3, <1>4, <1>5 DEF Commit

(* A crash and the recovery that follows reserve nothing.                  *)
LEMMA ReserveBoot ==
  ASSUME IInv, ReserveInv, Recover \/ Crash
  PROVE  ReserveInv'
<1> USE DEF IInv
<1>1. CASE read_head \/ recover_install \/ Crash
  BY <1>1, Zenon DEF read_head, recover_install, Crash, ReserveInv, Running, FirstRecovery
<1>2. CASE recover_clear
  <2>1. boot # "done" /\ pc' = pc /\ lh' = <<>> /\ panicked' = panicked
    BY <1>2, Zenon DEF recover_clear, procVars
  <2>2. \A q \in Procs : pc[q] # "op"
    BY <2>1, Zenon DEF BootInv
  <2>3. OpInv' /\ Slots' = {}
    BY <2>1, <2>2, Zenon DEF OpInv, Slots
  <2> QED
    BY <2>1, <2>3, FS_EmptySet, SizeAssumption DEF ReserveInv
<1> QED
  BY <1>1, <1>2, Zenon DEF Recover

(* Every step keeps the reservation.                                       *)
LEMMA ReserveNext ==
  ASSUME Reservation, IInv, IInv', ReserveInv, [Next]_vars
  PROVE  ReserveInv'
<1>1. ASSUME NEW p \in Procs, brelse(p) PROVE ReserveInv'
  BY <1>1, Zenon, ReserveFrame DEF brelse, ReserveInv, logVars
<1>2. ASSUME NEW p \in Procs, NEW b \in Blocks, bread(p, b) PROVE ReserveInv'
  BY <1>2, Zenon, ReserveFrame DEF bread, ReserveInv, logVars
<1>3. ASSUME NEW p \in Procs, NEW v \in Vals, write_fault(p, v) PROVE ReserveInv'
  BY <1>3, Zenon, ReserveFrame DEF write_fault, ReserveInv, logVars, procVars
<1>4. ASSUME NEW b \in Blocks, Recycle(b) PROVE ReserveInv'
  BY <1>4, Zenon, ReserveFrame DEF Recycle, ReserveInv, logVars, procVars
<1>5. CASE UNCHANGED vars
  BY <1>5, Zenon, ReserveFrame DEF vars, ReserveInv, logVars, procVars
<1> QED
  BY <1>1, <1>2, <1>3, <1>4, <1>5, ReserveBegin, ReserveWrite, ReserveEnd,
     ReserveCommit, ReserveBoot DEF Next

(* With a sufficient reservation, log.c never panics: log_write always     *)
(* finds room, is always called inside a transaction, and end_op never     *)
(* meets a commit in progress, however system calls interleave and         *)
(* wherever crashes and recoveries fall.                                   *)
THEOREM NeverPanics ==
  ASSUME Reservation
  PROVE  Spec => []NoPanic
<1>1. Init => ReserveInv
  BY Zenon, ReserveInit
<1>2. IInv /\ IInv' /\ ReserveInv /\ [Next]_vars => ReserveInv'
  BY Zenon, ReserveNext
<1>3. ReserveInv => NoPanic
  BY Zenon DEF ReserveInv, NoPanic
<1> QED
  BY <1>1, <1>2, <1>3, Invariance, PTL DEF Spec
-----------------------------------------------------------------------------

(* What a reader of the cache sees is the abstract contents.               *)
LEMMA ViewIsContents ==
  ASSUME IInv, Running, NEW b \in Blocks
  PROVE  View[b] = Contents(b)
<1>1. cache[b] = NoVal => pin[b] = 0
  BY Zenon DEF IInv, PinInv
<1>2. cache[b] = NoVal => Durable[b] = home[b]
  BY <1>1, Zenon, UnpinnedDurable
<1> QED
  BY <1>2, Zenon DEF View, Contents

(* A step that leaves the cache and the durable contents alone is unseen.  *)
LEMMA ViewUnchanged ==
  ASSUME UNCHANGED <<cache, Durable>>
  PROVE  View' = View
BY Zenon DEF View

(* Once every logged block is installed the durable contents are at home.  *)
LEMMA AllInstalled ==
  ASSUME IInv, \A i \in 1..Len(hdr) : home[hdr[i]] = logdata[i]
  PROVE  \A c \in Blocks : Durable[c] = home[c]
<1> SUFFICES ASSUME NEW c \in Blocks PROVE Durable[c] = home[c]
  BY Zenon
<1>1. CASE InSeq(hdr, c)
  <2>1. PICK i \in 1..Len(hdr) : hdr[i] = c
    BY <1>1, Zenon DEF InSeq
  <2>2. Durable[hdr[i]] = logdata[i]
    BY Zenon, DurableLogged DEF IInv, TypeOK, DiskInv
  <2> QED
    BY <2>1, <2>2, Zenon
<1>2. CASE ~InSeq(hdr, c)
  BY <1>2, Zenon, DurableHome
<1> QED
  BY <1>1, <1>2, Zenon

(* The steps that AtomicDisk does not see.                                 *)
LEMMA HiddenSteps ==
  ASSUME IInv, ~WriteFaults,
         \/ \E p \in Procs :
              \/ brelse(p) \/ write_log(p) \/ install_trans(p)
              \/ clear_head(p) \/ end_commit(p)
              \/ \E b \in Blocks : bread(p, b)
         \/ \E b \in Blocks : Recycle(b)
         \/ Recover
  PROVE  View' = View /\ Durable' = Durable /\ InOp' = InOp
<1> USE DEF IInv
<1>1. ASSUME NEW p \in Procs, brelse(p)
      PROVE  View' = View /\ Durable' = Durable /\ InOp' = InOp
  BY <1>1, Zenon, DurableUnchanged, ViewUnchanged DEF brelse, bufVars, InOp
<1>2. ASSUME NEW p \in Procs, write_log(p)
      PROVE  View' = View /\ Durable' = Durable /\ InOp' = InOp
  <2>1. /\ Running /\ pc[p] = "write_log" /\ pc[p] \in CommitPCs
        /\ \A q \in Procs : pc[q] # "op"
        /\ \A q \in Procs : pc[q] \notin {"install", "clear"}
    <3>1. Running /\ pc[p] = "write_log" /\ pc[p] \in CommitPCs
      BY <1>2, Zenon DEF write_log, CommitPCs
    <3> QED
      BY <3>1, Zenon, Committer DEF CommitPCs
  <2>2. hdr = <<>> /\ hdr' = hdr /\ home' = home
    BY <1>2, <2>1 DEF write_log, PhaseInv
  <2>3. Durable' = Durable
    BY <2>2 DEF Durable, InSeq
  <2>4. tail \in 1..Len(lh) /\ lh[tail] \in Blocks
    BY <2>1 DEF PhaseInv, TypeOK
  <2>5. ~Installed(tail)
    BY <2>1, Zenon, InstalledAt
  <2>6. cache[lh[tail]] # NoVal
    BY <2>1, <2>4, <2>5, Zenon DEF PinInv, Pending
  <2>7. cache' = cache
    BY <1>2, <2>4, <2>6 DEF write_log, Contents, TypeOK
  <2>8. InOp' = InOp
    BY <1>2, <2>1 DEF write_log, InOp, TypeOK, AfterWriteLog
  <2> QED
    BY <2>3, <2>7, <2>8, Zenon, ViewUnchanged
<1>3. ASSUME NEW p \in Procs, install_trans(p)
      PROVE  View' = View /\ Durable' = Durable /\ InOp' = InOp
  <2>1. /\ Running /\ pc[p] = "install" /\ pc[p] \in CommitPCs
    BY <1>3, Zenon DEF install_trans, CommitPCs
  <2>2. /\ hdr = lh /\ tail \in 1..Len(hdr) /\ hdr[tail] \in Blocks
        /\ cache[hdr[tail]] = logdata[tail]
    BY <2>1 DEF PhaseInv, TypeOK
  <2>3. PICK b \in Blocks : b = hdr[tail]
    BY <2>2, Zenon
  <2>4. /\ home' = [home EXCEPT ![b] = logdata[tail]]
        /\ cache' = [cache EXCEPT ![b] = logdata[tail]]
        /\ hdr' = hdr /\ logdata' = logdata
    BY <1>3, <2>2, <2>3 DEF install_trans
  <2>5. cache' = cache
    BY <2>2, <2>3, <2>4 DEF TypeOK
  <2>6. \A c \in Blocks : ~InSeq(hdr, c) => home'[c] = home[c]
    BY <2>2, <2>3, <2>4 DEF InSeq, TypeOK
  <2>7. Durable' = Durable
    BY <2>4, <2>6 DEF Durable, InSeq
  <2>8. InOp' = InOp
    BY <1>3, <2>1 DEF install_trans, InOp, TypeOK
  <2> QED
    BY <2>5, <2>7, <2>8, ViewUnchanged
<1>4. ASSUME NEW p \in Procs, clear_head(p)
      PROVE  View' = View /\ Durable' = Durable /\ InOp' = InOp
  <2>1. Running /\ pc[p] = "clear"
    BY <1>4, Zenon DEF clear_head
  <2>2. hdr = lh /\ \A i \in 1..Len(hdr) : home[hdr[i]] = logdata[i]
    BY <2>1, Zenon DEF PhaseInv
  <2>3. \A c \in Blocks : Durable[c] = home[c]
    BY <2>2, Zenon, AllInstalled
  <2>4. hdr' = <<>> /\ home' = home /\ cache' = cache
    BY <1>4, Zenon DEF clear_head, bufVars
  <2>5. \A c \in Blocks : Durable'[c] = home[c]
    BY <2>4 DEF Durable, InSeq
  <2>6. Durable' = Durable
    BY <2>3, <2>5, Zenon DEF Durable
  <2>7. InOp' = InOp
    BY <1>4, <2>1 DEF clear_head, InOp, TypeOK
  <2> QED
    BY <2>4, <2>6, <2>7, Zenon, ViewUnchanged
<1>5. ASSUME NEW p \in Procs, end_commit(p)
      PROVE  View' = View /\ Durable' = Durable /\ InOp' = InOp
  <2>1. InOp' = InOp
    BY <1>5, Zenon DEF end_commit, AfterCommit, Wakeup, InOp, TypeOK
  <2> QED
    BY <1>5, <2>1, DurableUnchanged, ViewUnchanged DEF end_commit, bufVars
<1>6. ASSUME NEW p \in Procs, NEW b \in Blocks, bread(p, b)
      PROVE  View' = View /\ Durable' = Durable /\ InOp' = InOp
  <2>1. Durable' = Durable
    BY <1>6, Zenon, DurableUnchanged DEF bread
  <2>2. /\ Running /\ cache' = [cache EXCEPT ![b] = Contents(b)]
    BY <1>6, Zenon DEF bread
  <2>3. Contents(b) # NoVal /\ View[b] = Contents(b)
    BY <2>2, ViewIsContents, SetAssumption DEF Contents, TypeOK
  <2>4. \A c \in Blocks : View'[c] = View[c]
    BY <2>1, <2>2, <2>3 DEF View, TypeOK
  <2> QED
    BY <1>6, <2>1, <2>4 DEF View, InOp, bread
<1>7. ASSUME NEW b \in Blocks, Recycle(b)
      PROVE  View' = View /\ Durable' = Durable /\ InOp' = InOp
  <2>1. Durable' = Durable
    BY <1>7, Zenon, DurableUnchanged DEF Recycle
  <2>2. /\ Running /\ cache' = [cache EXCEPT ![b] = NoVal]
        /\ pin[b] = 0 /\ cache[b] # NoVal
    BY <1>7, Zenon DEF Recycle
  <2>3. cache[b] = Durable[b]
    BY <2>2, Zenon, UnpinnedDurable DEF CoherentInv
  <2>4. \A c \in Blocks : View'[c] = View[c]
    BY <2>1, <2>2, <2>3 DEF View, TypeOK
  <2> QED
    BY <1>7, <2>1, <2>4, Zenon DEF View, InOp, Recycle, procVars
<1>8. ASSUME Recover
      PROVE  View' = View /\ Durable' = Durable /\ InOp' = InOp
  <2>1. CASE read_head
    BY <2>1, Zenon, DurableUnchanged, ViewUnchanged DEF read_head, bufVars, InOp, procVars
  <2>2. CASE recover_install
    <3>1. /\ Durable' = Durable
          /\ tail \in 1..Len(hdr) /\ lh = hdr /\ tail \in 1..LOGSIZE
          /\ Durable[hdr[tail]] = logdata[tail]
      BY <2>2, Zenon, RecoverInstallDurable
    <3>2. PICK b \in Blocks : b = hdr[tail]
      BY <3>1 DEF TypeOK
    <3>3. cache' = [cache EXCEPT ![b] = Durable[b]] /\ boot = "install"
      BY <2>2, <3>1, <3>2, Zenon DEF recover_install
    <3>4. cache[b] # NoVal => cache[b] = Durable[b]
      BY <3>3, Zenon DEF BootInv
    <3>5. \A c \in Blocks : View'[c] = View[c]
      BY <3>1, <3>3, <3>4 DEF View, TypeOK
    <3>6. pc' = pc
      BY <2>2, Zenon DEF recover_install, procVars
    <3>7. View' = View
      BY <3>5, Zenon DEF View
    <3> QED
      BY <3>1, <3>6, <3>7, Zenon DEF InOp
  <2>3. CASE recover_clear
    <3>1. \A i \in 1..Len(hdr) : home[hdr[i]] = logdata[i]
      BY <2>3, Zenon DEF recover_clear, BootInv
    <3>2. \A c \in Blocks : Durable[c] = home[c]
      BY <3>1, Zenon, AllInstalled
    <3>3. hdr' = <<>> /\ home' = home /\ cache' = cache /\ pc' = pc
      BY <2>3, Zenon DEF recover_clear, bufVars, procVars
    <3>4. \A c \in Blocks : Durable'[c] = home[c]
      BY <3>3 DEF Durable, InSeq
    <3>5. Durable' = Durable
      BY <3>2, <3>4, Zenon DEF Durable
    <3> QED
      BY <3>3, <3>5, Zenon, ViewUnchanged DEF InOp
  <2> QED
    BY <1>8, <2>1, <2>2, <2>3, Zenon DEF Recover
<1> QED
  BY <1>1, <1>2, <1>3, <1>4, <1>5, <1>6, <1>7, <1>8

(* The disk as formatted is an abstract disk.                              *)
LEMMA RefineInit == Init => AD!Init
<1> SUFFICES ASSUME Init PROVE AD!Init
  BY Zenon
<1>1. Durable = [b \in Blocks |-> Zero]
  BY DEF Init, Durable, InSeq
<1>2. View = [b \in Blocks |-> Zero]
  BY <1>1, Zenon DEF Init, View
<1>3. InOp = {}
  BY Zenon DEF Init, InOp
<1> QED
  BY <1>1, <1>2, <1>3, Zenon DEF AD!Init

(* begin_op begins an abstract operation, or waits unseen.                 *)
LEMMA RefineBegin ==
  ASSUME IInv, NEW p \in Procs, begin_op(p)
  PROVE  AD!Begin(p) \/ UNCHANGED <<View, Durable, InOp>>
<1>1. View' = View /\ Durable' = Durable
  BY Zenon, DurableUnchanged, ViewUnchanged DEF begin_op, bufVars
<1>2. CASE MustWait
  <2>1. InOp' = InOp
    BY <1>2, Zenon DEF begin_op, InOp, IInv, TypeOK
  <2> QED
    BY <1>1, <2>1, Zenon
<1>3. CASE ~MustWait
  <2>1. InOp' = InOp \cup {p} /\ p \notin InOp
    BY <1>3, Zenon DEF begin_op, InOp, IInv, TypeOK
  <2> QED
    BY <1>1, <2>1, Zenon DEF AD!Begin
<1> QED
  BY <1>2, <1>3, Zenon

(* end_op ends an abstract operation, whether it goes on to commit or not. *)
LEMMA RefineEnd ==
  ASSUME IInv, NEW p \in Procs, end_op(p)
  PROVE  AD!End(p)
<1>1. View' = View /\ Durable' = Durable
  BY Zenon, DurableUnchanged, ViewUnchanged DEF end_op, bufVars
<1>2. pc[p] = "op" /\ pc'[p] # "op"
  BY Zenon DEF end_op, Wakeup, IInv, TypeOK
<1>3. \A q \in Procs : q # p => (pc'[q] = "op" <=> pc[q] = "op")
  BY Zenon DEF end_op, Wakeup, IInv, TypeOK
<1>4. InOp' = InOp \ {p} /\ p \in InOp
  BY <1>2, <1>3, Zenon DEF InOp
<1> QED
  BY <1>1, <1>4, Zenon DEF AD!End

(* log_write is an abstract write.                                         *)
LEMMA RefineWrite ==
  ASSUME IInv, NEW p \in Procs, NEW v \in Vals, log_write(p, v)
  PROVE  \E b \in Blocks : AD!Write(p, b, v)
<1>1. PICK b \in Blocks : b = hold[p]
  BY Zenon DEF log_write, IInv, TypeOK
<1>2. /\ cache' = [cache EXCEPT ![b] = v] /\ pc[p] = "op" /\ pc' = pc
  BY <1>1, Zenon DEF log_write
<1>3. Durable' = Durable
  BY Zenon, DurableUnchanged DEF log_write
<1>4. View' = [View EXCEPT ![b] = v]
  BY <1>2, <1>3, SetAssumption, Zenon DEF View, IInv, TypeOK
<1>5. p \in InOp /\ InOp' = InOp
  BY <1>2, Zenon DEF InOp
<1> QED
  BY <1>3, <1>4, <1>5, Zenon DEF AD!Write

(* Writing the header commits everything at once.                          *)
LEMMA RefineCommit ==
  ASSUME IInv, ~WriteFaults, NEW p \in Procs, write_head(p)
  PROVE  AD!Commit
<1> USE DEF IInv
<1>1. Running /\ pc[p] = "write_head" /\ pc[p] \in CommitPCs
  BY Zenon DEF write_head, CommitPCs
<1>2. /\ \A q \in Procs : pc[q] # "op"
      /\ \A q \in Procs : pc[q] \notin {"install", "clear"}
  BY <1>1, Zenon, Committer DEF CommitPCs
<1>3. InOp = {} /\ InOp' = {}
  BY <1>1, <1>2, Zenon DEF InOp, write_head, TypeOK
<1>4. /\ hdr = <<>> /\ hdr' = lh /\ home' = home /\ logdata' = logdata
      /\ cache' = cache
  BY <1>1, <1>2 DEF write_head, CommitHead, PhaseInv, bufVars
<1>5. /\ \A i \in 1..Len(lh) : logdata[i] = cache[lh[i]] /\ logdata[i] # NoVal
      /\ lh \in Seq(Blocks) /\ NoDuplicates(lh)
  BY <1>1, SetAssumption, SizeAssumption DEF PhaseInv, TypeOK
<1>6. IInv'
  BY Zenon, WriteHeadInv
<1>7. \A b \in Blocks : Durable'[b] = View[b]
  <2> SUFFICES ASSUME NEW b \in Blocks PROVE Durable'[b] = View[b]
    BY Zenon
  <2>1. CASE InSeq(lh, b)
    <3>1. PICK i \in 1..Len(lh) : lh[i] = b
      BY <2>1, Zenon DEF InSeq
    <3> DEFINE j == CHOOSE k \in 1..Len(lh) : lh[k] = b
    <3>2. j \in 1..Len(lh) /\ lh[j] = b
      BY <3>1, Zenon
    <3>3. Durable'[b] = logdata[j]
      BY <1>4, <2>1, Zenon DEF Durable, InSeq
    <3>4. View[b] = cache[b]
      BY <1>5, <3>1, Zenon DEF View
    <3> QED
      BY <1>5, <3>2, <3>3, <3>4
  <2>2. CASE ~InSeq(lh, b)
    <3>1. Durable'[b] = home[b]
      BY <1>4, <2>2, Zenon DEF Durable, InSeq
    <3>2. pin[b] = 0
      BY <1>1, <2>2, Zenon DEF PinInv, Pending, InSeq
    <3> QED
      BY <1>1, <3>1, <3>2, UnpinnedDurable DEF CoherentInv, View
  <2> QED
    BY <2>1, <2>2, Zenon
<1>8. Durable' = View
  BY <1>7, Zenon DEF Durable, View
<1>9. View' = View
  <2>1. \A b \in Blocks : cache[b] = NoVal => Durable'[b] = Durable[b]
    BY <1>7, Zenon DEF View
  <2> QED
    BY <1>4, <2>1, Zenon DEF View
<1> QED
  BY <1>3, <1>8, <1>9, Zenon DEF AD!Commit

(* A crash loses exactly what was not committed.                           *)
LEMMA RefineCrash ==
  ASSUME Crash
  PROVE  AD!Crash
<1>1. Durable' = Durable
  BY Zenon, DurableUnchanged DEF Crash
<1>2. View' = Durable'
  BY Zenon DEF Crash, View, Durable
<1>3. InOp' = {}
  BY Zenon DEF Crash, InOp
<1> QED
  BY <1>1, <1>2, <1>3 DEF AD!Crash

(* Every step of the log is a step of the abstract disk or unseen.         *)
LEMMA RefineNext ==
  ASSUME IInv, ~WriteFaults, [Next]_vars
  PROVE  [AD!Next]_(AD!vars)
<1> USE DEF AD!vars
<1>1. ASSUME NEW p \in Procs, begin_op(p) PROVE [AD!Next]_(AD!vars)
  BY <1>1, Zenon, RefineBegin DEF AD!Next
<1>2. ASSUME NEW p \in Procs, end_op(p) PROVE [AD!Next]_(AD!vars)
  BY <1>2, Zenon, RefineEnd DEF AD!Next
<1>3. ASSUME NEW p \in Procs, NEW v \in Vals, log_write(p, v) \/ write_fault(p, v)
      PROVE  [AD!Next]_(AD!vars)
  BY <1>3, Zenon, RefineWrite DEF AD!Next, write_fault
<1>4. ASSUME NEW p \in Procs, write_head(p) PROVE [AD!Next]_(AD!vars)
  BY <1>4, Zenon, RefineCommit DEF AD!Next
<1>5. ASSUME Crash PROVE [AD!Next]_(AD!vars)
  BY <1>5, Zenon, RefineCrash DEF AD!Next
<1>6. ASSUME UNCHANGED vars PROVE [AD!Next]_(AD!vars)
  <2>1. UNCHANGED <<diskVars, cache, pc>>
    BY <1>6, Zenon DEF vars, bufVars, procVars
  <2>2. Durable' = Durable /\ View' = View
    BY <2>1, Zenon, DurableUnchanged, ViewUnchanged
  <2>3. InOp' = InOp
    BY <2>1, Zenon DEF InOp
  <2> QED
    BY <2>2, <2>3, Zenon
<1>7. ASSUME \/ \E p \in Procs :
                  \/ brelse(p) \/ write_log(p) \/ install_trans(p)
                  \/ clear_head(p) \/ end_commit(p)
                  \/ \E b \in Blocks : bread(p, b)
             \/ \E b \in Blocks : Recycle(b)
             \/ Recover
      PROVE  [AD!Next]_(AD!vars)
  BY <1>7, Zenon, HiddenSteps
<1> QED
  BY <1>1, <1>2, <1>3, <1>4, <1>5, <1>6, <1>7 DEF Next, Commit

(* The log implements atomic, durable transactions: for any processes,     *)
(* blocks and sizes, with a crash at any step, provided no write faults.   *)
THEOREM Refinement ==
  ASSUME ~WriteFaults
  PROVE  Spec => AtomicTransactions
<1>1. Init => AD!Init
  BY Zenon, RefineInit
<1>2. IInv /\ [Next]_vars => [AD!Next]_(AD!vars)
  BY Zenon, RefineNext
<1> QED
  BY <1>1, <1>2, Invariance, PTL DEF Spec, AtomicTransactions, AD!Spec
=============================================================================
