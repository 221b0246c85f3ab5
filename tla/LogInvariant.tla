---------------------------- MODULE LogInvariant ----------------------------
(***************************************************************************)
(* The inductive invariant of Log, and the proof that the steps of system  *)
(* calls preserve it, for all sets of processes, blocks and contents and   *)
(* all sizes.                                                              *)
(***************************************************************************)
EXTENDS Log, FiniteSetTheorems, TLAPS

CommitPCs == {"write_log", "write_head", "install", "clear", "finish"}

NoDuplicates(s) == \A i, j \in 1..Len(s) : s[i] = s[j] => i = j

\* The header on disk is always one that recovery can use.
DiskInv == NoDuplicates(hdr) /\ Len(hdr) <= LOGSIZE

\* No process is in the file system before recovery is done.  A block that is
\* already cached is one recovery has installed.
BootInv ==
  boot # "done" =>
    /\ panicked = 0 /\ outstanding = 0 /\ committing = 0
    /\ \A p \in Procs : pc[p] = "idle" /\ hold[p] = NoBlock
    /\ \A b \in Blocks : pin[b] = 0
    /\ \A b \in Blocks : cache[b] # NoVal =>
         cache[b] = home[b] /\ cache[b] = Durable[b]
    /\ boot = "read_head" => tail = 1
    /\ boot = "install" =>
         /\ lh = hdr /\ tail <= Len(lh)
         /\ \A i \in 1..Len(lh) : i < tail => home[lh[i]] = logdata[i]
    /\ boot = "clear" => \A i \in 1..Len(hdr) : home[hdr[i]] = logdata[i]

\* There is one committer, and only when no operation is outstanding.
ProcInv ==
  Running =>
    /\ outstanding = Cardinality(InOp)
    /\ \A p \in Procs : pc[p] \in CommitPCs =>
         /\ committing = 1
         /\ \A q \in Procs : pc[q] # "op"
         /\ \A q \in Procs : pc[q] \in CommitPCs => q = p
    /\ committing = 1 => \E p \in Procs : pc[p] \in CommitPCs

\* What the log, the header and the home blocks hold at each step of commit.
PhaseInv ==
  Running =>
    /\ NoDuplicates(lh) /\ Len(lh) <= LOGSIZE
    /\ (committing = 0 /\ \A p \in Procs : pc[p] # "op") => lh = <<>>
    /\ (\A p \in Procs : pc[p] \notin {"install", "clear"}) => hdr = <<>>
    /\ \A p \in Procs :
         /\ pc[p] = "write_log" =>
              /\ tail <= Len(lh)
              /\ \A i \in 1..Len(lh) : i < tail => logdata[i] = cache[lh[i]]
         /\ pc[p] = "write_head" =>
              /\ tail = 1 /\ lh # <<>>
              /\ \A i \in 1..Len(lh) : logdata[i] = cache[lh[i]]
         /\ pc[p] = "install" =>
              /\ hdr = lh /\ tail <= Len(lh)
              /\ \A i \in 1..Len(lh) :
                   IF i < tail THEN home[lh[i]] = logdata[i]
                               ELSE cache[lh[i]] = logdata[i]
         /\ pc[p] = "clear" =>
              hdr = lh /\ \A i \in 1..Len(lh) : home[lh[i]] = logdata[i]
         /\ pc[p] = "finish" => lh = <<>>

\* Block b is logged and its home location is not up to date yet.
Pending(b) == \E i \in 1..Len(lh) : lh[i] = b /\ ~Installed(i)

PinInv ==
  Running =>
    \A b \in Blocks :
      /\ Pending(b) => pin[b] = 1 /\ cache[b] # NoVal
      /\ ~Pending(b) => pin[b] = 0

CoherentInv ==
  (Running /\ ~WriteFaults) =>
    \A b \in Blocks : (pin[b] = 0 /\ cache[b] # NoVal) => cache[b] = home[b]

IInv == /\ TypeOK /\ DiskInv /\ BootInv
        /\ ProcInv /\ PhaseInv /\ PinInv /\ CoherentInv
-----------------------------------------------------------------------------
(* What the disk recovers to, block by block.                              *)

(* A block named in the header has its logged contents.                    *)
LEMMA DurableLogged ==
  ASSUME hdr \in Seq(Blocks), NoDuplicates(hdr), NEW i \in 1..Len(hdr)
  PROVE  Durable[hdr[i]] = logdata[i]
<1> DEFINE j == CHOOSE k \in 1..Len(hdr) : hdr[k] = hdr[i]
<1>1. j \in 1..Len(hdr) /\ hdr[j] = hdr[i]
  BY Zenon
<1>2. j = i
  BY <1>1, Zenon DEF NoDuplicates
<1>3. hdr[i] \in Blocks /\ InSeq(hdr, hdr[i])
  BY DEF InSeq
<1> QED
  BY <1>2, <1>3, Zenon DEF Durable

(* A block not named in the header has its contents at home.               *)
LEMMA DurableHome ==
  ASSUME NEW b \in Blocks, ~InSeq(hdr, b)
  PROVE  Durable[b] = home[b]
BY Zenon DEF Durable

(* The durable contents depend on the disk alone.                          *)
LEMMA DurableUnchanged ==
  ASSUME UNCHANGED diskVars
  PROVE  Durable' = Durable
BY Zenon DEF Durable, InSeq, diskVars

(* A block that log_write adds to the header is not in it yet.             *)

(* A sequence without duplicates grows by a new block.                     *)
LEMMA AppendFresh ==
  ASSUME NEW s \in Seq(Blocks), NEW x \in Blocks, ~InSeq(s, x), NoDuplicates(s)
  PROVE  NoDuplicates(Append(s, x)) /\ Len(Append(s, x)) = Len(s) + 1
<1>1. Len(s) \in Nat
  OBVIOUS
<1>2. \A i \in 1..Len(s) : Append(s, x)[i] = s[i] /\ s[i] # x
  BY <1>1 DEF InSeq
<1>3. Len(Append(s, x)) = Len(s) + 1 /\ Append(s, x)[Len(s) + 1] = x
  BY <1>1
<1> QED
  BY <1>1, <1>2, <1>3 DEF NoDuplicates

(* The number of operations, as begin_op and end_op count them.            *)

(* Finitely many operations are in progress.                               *)
LEMMA InOpFinite == IsFiniteSet(InOp) /\ Cardinality(InOp) \in Nat
<1>1. IsFiniteSet(InOp)
  BY Zenon, FS_Subset, SetAssumption DEF InOp
<1> QED
  BY <1>1, Zenon, FS_CardinalityType

(* begin_op adds one to them.                                              *)
LEMMA InOpGrows ==
  ASSUME NEW p \in Procs, TypeOK, pc[p] # "op", pc' = [pc EXCEPT ![p] = "op"]
  PROVE  Cardinality(InOp') = Cardinality(InOp) + 1
<1>1. InOp' = InOp \cup {p} /\ p \notin InOp
  BY Zenon DEF InOp, TypeOK
<1> QED
  BY <1>1, Zenon, InOpFinite, FS_AddElement

(* end_op takes one away.                                                  *)
LEMMA InOpShrinks ==
  ASSUME NEW p \in Procs, TypeOK, pc[p] = "op", pc'[p] # "op",
         \A q \in Procs : q # p => (pc'[q] = "op" <=> pc[q] = "op")
  PROVE  Cardinality(InOp') = Cardinality(InOp) - 1
<1>1. InOp' = InOp \ {p} /\ p \in InOp
  BY Zenon DEF InOp
<1> QED
  BY <1>1, Zenon, InOpFinite, FS_RemoveElement

(* Their number stays when nobody begins or ends an operation.             *)
LEMMA InOpSame ==
  ASSUME \A q \in Procs : pc'[q] = "op" <=> pc[q] = "op"
  PROVE  Cardinality(InOp') = Cardinality(InOp)
<1>1. InOp' = InOp
  BY Zenon DEF InOp
<1> QED
  BY <1>1, Zenon
-----------------------------------------------------------------------------

(* The invariant holds at boot.                                            *)
LEMMA InitInv == Init => IInv
<1> SUFFICES ASSUME Init PROVE IInv
  BY Zenon
<1>1. TypeOK
  BY SetAssumption, SizeAssumption DEF Init, TypeOK, PCs
<1>2. DiskInv
  BY SizeAssumption DEF Init, DiskInv, NoDuplicates
<1>3. BootInv
  BY Zenon DEF Init, BootInv
<1>4. ~Running
  BY Zenon DEF Init, Running
<1> QED
  BY <1>1, <1>2, <1>3, <1>4, Zenon DEF IInv, ProcInv, PhaseInv, PinInv, CoherentInv

(* begin_op preserves the invariant.                                       *)
LEMMA BeginOpInv ==
  ASSUME IInv, NEW p \in Procs, begin_op(p)
  PROVE  IInv'
<1> USE DEF IInv
<1>1. TypeOK'
  <2>1. CASE MustWait
    BY <2>1, Zenon DEF TypeOK, begin_op, PCs, diskVars, bufVars
  <2>2. CASE ~MustWait
    <3>1. wrote' \in [Procs -> SUBSET Blocks]
      BY <2>2, Zenon DEF TypeOK, begin_op
    <3>2. outstanding' \in Nat
      BY <2>2 DEF TypeOK, begin_op
    <3>3. pc' \in [Procs -> PCs]
      BY <2>2, Zenon DEF TypeOK, begin_op, PCs
    <3> QED
      BY <2>2, <3>1, <3>2, <3>3, Zenon DEF TypeOK, begin_op, diskVars, bufVars
  <2> QED
    BY <2>1, <2>2, Zenon
<1>2. DiskInv' /\ BootInv'
  BY Zenon DEF DiskInv, BootInv, begin_op, Running, diskVars, NoDuplicates
<1>3. ProcInv'
  <2>1. CASE MustWait
    <3>1. Cardinality(InOp') = Cardinality(InOp)
      BY <2>1, Zenon, InOpSame DEF begin_op, TypeOK
    <3> QED
      BY <2>1, <3>1 DEF begin_op, TypeOK, ProcInv, Running, CommitPCs
  <2>2. CASE ~MustWait
    <3>1. Cardinality(InOp') = Cardinality(InOp) + 1
      BY <2>2, Zenon, InOpGrows DEF begin_op
    <3> QED
      BY <2>2, <3>1, Zenon DEF begin_op, TypeOK, ProcInv, Running, CommitPCs, MustWait
  <2> QED
    BY <2>1, <2>2, Zenon
<1>4. PhaseInv'
  BY DEF begin_op, TypeOK, PhaseInv, Running, MustWait, NoDuplicates, diskVars, bufVars
<1>5. \A q \in Procs : /\ pc'[q] = "install" <=> pc[q] = "install"
                       /\ pc'[q] = "clear" <=> pc[q] = "clear"
  BY Zenon DEF begin_op, TypeOK
<1>6. \A i : Installed(i)' <=> Installed(i)
  BY <1>5, Zenon DEF Installed, begin_op
<1>7. PinInv'
  BY <1>6, Zenon DEF begin_op, PinInv, Pending, Running, bufVars
<1>8. CoherentInv'
  BY Zenon DEF begin_op, CoherentInv, Running, diskVars, bufVars
<1> QED
  BY <1>1, <1>2, <1>3, <1>4, <1>7, <1>8, Zenon

(* Which logged blocks are home already, seen from each step of commit.    *)
LEMMA InstalledAt ==
  ASSUME IInv, Running
  PROVE  /\ (\A q \in Procs : pc[q] \notin {"install", "clear"})
              => \A i : ~Installed(i)
         /\ \A p \in Procs : pc[p] \in {"write_log", "write_head", "finish"}
              => \A i : ~Installed(i)
         /\ \A p \in Procs : pc[p] = "install"
              => \A i : Installed(i) <=> i < tail
         /\ \A p \in Procs : pc[p] = "clear" => \A i : Installed(i)
<1>1. \A p, q \in Procs : pc[p] \in CommitPCs /\ pc[q] \in CommitPCs => p = q
  BY Zenon DEF IInv, ProcInv
<1> QED
  BY <1>1, Zenon DEF Installed, CommitPCs

(* A process inside an operation rules out a commit in progress.           *)
LEMMA OpExcludesCommit ==
  ASSUME IInv, Running, NEW p \in Procs, pc[p] = "op"
  PROVE  /\ committing = 0 /\ hdr = <<>>
         /\ \A q \in Procs : pc[q] \notin CommitPCs
         /\ \A i : ~Installed(i)
<1>1. \A q \in Procs : pc[q] \notin CommitPCs
  BY Zenon DEF IInv, ProcInv
<1>2. committing = 0
  BY <1>1, Zenon DEF IInv, ProcInv, TypeOK
<1>3. \A q \in Procs : pc[q] \notin {"install", "clear"}
  BY <1>1, Zenon DEF CommitPCs
<1> QED
  BY <1>1, <1>2, <1>3, Zenon, InstalledAt DEF IInv, PhaseInv

(* An unpinned block's home location is what recovery would make it.       *)
LEMMA UnpinnedDurable ==
  ASSUME IInv, Running, NEW b \in Blocks, pin[b] = 0
  PROVE  Durable[b] = home[b]
<1>1. ~Pending(b)
  BY DEF IInv, PinInv
<1>2. CASE \A q \in Procs : pc[q] \notin {"install", "clear"}
  <2>1. ~InSeq(hdr, b)
    BY <1>2 DEF IInv, PhaseInv, InSeq
  <2> QED
    BY <2>1, Zenon, DurableHome
<1>3. CASE \E q \in Procs : pc[q] \in {"install", "clear"}
  <2>1. PICK q \in Procs : pc[q] \in {"install", "clear"}
    BY <1>3, Zenon
  <2>2. hdr = lh
    BY <2>1, Zenon DEF IInv, PhaseInv
  <2>3. CASE InSeq(hdr, b)
    <3>1. PICK i \in 1..Len(hdr) : hdr[i] = b
      BY <2>3, Zenon DEF InSeq
    <3>2. Installed(i)
      BY <1>1, <2>2, <3>1, Zenon DEF Pending
    <3>3. home[b] = logdata[i]
      BY <2>1, <2>2, <3>1, <3>2, Zenon, InstalledAt DEF IInv, PhaseInv
    <3>4. Durable[b] = logdata[i]
      BY <3>1, Zenon, DurableLogged DEF IInv, TypeOK, DiskInv
    <3> QED
      BY <3>3, <3>4, Zenon
  <2>4. CASE ~InSeq(hdr, b)
    BY <2>4, Zenon, DurableHome
  <2> QED
    BY <2>3, <2>4, Zenon
<1> QED
  BY <1>2, <1>3, Zenon
-----------------------------------------------------------------------------

(* bread preserves the invariant.                                          *)
LEMMA BreadInv ==
  ASSUME IInv, NEW p \in Procs, NEW b \in Blocks, bread(p, b)
  PROVE  IInv'
<1> USE DEF IInv
<1>1. Contents(b) \in Vals
  BY Zenon DEF TypeOK, Contents
<1>2. TypeOK'
  BY <1>1, Zenon DEF TypeOK, bread, diskVars, logVars
<1>3. DiskInv' /\ BootInv'
  BY Zenon DEF DiskInv, BootInv, bread, Running, diskVars, NoDuplicates
<1>4. ProcInv'
  <2>1. Cardinality(InOp') = Cardinality(InOp)
    BY Zenon, InOpSame DEF bread
  <2> QED
    BY <2>1, Zenon DEF ProcInv, bread, Running, logVars
<1>5. \A c \in Blocks : cache[c] # NoVal => cache'[c] = cache[c]
  BY Zenon DEF bread, TypeOK, Contents
<1>6. \A i \in 1..LOGSIZE : logdata[i] # NoVal
  BY SetAssumption DEF TypeOK
<1>7. PhaseInv'
  <2>1. \A i \in 1..Len(lh) : /\ i \in 1..LOGSIZE /\ lh[i] \in Blocks
                              /\ logdata[i] = cache[lh[i]] =>
                                   logdata[i] = cache'[lh[i]]
    BY <1>5, <1>6, SizeAssumption DEF PhaseInv, bread, TypeOK
  <2> QED
    BY <2>1 DEF PhaseInv, bread, Running, diskVars, logVars, NoDuplicates
<1>8. PinInv'
  <2>1. \A i : Installed(i)' <=> Installed(i)
    BY Zenon DEF Installed, bread, logVars
  <2>2. \A c \in Blocks : cache[c] # NoVal => cache'[c] # NoVal
    BY <1>5, Zenon
  <2> QED
    BY <2>1, <2>2, Zenon DEF PinInv, Pending, bread, Running, logVars
<1>9. CoherentInv'
  BY Zenon DEF CoherentInv, bread, Running, diskVars, TypeOK, Contents
<1> QED
  BY <1>2, <1>3, <1>4, <1>7, <1>8, <1>9

(* brelse preserves the invariant.                                         *)
LEMMA BrelseInv ==
  ASSUME IInv, NEW p \in Procs, brelse(p)
  PROVE  IInv'
<1> USE DEF IInv, brelse, diskVars, bufVars, logVars
<1>1. TypeOK'
  BY Zenon DEF TypeOK
<1>2. DiskInv' /\ BootInv'
  BY Zenon DEF DiskInv, BootInv, Running, NoDuplicates
<1>3. ProcInv'
  <2>1. Cardinality(InOp') = Cardinality(InOp)
    BY Zenon, InOpSame
  <2> QED
    BY <2>1, Zenon DEF ProcInv, Running
<1>4. PhaseInv'
  BY DEF PhaseInv, Running, NoDuplicates
<1>5. PinInv' /\ CoherentInv'
  BY DEF PinInv, CoherentInv, Pending, Installed, Running
<1> QED
  BY <1>1, <1>2, <1>3, <1>4, <1>5, Zenon

(* bget, recycling a buffer, preserves the invariant.                      *)
LEMMA RecycleInv ==
  ASSUME IInv, NEW b \in Blocks, Recycle(b)
  PROVE  IInv'
<1> USE DEF IInv, Recycle, diskVars, logVars, procVars
<1>1. TypeOK'
  BY Zenon DEF TypeOK
<1>2. DiskInv' /\ BootInv'
  BY DEF DiskInv, BootInv, Running, NoDuplicates
<1>3. ProcInv'
  <2>1. Cardinality(InOp') = Cardinality(InOp)
    BY InOpSame, Zenon
  <2> QED
    BY <2>1, Zenon DEF ProcInv, Running
<1>4. \A i \in 1..Len(lh) : lh[i] = b => Installed(i)
  BY DEF PinInv, Pending
<1>5. \A c \in Blocks : c # b => cache'[c] = cache[c]
  BY Zenon DEF TypeOK
<1>6. PhaseInv'
  <2>1. Running /\ Running'
    BY Zenon DEF Running
  <2>2. \A i \in 1..Len(lh) : ~Installed(i) => cache'[lh[i]] = cache[lh[i]]
    BY <1>4, <1>5 DEF TypeOK
  <2>3. \A p \in Procs : pc[p] \in {"write_log", "write_head"}
           => \A i \in 1..Len(lh) : cache'[lh[i]] = cache[lh[i]]
    BY <2>1, <2>2, Zenon, InstalledAt
  <2>4. \A p \in Procs : pc[p] = "install"
           => \A i \in 1..Len(lh) : ~(i < tail) => cache'[lh[i]] = cache[lh[i]]
    BY <2>1, <2>2, Zenon, InstalledAt
  <2>5. UNCHANGED <<lh, hdr, tail, logdata, home, pc, committing>>
    BY Zenon
  <2>6. PhaseInv
    BY Zenon
  <2> HIDE DEF IInv, Recycle
  <2> QED
    BY <2>1, <2>3, <2>4, <2>5, <2>6 DEF PhaseInv, NoDuplicates
<1>7. \A i : Installed(i)' <=> Installed(i)
  BY Zenon DEF Installed
<1>8. PinInv'
  <2>1. \A c \in Blocks : Pending(c)' <=> Pending(c)
    BY <1>7, Zenon DEF Pending
  <2>2. ~Pending(b)
    BY <1>4, Zenon DEF Pending
  <2> QED
    BY <1>5, <2>1, <2>2, Zenon DEF PinInv, Running
<1>9. CoherentInv'
  BY <1>5, Zenon DEF CoherentInv, Running, TypeOK
<1> QED
  BY <1>1, <1>2, <1>3, <1>6, <1>8, <1>9, Zenon

(* log_write preserves the invariant.                                      *)
LEMMA LogWriteInv ==
  ASSUME IInv, NEW p \in Procs, NEW v \in Vals, log_write(p, v)
  PROVE  IInv'
<1> USE DEF IInv
<1>a. PICK b \in Blocks : b = hold[p]
  BY Zenon DEF log_write, TypeOK
<1>0. Running /\ pc[p] = "op"
  BY Zenon DEF log_write
<1>1. /\ cache' = [cache EXCEPT ![b] = v]
      /\ wrote' = [wrote EXCEPT ![p] = @ \cup {b}]
      /\ UNCHANGED <<home, logdata, hdr, outstanding, committing, tail, pc,
                     hold, boot>>
  BY <1>a, Zenon DEF log_write, diskVars
<1>2. /\ cache' \in [Blocks -> Vals \cup {NoVal}]
      /\ wrote' \in [Procs -> SUBSET Blocks]
  <2>1. cache' \in [Blocks -> Vals \cup {NoVal}]
    BY <1>0, <1>1, Zenon DEF TypeOK
  <2>2. wrote[p] \cup {b} \in SUBSET Blocks
    BY <1>0, Zenon DEF TypeOK
  <2>3. wrote' \in [Procs -> SUBSET Blocks]
    BY <1>1, <2>2, Zenon DEF TypeOK
  <2> QED
    BY <2>1, <2>3, Zenon
<1>3. DiskInv'
  BY <1>1, Zenon DEF DiskInv, NoDuplicates
<1>4. BootInv'
  BY <1>0, <1>1, Zenon DEF BootInv, Running
<1>5. CASE TooBig \/ outstanding < 1
  <2>1. panicked' = 1 /\ UNCHANGED <<lh, pin>>
    BY <1>5, Zenon DEF log_write
  <2>2. TypeOK'
    BY <1>1, <1>2, <2>1, Zenon DEF TypeOK
  <2>3. ~Running'
    BY <2>1 DEF Running
  <2> QED
    BY <1>3, <1>4, <2>2, <2>3, Zenon DEF ProcInv, PhaseInv, PinInv, CoherentInv
<1>6. CASE ~(TooBig \/ outstanding < 1)
  <2>1. /\ lh' = Absorb(b)
        /\ pin' = IF Len(lh') > Len(lh) THEN bpin(b) ELSE pin
        /\ panicked' = panicked
        /\ Len(lh) < LOGSIZE
    BY <1>a, <1>6, SizeAssumption DEF log_write, TooBig, TypeOK
  <2>2. /\ InSeq(lh, b) => lh' = lh /\ pin' = pin
        /\ ~InSeq(lh, b) => lh' = Append(lh, b) /\ pin' = [pin EXCEPT ![b] = @ + 1]
    BY <1>0, <2>1 DEF Absorb, TypeOK, bpin
  <2>3. TypeOK'
    <3>1. lh' \in Seq(Blocks)
      <4>1. lh \in Seq(Blocks)
        BY Zenon DEF TypeOK
      <4>2. Append(lh, b) \in Seq(Blocks)
        BY <4>1
      <4> QED
        BY <2>2, <4>1, <4>2, Zenon
    <3>2. pin' \in [Blocks -> Nat]
      BY <1>0, <2>2 DEF TypeOK
    <3> QED
      BY <1>1, <1>2, <2>1, <3>1, <3>2, Zenon DEF TypeOK
  <2>4. Running'
    BY <1>0, <1>1, <2>1, Zenon DEF Running
  <2>5. /\ committing = 0 /\ hdr = <<>>
        /\ \A q \in Procs : pc[q] \notin CommitPCs
        /\ \A i : ~Installed(i)
    BY <1>0, Zenon, OpExcludesCommit
  <2>6. ProcInv'
    <3>1. Cardinality(InOp') = Cardinality(InOp)
      BY <1>1, Zenon, InOpSame
    <3> QED
      BY <1>0, <1>1, <3>1, Zenon DEF ProcInv
  <2>7. NoDuplicates(lh') /\ Len(lh') <= LOGSIZE
    <3>1. NoDuplicates(lh)
      BY <1>0, Zenon DEF PhaseInv
    <3>2. lh \in Seq(Blocks) /\ Len(lh) \in Nat
      BY DEF TypeOK
    <3>3. CASE InSeq(lh, b)
      <4>1. lh' = lh
        BY <2>2, <3>3, Zenon
      <4> QED
        BY <2>1, <3>1, <3>2, <4>1, SizeAssumption
    <3>4. CASE ~InSeq(lh, b)
      <4>1. lh' = Append(lh, b)
        BY <2>2, <3>4, Zenon
      <4>2. NoDuplicates(Append(lh, b)) /\ Len(Append(lh, b)) = Len(lh) + 1
        BY <1>0, <3>1, <3>2, <3>4, AppendFresh, Zenon
      <4> QED
        BY <2>1, <3>2, <4>1, <4>2, SizeAssumption
    <3> QED
      BY <3>3, <3>4, Zenon
  <2>8. PhaseInv'
    BY <1>0, <1>1, <2>5, <2>7, Zenon DEF PhaseInv, CommitPCs, NoDuplicates
  <2>9. /\ pin'[b] = 1 /\ cache'[b] # NoVal
        /\ \A c \in Blocks : c # b => pin'[c] = pin[c] /\ cache'[c] = cache[c]
    <3>1. Pending(b) <=> InSeq(lh, b)
      BY <2>5, Zenon DEF Pending, InSeq
    <3>2. pin'[b] = 1 /\ cache'[b] # NoVal
      BY <1>0, <1>1, <2>2, <3>1, SetAssumption DEF PinInv, TypeOK
    <3>3. \A c \in Blocks : c # b => pin'[c] = pin[c] /\ cache'[c] = cache[c]
      BY <1>1, <2>2, Zenon DEF TypeOK
    <3> QED
      BY <3>2, <3>3, Zenon
  <2>10. PinInv'
    <3>1. \A i : ~Installed(i)'
      BY <1>1, <2>5, Zenon DEF Installed
    <3>2. \A c \in Blocks : Pending(c)' <=> Pending(c) \/ c = b
      <4>1. CASE InSeq(lh, b)
        BY <2>2, <2>5, <3>1, <4>1, Zenon DEF Pending, InSeq
      <4>2. CASE ~InSeq(lh, b)
        <5>0. lh \in Seq(Blocks)
          BY Zenon DEF TypeOK
        <5>1. /\ Len(lh') = Len(lh) + 1 /\ lh'[Len(lh) + 1] = b
              /\ \A i \in 1..Len(lh) : lh'[i] = lh[i]
              /\ Len(lh) \in Nat
          BY <2>2, <4>2, <5>0
        <5> QED
          BY <2>5, <3>1, <5>1 DEF Pending
      <4> QED
        BY <4>1, <4>2, Zenon
    <3> QED
      BY <1>0, <2>9, <3>2, Zenon DEF PinInv
  <2>11. CoherentInv'
    BY <1>0, <1>1, <2>9 DEF CoherentInv
  <2> QED
    BY <1>3, <1>4, <2>3, <2>6, <2>8, <2>10, <2>11, Zenon
<1> QED
  BY <1>5, <1>6, Zenon

(* writei that modifies a buffer and fails preserves the invariant.        *)
LEMMA WriteFaultInv ==
  ASSUME IInv, NEW p \in Procs, NEW v \in Vals, write_fault(p, v)
  PROVE  IInv'
<1> USE DEF IInv, write_fault, diskVars, logVars, procVars
<1>0. hold[p] \in Blocks /\ Running /\ Running' /\ pc[p] = "op"
  BY Zenon DEF TypeOK, Running
<1>1. TypeOK'
  BY <1>0, Zenon DEF TypeOK
<1>2. DiskInv' /\ BootInv'
  BY <1>0, Zenon DEF DiskInv, BootInv, Running, NoDuplicates
<1>3. ProcInv'
  <2>1. Cardinality(InOp') = Cardinality(InOp)
    BY InOpSame, Zenon
  <2> QED
    BY <1>0, <2>1, Zenon DEF ProcInv
<1>4. PhaseInv'
  <2>1. /\ committing = 0 /\ hdr = <<>>
        /\ \A q \in Procs : pc[q] \notin CommitPCs
    BY <1>0, OpExcludesCommit, Zenon
  <2>2. NoDuplicates(lh) /\ Len(lh) <= LOGSIZE
    BY <1>0, Zenon DEF PhaseInv
  <2>3. UNCHANGED <<lh, pc, committing, hdr>>
    BY Zenon
  <2>4. NoDuplicates(lh') /\ Len(lh') <= LOGSIZE
    BY <2>2, <2>3, Zenon
  <2> HIDE DEF write_fault
  <2> QED
    BY <1>0, <2>1, <2>3, <2>4, Zenon DEF PhaseInv, CommitPCs
<1>5. PinInv'
  <2>1. \A i : Installed(i)' <=> Installed(i)
    BY Zenon DEF Installed
  <2>2. \A c \in Blocks : cache[c] # NoVal => cache'[c] # NoVal
    BY <1>0, SetAssumption, Zenon DEF TypeOK
  <2> QED
    BY <1>0, <2>1, <2>2, Zenon DEF PinInv, Pending
<1>6. CoherentInv'
  BY Zenon DEF CoherentInv
<1> QED
  BY <1>1, <1>2, <1>3, <1>4, <1>5, <1>6, Zenon

(* end_op preserves the invariant.                                         *)
LEMMA EndOpInv ==
  ASSUME IInv, NEW p \in Procs, end_op(p)
  PROVE  IInv'
<1> USE DEF IInv
<1>0. /\ Running /\ pc[p] = "op" /\ committing = 0 /\ hdr = <<>>
      /\ \A q \in Procs : pc[q] \notin CommitPCs
      /\ \A i : ~Installed(i)
  BY Zenon, OpExcludesCommit DEF end_op
<1>1. /\ UNCHANGED <<home, logdata, hdr, cache, pin, lh, hold, wrote, boot>>
      /\ outstanding' = outstanding - 1 /\ panicked' = 0
  BY <1>0, Zenon DEF end_op, diskVars, bufVars
<1>2. Running'
  BY <1>0, <1>1, Zenon DEF Running
<1>3. outstanding = Cardinality(InOp) /\ outstanding \in Nat
  BY <1>0, Zenon DEF ProcInv, TypeOK
<1>4. p \in InOp
  BY <1>0, Zenon DEF InOp
<1>5. outstanding >= 1
  <2>1. InOp # {}
    BY <1>4, Zenon
  <2> QED
    BY <1>3, <2>1, InOpFinite, FS_EmptySet
<1>6. DiskInv' /\ BootInv'
  BY <1>0, <1>1, <1>2 DEF DiskInv, BootInv, Running, NoDuplicates
<1>7. \A q \in Procs : q # p => (pc'[q] = "op" <=> pc[q] = "op")
  BY Zenon DEF end_op, Wakeup, TypeOK
<1>8. pc'[p] # "op"
  BY Zenon DEF end_op, Wakeup, TypeOK
<1>9. outstanding' = Cardinality(InOp')
  BY <1>0, <1>1, <1>3, <1>7, <1>8, Zenon, InOpShrinks
<1>10. \A q \in Procs : q # p => pc'[q] \notin CommitPCs
  BY <1>0, Zenon DEF end_op, Wakeup, TypeOK, CommitPCs
<1>11. IsFiniteSet(InOp')
  <2>1. InOp' \in SUBSET Procs
    BY Zenon DEF InOp
  <2> QED
    BY <2>1, Zenon, FS_Subset, SetAssumption
<1>12. CASE outstanding = 1
  <2>1. /\ committing' = 1 /\ tail' = 1
        /\ pc' = [pc EXCEPT ![p] = IF lh = <<>> THEN "finish" ELSE "write_log"]
    BY <1>12, Zenon DEF end_op
  <2>2. TypeOK'
    <3>1. pc' \in [Procs -> PCs]
      BY <2>1, Zenon DEF TypeOK, PCs
    <3> QED
      BY <1>1, <1>3, <1>5, <2>1, <3>1 DEF TypeOK
  <2>3. InOp' = {}
    BY <1>1, <1>9, <1>11, <1>12, FS_EmptySet
  <2>4. \A q \in Procs : pc'[q] # "op"
    BY <2>3, Zenon DEF InOp
  <2>5. pc'[p] \in CommitPCs
    BY <2>1, Zenon DEF TypeOK, CommitPCs
  <2>6. ProcInv'
    BY <1>9, <1>10, <2>1, <2>4, <2>5, Zenon DEF ProcInv
  <2>7. pc'[p] = IF lh = <<>> THEN "finish" ELSE "write_log"
    BY <2>1, Zenon DEF TypeOK
  <2>8. lh # <<>> => 1 <= Len(lh)
    BY DEF TypeOK
  <2>9. PhaseInv'
    <3>1. \A q \in Procs : q # p => pc'[q] \notin
            {"write_log", "write_head", "install", "clear", "finish"}
      BY <1>10, Zenon DEF CommitPCs
    <3>2. NoDuplicates(lh') /\ Len(lh') <= LOGSIZE
      <4>1. NoDuplicates(lh) /\ Len(lh) <= LOGSIZE
        BY <1>0, Zenon DEF PhaseInv
      <4>2. lh' = lh
        BY <1>1, Zenon
      <4> QED
        BY <4>1, <4>2, Zenon
    <3>3. Len(lh) \in Nat
      BY DEF TypeOK
    <3>4. (committing' = 0 /\ \A q \in Procs : pc'[q] # "op") => lh' = <<>>
      BY <2>1
    <3>5. pc'[p] \notin {"write_head", "install", "clear"}
      BY <2>7, Zenon
    <3>6. (\A q \in Procs : pc'[q] \notin {"install", "clear"}) => hdr' = <<>>
      BY <1>0, <1>1, Zenon
    <3>7. pc'[p] = "write_log" =>
            /\ tail' <= Len(lh')
            /\ \A i \in 1..Len(lh') : i < tail' => logdata'[i] = cache'[lh'[i]]
      <4>1. lh' = lh /\ tail' = 1
        BY <1>1, <2>1, Zenon
      <4>2. pc'[p] = "write_log" => 1 <= Len(lh)
        BY <2>7, <2>8, Zenon
      <4>3. \A i \in 1..Len(lh) : ~(i < 1)
        BY <3>3
      <4> QED
        BY <4>1, <4>2, <4>3, Zenon
    <3>8. pc'[p] = "finish" => lh' = <<>>
      BY <1>1, <2>7, Zenon
    <3> QED
      BY <3>1, <3>2, <3>4, <3>5, <3>6, <3>7, <3>8, Zenon DEF PhaseInv
  <2>10. \A i : ~Installed(i)'
    BY <1>10, <2>7, Zenon DEF Installed, CommitPCs
  <2> QED
    BY <1>0, <1>1, <1>6, <2>2, <2>6, <2>9, <2>10
       DEF PinInv, CoherentInv, Pending
<1>13. CASE outstanding # 1
  <2>1. /\ pc' = Wakeup([pc EXCEPT ![p] = "idle"])
        /\ UNCHANGED <<committing, tail>>
    BY <1>13, Zenon DEF end_op
  <2>2. TypeOK'
    <3>1. pc' \in [Procs -> PCs]
      BY <2>1, Zenon DEF TypeOK, PCs, Wakeup
    <3>2. outstanding' \in Nat
      BY <1>1, <1>3, <1>5
    <3> QED
      BY <1>1, <2>1, <3>1, <3>2, Zenon DEF TypeOK
  <2>3. pc'[p] \notin CommitPCs
    BY <2>1, Zenon DEF TypeOK, Wakeup, CommitPCs
  <2>4. ProcInv'
    BY <1>0, <1>9, <1>10, <2>1, <2>3, Zenon DEF ProcInv
  <2>5. InOp' # {}
    BY <1>1, <1>3, <1>5, <1>9, <1>13, FS_EmptySet
  <2>6. \E q \in Procs : pc'[q] = "op"
    BY <2>5, Zenon DEF InOp
  <2>7. \A q \in Procs : pc'[q] \notin CommitPCs
    BY <1>10, <2>3, Zenon
  <2>8. PhaseInv'
    <3>1. NoDuplicates(lh') /\ Len(lh') <= LOGSIZE
      BY <1>0, <1>1 DEF PhaseInv, NoDuplicates
    <3> QED
      BY <1>0, <1>1, <2>6, <2>7, <3>1, Zenon DEF PhaseInv, CommitPCs
  <2>9. \A i : ~Installed(i)'
    BY <2>7, Zenon DEF Installed, CommitPCs
  <2> QED
    BY <1>0, <1>1, <1>6, <2>2, <2>4, <2>8, <2>9, Zenon DEF PinInv, CoherentInv, Pending
<1> QED
  BY <1>12, <1>13, Zenon

=============================================================================
