----------------------------- MODULE LogProofs ------------------------------
(***************************************************************************)
(* The invariant of Log is preserved by commit, crash and recovery, and    *)
(* what follows from it.                                                   *)
(***************************************************************************)
EXTENDS LogInvariant

(* The steps of commit.  The committer p is alone in them.                 *)

(* What holds while p commits.                                             *)
LEMMA Committer ==
  ASSUME IInv, Running, NEW p \in Procs, pc[p] \in CommitPCs
  PROVE  /\ committing = 1
         /\ \A q \in Procs : pc[q] # "op"
         /\ \A q \in Procs : q # p => pc[q] \notin CommitPCs
BY Zenon DEF IInv, ProcInv

(* A step of the committer that keeps it in commit().                      *)
LEMMA CommitStepProcInv ==
  ASSUME IInv, Running, NEW p \in Procs, pc[p] \in CommitPCs, TypeOK',
         pc'[p] \in CommitPCs, \A q \in Procs : q # p => pc'[q] = pc[q],
         UNCHANGED <<outstanding, committing>>
  PROVE  ProcInv' /\ \A q \in Procs : q # p => pc'[q] \notin CommitPCs
<1>1. /\ committing = 1
      /\ \A q \in Procs : pc[q] # "op"
      /\ \A q \in Procs : q # p => pc[q] \notin CommitPCs
  BY Zenon, Committer
<1>2. \A q \in Procs : pc'[q] # "op"
  BY <1>1, Zenon DEF CommitPCs
<1>3. Cardinality(InOp') = Cardinality(InOp)
  BY <1>1, <1>2, Zenon, InOpSame
<1> QED
  BY <1>1, <1>2, <1>3, Zenon DEF IInv, ProcInv

(* write_log preserves the invariant.                                      *)
LEMMA WriteLogInv ==
  ASSUME IInv, NEW p \in Procs, write_log(p)
  PROVE  IInv'
<1> USE DEF IInv
<1>0. /\ Running /\ pc[p] = "write_log" /\ pc[p] \in CommitPCs
      /\ \A i : ~Installed(i)
  BY Zenon, InstalledAt DEF write_log, CommitPCs
<1>1. /\ tail \in 1..Len(lh) /\ Len(lh) <= LOGSIZE /\ Len(lh) \in Nat
      /\ tail \in 1..LOGSIZE /\ NoDuplicates(lh)
      /\ \A i \in 1..Len(lh) : lh[i] \in Blocks
      /\ \A i \in 1..Len(lh) : i < tail => logdata[i] = cache[lh[i]]
  BY <1>0, SizeAssumption DEF PhaseInv, TypeOK
<1>2. PICK b \in Blocks : b = lh[tail]
  BY <1>1, Zenon
<1>3. pin[b] = 1 /\ cache[b] # NoVal /\ cache[b] \in Vals
  BY <1>0, <1>1, <1>2, Zenon DEF PinInv, Pending, TypeOK
<1>4. /\ logdata' = [logdata EXCEPT ![tail] = cache[b]]
      /\ cache' = cache
      /\ UNCHANGED <<home, hdr, pin, lh, outstanding, committing, hold, wrote,
                     boot, panicked>>
  BY <1>2, <1>3, Zenon DEF write_log, Contents, TypeOK
<1>5. Running'
  BY <1>0, <1>4, Zenon DEF Running
<1>6. /\ tail = Len(lh) => tail' = 1 /\ pc' = [pc EXCEPT ![p] = "write_head"]
      /\ tail # Len(lh) => tail' = tail + 1 /\ pc' = pc
  BY Zenon DEF write_log, AfterWriteLog
<1>7. TypeOK'
  <2>1. logdata' \in [1..LOGSIZE -> Vals]
    BY <1>1, <1>3, <1>4, Zenon DEF TypeOK
  <2>2. tail' \in Nat \ {0}
    BY <1>6 DEF TypeOK
  <2>3. pc' \in [Procs -> PCs]
    BY <1>6, Zenon DEF TypeOK, PCs
  <2> QED
    BY <1>4, <2>1, <2>2, <2>3, Zenon DEF TypeOK
<1>8. DiskInv' /\ BootInv'
  BY <1>0, <1>4, <1>5, Zenon DEF DiskInv, BootInv, Running, NoDuplicates
<1>9. /\ pc'[p] = IF tail = Len(lh) THEN "write_head" ELSE "write_log"
      /\ \A q \in Procs : q # p => pc'[q] = pc[q]
  BY <1>0, <1>6, Zenon DEF TypeOK
<1>10. ProcInv' /\ \A q \in Procs : q # p => pc'[q] \notin CommitPCs
  <2>1. pc'[p] \in CommitPCs
    BY <1>9, Zenon DEF CommitPCs
  <2> QED
    BY <1>0, <1>4, <1>7, <1>9, <2>1, CommitStepProcInv
<1>11. \A i \in 1..Len(lh) : i <= tail => logdata'[i] = cache'[lh[i]]
  BY <1>1, <1>2, <1>4 DEF TypeOK
<1>12. hdr = <<>>
  <2>1. \A q \in Procs : pc[q] \notin {"install", "clear"}
    BY <1>0, Zenon, Committer DEF CommitPCs
  <2> QED
    BY <1>0, <2>1, Zenon DEF PhaseInv
<1>13. PhaseInv'
  <2>1. NoDuplicates(lh') /\ Len(lh') <= LOGSIZE
    BY <1>1, <1>4, Zenon DEF NoDuplicates
  <2>2. committing' = 1
    BY <1>0, <1>4, Zenon, Committer
  <2>3. CASE tail = Len(lh)
    <3>1. \A i \in 1..Len(lh) : logdata'[i] = cache'[lh[i]]
      BY <1>1, <1>11, <2>3
    <3>2. lh # <<>>
      BY <1>1
    <3> QED
      BY <1>4, <1>6, <1>9, <1>10, <1>12, <2>1, <2>2, <2>3, <3>1, <3>2
         DEF PhaseInv, CommitPCs
  <2>4. CASE tail # Len(lh)
    <3>1. tail' <= Len(lh)
      BY <1>1, <1>6, <2>4
    <3>2. \A i \in 1..Len(lh) : i < tail' => logdata'[i] = cache'[lh[i]]
      BY <1>1, <1>6, <1>11, <2>4
    <3> QED
      BY <1>4, <1>6, <1>9, <1>10, <1>12, <2>1, <2>2, <2>4, <3>1, <3>2
         DEF PhaseInv, CommitPCs
  <2> QED
    BY <2>3, <2>4, Zenon
<1>14. \A i : ~Installed(i)'
  BY <1>9, <1>10, Zenon DEF Installed, CommitPCs
<1> QED
  BY <1>0, <1>4, <1>5, <1>7, <1>8, <1>10, <1>13, <1>14
     DEF PinInv, CoherentInv, Pending

(* write_head, the commit point, preserves the invariant.                  *)
LEMMA WriteHeadInv ==
  ASSUME IInv, NEW p \in Procs, write_head(p)
  PROVE  IInv'
<1> USE DEF IInv
<1>0. /\ Running /\ pc[p] = "write_head" /\ pc[p] \in CommitPCs
      /\ \A i : ~Installed(i)
  BY Zenon, InstalledAt DEF write_head, CommitPCs
<1>1. /\ tail = 1 /\ lh # <<>> /\ NoDuplicates(lh) /\ Len(lh) <= LOGSIZE
      /\ \A i \in 1..Len(lh) : logdata[i] = cache[lh[i]]
  BY <1>0, Zenon DEF PhaseInv
<1>2. /\ hdr' = lh /\ pc' = [pc EXCEPT ![p] = "install"]
      /\ UNCHANGED <<home, logdata, cache, pin, lh, outstanding, committing,
                     tail, hold, wrote, boot, panicked>>
  BY Zenon DEF write_head, CommitHead, bufVars, logVars
<1>3. Running'
  BY <1>0, <1>2, Zenon DEF Running
<1>4. TypeOK'
  BY <1>2, Zenon DEF TypeOK, PCs
<1>5. DiskInv' /\ BootInv'
  BY <1>0, <1>1, <1>2, <1>3, Zenon DEF DiskInv, BootInv, Running, NoDuplicates
<1>6. pc'[p] = "install" /\ \A q \in Procs : q # p => pc'[q] = pc[q]
  BY <1>2, Zenon DEF TypeOK
<1>7. ProcInv' /\ \A q \in Procs : q # p => pc'[q] \notin CommitPCs
  <2>1. pc'[p] \in CommitPCs
    BY <1>6, Zenon DEF CommitPCs
  <2> QED
    BY <1>0, <1>2, <1>4, <1>6, <2>1, Zenon, CommitStepProcInv
<1>8. PhaseInv'
  <2>1. committing' = 1
    BY <1>0, <1>2, Zenon, Committer
  <2>2. tail' <= Len(lh') /\ \A i \in 1..Len(lh') : ~(i < tail')
    BY <1>1, <1>2 DEF TypeOK
  <2> QED
    BY <1>1, <1>2, <1>6, <1>7, <2>1, <2>2 DEF PhaseInv, CommitPCs, NoDuplicates
<1>9. \A i \in 1..Len(lh) : ~Installed(i)'
  BY <1>1, <1>2, <1>6, <1>7 DEF Installed, CommitPCs, TypeOK
<1> QED
  BY <1>0, <1>2, <1>3, <1>4, <1>5, <1>7, <1>8, <1>9
     DEF PinInv, CoherentInv, Pending

(* install_trans preserves the invariant.                                  *)
LEMMA InstallTransInv ==
  ASSUME IInv, NEW p \in Procs, install_trans(p)
  PROVE  IInv'
<1> USE DEF IInv
<1>0. /\ Running /\ pc[p] = "install" /\ pc[p] \in CommitPCs
      /\ \A i : Installed(i) <=> i < tail
  BY Zenon, InstalledAt DEF install_trans, CommitPCs
<1>1. /\ tail \in 1..Len(lh) /\ Len(lh) <= LOGSIZE /\ Len(lh) \in Nat
      /\ tail \in 1..LOGSIZE /\ NoDuplicates(lh) /\ hdr = lh
      /\ \A i \in 1..Len(lh) : lh[i] \in Blocks
      /\ \A i \in 1..Len(lh) : IF i < tail THEN home[lh[i]] = logdata[i]
                                           ELSE cache[lh[i]] = logdata[i]
  BY <1>0, SizeAssumption DEF PhaseInv, TypeOK
<1>2. PICK b \in Blocks : b = lh[tail]
  BY <1>1, Zenon
<1>3. \A i \in 1..Len(lh) : lh[i] = b <=> i = tail
  BY <1>1, <1>2, Zenon DEF NoDuplicates
<1>4. pin[b] = 1
  BY <1>0, <1>1, <1>2 DEF PinInv, Pending
<1>5. /\ home' = [home EXCEPT ![b] = logdata[tail]]
      /\ cache' = [cache EXCEPT ![b] = logdata[tail]]
      /\ pin' = [pin EXCEPT ![b] = @ - 1]
      /\ UNCHANGED <<logdata, hdr, lh, outstanding, committing, hold, wrote,
                     boot, panicked>>
  BY <1>2, Zenon DEF install_trans, bunpin
<1>6. /\ tail = Len(lh) => tail' = 1 /\ pc' = [pc EXCEPT ![p] = "clear"]
      /\ tail # Len(lh) => tail' = tail + 1 /\ pc' = pc
  BY Zenon DEF install_trans
<1>7. logdata[tail] \in Vals /\ logdata[tail] # NoVal
  BY <1>1, SetAssumption DEF TypeOK
<1>8. /\ home'[b] = logdata[tail] /\ cache'[b] = logdata[tail] /\ pin'[b] = 0
      /\ \A c \in Blocks : c # b => /\ home'[c] = home[c]
                                    /\ cache'[c] = cache[c]
                                    /\ pin'[c] = pin[c]
  BY <1>4, <1>5 DEF TypeOK
<1>9. Running'
  BY <1>0, <1>5, Zenon DEF Running
<1>10. TypeOK'
  <2>1. home' \in [Blocks -> Vals] /\ cache' \in [Blocks -> Vals \cup {NoVal}]
    BY <1>5, <1>7, Zenon DEF TypeOK
  <2>2. pin' \in [Blocks -> Nat]
    BY <1>4, <1>5 DEF TypeOK
  <2>3. tail' \in Nat \ {0}
    BY <1>6 DEF TypeOK
  <2>4. pc' \in [Procs -> PCs]
    BY <1>6, Zenon DEF TypeOK, PCs
  <2> QED
    BY <1>5, <2>1, <2>2, <2>3, <2>4, Zenon DEF TypeOK
<1>11. DiskInv' /\ BootInv'
  BY <1>0, <1>5, <1>9, Zenon DEF DiskInv, BootInv, Running, NoDuplicates
<1>12. /\ pc'[p] = IF tail = Len(lh) THEN "clear" ELSE "install"
       /\ \A q \in Procs : q # p => pc'[q] = pc[q]
  BY <1>0, <1>6, Zenon DEF TypeOK
<1>13. ProcInv' /\ \A q \in Procs : q # p => pc'[q] \notin CommitPCs
  <2>1. pc'[p] \in CommitPCs
    BY <1>12, Zenon DEF CommitPCs
  <2> QED
    BY <1>0, <1>5, <1>10, <1>12, <2>1, CommitStepProcInv, Zenon
<1>14. \A i \in 1..Len(lh) : /\ i <= tail => home'[lh[i]] = logdata[i]
                             /\ i > tail => cache'[lh[i]] = logdata[i]
  BY <1>1, <1>2, <1>3, <1>8
<1>15. PhaseInv'
  <2>1. NoDuplicates(lh') /\ Len(lh') <= LOGSIZE /\ hdr' = lh'
    BY <1>1, <1>5, Zenon DEF NoDuplicates
  <2>2. committing' = 1
    BY <1>0, <1>5, Committer, Zenon
  <2>3. CASE tail = Len(lh)
    <3>1. \A i \in 1..Len(lh) : home'[lh[i]] = logdata[i]
      BY <1>1, <1>14, <2>3
    <3> QED
      BY <1>5, <1>12, <1>13, <2>1, <2>2, <2>3, <3>1 DEF PhaseInv, CommitPCs
  <2>4. CASE tail # Len(lh)
    <3>1. tail' <= Len(lh)
      BY <1>1, <1>6, <2>4
    <3>2. \A i \in 1..Len(lh) : IF i < tail' THEN home'[lh[i]] = logdata[i]
                                             ELSE cache'[lh[i]] = logdata[i]
      BY <1>1, <1>6, <1>14, <2>4
    <3> QED
      BY <1>5, <1>12, <1>13, <2>1, <2>2, <2>4, <3>1, <3>2 DEF PhaseInv, CommitPCs
  <2> QED
    BY <2>3, <2>4, Zenon
<1>16. \A i \in 1..Len(lh) : Installed(i)' <=> i <= tail
  <2>1. CASE tail = Len(lh)
    BY <1>1, <1>12, <2>1 DEF Installed
  <2>2. CASE tail # Len(lh)
    <3>1. \A q \in Procs : pc'[q] # "clear"
      BY <1>12, <1>13, <2>2, Zenon DEF CommitPCs
    <3>2. \A i \in 1..Len(lh) : i < tail' <=> i <= tail
      BY <1>1, <1>6, <2>2
    <3> QED
      BY <1>12, <2>2, <3>1, <3>2, Zenon DEF Installed
  <2> QED
    BY <2>1, <2>2, Zenon
<1>17. PinInv'
  <2>1. \A c \in Blocks : Pending(c)' <=> c # b /\ Pending(c)
    BY <1>0, <1>1, <1>3, <1>5, <1>16 DEF Pending
  <2> QED
    BY <1>0, <1>8, <2>1, Zenon DEF PinInv
<1>18. CoherentInv'
  BY <1>0, <1>8, Zenon DEF CoherentInv
<1> QED
  BY <1>10, <1>11, <1>13, <1>15, <1>17, <1>18

(* Erasing the header preserves the invariant.                             *)
LEMMA ClearHeadInv ==
  ASSUME IInv, NEW p \in Procs, clear_head(p)
  PROVE  IInv'
<1> USE DEF IInv
<1>0. /\ Running /\ pc[p] = "clear" /\ pc[p] \in CommitPCs
      /\ \A i : Installed(i)
  BY Zenon, InstalledAt DEF clear_head, CommitPCs
<1>1. /\ lh' = <<>> /\ hdr' = <<>> /\ pc' = [pc EXCEPT ![p] = "finish"]
      /\ UNCHANGED <<home, logdata, cache, pin, outstanding, committing, tail,
                     hold, wrote, boot, panicked>>
  BY Zenon DEF clear_head, bufVars
<1>2. Running'
  BY <1>0, <1>1, Zenon DEF Running
<1>3. TypeOK'
  BY <1>1 DEF TypeOK, PCs
<1>4. NoDuplicates(<<>>) /\ Len(<<>>) = 0
  BY DEF NoDuplicates
<1>5. DiskInv' /\ BootInv'
  BY <1>0, <1>1, <1>2, <1>4, SizeAssumption DEF DiskInv, BootInv, Running, NoDuplicates
<1>6. pc'[p] = "finish" /\ \A q \in Procs : q # p => pc'[q] = pc[q]
  BY <1>1, Zenon DEF TypeOK
<1>7. ProcInv' /\ \A q \in Procs : q # p => pc'[q] \notin CommitPCs
  <2>1. pc'[p] \in CommitPCs
    BY <1>6, Zenon DEF CommitPCs
  <2> QED
    BY <1>0, <1>1, <1>3, <1>6, <2>1, CommitStepProcInv
<1>8. PhaseInv'
  BY <1>1, <1>4, <1>6, <1>7, SizeAssumption DEF PhaseInv, CommitPCs, NoDuplicates
<1>9. PinInv'
  BY <1>0, <1>1, <1>4 DEF PinInv, Pending
<1>10. CoherentInv'
  BY <1>0, <1>1, Zenon DEF CoherentInv
<1> QED
  BY <1>3, <1>5, <1>7, <1>8, <1>9, <1>10

(* The end of commit preserves the invariant.                              *)
LEMMA EndCommitInv ==
  ASSUME IInv, NEW p \in Procs, end_commit(p)
  PROVE  IInv'
<1> USE DEF IInv
<1>0. /\ Running /\ pc[p] = "finish" /\ pc[p] \in CommitPCs
      /\ \A i : ~Installed(i)
  BY Zenon, InstalledAt DEF end_commit, CommitPCs
<1>1. /\ committing' = 0 /\ pc' = Wakeup([pc EXCEPT ![p] = "idle"])
      /\ UNCHANGED <<home, logdata, hdr, cache, pin, lh, outstanding, tail,
                     hold, wrote, boot, panicked>>
  BY Zenon DEF end_commit, AfterCommit, diskVars, bufVars
<1>a. /\ committing' = 0
      /\ UNCHANGED <<home, logdata, hdr, lh, outstanding>>
  BY <1>1, Zenon
<1>2. Running'
  BY <1>0, <1>1, Zenon DEF Running
<1>3. TypeOK'
  <2>1. pc' \in [Procs -> PCs]
    BY <1>1, Zenon DEF TypeOK, PCs, Wakeup
  <2> QED
    BY <1>1, <2>1, Zenon DEF TypeOK
<1>4. DiskInv' /\ BootInv'
  BY <1>0, <1>1, <1>2, Zenon DEF DiskInv, BootInv, Running, NoDuplicates
<1>5. \A q \in Procs : pc'[q] # "op" /\ pc'[q] \notin CommitPCs
  BY <1>0, <1>1, Zenon, Committer DEF TypeOK, Wakeup, CommitPCs
<1>6. ProcInv'
  <2>1. Cardinality(InOp') = Cardinality(InOp)
    BY <1>0, <1>5, Zenon, Committer, InOpSame
  <2> QED
    BY <1>0, <1>a, <1>5, <2>1 DEF ProcInv
<1>7. lh = <<>> /\ hdr = <<>>
  <2>1. \A q \in Procs : pc[q] \notin {"install", "clear"}
    BY <1>0, Zenon, Committer DEF CommitPCs
  <2> QED
    BY <1>0, <2>1, Zenon DEF PhaseInv
<1>8. PhaseInv'
  BY <1>0, <1>a, <1>5, <1>7, SMTT(20) DEF PhaseInv, CommitPCs, NoDuplicates
<1>9. PinInv' /\ CoherentInv'
  <2>1. \A i : ~Installed(i)'
    BY <1>5, Zenon DEF Installed, CommitPCs
  <2> QED
    BY <1>0, <1>1, <2>1, Zenon DEF PinInv, CoherentInv, Pending
<1> QED
  BY <1>3, <1>4, <1>6, <1>8, <1>9, Zenon

(* Crash and recovery.                                                     *)

(* A crash preserves the invariant.                                        *)
LEMMA CrashInv ==
  ASSUME IInv, Crash
  PROVE  IInv'
<1> USE DEF IInv, Crash, diskVars
<1>1. TypeOK'
  BY DEF TypeOK, PCs
<1>2. DiskInv'
  BY Zenon DEF DiskInv, NoDuplicates
<1>3. BootInv'
  BY Zenon DEF BootInv
<1>4. ~Running'
  BY Zenon DEF Running
<1> QED
  BY <1>1, <1>2, <1>3, <1>4 DEF ProcInv, PhaseInv, PinInv, CoherentInv

(* read_head, the start of recovery, preserves the invariant.              *)
LEMMA ReadHeadInv ==
  ASSUME IInv, read_head
  PROVE  IInv'
<1> USE DEF IInv, read_head, diskVars, bufVars, procVars, FirstRecovery
<1>1. TypeOK'
  BY Zenon DEF TypeOK
<1>2. DiskInv'
  BY Zenon DEF DiskInv, NoDuplicates
<1>3. Durable' = Durable
  BY Zenon, DurableUnchanged
<1>4. BootInv'
  <2>1. /\ boot # "done" /\ boot' # "done" /\ boot' # "read_head"
        /\ boot' = "install" => hdr # <<>>
        /\ boot' = "clear" => hdr = <<>>
    BY Zenon
  <2>2. tail = 1 /\ tail' = tail /\ lh' = hdr
    BY Zenon DEF BootInv
  <2>3. hdr # <<>> => Len(hdr) >= 1
    BY DEF TypeOK
  <2>4. Len(hdr) \in Nat
    BY DEF TypeOK
  <2> QED
    BY <1>3, <2>1, <2>2, <2>3, <2>4 DEF BootInv
<1>5. ~Running'
  BY Zenon DEF Running
<1> QED
  BY <1>1, <1>2, <1>4, <1>5 DEF ProcInv, PhaseInv, PinInv, CoherentInv

(* Installing a logged block at recovery leaves the durable contents alone.*)
LEMMA RecoverInstallDurable ==
  ASSUME IInv, recover_install
  PROVE  /\ Durable' = Durable
         /\ tail \in 1..Len(hdr) /\ lh = hdr /\ tail \in 1..LOGSIZE
         /\ Durable[hdr[tail]] = logdata[tail]
<1> USE DEF IInv
<1>1. /\ boot = "install" /\ lh = hdr /\ tail \in 1..Len(hdr)
      /\ home' = [home EXCEPT ![hdr[tail]] = logdata[tail]]
      /\ logdata' = logdata /\ hdr' = hdr
  BY DEF recover_install, BootInv, TypeOK
<1>2. hdr \in Seq(Blocks) /\ NoDuplicates(hdr) /\ Len(hdr) <= LOGSIZE
  BY Zenon DEF TypeOK, DiskInv
<1>3. Durable[hdr[tail]] = logdata[tail]
  BY <1>1, <1>2, DurableLogged, Zenon
<1>4. \A b \in Blocks : ~InSeq(hdr, b) => home'[b] = home[b]
  BY <1>1, <1>2, Zenon DEF InSeq, TypeOK
<1>5. \A b \in Blocks : Durable'[b] = Durable[b]
  BY <1>1, <1>4, Zenon DEF Durable, InSeq
<1>6. Durable' = Durable
  BY <1>5, Zenon DEF Durable
<1> QED
  BY <1>1, <1>2, <1>3, <1>6, SizeAssumption

(* install_trans at recovery preserves the invariant.                      *)
LEMMA RecoverInstallInv ==
  ASSUME IInv, recover_install
  PROVE  IInv'
<1> USE DEF IInv
<1>0. /\ Durable' = Durable
      /\ tail \in 1..Len(hdr) /\ lh = hdr /\ tail \in 1..LOGSIZE
      /\ Durable[hdr[tail]] = logdata[tail]
  BY RecoverInstallDurable, Zenon
<1>1. PICK b \in Blocks : b = hdr[tail]
  BY <1>0 DEF TypeOK
<1>2. /\ boot = "install"
      /\ home' = [home EXCEPT ![b] = logdata[tail]]
      /\ cache' = [cache EXCEPT ![b] = logdata[tail]]
      /\ UNCHANGED <<logdata, hdr, pin, lh, outstanding, committing, pc, hold,
                     wrote, panicked>>
  BY <1>0, <1>1, Zenon DEF recover_install, procVars
<1>3. /\ tail = Len(hdr) => tail' = 1 /\ boot' = "clear"
      /\ tail # Len(hdr) => tail' = tail + 1 /\ boot' = "install"
  BY <1>0, <1>2, Zenon DEF recover_install
<1>4. logdata[tail] \in Vals
  BY <1>0, Zenon DEF TypeOK
<1>5. TypeOK'
  <2>1. home' \in [Blocks -> Vals] /\ cache' \in [Blocks -> Vals \cup {NoVal}]
    BY <1>2, <1>4, Zenon DEF TypeOK
  <2>2. tail' \in Nat \ {0} /\ boot' \in {"install", "clear"}
    BY <1>3 DEF TypeOK
  <2> QED
    BY <1>2, <2>1, <2>2, Zenon DEF TypeOK
<1>6. DiskInv'
  BY <1>2, Zenon DEF DiskInv, NoDuplicates
<1>7. \A i \in 1..Len(hdr) : hdr[i] \in Blocks /\ (hdr[i] = b <=> i = tail)
  BY <1>0, <1>1 DEF DiskInv, NoDuplicates, TypeOK
<1>8. \A i \in 1..Len(hdr) : i <= tail => home'[hdr[i]] = logdata[i]
  <2>1. \A i \in 1..Len(hdr) : i < tail => home[hdr[i]] = logdata[i]
    BY <1>0, <1>2, Zenon DEF BootInv
  <2> QED
    BY <1>0, <1>2, <1>7, <2>1 DEF TypeOK
<1>9. BootInv'
  <2>1. \A c \in Blocks : cache'[c] # NoVal =>
          cache'[c] = home'[c] /\ cache'[c] = Durable'[c]
    BY <1>0, <1>1, <1>2, Zenon DEF BootInv, TypeOK
  <2>2. /\ \A p \in Procs : pc'[p] = "idle" /\ hold'[p] = NoBlock
        /\ \A c \in Blocks : pin'[c] = 0
        /\ panicked' = 0 /\ outstanding' = 0 /\ committing' = 0
    BY <1>2, Zenon DEF BootInv
  <2>3. CASE tail = Len(hdr)
    <3>1. \A i \in 1..Len(hdr) : home'[hdr[i]] = logdata[i]
      BY <1>0, <1>8, <2>3, SMTT(20)
    <3> QED
      BY <1>2, <1>3, <2>1, <2>2, <2>3, <3>1 DEF BootInv
  <2>4. CASE tail # Len(hdr)
    <3>1. tail' <= Len(hdr)
      BY <1>0, <1>3, <2>4, SMTT(20) DEF TypeOK
    <3>2. \A i \in 1..Len(hdr) : i < tail' => home'[hdr[i]] = logdata[i]
      BY <1>0, <1>3, <1>8, <2>4
    <3> QED
      BY <1>0, <1>2, <1>3, <2>1, <2>2, <2>4, <3>1, <3>2, SMTT(20) DEF BootInv
  <2> QED
    BY <2>3, <2>4, Zenon
<1>10. ~Running'
  BY <1>3, Zenon DEF Running
<1> QED
  BY <1>5, <1>6, <1>9, <1>10, Zenon DEF ProcInv, PhaseInv, PinInv, CoherentInv

(* Erasing the header at recovery preserves the invariant.                 *)
LEMMA RecoverClearInv ==
  ASSUME IInv, recover_clear
  PROVE  IInv'
<1> USE DEF IInv
<1>0. /\ boot = "clear" /\ boot' = "done" /\ lh' = <<>> /\ hdr' = <<>>
      /\ UNCHANGED <<home, logdata, cache, pin, outstanding, committing, tail,
                     pc, hold, wrote, panicked>>
  BY Zenon DEF recover_clear, bufVars, procVars
<1>1. TypeOK'
  BY <1>0 DEF TypeOK
<1>2. NoDuplicates(<<>>) /\ Len(<<>>) = 0
  BY DEF NoDuplicates
<1>3. DiskInv' /\ BootInv'
  BY <1>0, <1>2, SizeAssumption DEF DiskInv, BootInv, NoDuplicates
<1>4. /\ panicked = 0 /\ outstanding = 0 /\ committing = 0
      /\ \A p \in Procs : pc[p] = "idle" /\ hold[p] = NoBlock
      /\ \A b \in Blocks : pin[b] = 0
      /\ \A b \in Blocks : cache[b] # NoVal => cache[b] = home[b]
  BY <1>0, Zenon DEF BootInv
<1>5. ProcInv'
  <2>1. InOp' = {}
    BY <1>0, <1>4, Zenon DEF InOp
  <2>2. Cardinality(InOp') = 0
    BY <2>1, FS_EmptySet, Zenon
  <2> QED
    BY <1>0, <1>4, <2>2 DEF ProcInv, CommitPCs
<1>6. PhaseInv'
  BY <1>0, <1>2, <1>4, SizeAssumption, SMTT(20) DEF PhaseInv, NoDuplicates
<1>7. PinInv' /\ CoherentInv'
  BY <1>0, <1>2, <1>4 DEF PinInv, CoherentInv, Pending
<1> QED
  BY <1>1, <1>3, <1>5, <1>6, <1>7, Zenon
-----------------------------------------------------------------------------

(* A step that changes nothing preserves the invariant.                    *)
LEMMA StutterInv ==
  ASSUME IInv, UNCHANGED vars
  PROVE  IInv'
<1> USE DEF IInv, vars, diskVars, bufVars, logVars, procVars
<1>1. TypeOK'
  BY Zenon DEF TypeOK
<1>2. DiskInv'
  BY Zenon DEF DiskInv, NoDuplicates
<1>3. BootInv'
  BY Zenon, DurableUnchanged DEF BootInv
<1>4. ProcInv'
  BY Zenon DEF ProcInv, Running, InOp
<1>5. PhaseInv'
  BY DEF PhaseInv, Running, NoDuplicates
<1>6. PinInv' /\ CoherentInv'
  BY DEF PinInv, CoherentInv, Pending, Installed, Running
<1> QED
  BY <1>1, <1>2, <1>3, <1>4, <1>5, <1>6

(* Every step preserves the invariant.                                     *)
LEMMA NextInv ==
  ASSUME IInv, [Next]_vars
  PROVE  IInv'
<1>1. ASSUME NEW p \in Procs, begin_op(p) PROVE IInv'
  BY <1>1, Zenon, BeginOpInv
<1>2. ASSUME NEW p \in Procs, end_op(p) PROVE IInv'
  BY <1>2, Zenon, EndOpInv
<1>3. ASSUME NEW p \in Procs, brelse(p) PROVE IInv'
  BY <1>3, Zenon, BrelseInv
<1>4. ASSUME NEW p \in Procs, Commit(p) PROVE IInv'
  BY <1>4, Zenon, WriteLogInv, WriteHeadInv, InstallTransInv, ClearHeadInv, EndCommitInv DEF
     Commit
<1>5. ASSUME NEW p \in Procs, NEW b \in Blocks, bread(p, b) PROVE IInv'
  BY <1>5, Zenon, BreadInv
<1>6. ASSUME NEW p \in Procs, NEW v \in Vals, log_write(p, v) PROVE IInv'
  BY <1>6, Zenon, LogWriteInv
<1>7. ASSUME NEW p \in Procs, NEW v \in Vals, write_fault(p, v) PROVE IInv'
  BY <1>7, Zenon, WriteFaultInv
<1>8. ASSUME NEW b \in Blocks, Recycle(b) PROVE IInv'
  BY <1>8, Zenon, RecycleInv
<1>9. ASSUME Recover PROVE IInv'
  BY <1>9, Zenon, ReadHeadInv, RecoverInstallInv, RecoverClearInv DEF Recover
<1>10. ASSUME Crash PROVE IInv'
  BY <1>10, Zenon, CrashInv
<1>11. ASSUME UNCHANGED vars PROVE IInv'
  BY <1>11, Zenon, StutterInv
<1> QED
  BY <1>1, <1>2, <1>3, <1>4, <1>5, <1>6, <1>7, <1>8, <1>9, <1>10, <1>11 DEF Next

(* The inductive invariant holds of every behaviour of log.c, whatever the *)
(* sizes and whether or not writes fault.                                  *)
THEOREM Invariance == Spec => []IInv
<1>1. Init => IInv
  BY Zenon, InitInv
<1>2. IInv /\ [Next]_vars => IInv'
  BY Zenon, NextInv
<1> QED
  BY <1>1, <1>2, PTL DEF Spec

(* Type correctness of log.c's state.  It is not inductive by itself: that *)
(* install_trans never drops a pin below zero rests on PinInv.             *)
THEOREM TypeCorrect == Spec => []TypeOK
<1>1. IInv => TypeOK
  BY Zenon DEF IInv
<1> QED
  BY <1>1, Invariance, PTL

\* A block of the running transaction has exactly one pin and stays cached
\* until install_trans has copied it home, whatever the other processes and
\* the buffer cache do meanwhile (log_write, bpin, bunpin).
THEOREM PinnedUntilInstalled == Spec => []LoggedBlocksPinned
<1>1. IInv => LoggedBlocksPinned
  <2> SUFFICES ASSUME IInv, Running, NEW b \in Blocks,
                      NEW W, W = {i \in 1..Len(lh) : lh[i] = b /\ ~Installed(i)}
               PROVE  /\ pin[b] = Cardinality(W) /\ pin[b] <= 1
                      /\ (pin[b] = 1 => cache[b] # NoVal)
    BY Zenon DEF LoggedBlocksPinned, IInv
  <2>1. CASE Pending(b)
    <3>1. PICK i \in 1..Len(lh) : lh[i] = b /\ ~Installed(i)
      BY <2>1, Zenon DEF Pending
    <3>2. W = {i}
      BY <3>1 DEF IInv, PhaseInv, NoDuplicates
    <3>3. Cardinality(W) = 1
      BY <3>2, FS_Singleton, Zenon
    <3> QED
      BY <2>1, <3>3 DEF IInv, PinInv
  <2>2. CASE ~Pending(b)
    <3>1. W = {}
      BY <2>2, Zenon DEF Pending
    <3>2. Cardinality(W) = 0
      BY <3>1, FS_EmptySet, Zenon
    <3> QED
      BY <2>2, <3>2 DEF IInv, PinInv
  <2> QED
    BY <2>1, <2>2, Zenon
<1> QED
  BY <1>1, Invariance, PTL

(* Between transactions everything written is home and nothing is pinned.  *)
THEOREM Quiescence ==
  ASSUME ~WriteFaults
  PROVE  Spec => []QuiescentDurable
<1>1. IInv => QuiescentDurable
  <2> SUFFICES ASSUME IInv, Running, outstanding = 0, committing = 0
               PROVE  /\ hdr = <<>> /\ lh = <<>>
                      /\ \A b \in Blocks : Contents(b) = home[b] /\ pin[b] = 0
    BY Zenon DEF QuiescentDurable
  <2> USE DEF IInv
  <2>1. \A p \in Procs : pc[p] \notin CommitPCs
    BY DEF ProcInv
  <2>2. InOp = {}
    BY Zenon, InOpFinite, FS_EmptySet DEF ProcInv
  <2>3. \A p \in Procs : pc[p] # "op"
    BY <2>2, Zenon DEF InOp
  <2>4. hdr = <<>> /\ lh = <<>>
    BY <2>1, <2>3, Zenon DEF PhaseInv, CommitPCs
  <2>5. \A b \in Blocks : ~Pending(b)
    BY <2>4 DEF Pending
  <2>6. \A b \in Blocks : pin[b] = 0
    BY <2>5, Zenon DEF PinInv
  <2> QED
    BY <2>4, <2>6, Zenon DEF CoherentInv, Contents
<1> QED
  BY <1>1, Invariance, PTL

(* The write-ahead rule: install_trans, in commit and in recovery, is the  *)
(* only code that changes a home location, and only to what a committed    *)
(* header lists.                                                           *)
THEOREM WriteAheadRule == Spec => WriteAhead
<1> DEFINE Logged == \A b \in Blocks : home'[b] # home[b] =>
                       \E i \in 1..Len(hdr) : hdr[i] = b /\ home'[b] = logdata[i]
<1>1. IInv /\ [Next]_vars => [Logged]_vars
  <2> SUFFICES ASSUME IInv, Next PROVE Logged
    BY Zenon
  <2>1. ASSUME UNCHANGED home PROVE Logged
    BY <2>1, Zenon
  <2>2. ASSUME NEW p \in Procs, install_trans(p) PROVE Logged
    <3>1. /\ Running /\ pc[p] = "install"
          /\ home' = [home EXCEPT ![lh[tail]] = logdata[tail]]
      BY <2>2, Zenon DEF install_trans
    <3>2. tail \in 1..Len(hdr) /\ lh = hdr
      BY <3>1 DEF IInv, PhaseInv, TypeOK
    <3> QED
      BY <3>1, <3>2, Zenon DEF IInv, TypeOK
  <2>3. ASSUME recover_install PROVE Logged
    <3>1. tail \in 1..Len(hdr) /\ lh = hdr
      BY <2>3, RecoverInstallDurable, Zenon
    <3> QED
      BY <2>3, <3>1, Zenon DEF recover_install, IInv, TypeOK
  <2>4. ASSUME NEW p \in Procs, Commit(p) PROVE Logged
    <3>1. CASE install_trans(p)
      BY <2>2, <3>1, Zenon
    <3>2. CASE write_log(p) \/ write_head(p) \/ clear_head(p) \/ end_commit(p)
      <4>1. UNCHANGED home
        BY <3>2, Zenon DEF write_log, write_head, clear_head, end_commit, diskVars
      <4> QED
        BY <2>1, <4>1, Zenon
    <3> QED
      BY <2>4, <3>1, <3>2, Zenon DEF Commit
  <2>5. ASSUME Recover PROVE Logged
    <3>1. CASE recover_install
      BY <2>3, <3>1, Zenon
    <3>2. CASE read_head \/ recover_clear
      <4>1. UNCHANGED home
        BY <3>2, Zenon DEF read_head, recover_clear, diskVars
      <4> QED
        BY <2>1, <4>1, Zenon
    <3> QED
      BY <2>5, <3>1, <3>2, Zenon DEF Recover
  <2>6. ASSUME NEW p \in Procs,
               \/ begin_op(p) \/ end_op(p) \/ brelse(p)
               \/ \E b \in Blocks : bread(p, b)
               \/ \E v \in Vals : log_write(p, v) \/ write_fault(p, v)
        PROVE  Logged
    <3>1. CASE begin_op(p) \/ end_op(p) \/ brelse(p)
      BY <2>1, <3>1, Zenon DEF begin_op, end_op, brelse, diskVars
    <3>2. CASE \E b \in Blocks : bread(p, b)
      BY <2>1, <3>2, Zenon DEF bread, diskVars
    <3>3. CASE \E v \in Vals : log_write(p, v)
      BY <2>1, <3>3, Zenon DEF log_write, diskVars
    <3>4. CASE \E v \in Vals : write_fault(p, v)
      BY <2>1, <3>4, Zenon DEF write_fault, diskVars
    <3> QED
      BY <2>6, <3>1, <3>2, <3>3, <3>4, Zenon
  <2>7. ASSUME Crash \/ \E b \in Blocks : Recycle(b) PROVE Logged
    <3>1. UNCHANGED home
      BY <2>7, Zenon DEF Crash, Recycle, diskVars
    <3> QED
      BY <2>1, <3>1, Zenon
  <2> QED
    BY <2>4, <2>5, <2>6, <2>7 DEF Next
<1> QED
  BY <1>1, Invariance, PTL DEF Spec, WriteAhead
=============================================================================
