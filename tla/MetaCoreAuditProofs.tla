------------------------ MODULE MetaCoreAuditProofs ------------------------
(***************************************************************************)
(* Proofs about the audit: as long as no command has died, the active      *)
(* bundle passes it between commands, and no audit that waits for the lock *)
(* finds fault.                                                            *)
(***************************************************************************)
EXTENDS MetaCoreHistoryProofs

----------------------------------------------------------------------------
(* What is in the stage and in the store while no command has died         *)

\* The kernel accepts all bundles, or nothing is committed without its verdict.
Trusted == Valid = Bundles \/ OnlyLocked

CopiesCompleted ==
  /\ \A b \in Bundles : stageDir[b] = "partial" =>
       \E p \in Procs : pc[p] = "stageCopy" /\ loc[p].bundle = b
  /\ \A b \in Bundles : stored[b] = "partial" =>
       \E p \in Procs : pc[p] = "storeCopy" /\ loc[p].bundle = b

CleanFiles ==
  /\ stageFile # Absent => stageDir[stageFile] = "copied"
  /\ Valid = Bundles /\ receiptFile # Absent => receiptFile.verdict = "valid"
  /\ \A b \in Bundles : receipts[b] # "invalid"
  /\ \A b \in Bundles : stored[b] # "none" => ParentPresent(b)

CleanPCs == {"stageDesc", "kernel", "canary", "commit", "parent", "store"} \cup Copying

\* What a process knows of the bundle it stages or commits.
CleanOK(p) ==
  /\ pc[p] \in {"stageDesc", "kernel", "parent", "store", "storeCopy"} =>
       stageDir[loc[p].bundle] = "copied"
  /\ pc[p] \in {"kernel", "store"} \cup Copying => ParentPresent(loc[p].bundle)
  /\ pc[p] \in {"canary", "commit"} /\ OnlyLocked => receiptFile.verdict = "valid"
  /\ pc[p] \in {"parent", "store"} \cup Copying => loc[p].verdict = "valid"

CleanInv ==
  crashes = 0 =>
    /\ CopiesCompleted /\ CleanFiles /\ ReceiptsKept
    /\ \A p \in Procs : CleanOK(p)

\* What holds of the engine when its commands do not overlap.
EngineInv ==
  /\ TypeInv /\ LockInv /\ Exclusive /\ StoreInv /\ LedgerInv /\ SuccessInv
  /\ OnlyLocked => AcceptInv

dirs == <<stageDir, stageFile, receiptFile, stored, receipts>>

\* While a process works the others know nothing.
LEMMA CleanFrame ==
  ASSUME Exclusive, NEW p \in Procs, Others(p), Busy(p) \/ UNCHANGED dirs,
         \A q \in Procs : CleanOK(q),
         CleanOK(p)', CopiesCompleted', CleanFiles', ReceiptsKept'
  PROVE  CleanInv'
<1>1. ASSUME NEW q \in Procs \ {p}
      PROVE  CleanOK(q)'
  <2>1. pc'[q] = pc[q] /\ loc'[q] = loc[q] /\ CleanOK(q)
    BY DEF Others
  <2>2. CASE Busy(p)
    <3>1. ~Busy(q)
      BY <2>2 DEF Exclusive
    <3> QED
      BY <2>1, <3>1 DEF CleanOK, Busy, Copying
  <2>3. CASE UNCHANGED dirs
    BY <2>1, <2>3 DEF CleanOK, dirs, ParentPresent
  <2> QED
    BY <2>2, <2>3
<1> QED
  BY <1>1 DEF CleanInv

\* A step outside of the copies that changes no directory or receipt.
LEMMA CleanQuiet ==
  ASSUME CleanInv, crashes = 0, Exclusive, NEW p \in Procs, Others(p),
         UNCHANGED dirs, pc[p] \notin {"stageCopy"} \cup Copying, CleanOK(p)'
  PROVE  CleanInv'
<1>1. CopiesCompleted'
  BY DEF CleanInv, CopiesCompleted, Others, dirs, Copying
<1>2. ReceiptsKept'
  BY DEF CleanInv, ReceiptsKept, Others, dirs
<1>3. CleanFiles'
  BY DEF CleanInv, CleanFiles, ParentPresent, dirs
<1> QED
  BY <1>1, <1>2, <1>3, CleanFrame DEF CleanInv

\* Where nothing is known, nothing can be wrong.
LEMMA CleanOutside ==
  ASSUME NEW p \in Procs, pc'[p] \notin CleanPCs
  PROVE  CleanOK(p)'
BY DEF CleanOK, CleanPCs, Copying

\* Starting a command and taking the lock.
LEMMA CleanEnvironment ==
  ASSUME EngineInv, CleanInv, crashes = 0, NEW p \in Procs,
         \/ \E c \in EnabledCommands, b \in BundleOrAbsent : Start(p, c, b)
         \/ Acquire(p)
  PROVE  CleanInv'
<1>1. Others(p) /\ UNCHANGED dirs
  BY EnvironmentEffect DEF EngineInv, Start, Acquire, stage, store, dirs
<1>2. pc[p] \notin {"stageCopy"} \cup Copying
  BY DEF Start, Acquire, Copying
<1>3. ASSUME NEW c \in EnabledCommands, NEW b \in BundleOrAbsent, Start(p, c, b)
      PROVE  CleanOK(p)'
  <2>1. pc'[p] = Entrance(c)
    BY <1>3, EnvironmentEffect DEF EngineInv
  <2>2. /\ Entrance(c) \notin CleanPCs \ {"canary", "commit"}
        /\ OnlyLocked => Entrance(c) = "lock"
    BY EnvironmentAssumption
       DEF Entrance, LockedCommands, AllCommands, CleanPCs, Copying, OnlyLocked
  <2> QED
    BY <2>1, <2>2 DEF CleanOK, CleanPCs, Copying
<1>4. Acquire(p) => CleanOK(p)'
  BY EnvironmentEffect, CleanOutside DEF EngineInv, CleanPCs, Copying
<1> QED
  BY <1>1, <1>2, <1>3, <1>4, CleanQuiet DEF EngineInv

\* The steps of a command that neither copy nor read a receipt.
LEMMA CleanQuietSteps ==
  ASSUME EngineInv, CleanInv, crashes = 0, NEW p \in Procs,
         \/ StageReject(p) \/ UpgradeStep(p) \/ RollbackStep(p)
         \/ SwapStep(p) \/ LedgerStep(p) \/ AuditStep(p)
  PROVE  CleanInv'
<1>1. UNCHANGED dirs
  BY DEF dirs, StageReject, UpgradeStep, NotReady, Ready, Announce, RollbackStep,
         RollbackActive, RollbackTarget, ReadReceipt, SwapStep, WritePrev, WriteActive,
         WriteNext, LedgerStep, ReadLastEntry, ReadLedger, PublishEntry, AuditStep,
         AuditActive, AuditNext, AuditStore, AuditLedger, stage, store
<1>2. pc[p] \notin {"stageCopy"} \cup Copying
  BY DEF StageReject, UpgradeStep, NotReady, Ready, Announce, RollbackStep,
         RollbackActive, RollbackTarget, ReadReceipt, SwapStep, WritePrev, WriteActive,
         WriteNext, LedgerStep, ReadLastEntry, ReadLedger, PublishEntry, AuditStep,
         AuditActive, AuditNext, AuditStore, AuditLedger, Copying
<1>3. Others(p) /\ pc'[p] \notin CleanPCs \ {"commit"}
  <2> USE DEF CleanPCs, Copying
  <2>1. CASE StageReject(p) \/ UpgradeStep(p)
    <3>1. \/ \E code : Finish(p, code)
          \/ \E n \in {"announce", "commit"} : \E l : Advance(p, n, l)
      BY <2>1 DEF StageReject, UpgradeStep, NotReady, Ready, Announce
    <3> QED
      BY <3>1, FinishEffect, AdvanceEffect DEF EngineInv
  <2>2. CASE RollbackStep(p) \/ SwapStep(p)
    <3>1. \/ \E code : Finish(p, code)
          \/ \E n \in {"target", "prev", "active", "next", "receipt", "tail"} :
               \E l : Advance(p, n, l)
      BY <2>2 DEF RollbackStep, RollbackActive, RollbackTarget, ReadReceipt, SwapStep,
                  WritePrev, WriteActive, WriteNext
    <3> QED
      BY <3>1, FinishEffect, AdvanceEffect DEF EngineInv
  <2>3. CASE LedgerStep(p) \/ AuditStep(p)
    <3>1. \/ \E code : Finish(p, code)
          \/ \E n \in {"append", "publish", "tail", "auditNext", "auditStore",
                       "auditLedger"} :
               \E l : Advance(p, n, l)
      BY <2>3 DEF LedgerStep, ReadLastEntry, ReadLedger, PublishEntry, AuditStep,
                  AuditActive, AuditNext, AuditStore, AuditLedger
    <3> QED
      BY <3>1, FinishEffect, AdvanceEffect DEF EngineInv
  <2> QED
    BY <2>1, <2>2, <2>3
<1>4. pc'[p] = "commit" => ~OnlyLocked
  <2>1. SUFFICES ASSUME pc'[p] = "commit", OnlyLocked
                 PROVE  FALSE
    OBVIOUS
  <2>2. pc[p] = "announce"
    <3>1. CASE Announce(p)
      BY <3>1 DEF Announce
    <3>2. CASE ~Announce(p)
      <4>1. \/ \E code : Finish(p, code)
            \/ \E n \in PCs \ {"commit"} : \E l : Advance(p, n, l)
        BY <3>2
           DEF PCs, StageReject, UpgradeStep, NotReady, Ready, RollbackStep,
               RollbackActive, RollbackTarget, ReadReceipt, SwapStep, WritePrev,
               WriteActive, WriteNext, LedgerStep, ReadLastEntry, ReadLedger,
               PublishEntry, AuditStep, AuditActive, AuditNext, AuditStore, AuditLedger
      <4> QED
        BY <2>1, <4>1, FinishEffect, AdvanceEffect DEF EngineInv
    <3> QED
      BY <3>1, <3>2
  <2> QED
    BY <2>1, <2>2 DEF EngineInv, AcceptInv, AcceptOK
<1>5. CleanOK(p)'
  BY <1>3, <1>4 DEF CleanOK, CleanPCs, Copying
<1> QED
  BY <1>1, <1>2, <1>3, <1>5, CleanQuiet DEF EngineInv

\* All that is unfinished is what p is copying.
Alone(p) ==
  /\ \A b \in Bundles : stageDir[b] = "partial" =>
       pc[p] = "stageCopy" /\ loc[p].bundle = b
  /\ \A b \in Bundles : stored[b] = "partial" =>
       pc[p] = "storeCopy" /\ loc[p].bundle = b
  /\ \A b \in Bundles : stored[b] # "none" /\ receipts[b] = "none" =>
       pc[p] \in Copying /\ loc[p].bundle = b

LEMMA CleanAlone ==
  ASSUME CleanInv, crashes = 0, Exclusive, NEW p \in Procs, Busy(p)
  PROVE  Alone(p) /\ CleanFiles /\ CleanOK(p)
<1>1. ASSUME NEW q \in Procs, pc[q] \in {"stageCopy"} \cup Copying
      PROVE  q = p
  BY <1>1 DEF Exclusive, Busy, Copying
<1>2. CopiesCompleted /\ ReceiptsKept /\ CleanFiles /\ CleanOK(p)
  BY DEF CleanInv
<1>3. ASSUME NEW b \in Bundles, stageDir[b] = "partial"
      PROVE  pc[p] = "stageCopy" /\ loc[p].bundle = b
  BY <1>1, <1>2, <1>3 DEF CopiesCompleted
<1>4. ASSUME NEW b \in Bundles, stored[b] = "partial"
      PROVE  pc[p] = "storeCopy" /\ loc[p].bundle = b
  BY <1>1, <1>2, <1>4 DEF CopiesCompleted, Copying
<1>5. ASSUME NEW b \in Bundles, stored[b] # "none", receipts[b] = "none"
      PROVE  pc[p] \in Copying /\ loc[p].bundle = b
  BY <1>1, <1>2, <1>5 DEF ReceiptsKept
<1> QED
  BY <1>2, <1>3, <1>4, <1>5 DEF Alone

\* A working process has to answer for its own copies only.
LEMMA CleanWorks ==
  ASSUME CleanInv, crashes = 0, Exclusive, NEW p \in Procs, Busy(p), Others(p),
         Alone(p)', CleanFiles', CleanOK(p)'
  PROVE  CleanInv'
<1>1. CopiesCompleted'
  BY DEF Alone, CopiesCompleted
<1>2. ReceiptsKept'
  BY DEF Alone, ReceiptsKept
<1> QED
  BY <1>1, <1>2, CleanFrame DEF CleanInv

\* The stage gets a copy, which is whole before stage.json names it.
LEMMA CleanStage ==
  ASSUME EngineInv, CleanInv, crashes = 0, NEW p \in Procs,
         StageBundle(p) \/ StageCopy(p) \/ WriteStage(p)
  PROVE  CleanInv'
<1> DEFINE b == loc[p].bundle
<1>1. /\ Busy(p) /\ pc[p] \in {"stage", "stageCopy", "stageDesc"}
      /\ stored' = stored /\ receipts' = receipts /\ receiptFile' = receiptFile
      /\ Exclusive /\ TypeInv
      /\ stageDir \in [Bundles -> CopyState] /\ stageFile \in BundleOrAbsent
  BY DEF StageBundle, StageCopy, WriteStage, Busy, store, EngineInv, TypeInv, TypeOK,
         FilesOK
<1>2. Alone(p) /\ CleanFiles /\ CleanOK(p)
  BY <1>1, CleanAlone
<1>3. CASE StageBundle(p)
  <2>1. b \in Bundles
    BY <1>3, BundlesAssumption DEF StageBundle
  <2>2. /\ stageFile' = stageFile /\ pc[p] = "stage"
        /\ \/ /\ stageDir[b] = "none" /\ stageDir' = [stageDir EXCEPT ![b] = "partial"]
              /\ Advance(p, "stageCopy", loc[p])
           \/ /\ stageDir[b] # "none" /\ stageDir' = stageDir
              /\ Advance(p, "stageDesc", loc[p])
    BY <1>3 DEF StageBundle
  <2>3. /\ Others(p) /\ loc'[p] = loc[p]
        /\ pc'[p] = IF stageDir[b] = "none" THEN "stageCopy" ELSE "stageDesc"
    BY <1>1, <2>2, AdvanceEffect
  <2>4. stageDir[b] # "none" => stageDir[b] = "copied"
    BY <1>1, <1>2, <2>1, <2>2 DEF Alone, CopyState
  <2>5. Alone(p)'
    <3>1. ASSUME NEW c \in Bundles, stageDir'[c] = "partial"
          PROVE  pc'[p] = "stageCopy" /\ loc'[p].bundle = c
      <4>1. stageDir[c] # "partial"
        BY <1>2, <2>2 DEF Alone
      <4> QED
        BY <1>1, <2>1, <2>2, <2>3, <3>1, <4>1
    <3>2. \A c \in Bundles : /\ stored[c] # "partial"
                             /\ stored[c] # "none" => receipts[c] # "none"
      BY <1>2, <2>2 DEF Alone, Copying
    <3> QED
      BY <1>1, <3>1, <3>2 DEF Alone
  <2>6. CleanFiles'
    <3>1. stageFile # Absent => stageFile \in Bundles /\ stageDir[stageFile] = "copied"
      BY <1>1, <1>2 DEF CleanFiles, BundleOrAbsent
    <3>2. stageFile' # Absent => stageDir'[stageFile'] = "copied"
      BY <1>1, <2>1, <2>2, <3>1
    <3> QED
      BY <1>1, <1>2, <3>2 DEF CleanFiles, ParentPresent
  <2>7. CleanOK(p)'
    BY <2>2, <2>3, <2>4 DEF CleanOK, Copying
  <2> QED
    BY <1>1, <2>3, <2>5, <2>6, <2>7, CleanWorks
<1>4. CASE StageCopy(p)
  <2>1. b \in Bundles
    BY <1>1, <1>4 DEF StageCopy, TypeInv, WorkOK, Working
  <2>2. /\ stageFile' = stageFile /\ pc[p] = "stageCopy"
        /\ stageDir' = [stageDir EXCEPT ![b] = "copied"]
        /\ Advance(p, "stageDesc", loc[p])
    BY <1>4 DEF StageCopy
  <2>3. Others(p) /\ loc'[p] = loc[p] /\ pc'[p] = "stageDesc"
    BY <1>1, <2>2, AdvanceEffect
  <2>4. stageDir'[b] = "copied" /\ \A c \in Bundles \ {b} : stageDir'[c] = stageDir[c]
    BY <1>1, <2>1, <2>2
  <2>5. Alone(p)'
    BY <1>1, <1>2, <2>2, <2>3, <2>4 DEF Alone, Copying
  <2>6. CleanFiles'
    BY <1>1, <1>2, <2>2, <2>4 DEF CleanFiles, ParentPresent
  <2>7. CleanOK(p)'
    BY <2>3, <2>4 DEF CleanOK, Copying
  <2> QED
    BY <1>1, <2>3, <2>5, <2>6, <2>7, CleanWorks
<1>5. CASE WriteStage(p)
  <2>1. /\ stageFile' = b /\ stageDir' = stageDir /\ pc[p] = "stageDesc"
        /\ StageDone(p, "verify")
    BY <1>5 DEF WriteStage
  <2>2. Others(p) /\ pc'[p] \in {"verify", "idle"}
    BY <1>1, <2>1, StageDoneEffect
  <2>3. Alone(p)'
    BY <1>1, <1>2, <2>1, <2>2 DEF Alone, Copying
  <2>4. CleanFiles'
    BY <1>1, <1>2, <2>1 DEF CleanFiles, ParentPresent, CleanOK
  <2>5. CleanOK(p)'
    BY <2>2, CleanOutside DEF CleanPCs, Copying
  <2> QED
    BY <1>1, <2>2, <2>3, <2>4, <2>5, CleanWorks
<1> QED
  BY <1>3, <1>4, <1>5

\* The kernel runs on whole copies; if it accepts every bundle it accepts these.
LEMMA CleanKernel ==
  ASSUME EngineInv, CleanInv, crashes = 0, NEW p \in Procs,
         VerifyStaged(p) \/ RunKernel(p) \/ CanaryStaged(p)
  PROVE  CleanInv'
<1> USE DEF Copying
<1>1. /\ Busy(p) /\ pc[p] \in {"verify", "kernel", "canary"}
      /\ Exclusive /\ TypeInv
      /\ loc[p] \in Locals
  BY DEF VerifyStaged, RunKernel, CanaryStaged, Busy, EngineInv, TypeInv, TypeOK,
         ProcessesOK
<1>2. Alone(p) /\ CleanFiles /\ CleanOK(p)
  BY <1>1, CleanAlone
<1>3. CASE VerifyStaged(p) \/ CanaryStaged(p)
  <2>1. UNCHANGED dirs
    BY <1>3 DEF VerifyStaged, CanaryStaged, stage, store, dirs
  <2>2. Others(p) /\ CleanOK(p)'
    <3>1. ASSUME NEW code, Finish(p, code)
          PROVE  Others(p) /\ CleanOK(p)'
      BY <1>1, <3>1, FinishEffect, CleanOutside DEF CleanPCs
    <3>2. CASE VerifyStaged(p)
      <4> DEFINE l == [loc[p] EXCEPT !.bundle = stageFile]
      <4>1. l.bundle = stageFile
        BY <1>1, LocalsFields
      <4>2. \/ \E code : Finish(p, code)
            \/ /\ stageFile # Absent /\ ParentPresent(stageFile)
               /\ Advance(p, "kernel", l)
        BY <3>2 DEF VerifyStaged
      <4> HIDE DEF l
      <4>3. CASE /\ stageFile # Absent /\ ParentPresent(stageFile)
                 /\ Advance(p, "kernel", l)
        <5>1. Others(p) /\ pc'[p] = "kernel" /\ loc'[p] = l
          BY <1>1, <4>3, AdvanceEffect
        <5>2. stageDir[stageFile] = "copied"
          BY <1>2, <4>3 DEF CleanFiles
        <5> QED
          BY <2>1, <4>1, <4>3, <5>1, <5>2 DEF CleanOK, ParentPresent, dirs
      <4> QED
        BY <3>1, <4>2, <4>3
    <3>3. CASE CanaryStaged(p)
      <4>1. (\E code : Finish(p, code)) \/ StageDone(p, "commit")
        BY <3>3 DEF CanaryStaged
      <4>2. CASE StageDone(p, "commit")
        <5>1. Others(p) /\ pc'[p] \in {"commit", "idle"}
          BY <1>1, <4>2, StageDoneEffect
        <5>2. pc[p] = "canary"
          BY <3>3 DEF CanaryStaged
        <5> QED
          BY <1>2, <2>1, <5>1, <5>2 DEF CleanOK, dirs
      <4> QED
        BY <3>1, <4>1, <4>2
    <3> QED
      BY <1>3, <3>2, <3>3
  <2> QED
    BY <1>1, <2>1, <2>2, CleanQuiet
<1>4. CASE RunKernel(p)
  <2> DEFINE b  == loc[p].bundle
             ok == KernelAccepts(b, stageDir[b])
  <2>1. /\ pc[p] = "kernel"
        /\ UNCHANGED <<stageDir, stageFile, stored, receipts>>
        /\ receiptFile'.verdict = IF ok THEN "valid" ELSE "invalid"
        /\ IF ok THEN StageDone(p, "canary") ELSE Finish(p, "invalid")
    BY <1>4 DEF RunKernel, store
  <2>2. Valid = Bundles => ok
    <3>1. /\ b \in Bundles /\ Parent[b] \in Bundles \cup {Null}
          /\ stored \in [Bundles -> CopyState]
      BY <1>1, <2>1, BundlesAssumption DEF TypeInv, TypeOK, FilesOK, WorkOK, Working
    <3>2. stageDir[b] = "copied" /\ ParentPresent(b)
      BY <1>2, <2>1 DEF CleanOK
    <3>3. Parent[b] # Null => stored[Parent[b]] = "copied"
      BY <1>2, <2>1, <3>1, <3>2 DEF Alone, ParentPresent, CopyState
    <3> QED
      BY <3>1, <3>2, <3>3 DEF KernelAccepts
  <2>3. /\ Others(p)
        /\ \/ pc'[p] = "idle"
           \/ pc'[p] = "canary" /\ ok
    BY <1>1, <2>1, FinishEffect, StageDoneEffect
  <2> HIDE DEF b, ok
  <2>4. Alone(p)'
    BY <1>2, <2>1, <2>3 DEF Alone
  <2>5. CleanFiles'
    BY <1>2, <2>1, <2>2 DEF CleanFiles, ParentPresent
  <2>6. CleanOK(p)'
    BY <2>1, <2>3 DEF CleanOK
  <2> QED
    BY <1>1, <2>3, <2>4, <2>5, <2>6, CleanWorks
<1> QED
  BY <1>3, <1>4

\* A commit takes up a whole copy with a verdict that is valid, on a parent that
\* is in the store.
LEMMA CleanCommit ==
  ASSUME Trusted, EngineInv, CleanInv, crashes = 0, NEW p \in Procs,
         CommitStaged(p) \/ CheckParent(p)
  PROVE  CleanInv'
<1> USE DEF Copying
<1>1. /\ Busy(p) /\ pc[p] \in {"commit", "parent"}
      /\ Exclusive /\ TypeInv
      /\ loc[p] \in Locals /\ active \in BundleOrAbsent
      /\ UNCHANGED dirs
  BY DEF CommitStaged, CheckParent, Busy, EngineInv, TypeInv, TypeOK, FilesOK,
         ProcessesOK, stage, store, dirs
<1>2. Alone(p) /\ CleanFiles /\ CleanOK(p)
  BY <1>1, CleanAlone
<1>3. ASSUME NEW code, Finish(p, code)
      PROVE  Others(p) /\ CleanOK(p)'
  BY <1>1, <1>3, FinishEffect, CleanOutside DEF CleanPCs
<1>4. CASE CommitStaged(p)
  <2> DEFINE l == [loc[p] EXCEPT !.bundle = stageFile,
                                 !.verdict = receiptFile.verdict]
  <2>1. l.verdict = receiptFile.verdict /\ l.bundle = stageFile
    BY <1>1, LocalsVerdict, LocalsFields
  <2>2. \/ Finish(p, "error")
        \/ /\ Advance(p, "parent", l)
           /\ pc[p] = "commit" /\ stageFile # Absent /\ receiptFile # Absent
    BY <1>4 DEF CommitStaged
  <2> HIDE DEF l
  <2>3. CASE /\ Advance(p, "parent", l)
             /\ pc[p] = "commit" /\ stageFile # Absent /\ receiptFile # Absent
    <3>1. Others(p) /\ pc'[p] = "parent" /\ loc'[p] = l
      BY <1>1, <2>3, AdvanceEffect
    <3>2. stageDir[stageFile] = "copied" /\ receiptFile.verdict = "valid"
      BY <1>2, <2>3 DEF CleanFiles, CleanOK, Trusted
    <3>3. CleanOK(p)'
      BY <1>1, <2>1, <3>1, <3>2 DEF CleanOK, dirs
    <3> QED
      BY <1>1, <3>1, <3>3, CleanQuiet
  <2> QED
    BY <1>1, <1>3, <2>2, <2>3, CleanQuiet
<1>5. CASE CheckParent(p)
  <2> DEFINE old == IF active = Absent THEN Null ELSE active
             l   == [loc[p] EXCEPT !.old = old, !.action = "COMMIT"]
  <2>1. l.bundle = loc[p].bundle /\ l.verdict = loc[p].verdict
    BY <1>1, LocalsFields, LocalsVerdict
  <2>2. \/ Finish(p, "invalid")
        \/ Advance(p, "store", l) /\ pc[p] = "parent" /\ old = Parent[loc[p].bundle]
    BY <1>5 DEF CheckParent
  <2> HIDE DEF l
  <2>3. CASE Advance(p, "store", l) /\ pc[p] = "parent" /\ old = Parent[loc[p].bundle]
    <3>1. Others(p) /\ pc'[p] = "store" /\ loc'[p] = l
      BY <1>1, <2>3, AdvanceEffect
    <3>2. stageDir[loc[p].bundle] = "copied" /\ loc[p].verdict = "valid"
      BY <1>2, <2>3 DEF CleanOK
    <3>3. active \in Bundles => stored[active] # "none"
      BY DEF EngineInv, StoreInv, PointersInStore
    <3>4. ParentPresent(loc[p].bundle)
      BY <1>1, <2>3, <3>3 DEF ParentPresent, BundleOrAbsent
    <3>5. CleanOK(p)'
      BY <1>1, <2>1, <3>1, <3>2, <3>4 DEF CleanOK, ParentPresent, dirs
    <3> QED
      BY <1>1, <3>1, <3>5, CleanQuiet
  <2> QED
    BY <1>1, <1>3, <2>2, <2>3, CleanQuiet
<1> QED
  BY <1>4, <1>5

\* The store gets the whole copy and after it the valid receipt.
LEMMA CleanStore ==
  ASSUME EngineInv, CleanInv, crashes = 0, NEW p \in Procs,
         StoreBundle(p) \/ StoreCopy(p) \/ StoreReceipt(p)
  PROVE  CleanInv'
<1> DEFINE b == loc[p].bundle
<1> USE DEF Copying
<1>1. /\ Busy(p) /\ pc[p] \in {"store", "storeCopy", "storeReceipt"}
      /\ Exclusive /\ TypeInv /\ b \in Bundles
      /\ UNCHANGED <<stageDir, stageFile, receiptFile>>
      /\ stored \in [Bundles -> CopyState] /\ receipts \in [Bundles -> Verdict]
  BY DEF StoreBundle, StoreCopy, StoreReceipt, Busy, EngineInv, TypeInv, TypeOK,
         FilesOK, WorkOK, Working, stage
<1>2. Alone(p) /\ CleanFiles /\ CleanOK(p)
  BY <1>1, CleanAlone
<1>3. /\ ParentPresent(b) /\ loc[p].verdict = "valid"
      /\ \A c \in Bundles : stageDir'[c] # "partial"
  BY <1>1, <1>2 DEF CleanOK, Alone
<1>4. \A c \in Bundles : stored[c] # "none" => stored'[c] # "none"
  <2>1. stageDir[b] = "copied" \/ ~StoreCopy(p)
    BY <1>2 DEF CleanOK, StoreCopy
  <2> QED
    BY <1>1, <2>1 DEF StoreBundle, StoreCopy, StoreReceipt
<1>5. ASSUME NEW c \in Bundles, ParentPresent(c)
      PROVE  ParentPresent(c)'
  BY <1>4, <1>5, BundlesAssumption DEF ParentPresent
<1>6. CleanFiles'
  <2>1. \A c \in Bundles : receipts'[c] # "invalid"
    <3>1. receipts' = receipts \/ receipts' = [receipts EXCEPT ![b] = "valid"]
      BY <1>3 DEF StoreBundle, StoreCopy, StoreReceipt
    <3> QED
      BY <1>1, <1>2, <3>1 DEF CleanFiles
  <2>2. ASSUME NEW c \in Bundles, stored'[c] # "none"
        PROVE  ParentPresent(c)'
    <3>1. c # b => stored'[c] = stored[c]
      BY <1>1 DEF StoreBundle, StoreCopy, StoreReceipt
    <3>2. c = b \/ ParentPresent(c)
      BY <1>2, <2>2, <3>1 DEF CleanFiles
    <3> QED
      BY <1>3, <1>5, <3>2
  <2> QED
    BY <1>1, <1>2, <2>1, <2>2 DEF CleanFiles
<1>7. CASE StoreBundle(p)
  <2>1. /\ pc[p] = "store" /\ receipts' = receipts
        /\ \/ /\ stored[b] = "none" /\ stored' = [stored EXCEPT ![b] = "partial"]
              /\ Advance(p, "storeCopy", loc[p])
           \/ /\ stored[b] # "none" /\ stored' = stored
              /\ Advance(p, "prev", loc[p])
    BY <1>7 DEF StoreBundle
  <2>2. /\ Others(p) /\ loc'[p] = loc[p]
        /\ pc'[p] = IF stored[b] = "none" THEN "storeCopy" ELSE "prev"
    BY <1>1, <2>1, AdvanceEffect
  <2>3. \A c \in Bundles : stored[c] # "partial" /\ (stored[c] # "none" => receipts[c] # "none")
    BY <1>2, <2>1 DEF Alone
  <2>4. Alone(p)'
    <3>1. ASSUME NEW c \in Bundles, stored'[c] # stored[c]
          PROVE  pc'[p] = "storeCopy" /\ loc'[p].bundle = c
      BY <1>1, <2>1, <2>2, <3>1
    <3> QED
      BY <1>3, <2>1, <2>3, <3>1 DEF Alone
  <2>5. CleanOK(p)'
    BY <1>1, <1>2, <1>3, <1>5, <2>1, <2>2 DEF CleanOK
  <2> QED
    BY <1>1, <1>6, <2>2, <2>4, <2>5, CleanWorks
<1>8. CASE StoreCopy(p)
  <2>1. /\ pc[p] = "storeCopy" /\ receipts' = receipts
        /\ stored' = [stored EXCEPT ![b] = stageDir[b]]
        /\ Advance(p, "storeReceipt", loc[p])
    BY <1>8 DEF StoreCopy
  <2>2. Others(p) /\ loc'[p] = loc[p] /\ pc'[p] = "storeReceipt"
    BY <1>1, <2>1, AdvanceEffect
  <2>3. stored'[b] = "copied" /\ \A c \in Bundles \ {b} : stored'[c] = stored[c]
    BY <1>1, <1>2, <2>1 DEF CleanOK
  <2>4. Alone(p)'
    BY <1>2, <1>3, <2>1, <2>2, <2>3 DEF Alone
  <2>5. CleanOK(p)'
    BY <1>1, <1>3, <1>5, <2>2 DEF CleanOK
  <2> QED
    BY <1>1, <1>6, <2>2, <2>4, <2>5, CleanWorks
<1>9. CASE StoreReceipt(p)
  <2>1. /\ pc[p] = "storeReceipt" /\ stored' = stored
        /\ receipts' = [receipts EXCEPT ![b] = "valid"]
        /\ Advance(p, "prev", loc[p])
    BY <1>3, <1>9 DEF StoreReceipt
  <2>2. Others(p) /\ pc'[p] = "prev"
    BY <1>1, <2>1, AdvanceEffect
  <2>3. receipts'[b] = "valid" /\ \A c \in Bundles \ {b} : receipts'[c] = receipts[c]
    BY <1>1, <2>1
  <2>4. Alone(p)'
    BY <1>2, <1>3, <2>1, <2>3 DEF Alone
  <2>5. CleanOK(p)'
    BY <2>2, CleanOutside DEF CleanPCs
  <2> QED
    BY <1>1, <1>6, <2>2, <2>4, <2>5, CleanWorks
<1> QED
  BY <1>7, <1>8, <1>9

\* A process that lives does not count as a death.
LEMMA CrashesStay ==
  ASSUME NEW p \in Procs, Run(p)
  PROVE  crashes' = crashes
<1> USE DEF Advance, Finish, StageDone, control
<1>1. CASE Acquire(p) \/ StageStep(p)
  BY <1>1 DEF Acquire, StageStep, StageReject, StageBundle, StageCopy, WriteStage
<1>2. CASE VerifyStep(p) \/ UpgradeStep(p)
  BY <1>2 DEF VerifyStep, VerifyStaged, RunKernel, CanaryStaged, UpgradeStep, NotReady,
              Ready, Announce
<1>3. CASE CommitStep(p) \/ RollbackStep(p)
  BY <1>3 DEF CommitStep, CommitStaged, CheckParent, StoreBundle, StoreCopy,
              StoreReceipt, RollbackStep, RollbackActive, RollbackTarget, ReadReceipt
<1>4. CASE SwapStep(p) \/ LedgerStep(p)
  BY <1>4 DEF SwapStep, WritePrev, WriteActive, WriteNext, LedgerStep, ReadLastEntry,
              ReadLedger, PublishEntry
<1>5. CASE AuditStep(p)
  BY <1>5 DEF AuditStep, AuditActive, AuditNext, AuditStore, AuditLedger
<1> QED
  BY <1>1, <1>2, <1>3, <1>4, <1>5 DEF Run

\* Every step keeps it: a death ends what it speaks of.
LEMMA CleanNext ==
  ASSUME Trusted, EngineInv, CleanInv, [Next]_vars
  PROVE  CleanInv'
<1>1. SUFFICES ASSUME crashes' = 0
               PROVE  CleanInv'
  BY DEF CleanInv
<1>2. CASE UNCHANGED vars
  BY <1>2 DEF vars, stage, store, CleanInv, CopiesCompleted, CleanFiles, ReceiptsKept,
              CleanOK, ParentPresent
<1>3. crashes \in Nat
  BY DEF EngineInv, TypeInv, TypeOK, ProcessesOK
<1>4. ASSUME NEW p \in Procs
      PROVE  ~Die(p)
  BY <1>1, <1>3 DEF Die
<1>5. ASSUME NEW p \in Procs,
             (\E c \in EnabledCommands, b \in BundleOrAbsent : Start(p, c, b)) \/ Run(p)
      PROVE  CleanInv'
  <2>1. crashes = 0
    BY <1>1, <1>5, CrashesStay DEF Start, EngineInv
  <2> QED
    BY <1>5, <2>1, CleanEnvironment, CleanQuietSteps, CleanStage, CleanKernel,
       CleanCommit, CleanStore DEF Run, StageStep, VerifyStep, CommitStep
<1> QED
  BY <1>2, <1>4, <1>5 DEF Next

LEMMA CleanInit == Init => CleanInv
BY BundlesAssumption
   DEF Init, Fresh, Seeded, Shipped, InitFiles, CleanInv, CopiesCompleted, CleanFiles,
       ReceiptsKept, CleanOK, ParentPresent, Copying

----------------------------------------------------------------------------
(* Between commands the active bundle passes the audit                     *)

\* All that holds of commands one after the other.
LEMMA EngineInvariant ==
  ASSUME Serialized
  PROVE  Spec => []EngineInv
<1>1. Init => SuccessInv
  BY DEF Init, SuccessInv, SuccessOK, StagePCs, AuditPCs, SwapPCs, Swapped
<1>2. Init => AcceptInv
  BY BundlesAssumption
     DEF Init, Fresh, Seeded, Shipped, InitFiles, AcceptInv, OnlyAcceptedActive,
         AcceptOK, SettingUp
<1>3. (OnlyLocked => AcceptInv) /\ TypeInv /\ Exclusive /\ [Next]_vars
        => (OnlyLocked => AcceptInv')
  BY AcceptNext
<1>4. (OnlyLocked => AcceptInv)' <=> (OnlyLocked => AcceptInv')
  BY DEF OnlyLocked, LockedCommands
<1>5. (OnlyLocked => AcceptInv) /\ TypeInv /\ Exclusive /\ [Next]_vars
        => (OnlyLocked => AcceptInv)'
  BY <1>3, <1>4
<1> QED
  BY <1>1, <1>2, <1>5, StoreInit, StoreNext, LedgerInit, LedgerNext, SuccessNext,
     ExclusiveInvariant, PTL DEF Spec, EngineInv

LEMMA CleanInvariant ==
  ASSUME Serialized, Trusted
  PROVE  Spec => [](EngineInv /\ CleanInv)
<1>1. EngineInv /\ CleanInv /\ [Next]_vars => CleanInv'
  BY CleanNext
<1> QED
  BY <1>1, CleanInit, EngineInvariant, PTL DEF Spec

\* Commands that do not overlap and do not die leave an active bundle that passes
\* an audit: its copy, its receipt and its parent are complete in the store, if
\* the kernel accepts every bundle or only apply commits one.
THEOREM AuditableBetweenCommands ==
  ASSUME Serialized, Trusted, MaxCrashes = 0
  PROVE  Spec => []ActiveAuditable
<1>1. Init => crashes = 0
  BY DEF Init
<1>2. EngineInv /\ crashes = 0 /\ [Next]_vars => (crashes = 0)'
  <2>1. EngineInv => crashes \in Nat
    BY DEF EngineInv, TypeInv, TypeOK, ProcessesOK
  <2> QED
    BY <2>1, CrashesStay DEF Next, Start, Die, vars
<1>3. EngineInv /\ CleanInv /\ crashes = 0 => ActiveAuditable
  <2>1. SUFFICES ASSUME EngineInv, CleanInv, crashes = 0, Quiescent, active # Absent
                 PROVE  /\ receipts[active] = "valid"
                        /\ ParentPresent(active)
                        /\ KernelAccepts(active, stored[active])
                        /\ ValidChain(ledger)
    BY DEF ActiveAuditable
  <2>2. /\ active \in Bundles
        /\ stored \in [Bundles -> CopyState] /\ receipts \in [Bundles -> Verdict]
    BY <2>1 DEF EngineInv, TypeInv, TypeOK, FilesOK, BundleOrAbsent
  <2>3. \A b \in Bundles : stored[b] # "partial" /\ (stored[b] # "none" => receipts[b] # "none")
    BY <2>1 DEF CleanInv, CopiesCompleted, ReceiptsKept, Quiescent, Copying
  <2>4. stored[active] = "copied" /\ ParentPresent(active) /\ receipts[active] = "valid"
    <3>1. stored[active] # "none"
      BY <2>1, <2>2 DEF EngineInv, StoreInv, PointersInStore
    <3> QED
      BY <2>1, <2>2, <2>3, <3>1 DEF CleanInv, CleanFiles, CopyState, Verdict
  <2>5. active \in Valid
    BY <2>1, <2>2 DEF Trusted, EngineInv, AcceptInv, OnlyAcceptedActive
  <2>6. Parent[active] = Null \/ stored[Parent[active]] = "copied"
    BY <2>2, <2>3, <2>4, BundlesAssumption DEF ParentPresent, CopyState
  <2>7. ValidChain(ledger)
    BY <2>1 DEF EngineInv, LedgerInv, LedgerChainValid
  <2> QED
    BY <2>4, <2>5, <2>6, <2>7 DEF KernelAccepts
<1> QED
  BY <1>1, <1>2, <1>3, CleanInvariant, PTL DEF Spec

----------------------------------------------------------------------------
(* No audit finds fault while the others work                              *)

\* ACTIVE_NEXT_BUNDLE is the active bundle but between two pointer writes.
NextAgrees == (\A p \in Procs : pc[p] # "next") => activeNext \in {Absent, active}

\* An audit does nothing else, and the bundle it has read stays active.
AlarmOK(p) ==
  /\ cmd[p] = "audit" => pc[p] \in {"idle", "lock"} \cup AuditPCs
  /\ pc[p] \in AuditPCs \ {"audit"} => active = loc[p].bundle /\ active # Absent

AlarmInv == (crashes = 0 => NextAgrees) /\ \A p \in Procs : AlarmOK(p)

\* Which steps a process takes in an audit and behind the swap of the pointer.
LEMMA StepsAt ==
  ASSUME NEW p \in Procs, Run(p), ~Acquire(p)
  PROVE  /\ pc[p] \in {"idle", "lock"} \cup AuditPCs => AuditStep(p)
         /\ pc[p] = "next" => WriteNext(p)
<1> USE DEF AuditPCs
<1>1. CASE StageStep(p)
  BY <1>1 DEF StageStep, StageReject, StageBundle, StageCopy, WriteStage
<1>2. CASE VerifyStep(p) \/ UpgradeStep(p)
  BY <1>2 DEF VerifyStep, VerifyStaged, RunKernel, CanaryStaged, UpgradeStep, NotReady,
              Ready, Announce
<1>3. CASE CommitStep(p) \/ RollbackStep(p)
  BY <1>3 DEF CommitStep, CommitStaged, CheckParent, StoreBundle, StoreCopy,
              StoreReceipt, RollbackStep, RollbackActive, RollbackTarget, ReadReceipt
<1>4. CASE SwapStep(p) \/ LedgerStep(p)
  BY <1>4 DEF SwapStep, WritePrev, WriteActive, WriteNext, LedgerStep, ReadLastEntry,
              ReadLedger, PublishEntry
<1>5. CASE AuditStep(p)
  BY <1>5 DEF AuditStep, AuditActive, AuditNext, AuditStore, AuditLedger
<1> QED
  BY <1>1, <1>2, <1>3, <1>4, <1>5 DEF Run

\* The process that moves keeps what it knows.
LEMMA AlarmOwn ==
  ASSUME TypeInv, AlarmInv, SuccessInv', NEW p \in Procs, Run(p), ~Acquire(p)
  PROVE  AlarmOK(p)'
<1>1. AlarmOK(p) /\ loc[p] \in Locals
  BY DEF AlarmInv, TypeInv, TypeOK, ProcessesOK
<1>2. CASE AuditStep(p)
  <2>1. active' = active
    BY <1>2 DEF AuditStep, AuditActive, AuditNext, AuditStore, AuditLedger, pointers
  <2>2. ASSUME NEW code, Finish(p, code)
        PROVE  AlarmOK(p)'
    BY <2>2, FinishEffect DEF AlarmOK, AuditPCs
  <2>3. CASE AuditActive(p)
    <3> DEFINE l == [loc[p] EXCEPT !.bundle = active]
    <3>1. l.bundle = active
      BY <1>1, LocalsFields
    <3>2. Finish(p, "invalid") \/ (active # Absent /\ Advance(p, "auditNext", l))
      BY <2>3 DEF AuditActive
    <3> HIDE DEF l
    <3> QED
      BY <2>1, <2>2, <3>1, <3>2, AdvanceEffect DEF AlarmOK, AuditPCs
  <2>4. CASE ~AuditActive(p)
    <3>1. \/ \E code : Finish(p, code)
          \/ /\ pc[p] \in AuditPCs \ {"audit"}
             /\ \E n \in {"auditStore", "auditLedger"} : Advance(p, n, loc[p])
      BY <1>2, <2>4 DEF AuditStep, AuditNext, AuditStore, AuditLedger, AuditPCs
    <3> QED
      BY <1>1, <2>1, <2>2, <3>1, AdvanceEffect DEF AlarmOK, AuditPCs
  <2> QED
    BY <2>3, <2>4
<1>3. CASE ~AuditStep(p)
  <2>1. pc'[p] = "idle" \/ (cmd'[p] = cmd[p] /\ cmd[p] # "audit")
    BY <1>1, <1>3, StepsAt, RunEffect DEF AlarmOK
  <2>2. pc'[p] \in AuditPCs => cmd'[p] = "audit"
    BY DEF SuccessInv, SuccessOK
  <2> QED
    BY <2>1, <2>2 DEF AlarmOK, AuditPCs
<1> QED
  BY <1>2, <1>3

\* No upgrade announces a bundle, so only the swap separates the two pointers.
LEMMA AlarmPointers ==
  ASSUME OnlyLocked, EngineInv, NextAgrees, NEW p \in Procs, Run(p), ~Acquire(p)
  PROVE  NextAgrees'
<1>1. Busy(p) /\ Others(p) /\ ~Announce(p) /\ SuccessOK(p)
  BY RunEffect DEF EngineInv, AcceptInv, AcceptOK, Announce, SuccessInv
<1>2. CASE WriteActive(p)
  <2>1. pc'[p] = "next"
    BY <1>2, AdvanceEffect DEF WriteActive, EngineInv
  <2> QED
    BY <2>1 DEF NextAgrees
<1>3. CASE WriteNext(p)
  BY <1>1, <1>3 DEF WriteNext, SuccessOK, NextAgrees
<1>4. CASE ~WriteActive(p) /\ ~WriteNext(p)
  <2>1. active' = active /\ activeNext' = activeNext
    BY <1>1, <1>4, FilesStill DEF Pointing, SwapStep, WritePrev, PublishEntry, pointers
  <2>2. pc[p] # "next"
    BY <1>4, StepsAt
  <2>3. \A q \in Procs : pc[q] = "next" => pc'[q] = "next"
    BY <1>1, <2>2 DEF Others
  <2> QED
    BY <2>1, <2>3 DEF NextAgrees
<1> QED
  BY <1>2, <1>3, <1>4

\* Every step of every process keeps it, if all commands take the lock.
LEMMA AlarmNext ==
  ASSUME OnlyLocked, EngineInv, EngineInv', AlarmInv, [Next]_vars
  PROVE  AlarmInv'
<1> USE DEF EngineInv
<1>1. CASE UNCHANGED vars
  BY <1>1 DEF vars, pointers, AlarmInv, NextAgrees, AlarmOK
<1>2. crashes \in Nat
  BY DEF TypeInv, TypeOK, ProcessesOK
<1>3. ASSUME NEW p \in Procs, Others(p), active' = active \/ Busy(p), AlarmOK(p)'
      PROVE  \A q \in Procs : AlarmOK(q)'
  <2>1. SUFFICES ASSUME NEW q \in Procs \ {p}
                 PROVE  AlarmOK(q)'
    BY <1>3
  <2>2. pc'[q] = pc[q] /\ cmd'[q] = cmd[q] /\ loc'[q] = loc[q] /\ AlarmOK(q)
    BY <1>3 DEF Others, AlarmInv
  <2>3. active' = active \/ pc[q] \notin AuditPCs
    BY <1>3 DEF Exclusive, Busy, AuditPCs
  <2> QED
    BY <2>2, <2>3 DEF AlarmOK
<1>4. ASSUME NEW p \in Procs,
             \/ \E c \in EnabledCommands, b \in BundleOrAbsent : Start(p, c, b)
             \/ Acquire(p)
      PROVE  AlarmInv'
  <2>1. /\ Others(p) /\ UNCHANGED <<active, activeNext, crashes>>
        /\ pc[p] \in {"idle", "lock"} /\ pc'[p] \in {"lock", "stage", "audit"}
        /\ cmd'[p] = "audit" => pc'[p] \in {"lock", "audit"}
    <3>1. ASSUME NEW c \in EnabledCommands, NEW b \in BundleOrAbsent, Start(p, c, b)
          PROVE  pc'[p] = "lock" /\ Others(p)
      <4>1. c \in LockedCommands
        BY DEF OnlyLocked
      <4>2. Entrance(c) = "lock"
        BY <4>1 DEF Entrance, LockedCommands
      <4> QED
        BY <3>1, <4>2, EnvironmentEffect
    <3>2. CASE Acquire(p)
      <4>1. pc'[p] = IF cmd[p] = "apply" THEN "stage" ELSE "audit"
        BY <3>2 DEF Acquire, TypeInv, TypeOK, ProcessesOK
      <4> QED
        BY <3>2, <4>1, EnvironmentEffect DEF Acquire, pointers
    <3> QED
      BY <1>4, <3>1, <3>2 DEF Start, pointers
  <2>2. AlarmOK(p)'
    BY <2>1 DEF AlarmOK, AuditPCs
  <2>3. NextAgrees => NextAgrees'
    BY <2>1 DEF NextAgrees, Others
  <2> QED
    BY <1>3, <2>1, <2>2, <2>3 DEF AlarmInv
<1>5. ASSUME NEW p \in Procs, Die(p)
      PROVE  AlarmInv'
  <2>1. Others(p) /\ pc'[p] = "idle" /\ active' = active
    BY <1>5, EnvironmentEffect DEF Die, pointers
  <2>2. AlarmOK(p)'
    BY <2>1 DEF AlarmOK, AuditPCs
  <2>3. crashes' # 0
    BY <1>2, <1>5 DEF Die
  <2> QED
    BY <1>3, <2>1, <2>2, <2>3 DEF AlarmInv
<1>6. ASSUME NEW p \in Procs, Run(p), ~Acquire(p)
      PROVE  AlarmInv'
  <2>1. crashes' = crashes /\ Others(p) /\ Busy(p)
    BY <1>6, CrashesStay, RunEffect
  <2> QED
    BY <1>3, <1>6, <2>1, AlarmOwn, AlarmPointers DEF AlarmInv
<1> QED
  BY <1>1, <1>4, <1>5, <1>6 DEF Next

\* An audit that looks at an active bundle where nobody has died passes.
LEMMA AuditPasses ==
  ASSUME OnlyLocked, EngineInv, CleanInv, AlarmInv, crashes = 0, active # Absent,
         NEW p \in Procs, AuditStep(p), NEW code \in {"invalid", "error"}
  PROVE  ~Exits(p, code)
<1>1. /\ Busy(p) /\ pc[p] \in AuditPCs /\ Exclusive /\ TypeInv
      /\ active \in Bundles
      /\ stored \in [Bundles -> CopyState] /\ receipts \in [Bundles -> Verdict]
  BY DEF AuditStep, AuditActive, AuditNext, AuditStore, AuditLedger, Busy, AuditPCs,
         EngineInv, TypeInv, TypeOK, FilesOK, BundleOrAbsent
<1>2. /\ Alone(p) /\ CleanFiles
      /\ pc[p] # "audit" => active = loc[p].bundle
      /\ activeNext \in {Absent, active}
  <2>1. \A q \in Procs : pc[q] # "next"
    BY <1>1 DEF Exclusive, Busy, AuditPCs
  <2> QED
    BY <1>1, <2>1, CleanAlone DEF AlarmInv, AlarmOK, NextAgrees
<1>3. /\ receipts[active] = "valid" /\ ParentPresent(active)
      /\ KernelAccepts(active, stored[active])
  <2>1. \A b \in Bundles : stored[b] # "partial" /\ (stored[b] # "none" => receipts[b] # "none")
    BY <1>1, <1>2 DEF Alone, Copying, AuditPCs
  <2>2. stored[active] # "none" /\ active \in Valid
    BY <1>1 DEF EngineInv, StoreInv, PointersInStore, AcceptInv, OnlyAcceptedActive
  <2>3. stored[active] = "copied" /\ ParentPresent(active) /\ receipts[active] = "valid"
    BY <1>1, <1>2, <2>1, <2>2 DEF CleanFiles, CopyState, Verdict
  <2>4. Parent[active] = Null \/ stored[Parent[active]] = "copied"
    BY <1>1, <2>1, <2>3, BundlesAssumption DEF ParentPresent, CopyState
  <2> QED
    BY <2>2, <2>3, <2>4 DEF KernelAccepts
<1>4. ValidChain(ledger)
  BY DEF EngineInv, LedgerInv, LedgerChainValid
<1>5. \/ Finish(p, "ok")
      \/ \E n \in {"auditNext", "auditStore", "auditLedger"} : \E l : Advance(p, n, l)
  BY <1>2, <1>3, <1>4
     DEF AuditStep, AuditActive, AuditNext, AuditStore, AuditLedger
<1>6. CASE Finish(p, "ok")
  BY <1>1, <1>6 DEF Finish, Exits, TypeInv, TypeOK, ProcessesOK
<1> QED
  BY <1>1, <1>5, <1>6, AdvanceEffect DEF Exits

\* Where every command takes the lock, an audit reports a fault only before the
\* first activation or after a process has died: it waits until the apply that
\* is writing pointers and ledger is done.
THEOREM NoFalseAlarm ==
  ASSUME OnlyLocked
  PROVE  Spec => AuditNoFalseAlarm
<1> DEFINE Alarm ==
      \A p \in Procs :
        (cmd[p] = "audit" /\ \E code \in {"invalid", "error"} : Exits(p, code)) =>
          active = Absent \/ crashes > 0
<1>1. Serialized /\ Trusted
  BY DEF OnlyLocked, Serialized, Trusted
<1>2. Init => AlarmInv
  BY DEF Init, Fresh, Seeded, Shipped, InitFiles, AlarmInv, NextAgrees, AlarmOK,
         AuditPCs
<1>3. ASSUME EngineInv, CleanInv, AlarmInv, [Next]_vars
      PROVE  [Alarm]_vars
  <2>1. SUFFICES ASSUME Next, NEW p \in Procs, cmd[p] = "audit", active # Absent,
                        NEW code \in {"invalid", "error"}, Exits(p, code)
                 PROVE  crashes > 0
    BY <1>3 DEF Exits
  <2>2. crashes \in Nat /\ result \in [Procs -> {"none", "ok", "invalid", "error", "died"}]
    BY <1>3 DEF EngineInv, TypeInv, TypeOK, ProcessesOK
  <2>3. PICK q \in Procs :
          \/ \E c \in EnabledCommands, b \in BundleOrAbsent : Start(q, c, b)
          \/ Run(q) \/ Die(q)
    BY <2>1 DEF Next
  <2>4. TypeInv
    BY <1>3 DEF EngineInv
  <2>5. q = p
    BY <2>1, <2>3, <2>4, EnvironmentEffect, RunEffect DEF Exits, Others
  <2>6. ~Die(p) /\ ~Acquire(p)
    BY <2>1, <2>2, <2>4, EnvironmentEffect DEF Die, Exits
  <2>7. Run(p)
    BY <2>1, <2>3, <2>5, <2>6 DEF Exits, Start
  <2>8. AuditStep(p)
    BY <1>3, <2>6, <2>7, <2>1, StepsAt DEF AlarmInv, AlarmOK
  <2> QED
    BY <1>3, <2>1, <2>2, <2>8, AuditPasses
<1>4. EngineInv /\ EngineInv' /\ AlarmInv /\ [Next]_vars => AlarmInv'
  BY AlarmNext
<1> QED
  BY <1>1, <1>2, <1>3, <1>4, CleanInvariant, PTL DEF Spec, AuditNoFalseAlarm
=============================================================================
