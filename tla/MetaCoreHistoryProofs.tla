----------------------- MODULE MetaCoreHistoryProofs -----------------------
(***************************************************************************)
(* Proofs about what the commands of the engine achieve: which bundles     *)
(* become active, what a successful command leaves behind, and that an     *)
(* undisturbed engine implements the atomic history of ActivationHistory.  *)
(***************************************************************************)
EXTENDS MetaCoreProofs, SequenceTheorems

----------------------------------------------------------------------------
(* Which bundles become active                                             *)

\* No command comes without the lock: there are only apply and audit.
OnlyLocked == EnabledCommands \subseteq LockedCommands

Accepted(b) == b \in Valid /\ Parent[b] \in Valid \cup {Null}

SettingUp == {"store", "storeCopy", "storeReceipt", "prev", "active"}

\* What a process knows of the bundle it is about to activate.
AcceptOK(p) ==
  /\ pc[p] \notin {"readiness", "announce", "rollback", "target"}
  /\ pc[p] = "commit" => stageFile \in Valid
  /\ pc[p] = "parent" => loc[p].bundle \in Valid
  /\ pc[p] \in SettingUp => Accepted(loc[p].bundle)

AcceptInv == OnlyAcceptedActive /\ \A p \in Procs : AcceptOK(p)

AcceptPCs == {"readiness", "announce", "rollback", "target", "commit", "parent"}
               \cup SettingUp

\* While nobody else works, a step has to be looked at for its own process only.
LEMMA AcceptFrame ==
  ASSUME AcceptInv, Exclusive, NEW p \in Procs, Others(p),
         stageFile' = stageFile \/ Busy(p),
         OnlyAcceptedActive', AcceptOK(p)'
  PROVE  AcceptInv'
<1>1. ASSUME NEW q \in Procs \ {p}
      PROVE  AcceptOK(q)'
  <2>1. pc'[q] = pc[q] /\ loc'[q] = loc[q] /\ AcceptOK(q)
    BY DEF Others, AcceptInv
  <2>2. CASE pc[q] = "commit"
    <3>1. Busy(q)
      BY <2>2 DEF Busy
    <3>2. stageFile' = stageFile
      BY <3>1 DEF Exclusive
    <3> QED
      BY <2>1, <2>2, <3>2 DEF AcceptOK, Accepted
  <2>3. CASE pc[q] # "commit"
    BY <2>1, <2>3 DEF AcceptOK, Accepted
  <2> QED
    BY <2>2, <2>3
<1> QED
  BY <1>1 DEF AcceptInv

\* A step that leaves the active bundle alone and sets nothing up is harmless.
LEMMA AcceptQuiet ==
  ASSUME AcceptInv, Exclusive, NEW p \in Procs, Others(p), active' = active,
         stageFile' = stageFile \/ Busy(p), pc'[p] \notin AcceptPCs
  PROVE  AcceptInv'
<1>1. OnlyAcceptedActive'
  BY DEF AcceptInv, OnlyAcceptedActive
<1>2. AcceptOK(p)'
  BY DEF AcceptOK, AcceptPCs, SettingUp
<1> QED
  BY <1>1, <1>2, AcceptFrame

\* Staging, the kernel, the ledger and the audit set nothing up.
LEMMA AcceptQuietSteps ==
  ASSUME TypeInv, AcceptInv, Exclusive, NEW p \in Procs,
         \/ Acquire(p) \/ Die(p) \/ StageStep(p) \/ VerifyStaged(p) \/ RunKernel(p)
         \/ ReadReceipt(p) \/ WriteNext(p) \/ LedgerStep(p) \/ AuditStep(p)
  PROVE  AcceptInv'
<1> DEFINE Outside == Others(p) /\ pc'[p] \notin AcceptPCs
<1> USE DEF AcceptPCs, SettingUp
<1>1. CASE Acquire(p) \/ Die(p)
  <2>1. active' = active /\ stageFile' = stageFile
    BY <1>1 DEF Acquire, Die, pointers, stage
  <2>2. Outside
    BY <1>1, EnvironmentEffect
  <2> QED
    BY <2>1, <2>2, AcceptQuiet
<1>2. CASE StageStep(p)
  <2>1. active' = active /\ Busy(p)
    BY <1>2 DEF StageStep, StageReject, StageBundle, StageCopy, WriteStage, pointers,
                Busy
  <2>2. \/ \E code : Finish(p, code)
        \/ \E n \in {"stageCopy", "stageDesc"} : \E l : Advance(p, n, l)
        \/ StageDone(p, "verify")
    BY <1>2 DEF StageStep, StageReject, StageBundle, StageCopy, WriteStage
  <2>3. Outside
    BY <2>2, FinishEffect, AdvanceEffect, StageDoneEffect
  <2> QED
    BY <2>1, <2>3, AcceptQuiet
<1>3. CASE VerifyStaged(p) \/ RunKernel(p)
  <2>1. active' = active /\ stageFile' = stageFile
    BY <1>3 DEF VerifyStaged, RunKernel, pointers, stage
  <2>2. \/ \E code : Finish(p, code)
        \/ \E l : Advance(p, "kernel", l)
        \/ StageDone(p, "canary")
    BY <1>3 DEF VerifyStaged, RunKernel
  <2>3. Outside
    BY <2>2, FinishEffect, AdvanceEffect, StageDoneEffect
  <2> QED
    BY <2>1, <2>3, AcceptQuiet
<1>4. CASE ReadReceipt(p) \/ WriteNext(p)
  <2>1. active' = active /\ stageFile' = stageFile
    BY <1>4 DEF ReadReceipt, WriteNext, pointers, stage
  <2>2. \/ \E code : Finish(p, code)
        \/ \E n \in {"tail", "receipt"} : \E l : Advance(p, n, l)
    BY <1>4 DEF ReadReceipt, WriteNext
  <2>3. Outside
    BY <2>2, FinishEffect, AdvanceEffect
  <2> QED
    BY <2>1, <2>3, AcceptQuiet
<1>5. CASE LedgerStep(p)
  <2>1. active' = active /\ stageFile' = stageFile
    BY <1>5 DEF LedgerStep, ReadLastEntry, ReadLedger, PublishEntry, pointers, stage
  <2>2. \/ \E code : Finish(p, code)
        \/ \E n \in {"append", "publish", "tail"} : \E l : Advance(p, n, l)
    BY <1>5 DEF LedgerStep, ReadLastEntry, ReadLedger, PublishEntry
  <2>3. Outside
    BY <2>2, FinishEffect, AdvanceEffect
  <2> QED
    BY <2>1, <2>3, AcceptQuiet
<1>6. CASE AuditStep(p)
  <2>1. active' = active /\ stageFile' = stageFile
    BY <1>6 DEF AuditStep, AuditActive, AuditNext, AuditStore, AuditLedger, pointers,
                stage
  <2>2. \/ \E code : Finish(p, code)
        \/ \E n \in {"auditNext", "auditStore", "auditLedger"} : \E l : Advance(p, n, l)
    BY <1>6 DEF AuditStep, AuditActive, AuditNext, AuditStore, AuditLedger
  <2>3. Outside
    BY <2>2, FinishEffect, AdvanceEffect
  <2> QED
    BY <2>1, <2>3, AcceptQuiet
<1> QED
  BY <1>1, <1>2, <1>3, <1>4, <1>5, <1>6

\* The canary passes only what the kernel accepts, and the commit takes up what
\* the canary has passed: nobody else stages in between.
LEMMA AcceptCommit ==
  ASSUME TypeInv, AcceptInv, Exclusive, NEW p \in Procs,
         CanaryStaged(p) \/ CommitStaged(p) \/ CheckParent(p)
  PROVE  AcceptInv'
<1>1. /\ active' = active /\ stageFile' = stageFile
      /\ OnlyAcceptedActive' /\ AcceptOK(p)
  BY DEF CanaryStaged, CommitStaged, CheckParent, pointers, stage, AcceptInv,
         OnlyAcceptedActive
<1>2. loc[p] \in Locals
  BY DEF TypeInv, TypeOK, ProcessesOK
<1>3. ASSUME NEW code, Finish(p, code)
      PROVE  AcceptInv'
  BY <1>1, <1>3, FinishEffect, AcceptQuiet DEF AcceptPCs, SettingUp
<1>4. CASE CanaryStaged(p)
  <2>1. \/ \E code : Finish(p, code)
        \/ StageDone(p, "commit") /\ stageFile \in Valid
    BY <1>4 DEF CanaryStaged, KernelAccepts
  <2>2. CASE StageDone(p, "commit") /\ stageFile \in Valid
    <3>1. Others(p) /\ pc'[p] \in {"commit", "idle"}
      BY <2>2, StageDoneEffect
    <3>2. AcceptOK(p)'
      BY <1>1, <2>2, <3>1 DEF AcceptOK, SettingUp
    <3> QED
      BY <1>1, <3>1, <3>2, AcceptFrame
  <2> QED
    BY <1>3, <2>1, <2>2
<1>5. CASE CommitStaged(p)
  <2> DEFINE l == [loc[p] EXCEPT !.bundle = stageFile,
                                 !.verdict = receiptFile.verdict]
  <2>1. l.bundle = stageFile
    BY <1>2, LocalsFields
  <2>2. Finish(p, "error") \/ Advance(p, "parent", l)
    BY <1>5 DEF CommitStaged
  <2> HIDE DEF l
  <2>3. CASE Advance(p, "parent", l)
    <3>1. Others(p) /\ pc'[p] = "parent" /\ loc'[p] = l
      BY <2>3, AdvanceEffect
    <3>2. stageFile \in Valid
      BY <1>1, <1>5 DEF AcceptOK, CommitStaged
    <3>3. AcceptOK(p)'
      BY <2>1, <3>1, <3>2 DEF AcceptOK, SettingUp
    <3> QED
      BY <1>1, <3>1, <3>3, AcceptFrame
  <2> QED
    BY <1>3, <2>2, <2>3
<1>6. CASE CheckParent(p)
  <2> DEFINE old == IF active = Absent THEN Null ELSE active
             l   == [loc[p] EXCEPT !.old = old, !.action = "COMMIT"]
  <2>1. l.bundle = loc[p].bundle
    BY <1>2, LocalsFields
  <2>2. \/ Finish(p, "invalid")
        \/ Advance(p, "store", l) /\ old = Parent[loc[p].bundle]
    BY <1>6 DEF CheckParent
  <2> HIDE DEF l
  <2>3. CASE Advance(p, "store", l) /\ old = Parent[loc[p].bundle]
    <3>1. Others(p) /\ pc'[p] = "store" /\ loc'[p] = l
      BY <2>3, AdvanceEffect
    <3>2. loc[p].bundle \in Valid
      BY <1>1, <1>6 DEF AcceptOK, CheckParent
    <3>3. old \in Valid \cup {Null}
      BY DEF AcceptInv, OnlyAcceptedActive, TypeInv, TypeOK, FilesOK, BundleOrAbsent
    <3>4. Accepted(loc[p].bundle)
      BY <2>3, <3>2, <3>3 DEF Accepted
    <3>5. AcceptOK(p)'
      BY <2>1, <3>1, <3>4 DEF AcceptOK, SettingUp, Accepted
    <3> QED
      BY <1>1, <3>1, <3>5, AcceptFrame
  <2> QED
    BY <1>3, <2>2, <2>3
<1> QED
  BY <1>4, <1>5, <1>6

\* From the parent check on the bundle does not change until it is active.
LEMMA AcceptSwap ==
  ASSUME TypeInv, AcceptInv, Exclusive, NEW p \in Procs,
         \/ StoreBundle(p) \/ StoreCopy(p) \/ StoreReceipt(p)
         \/ WritePrev(p) \/ WriteActive(p)
  PROVE  AcceptInv'
<1>1. /\ pc[p] \in SettingUp
      /\ stageFile' = stageFile
      /\ active' \in {active, loc[p].bundle}
  BY DEF StoreBundle, StoreCopy, StoreReceipt, WritePrev, WriteActive, SettingUp,
         pointers, stage
<1>2. Accepted(loc[p].bundle)
  BY <1>1 DEF AcceptInv, AcceptOK
<1>3. OnlyAcceptedActive'
  BY <1>1, <1>2 DEF AcceptInv, OnlyAcceptedActive, Accepted
<1>4. \/ \E code : Finish(p, code)
      \/ \E n \in {"storeCopy", "storeReceipt", "prev", "active", "next"} :
           Advance(p, n, loc[p])
  BY DEF StoreBundle, StoreCopy, StoreReceipt, WritePrev, WriteActive
<1>5. /\ Others(p)
      /\ \/ pc'[p] = "idle"
         \/ /\ pc'[p] \in {"storeCopy", "storeReceipt", "prev", "active", "next"}
            /\ loc'[p] = loc[p]
  BY <1>4, FinishEffect, AdvanceEffect
<1>6. AcceptOK(p)'
  BY <1>2, <1>5 DEF AcceptOK, SettingUp, Accepted
<1> QED
  BY <1>1, <1>3, <1>5, <1>6, AcceptFrame

\* Every step of every process keeps it, if all commands take the lock.
LEMMA AcceptNext ==
  ASSUME OnlyLocked, TypeInv, Exclusive, AcceptInv, [Next]_vars
  PROVE  AcceptInv'
<1>1. CASE UNCHANGED vars
  BY <1>1 DEF vars, pointers, stage, AcceptInv, OnlyAcceptedActive, AcceptOK, Accepted
<1>2. ASSUME NEW p \in Procs, NEW c \in EnabledCommands, NEW b \in BundleOrAbsent,
             Start(p, c, b)
      PROVE  AcceptInv'
  <2>1. Others(p) /\ pc'[p] = Entrance(c)
    BY <1>2, EnvironmentEffect
  <2>2. Entrance(c) = "lock"
    BY DEF OnlyLocked, Entrance, LockedCommands
  <2>3. active' = active /\ stageFile' = stageFile
    BY <1>2 DEF Start, pointers, stage
  <2> QED
    BY <2>1, <2>2, <2>3, AcceptQuiet DEF AcceptPCs, SettingUp
<1>3. ASSUME NEW p \in Procs, Run(p) \/ Die(p)
      PROVE  AcceptInv'
  <2>1. ~UpgradeStep(p) /\ ~RollbackActive(p) /\ ~RollbackTarget(p)
    BY DEF AcceptInv, AcceptOK, UpgradeStep, NotReady, Ready, Announce, RollbackActive,
           RollbackTarget
  <2> QED
    BY <1>3, <2>1, AcceptQuietSteps, AcceptCommit, AcceptSwap
       DEF Run, VerifyStep, CommitStep, RollbackStep, SwapStep
<1> QED
  BY <1>1, <1>2, <1>3 DEF Next

\* Where every command takes the lock, only bundles the kernel accepts become
\* active, on top of accepted ones, whatever processes die: between the canary
\* of an apply and its commit nobody else can change stage.json.
THEOREM ActiveIsAccepted ==
  ASSUME OnlyLocked
  PROVE  Spec => []OnlyAcceptedActive
<1>1. Serialized
  BY DEF OnlyLocked, Serialized
<1>2. Init => AcceptInv
  BY BundlesAssumption
     DEF Init, Fresh, Seeded, Shipped, InitFiles, AcceptInv, OnlyAcceptedActive,
         AcceptOK, SettingUp
<1>3. AcceptInv => OnlyAcceptedActive
  BY DEF AcceptInv
<1>4. TypeInv /\ Exclusive /\ AcceptInv /\ [Next]_vars => AcceptInv'
  BY AcceptNext
<1> QED
  BY <1>1, <1>2, <1>3, <1>4, ExclusiveInvariant, PTL DEF Spec

----------------------------------------------------------------------------
(* What a successful command leaves behind                                 *)

Swapped  == {"receipt", "tail", "append", "publish"}
StagePCs == {"stage", "stageCopy", "stageDesc", "verify", "kernel", "canary"}
AuditPCs == {"audit", "auditNext", "auditStore", "auditLedger"}

\* The body of the ledger entry for a commit of the active bundle.
CommitOf(log, a, o) ==
  /\ log # <<>>
  /\ log[Len(log)].body.action = "COMMIT"
  /\ log[Len(log)].body.active = a
  /\ log[Len(log)].body.prev = o

\* What a process knows about the pointers and the ledger from its first pointer
\* write to its last entry.
SuccessOK(p) ==
  /\ pc[p] = "lock" => cmd[p] \in LockedCommands
  /\ pc[p] \in StagePCs => cmd[p] \in {"apply", "stage", "verify", "canary"}
  /\ pc[p] \in AuditPCs => cmd[p] = "audit"
  /\ pc[p] \in SwapPCs \cup {"next", "receipt"} => loc[p].action # "REGIME_UPGRADE"
  /\ pc[p] \in Swapped \cup {"next"} => active = loc[p].bundle
  /\ pc[p] \in Swapped => activeNext = loc[p].bundle
  /\ pc[p] \in Swapped \cup {"active", "next"} =>
       IF loc[p].action = "REGIME_UPGRADE"
       THEN CommitOf(ledger, active, prevActive)
       ELSE prevActive = loc[p].old

SuccessInv == \A p \in Procs : SuccessOK(p)

\* Pointers and ledger are left alone by all but a swap and a publication.
Pointing(p) == Announce(p) \/ SwapStep(p) \/ PublishEntry(p)

LEMMA FilesStill ==
  ASSUME NEW p \in Procs, Run(p) \/ Die(p), ~Pointing(p)
  PROVE  UNCHANGED <<active, prevActive, activeNext, ledger>>
<1>1. CASE Acquire(p) \/ Die(p)
  BY <1>1 DEF Acquire, Die, pointers
<1>2. CASE StageStep(p) \/ VerifyStep(p)
  BY <1>2 DEF StageStep, StageReject, StageBundle, StageCopy, WriteStage, VerifyStep,
              VerifyStaged, RunKernel, CanaryStaged, pointers
<1>3. CASE UpgradeStep(p)
  BY <1>3 DEF UpgradeStep, NotReady, Ready, Pointing, pointers
<1>4. CASE CommitStep(p)
  BY <1>4 DEF CommitStep, CommitStaged, CheckParent, StoreBundle, StoreCopy,
              StoreReceipt, pointers
<1>5. CASE RollbackStep(p) \/ LedgerStep(p)
  BY <1>5 DEF RollbackStep, RollbackActive, RollbackTarget, ReadReceipt, LedgerStep,
              ReadLastEntry, ReadLedger, Pointing, pointers
<1>6. CASE AuditStep(p)
  BY <1>6 DEF AuditStep, AuditActive, AuditNext, AuditStore, AuditLedger, pointers
<1> QED
  BY <1>1, <1>2, <1>3, <1>4, <1>5, <1>6 DEF Run, Pointing

\* While a process works nobody else knows anything; otherwise nothing changes
\* for the others but through a step of the environment.
LEMMA SuccessFrame ==
  ASSUME SuccessInv, Exclusive, NEW p \in Procs, Others(p),
         Busy(p) \/ UNCHANGED <<active, prevActive, activeNext, ledger>>,
         SuccessOK(p)'
  PROVE  SuccessInv'
<1>1. ASSUME NEW q \in Procs \ {p}
      PROVE  SuccessOK(q)'
  <2>1. pc'[q] = pc[q] /\ cmd'[q] = cmd[q] /\ loc'[q] = loc[q] /\ SuccessOK(q)
    BY DEF Others, SuccessInv
  <2>2. CASE Busy(p)
    <3>1. ~Busy(q)
      BY <2>2 DEF Exclusive
    <3> QED
      BY <2>1, <3>1 DEF SuccessOK, Busy, StagePCs, AuditPCs, SwapPCs, Swapped
  <2>3. CASE UNCHANGED <<active, prevActive, activeNext, ledger>>
    BY <2>1, <2>3 DEF SuccessOK, CommitOf
  <2> QED
    BY <2>2, <2>3
<1> QED
  BY <1>1 DEF SuccessInv

\* Where nothing is known, nothing can be wrong.
LEMMA SuccessIdle ==
  ASSUME NEW p \in Procs,
         pc'[p] \in {"idle", "readiness", "announce", "commit", "parent",
                     "rollback"}
  PROVE  SuccessOK(p)'
BY DEF SuccessOK, StagePCs, AuditPCs, SwapPCs, Swapped

\* Starting, waiting for the lock and dying.
LEMMA SuccessEnvironment ==
  ASSUME TypeInv, LockInv, Exclusive, SuccessInv, NEW p \in Procs,
         \/ \E c \in EnabledCommands, b \in BundleOrAbsent : Start(p, c, b)
         \/ Acquire(p) \/ Die(p)
  PROVE  SuccessInv'
<1>1. Others(p) /\ UNCHANGED <<active, prevActive, activeNext, ledger>>
  BY EnvironmentEffect DEF Start, Acquire, Die, pointers
<1>2. ASSUME NEW c \in EnabledCommands, NEW b \in BundleOrAbsent, Start(p, c, b)
      PROVE  SuccessOK(p)'
  <2>1. /\ pc'[p] = Entrance(c) /\ cmd'[p] = c
        /\ c \in AllCommands
    BY <1>2, EnvironmentEffect, EnvironmentAssumption
  <2>2. \/ Entrance(c) \in {"readiness", "commit", "rollback"}
        \/ Entrance(c) = "lock" /\ c \in LockedCommands
        \/ Entrance(c) = c /\ c \in {"stage", "verify", "canary"}
    BY <2>1 DEF Entrance, LockedCommands, AllCommands
  <2>3. CASE \/ Entrance(c) = "lock" /\ c \in LockedCommands
             \/ Entrance(c) = c /\ c \in {"stage", "verify", "canary"}
    BY <2>1, <2>3 DEF SuccessOK, StagePCs, AuditPCs, SwapPCs, Swapped
  <2> QED
    BY <2>1, <2>2, <2>3, SuccessIdle
<1>3. ASSUME Acquire(p)
      PROVE  SuccessOK(p)'
  <2>1. /\ pc'[p] = IF cmd[p] = "apply" THEN "stage" ELSE "audit"
        /\ cmd'[p] = cmd[p] /\ pc[p] = "lock"
    BY <1>3 DEF Acquire, TypeInv, TypeOK, ProcessesOK
  <2>2. cmd[p] \in LockedCommands
    BY <2>1 DEF SuccessInv, SuccessOK
  <2> QED
    BY <2>1, <2>2 DEF SuccessOK, StagePCs, AuditPCs, SwapPCs, Swapped, LockedCommands
<1>4. ASSUME Die(p)
      PROVE  SuccessOK(p)'
  BY <1>4, EnvironmentEffect, SuccessIdle
<1> QED
  BY <1>1, <1>2, <1>3, <1>4, SuccessFrame

\* What is read or looked up changes nothing else in the locals of a process.
LEMMA LocalsAction ==
  ASSUME NEW l \in Locals
  PROVE  /\ \A b : [l EXCEPT !.bundle = b].action = l.action
         /\ \A h : [l EXCEPT !.head = h].action = l.action
         /\ \A e : [l EXCEPT !.base = e].action = l.action
BY DEF Locals

\* Up to the parent check nothing is known of the pointers.
LEMMA SuccessBefore ==
  ASSUME TypeInv, SuccessInv, NEW p \in Procs,
         \/ StageStep(p) \/ VerifyStep(p) \/ UpgradeStep(p) \/ CommitStaged(p)
         \/ AuditStep(p)
  PROVE  SuccessOK(p)'
<1> USE DEF StagePCs, AuditPCs
<1>1. SuccessOK(p)
  BY DEF SuccessInv
<1>2. CASE StageStep(p)
  <2>1. \/ \E code : Finish(p, code)
        \/ \E n \in {"stageCopy", "stageDesc"} : \E l : Advance(p, n, l)
        \/ StageDone(p, "verify")
    BY <1>2 DEF StageStep, StageReject, StageBundle, StageCopy, WriteStage
  <2>2. pc[p] \in StagePCs
    BY <1>2 DEF StageStep, StageReject, StageBundle, StageCopy, WriteStage
  <2>3. \/ pc'[p] = "idle"
        \/ pc'[p] \in {"stageCopy", "stageDesc", "verify"} /\ cmd'[p] = cmd[p]
    BY <2>1, FinishEffect, AdvanceEffect, StageDoneEffect
  <2> QED
    BY <1>1, <2>2, <2>3, SuccessIdle DEF SuccessOK, SwapPCs, Swapped
<1>3. CASE VerifyStep(p)
  <2>1. \/ \E code : Finish(p, code)
        \/ \E l : Advance(p, "kernel", l)
        \/ StageDone(p, "canary") \/ StageDone(p, "commit")
    BY <1>3 DEF VerifyStep, VerifyStaged, RunKernel, CanaryStaged
  <2>2. pc[p] \in StagePCs
    BY <1>3 DEF VerifyStep, VerifyStaged, RunKernel, CanaryStaged
  <2>3. \/ pc'[p] \in {"idle", "commit"}
        \/ pc'[p] \in {"kernel", "canary"} /\ cmd'[p] = cmd[p]
    BY <2>1, FinishEffect, AdvanceEffect, StageDoneEffect
  <2> QED
    BY <1>1, <2>2, <2>3, SuccessIdle DEF SuccessOK, SwapPCs, Swapped
<1>4. CASE UpgradeStep(p) \/ CommitStaged(p)
  <2>1. \/ \E code : Finish(p, code)
        \/ \E n \in {"announce", "commit", "parent"} : \E l : Advance(p, n, l)
    BY <1>4 DEF UpgradeStep, NotReady, Ready, Announce, CommitStaged
  <2> QED
    BY <2>1, FinishEffect, AdvanceEffect, SuccessIdle
<1>5. CASE AuditStep(p)
  <2>1. \/ \E code : Finish(p, code)
        \/ \E n \in {"auditNext", "auditStore", "auditLedger"} : \E l : Advance(p, n, l)
    BY <1>5 DEF AuditStep, AuditActive, AuditNext, AuditStore, AuditLedger
  <2>2. pc[p] \in AuditPCs
    BY <1>5 DEF AuditStep, AuditActive, AuditNext, AuditStore, AuditLedger
  <2>3. pc'[p] = "idle" \/ (pc'[p] \in AuditPCs /\ cmd'[p] = cmd[p])
    BY <2>1, FinishEffect, AdvanceEffect
  <2> QED
    BY <1>1, <2>2, <2>3, SuccessIdle DEF SuccessOK, SwapPCs, Swapped
<1> QED
  BY <1>2, <1>3, <1>4, <1>5

\* A commit or a rollback says what it is before it writes a pointer.
LEMMA SuccessSetUp ==
  ASSUME TypeInv, SuccessInv, NEW p \in Procs,
         \/ CheckParent(p) \/ StoreBundle(p) \/ StoreCopy(p) \/ StoreReceipt(p)
         \/ RollbackActive(p) \/ RollbackTarget(p)
  PROVE  SuccessOK(p)'
<1> DEFINE Named(l) == l.action # "REGIME_UPGRADE"
           Next1 == {"target", "store", "storeCopy", "storeReceipt", "prev"}
<1>1. loc[p] \in Locals /\ SuccessOK(p)
  BY DEF TypeInv, TypeOK, ProcessesOK, SuccessInv
<1>2. \/ \E code : Finish(p, code)
      \/ \E n \in Next1 : \E l : Advance(p, n, l) /\ Named(l)
  <2>1. CASE CheckParent(p)
    <3> DEFINE old == IF active = Absent THEN Null ELSE active
               l   == [loc[p] EXCEPT !.old = old, !.action = "COMMIT"]
    <3>1. Named(l)
      BY <1>1, LocalsFields
    <3> QED
      BY <2>1, <3>1 DEF CheckParent
  <2>2. CASE RollbackActive(p)
    <3> DEFINE l == [loc[p] EXCEPT !.old = active, !.action = "ROLLBACK"]
    <3>1. Named(l)
      BY <1>1, LocalsFields
    <3> QED
      BY <2>2, <3>1 DEF RollbackActive
  <2>3. CASE RollbackTarget(p)
    <3> DEFINE l == [loc[p] EXCEPT !.bundle = prevActive]
    <3>1. Named(loc[p])
      BY <1>1, <2>3 DEF RollbackTarget, SuccessOK, SwapPCs
    <3>2. Named(l)
      BY <1>1, <3>1, LocalsAction
    <3> QED
      BY <2>3, <3>2 DEF RollbackTarget
  <2>4. CASE StoreBundle(p) \/ StoreCopy(p) \/ StoreReceipt(p)
    <3>1. Named(loc[p])
      BY <1>1, <2>4 DEF StoreBundle, StoreCopy, StoreReceipt, SuccessOK, SwapPCs
    <3> QED
      BY <2>4, <3>1 DEF StoreBundle, StoreCopy, StoreReceipt
  <2> QED
    BY <2>1, <2>2, <2>3, <2>4
<1>3. pc'[p] = "idle" \/ (pc'[p] \in Next1 /\ Named(loc'[p]))
  BY <1>2, FinishEffect, AdvanceEffect
<1> QED
  BY <1>3, SuccessIdle DEF SuccessOK, StagePCs, AuditPCs, SwapPCs, Swapped

\* The pointers are written one after the other from what the process holds.
LEMMA SuccessSwap ==
  ASSUME TypeInv, SuccessInv, NEW p \in Procs, SwapStep(p) \/ ReadReceipt(p)
  PROVE  SuccessOK(p)'
<1> USE DEF StagePCs, AuditPCs, SwapPCs, Swapped
<1>1. SuccessOK(p)
  BY DEF SuccessInv
<1>2. CASE WritePrev(p)
  <2>1. pc'[p] = "idle" \/ (pc'[p] = "active" /\ loc'[p] = loc[p])
    BY <1>2, FinishEffect, AdvanceEffect DEF WritePrev
  <2>2. pc[p] = "prev" /\ prevActive' = loc[p].old
    BY <1>2 DEF WritePrev
  <2> QED
    BY <1>1, <2>1, <2>2, SuccessIdle DEF SuccessOK
<1>3. CASE WriteActive(p)
  <2>1. pc'[p] = "next" /\ loc'[p] = loc[p]
    BY <1>3, AdvanceEffect DEF WriteActive
  <2>2. pc[p] = "active" /\ active' = loc[p].bundle /\ prevActive' = prevActive
    BY <1>3 DEF WriteActive
  <2> QED
    BY <1>1, <2>1, <2>2 DEF SuccessOK
<1>4. CASE WriteNext(p)
  <2>1. pc'[p] \in {"receipt", "tail"} /\ loc'[p] = loc[p]
    BY <1>4, AdvanceEffect DEF WriteNext
  <2>2. /\ pc[p] = "next" /\ activeNext' = loc[p].bundle
        /\ active' = active /\ prevActive' = prevActive
    BY <1>4 DEF WriteNext
  <2> QED
    BY <1>1, <2>1, <2>2 DEF SuccessOK
<1>5. CASE ReadReceipt(p)
  <2>1. pc'[p] = "idle" \/ (pc'[p] = "tail" /\ loc'[p] = loc[p])
    BY <1>5, FinishEffect, AdvanceEffect DEF ReadReceipt
  <2>2. pc[p] = "receipt" /\ UNCHANGED <<active, prevActive, activeNext, ledger>>
    BY <1>5 DEF ReadReceipt, pointers
  <2> QED
    BY <1>1, <2>1, <2>2, SuccessIdle DEF SuccessOK
<1> QED
  BY <1>2, <1>3, <1>4, <1>5 DEF SwapStep

\* The entry that is published is that of the swap, on top of the ledger.
LEMMA Published ==
  ASSUME TypeInv, SuccessInv, LedgerInv, NEW p \in Procs, PublishEntry(p)
  PROVE  LET e == MakeEntry(loc[p]) IN
         /\ ledger' = Append(ledger, e)
         /\ Len(ledger') = Len(ledger) + 1 /\ ledger'[Len(ledger) + 1] = e
         /\ \A i \in 1 .. Len(ledger) : ledger'[i] = ledger[i]
         /\ UNCHANGED <<active, prevActive, activeNext>>
         /\ active = loc[p].bundle /\ activeNext = active
         /\ e.body.action = loc[p].action /\ e.body.active = active
         /\ loc[p].action # "REGIME_UPGRADE" => e.body.prev = prevActive
         /\ loc[p].action = "REGIME_UPGRADE" => CommitOf(ledger, active, prevActive)
<1>1. /\ pc[p] = "publish" /\ SuccessOK(p)
      /\ ledger' = Append(ledger, MakeEntry(loc[p]))
      /\ UNCHANGED <<active, prevActive, activeNext>>
  BY DEF PublishEntry, SuccessInv, LedgerInv, pointers
<1>2. loc[p] \in Locals /\ ledger \in Seq(Entry) /\ MakeEntry(loc[p]) \in Entry
  BY MakeEntryType DEF TypeInv, TypeOK, FilesOK, ProcessesOK
<1>3. /\ active = loc[p].bundle /\ activeNext = active
      /\ loc[p].action # "REGIME_UPGRADE" => prevActive = loc[p].old
      /\ loc[p].action = "REGIME_UPGRADE" => CommitOf(ledger, active, prevActive)
  BY <1>1 DEF SuccessOK, Swapped
<1>4. /\ MakeEntry(loc[p]).body.action = loc[p].action
      /\ MakeEntry(loc[p]).body.active = loc[p].bundle
      /\ loc[p].action # "REGIME_UPGRADE" => MakeEntry(loc[p]).body.prev = loc[p].old
  BY DEF MakeEntry
<1>5. /\ Len(ledger') = Len(ledger) + 1
      /\ ledger'[Len(ledger) + 1] = MakeEntry(loc[p])
      /\ \A i \in 1 .. Len(ledger) : ledger'[i] = ledger[i]
  <2> DEFINE e == MakeEntry(loc[p])
  <2>1. ledger' = Append(ledger, e) /\ e \in Entry
    BY <1>1, <1>2
  <2> HIDE DEF e
  <2>2. /\ Len(ledger') = Len(ledger) + 1
        /\ ledger'[Len(ledger) + 1] = e
        /\ \A i \in 1 .. Len(ledger) : ledger'[i] = ledger[i]
    BY <1>2, <2>1
  <2> QED
    BY <2>2 DEF e
<1> QED
  BY <1>1, <1>3, <1>4, <1>5

\* The append of one entry, and of the second one of an upgrade.
LEMMA SuccessLedger ==
  ASSUME TypeInv, SuccessInv, LedgerInv, NEW p \in Procs, LedgerStep(p)
  PROVE  SuccessOK(p)'
<1> USE DEF StagePCs, AuditPCs, SwapPCs, Swapped
<1>1. SuccessOK(p) /\ loc[p] \in Locals
  BY DEF SuccessInv, TypeInv, TypeOK, ProcessesOK
<1>2. CASE ReadLastEntry(p)
  <2> DEFINE l == [loc[p] EXCEPT !.head = ReadLast(ledger)]
  <2>1. l.bundle = loc[p].bundle /\ l.old = loc[p].old /\ l.action = loc[p].action
    BY <1>1, LocalsFields, LocalsAction
  <2>2. /\ pc[p] = "tail" /\ Advance(p, "append", l)
        /\ UNCHANGED <<active, prevActive, activeNext, ledger>>
    BY <1>2 DEF ReadLastEntry, pointers
  <2> HIDE DEF l
  <2>3. pc'[p] = "append" /\ loc'[p] = l
    BY <2>2, AdvanceEffect
  <2> QED
    BY <1>1, <2>1, <2>2, <2>3 DEF SuccessOK
<1>3. CASE ReadLedger(p)
  <2> DEFINE l == [loc[p] EXCEPT !.base = ledger]
  <2>1. l.bundle = loc[p].bundle /\ l.old = loc[p].old /\ l.action = loc[p].action
    BY <1>1, LocalsFields, LocalsAction
  <2>2. /\ pc[p] = "append" /\ Advance(p, "publish", l)
        /\ UNCHANGED <<active, prevActive, activeNext, ledger>>
    BY <1>3 DEF ReadLedger, pointers
  <2> HIDE DEF l
  <2>3. pc'[p] = "publish" /\ loc'[p] = l
    BY <2>2, AdvanceEffect
  <2> QED
    BY <1>1, <2>1, <2>2, <2>3 DEF SuccessOK
<1>4. CASE PublishEntry(p)
  <2> DEFINE l == [NoLocals EXCEPT !.bundle = loc[p].bundle,
                                   !.action = "REGIME_UPGRADE"]
  <2>1. l.bundle = loc[p].bundle /\ l.action = "REGIME_UPGRADE"
    BY DEF NoLocals
  <2>2. \/ Finish(p, "ok")
        \/ Advance(p, "tail", l) /\ loc[p].action = "COMMIT"
    BY <1>4 DEF PublishEntry
  <2> HIDE DEF l
  <2>3. \/ pc'[p] = "idle"
        \/ pc'[p] = "tail" /\ loc'[p] = l /\ loc[p].action = "COMMIT"
    BY <2>2, FinishEffect, AdvanceEffect
  <2>4. CASE pc'[p] = "tail" /\ loc'[p] = l /\ loc[p].action = "COMMIT"
    <3> DEFINE e == MakeEntry(loc[p])
    <3>1. /\ Len(ledger') = Len(ledger) + 1 /\ ledger'[Len(ledger) + 1] = e
          /\ UNCHANGED <<active, prevActive, activeNext>>
          /\ active = loc[p].bundle /\ activeNext = active
          /\ e.body.action = "COMMIT" /\ e.body.active = active
          /\ e.body.prev = prevActive
      BY <1>4, <2>4, Published
    <3> HIDE DEF e
    <3>2. ledger' # <<>> /\ ledger'[Len(ledger')] = e
      <4>1. Len(ledger) \in Nat
        BY DEF TypeInv, TypeOK, FilesOK
      <4> QED
        BY <3>1, <4>1
    <3>3. CommitOf(ledger', active', prevActive')
      BY <3>1, <3>2 DEF CommitOf
    <3> QED
      BY <2>1, <2>4, <3>1, <3>3 DEF SuccessOK
  <2> QED
    BY <2>3, <2>4, SuccessIdle
<1> QED
  BY <1>2, <1>3, <1>4 DEF LedgerStep

\* Every step of every process keeps what each knows.
LEMMA SuccessNext ==
  TypeInv /\ LockInv /\ Exclusive /\ LedgerInv /\ SuccessInv /\ [Next]_vars
    => SuccessInv'
<1> SUFFICES ASSUME TypeInv, LockInv, Exclusive, LedgerInv, SuccessInv, [Next]_vars
             PROVE  SuccessInv'
  OBVIOUS
<1>1. CASE UNCHANGED vars
  BY <1>1 DEF vars, pointers, SuccessInv, SuccessOK, CommitOf
<1>2. ASSUME NEW p \in Procs, Run(p), ~Acquire(p)
      PROVE  SuccessInv'
  <2>1. SuccessOK(p)'
    BY <1>2, SuccessBefore, SuccessSetUp, SuccessSwap, SuccessLedger
       DEF Run, CommitStep, RollbackStep
  <2>2. Busy(p) /\ Others(p)
    BY <1>2, RunEffect
  <2> QED
    BY <2>1, <2>2, SuccessFrame
<1> QED
  BY <1>1, <1>2, SuccessEnvironment DEF Next

\* LastSwap of a ledger, to speak of the one of the next state.
LastSwapOf(log) ==
  LET swaps == {i \in 1 .. Len(log) : log[i].body.action # "REGIME_UPGRADE"}
  IN  log[CHOOSE i \in swaps : \A j \in swaps : j <= i].body

\* It is the entry with nothing but marks of upgrades behind it.
LEMMA LastSwapIs ==
  ASSUME NEW log \in Seq(Entry), NEW i \in 1 .. Len(log),
         log[i].body.action # "REGIME_UPGRADE",
         \A j \in (i + 1) .. Len(log) : log[j].body.action = "REGIME_UPGRADE"
  PROVE  LastSwapOf(log) = log[i].body
<1> DEFINE swaps == {j \in 1 .. Len(log) : log[j].body.action # "REGIME_UPGRADE"}
           Last(k) == k \in swaps /\ \A j \in swaps : j <= k
<1>1. Len(log) \in Nat
  OBVIOUS
<1>2. \A j \in swaps : j <= i
  BY <1>1
<1>3. Last(i)
  BY <1>2
<1>4. \A k : Last(k) => k = i
  BY <1>1, <1>3
<1>5. (CHOOSE k \in swaps : \A j \in swaps : j <= k) = i
  BY <1>3, <1>4
<1> QED
  BY <1>5 DEF LastSwapOf

\* After the publication of an entry the last swap is the one on disk.
LEMMA PublishedSwap ==
  ASSUME TypeInv, TypeInv', SuccessInv, LedgerInv, NEW p \in Procs, PublishEntry(p)
  PROVE  /\ ledger' # <<>>
         /\ LastSwapOf(ledger').active = active'
         /\ LastSwapOf(ledger').prev = prevActive'
<1> DEFINE e == MakeEntry(loc[p])
           n == Len(ledger)
<1>1. n \in Nat /\ ledger' \in Seq(Entry)
  BY DEF TypeInv, TypeOK, FilesOK
<1>2. /\ Len(ledger') = n + 1 /\ ledger'[n + 1] = e
      /\ \A i \in 1 .. n : ledger'[i] = ledger[i]
      /\ UNCHANGED <<active, prevActive>>
      /\ e.body.action = loc[p].action /\ e.body.active = active
      /\ loc[p].action # "REGIME_UPGRADE" => e.body.prev = prevActive
      /\ loc[p].action = "REGIME_UPGRADE" => CommitOf(ledger, active, prevActive)
  BY Published
<1> HIDE DEF e
<1>3. CASE loc[p].action # "REGIME_UPGRADE"
  <2>1. LastSwapOf(ledger') = ledger'[n + 1].body
    BY <1>1, <1>2, <1>3, LastSwapIs
  <2> QED
    BY <1>1, <1>2, <1>3, <2>1
<1>4. CASE loc[p].action = "REGIME_UPGRADE"
  <2>1. /\ n \in 1 .. n
        /\ ledger[n].body.action = "COMMIT"
        /\ ledger[n].body.active = active /\ ledger[n].body.prev = prevActive
    <3>1. ledger # <<>> /\ ledger \in Seq(Entry)
      BY <1>2, <1>4 DEF CommitOf, TypeInv, TypeOK, FilesOK
    <3>2. n \in 1 .. n
      BY <3>1
    <3> QED
      BY <1>2, <1>4, <3>2 DEF CommitOf
  <2>2. ledger'[n] = ledger[n]
    BY <1>2, <2>1
  <2>3. LastSwapOf(ledger') = ledger'[n].body
    BY <1>1, <1>2, <1>4, <2>1, <2>2, LastSwapIs
  <2> QED
    BY <1>1, <1>2, <2>1, <2>2, <2>3
<1> QED
  BY <1>3, <1>4

\* What SuccessReconciles says of a step.
Reconciled ==
  \A p \in Procs :
    (cmd[p] \in {"commit", "apply", "upgrade", "rollback"} /\ Exits(p, "ok")) =>
      /\ active' = loc[p].bundle
      /\ activeNext' = active'
      /\ ledger' # <<>>
      /\ LastSwap'.active = active'
      /\ LastSwap'.prev = prevActive'

\* A command that swaps bundles succeeds by the publication of its entry only.
LEMMA SuccessPublishes ==
  ASSUME TypeInv, SuccessInv, [Next]_vars, NEW p \in Procs, Exits(p, "ok"),
         cmd[p] \in {"commit", "apply", "upgrade", "rollback"}
  PROVE  PublishEntry(p)
<1>1. pc[p] # "idle" /\ pc'[p] = "idle" /\ result'[p] = "ok" /\ SuccessOK(p)
  BY DEF Exits, SuccessInv
<1>2. ASSUME NEW q \in Procs, q # p, Others(q)
      PROVE  FALSE
  BY <1>1, <1>2 DEF Others
<1>3. ~UNCHANGED vars
  BY <1>1 DEF vars
<1>4. ASSUME NEW c \in EnabledCommands, NEW b \in BundleOrAbsent, Start(p, c, b)
      PROVE  FALSE
  BY <1>1, <1>4 DEF Start
<1>5. ~Acquire(p) /\ ~Die(p)
  BY <1>1, EnvironmentEffect DEF Die, TypeInv, TypeOK, ProcessesOK
<1>6. Run(p)
  <2>1. PICK q \in Procs : \/ \E c \in EnabledCommands, b \in BundleOrAbsent : Start(q, c, b)
                           \/ Run(q) \/ Die(q)
    BY <1>3 DEF Next
  <2>2. Others(q)
    BY <2>1, EnvironmentEffect, RunEffect
  <2> QED
    BY <1>2, <1>4, <1>5, <2>1, <2>2
<1>7. ASSUME NEW code, Finish(p, code)
      PROVE  code = "ok"
  BY <1>1, <1>7 DEF Finish, TypeInv, TypeOK, ProcessesOK
<1>8. ASSUME NEW n, NEW l, Advance(p, n, l)
      PROVE  n = "idle"
  BY <1>1, <1>8, AdvanceEffect
<1>9. ~StageStep(p) /\ ~VerifyStep(p)
  <2>1. SUFFICES ASSUME StageStep(p) \/ VerifyStep(p)
                 PROVE  FALSE
    OBVIOUS
  <2>2. pc[p] \in StagePCs
    BY <2>1 DEF StageStep, StageReject, StageBundle, StageCopy, WriteStage, VerifyStep,
                VerifyStaged, RunKernel, CanaryStaged, StagePCs
  <2>3. cmd[p] = "apply"
    BY <1>1, <2>2 DEF SuccessOK
  <2>4. \/ \E code \in {"invalid", "error"} : Finish(p, code)
        \/ \E n \in PCs \ {"idle"} : \E l : Advance(p, n, l)
    BY <2>1, <2>3
       DEF StageStep, StageReject, StageBundle, StageCopy, WriteStage, VerifyStep,
           VerifyStaged, RunKernel, CanaryStaged, StageDone, PCs
  <2> QED
    BY <1>7, <1>8, <2>4
<1>10. ~AuditStep(p)
  BY <1>1 DEF AuditStep, AuditActive, AuditNext, AuditStore, AuditLedger, SuccessOK,
              AuditPCs
<1>11. ASSUME UpgradeStep(p) \/ CommitStep(p) \/ RollbackStep(p) \/ SwapStep(p)
              \/ ReadLastEntry(p) \/ ReadLedger(p)
       PROVE  FALSE
  <2>1. \/ \E code \in {"invalid", "error"} : Finish(p, code)
        \/ \E n \in PCs \ {"idle"} : \E l : Advance(p, n, l)
    <3>1. CASE UpgradeStep(p)
      BY <3>1 DEF UpgradeStep, NotReady, Ready, Announce, PCs
    <3>2. CASE CommitStep(p)
      BY <3>2 DEF CommitStep, CommitStaged, CheckParent, StoreBundle, StoreCopy,
                  StoreReceipt, PCs
    <3>3. CASE RollbackStep(p)
      BY <3>3 DEF RollbackStep, RollbackActive, RollbackTarget, ReadReceipt, PCs
    <3>4. CASE SwapStep(p)
      BY <3>4 DEF SwapStep, WritePrev, WriteActive, WriteNext, PCs
    <3>5. CASE ReadLastEntry(p) \/ ReadLedger(p)
      BY <3>5 DEF ReadLastEntry, ReadLedger, PCs
    <3> QED
      BY <1>11, <3>1, <3>2, <3>3, <3>4, <3>5
  <2> QED
    BY <1>7, <1>8, <2>1
<1> QED
  BY <1>5, <1>6, <1>9, <1>10, <1>11 DEF Run, LedgerStep

\* When commands do not overlap, a command that reports success leaves the
\* pointers and the ledger in agreement, whatever died before it.
THEOREM SuccessAgrees ==
  ASSUME Serialized
  PROVE  Spec => SuccessReconciles
<1>1. Init => SuccessInv
  BY DEF Init, SuccessInv, SuccessOK, StagePCs, AuditPCs, SwapPCs, Swapped
<1>2. ASSUME TypeInv, TypeInv', LedgerInv, SuccessInv, [Next]_vars
      PROVE  Reconciled
  <2>1. SUFFICES ASSUME NEW p \in Procs, Exits(p, "ok"),
                        cmd[p] \in {"commit", "apply", "upgrade", "rollback"}
                 PROVE  /\ active' = loc[p].bundle
                        /\ activeNext' = active'
                        /\ ledger' # <<>>
                        /\ LastSwap'.active = active'
                        /\ LastSwap'.prev = prevActive'
    BY DEF Reconciled
  <2>2. PublishEntry(p)
    BY <1>2, <2>1, SuccessPublishes
  <2>3. LastSwap' = LastSwapOf(ledger')
    BY DEF LastSwap, LastSwapOf
  <2> QED
    BY <1>2, <2>2, <2>3, Published, PublishedSwap
<1>3. ASSUME TypeInv, TypeInv', LedgerInv, SuccessInv, [Next]_vars
      PROVE  [Reconciled]_vars
  BY <1>2, <1>3
<1> QED
  BY <1>1, <1>3, SuccessNext, LedgerInit, LedgerNext, ExclusiveInvariant, PTL
     DEF Spec, SuccessReconciles, Reconciled

----------------------------------------------------------------------------
(* The atomic history                                                      *)

\* One command at a time, and none that ends between its pointers.
Undisturbed ==
  /\ Serialized
  /\ MaxCrashes = 0
  /\ "AFTER_PREV_WRITE" \notin Failpoints

Copying == {"storeCopy", "storeReceipt"}

\* What a process is about to put into the history, and that a commit has the
\* verdict it puts into the store.
OriginOK(p) ==
  /\ pc[p] \in {"store"} \cup Copying => loc[p].action = "COMMIT"
  /\ pc[p] = "target" => loc[p].action = "ROLLBACK"
  /\ pc[p] \in {"store", "prev"} \cup Copying =>
       IF loc[p].action = "COMMIT" THEN Parent[loc[p].bundle] = loc[p].old
       ELSE /\ loc[p].action = "ROLLBACK" /\ loc[p].old \in Bundles
            /\ prevActive = loc[p].bundle
  /\ pc[p] \in {"parent", "store"} \cup Copying => loc[p].verdict # "none"

\* A stored bundle gets its receipt from the command that stores it.
ReceiptsKept ==
  \A b \in Bundles :
    stored[b] # "none" /\ receipts[b] = "none" =>
      \E p \in Procs : pc[p] \in Copying /\ loc[p].bundle = b

OriginInv == ReceiptsKept /\ \A p \in Procs : OriginOK(p)

\* While a process works the others know nothing.
LEMMA OriginFrame ==
  ASSUME OriginInv, Exclusive, NEW p \in Procs, Others(p),
         Busy(p) \/ prevActive' = prevActive,
         ReceiptsKept', OriginOK(p)'
  PROVE  OriginInv'
<1>1. ASSUME NEW q \in Procs \ {p}
      PROVE  OriginOK(q)'
  <2>1. pc'[q] = pc[q] /\ loc'[q] = loc[q] /\ OriginOK(q)
    BY DEF Others, OriginInv
  <2>2. CASE Busy(p)
    <3>1. ~Busy(q)
      BY <2>2 DEF Exclusive
    <3> QED
      BY <2>1, <3>1 DEF OriginOK, Busy, Copying
  <2>3. CASE prevActive' = prevActive
    BY <2>1, <2>3 DEF OriginOK
  <2> QED
    BY <2>2, <2>3
<1> QED
  BY <1>1 DEF OriginInv

\* A step outside the copy leaves the receipts to whom they were left before.
LEMMA ReceiptsFrame ==
  ASSUME OriginInv, NEW p \in Procs, Others(p), UNCHANGED <<stored, receipts>>,
         pc[p] \notin Copying
  PROVE  ReceiptsKept'
BY DEF OriginInv, ReceiptsKept, Others

OriginPCs == {"target", "parent", "store", "prev"} \cup Copying

\* A step that does not get nearer to a swap is harmless.
LEMMA OriginQuiet ==
  ASSUME OriginInv, Exclusive, NEW p \in Procs, Others(p),
         Busy(p) \/ prevActive' = prevActive,
         UNCHANGED <<stored, receipts>>, pc[p] \notin Copying,
         pc'[p] \notin OriginPCs
  PROVE  OriginInv'
<1>1. OriginOK(p)'
  BY DEF OriginOK, OriginPCs, Copying
<1> QED
  BY <1>1, OriginFrame, ReceiptsFrame

\* Starting a command and taking the lock.
LEMMA OriginEnvironment ==
  ASSUME TypeInv, OriginInv, Exclusive, NEW p \in Procs,
         \/ \E c \in EnabledCommands, b \in BundleOrAbsent : Start(p, c, b)
         \/ Acquire(p)
  PROVE  OriginInv'
<1>1. Others(p) /\ UNCHANGED <<prevActive, stored, receipts>>
  BY EnvironmentEffect DEF Start, Acquire, pointers, store
<1>2. pc[p] \in {"idle", "lock"}
  BY DEF Start, Acquire
<1>3. ASSUME NEW c \in EnabledCommands, NEW b \in BundleOrAbsent, Start(p, c, b)
      PROVE  pc'[p] \notin OriginPCs
  BY <1>3, EnvironmentEffect, EnvironmentAssumption
     DEF Entrance, LockedCommands, AllCommands, OriginPCs, Copying
<1>4. Acquire(p) => pc'[p] \notin OriginPCs
  BY EnvironmentEffect DEF OriginPCs, Copying
<1> QED
  BY <1>1, <1>2, <1>3, <1>4, OriginQuiet DEF Copying

\* The steps of a command outside of what is remembered here.
LEMMA OriginQuietSteps ==
  ASSUME TypeInv, OriginInv, Exclusive, NEW p \in Procs,
         \/ StageStep(p) \/ VerifyStep(p) \/ UpgradeStep(p) \/ ReadReceipt(p)
         \/ SwapStep(p) \/ LedgerStep(p) \/ AuditStep(p)
  PROVE  OriginInv'
<1> DEFINE Outside == UNCHANGED <<stored, receipts>> /\ pc[p] \notin Copying
<1> USE DEF Copying, OriginPCs
<1>1. Busy(p) /\ Others(p)
  BY RunEffect DEF Run, RollbackStep, Acquire, StageStep, StageReject, StageBundle,
     StageCopy, WriteStage, VerifyStep, VerifyStaged, RunKernel, CanaryStaged,
     UpgradeStep, NotReady, Ready, Announce, ReadReceipt, SwapStep, WritePrev,
     WriteActive, WriteNext, LedgerStep, ReadLastEntry, ReadLedger, PublishEntry,
     AuditStep, AuditActive, AuditNext, AuditStore, AuditLedger
<1>2. CASE StageStep(p)
  <2>1. Outside
    BY <1>2 DEF StageStep, StageReject, StageBundle, StageCopy, WriteStage, store
  <2>2. \/ \E code : Finish(p, code)
        \/ \E n \in {"stageCopy", "stageDesc"} : \E l : Advance(p, n, l)
        \/ StageDone(p, "verify")
    BY <1>2 DEF StageStep, StageReject, StageBundle, StageCopy, WriteStage
  <2>3. pc'[p] \notin OriginPCs
    BY <2>2, FinishEffect, AdvanceEffect, StageDoneEffect
  <2> QED
    BY <1>1, <2>1, <2>3, OriginQuiet
<1>3. CASE VerifyStep(p)
  <2>1. Outside
    BY <1>3 DEF VerifyStep, VerifyStaged, RunKernel, CanaryStaged, store
  <2>2. \/ \E code : Finish(p, code)
        \/ \E l : Advance(p, "kernel", l)
        \/ StageDone(p, "canary") \/ StageDone(p, "commit")
    BY <1>3 DEF VerifyStep, VerifyStaged, RunKernel, CanaryStaged
  <2>3. pc'[p] \notin OriginPCs
    BY <2>2, FinishEffect, AdvanceEffect, StageDoneEffect
  <2> QED
    BY <1>1, <2>1, <2>3, OriginQuiet
<1>4. CASE UpgradeStep(p) \/ ReadReceipt(p)
  <2>1. Outside
    BY <1>4 DEF UpgradeStep, NotReady, Ready, Announce, ReadReceipt, store
  <2>2. \/ \E code : Finish(p, code)
        \/ \E n \in {"announce", "commit", "tail"} : \E l : Advance(p, n, l)
    BY <1>4 DEF UpgradeStep, NotReady, Ready, Announce, ReadReceipt
  <2>3. pc'[p] \notin OriginPCs
    BY <2>2, FinishEffect, AdvanceEffect
  <2> QED
    BY <1>1, <2>1, <2>3, OriginQuiet
<1>5. CASE SwapStep(p)
  <2>1. Outside
    BY <1>5 DEF SwapStep, WritePrev, WriteActive, WriteNext, store
  <2>2. \/ \E code : Finish(p, code)
        \/ \E n \in {"active", "next", "receipt", "tail"} : \E l : Advance(p, n, l)
    BY <1>5 DEF SwapStep, WritePrev, WriteActive, WriteNext
  <2>3. pc'[p] \notin OriginPCs
    BY <2>2, FinishEffect, AdvanceEffect
  <2> QED
    BY <1>1, <2>1, <2>3, OriginQuiet
<1>6. CASE LedgerStep(p)
  <2>1. Outside
    BY <1>6 DEF LedgerStep, ReadLastEntry, ReadLedger, PublishEntry, store
  <2>2. \/ \E code : Finish(p, code)
        \/ \E n \in {"append", "publish", "tail"} : \E l : Advance(p, n, l)
    BY <1>6 DEF LedgerStep, ReadLastEntry, ReadLedger, PublishEntry
  <2>3. pc'[p] \notin OriginPCs
    BY <2>2, FinishEffect, AdvanceEffect
  <2> QED
    BY <1>1, <2>1, <2>3, OriginQuiet
<1>7. CASE AuditStep(p)
  <2>1. Outside
    BY <1>7 DEF AuditStep, AuditActive, AuditNext, AuditStore, AuditLedger, store
  <2>2. \/ \E code : Finish(p, code)
        \/ \E n \in {"auditNext", "auditStore", "auditLedger"} : \E l : Advance(p, n, l)
    BY <1>7 DEF AuditStep, AuditActive, AuditNext, AuditStore, AuditLedger
  <2>3. pc'[p] \notin OriginPCs
    BY <2>2, FinishEffect, AdvanceEffect
  <2> QED
    BY <1>1, <2>1, <2>3, OriginQuiet
<1> QED
  BY <1>2, <1>3, <1>4, <1>5, <1>6, <1>7

\* The verdict a commit takes along.
LEMMA LocalsVerdict ==
  ASSUME NEW l \in Locals
  PROVE  /\ \A b, v : [l EXCEPT !.bundle = b, !.verdict = v].verdict = v
         /\ \A o, a : [l EXCEPT !.old = o, !.action = a].verdict = l.verdict
BY DEF Locals

\* A commit reads a verdict and compares the parent.
LEMMA OriginCommit ==
  ASSUME TypeInv, OriginInv, Exclusive, NEW p \in Procs,
         CommitStaged(p) \/ CheckParent(p)
  PROVE  OriginInv'
<1> USE DEF Copying, OriginPCs
<1>1. /\ loc[p] \in Locals /\ OriginOK(p)
      /\ UNCHANGED <<prevActive, stored, receipts>>
      /\ pc[p] \in {"commit", "parent"}
  BY DEF TypeInv, TypeOK, ProcessesOK, OriginInv, CommitStaged, CheckParent, pointers,
         store
<1>2. ASSUME NEW code, Finish(p, code)
      PROVE  OriginInv'
  BY <1>1, <1>2, FinishEffect, OriginQuiet
<1>3. CASE CommitStaged(p)
  <2> DEFINE l == [loc[p] EXCEPT !.bundle = stageFile,
                                 !.verdict = receiptFile.verdict]
  <2>1. l.verdict = receiptFile.verdict
    BY <1>1, LocalsVerdict
  <2>2. Finish(p, "error") \/ (Advance(p, "parent", l) /\ receiptFile # Absent)
    BY <1>3 DEF CommitStaged
  <2> HIDE DEF l
  <2>3. CASE Advance(p, "parent", l) /\ receiptFile # Absent
    <3>1. Others(p) /\ pc'[p] = "parent" /\ loc'[p] = l
      BY <2>3, AdvanceEffect
    <3>2. receiptFile.verdict # "none"
      BY <2>3 DEF TypeInv, TypeOK, FilesOK, Receipt
    <3>3. OriginOK(p)'
      BY <2>1, <3>1, <3>2 DEF OriginOK
    <3> QED
      BY <1>1, <3>1, <3>3, OriginFrame, ReceiptsFrame
  <2> QED
    BY <1>2, <2>2, <2>3
<1>4. CASE CheckParent(p)
  <2> DEFINE old == IF active = Absent THEN Null ELSE active
             l   == [loc[p] EXCEPT !.old = old, !.action = "COMMIT"]
  <2>1. /\ l.old = old /\ l.action = "COMMIT" /\ l.bundle = loc[p].bundle
        /\ l.verdict = loc[p].verdict
    BY <1>1, LocalsFields, LocalsVerdict
  <2>2. \/ Finish(p, "invalid")
        \/ Advance(p, "store", l) /\ old = Parent[loc[p].bundle]
    BY <1>4 DEF CheckParent
  <2> HIDE DEF l
  <2>3. CASE Advance(p, "store", l) /\ old = Parent[loc[p].bundle]
    <3>1. Others(p) /\ pc'[p] = "store" /\ loc'[p] = l
      BY <2>3, AdvanceEffect
    <3>2. loc[p].verdict # "none"
      BY <1>1, <1>4 DEF OriginOK, CheckParent
    <3>3. OriginOK(p)'
      BY <2>1, <2>3, <3>1, <3>2 DEF OriginOK
    <3> QED
      BY <1>1, <3>1, <3>3, OriginFrame, ReceiptsFrame
  <2> QED
    BY <1>2, <2>2, <2>3
<1> QED
  BY <1>3, <1>4

\* A commit that copies the bundle into the store also writes its receipt.
LEMMA OriginStore ==
  ASSUME TypeInv, OriginInv, Exclusive, NEW p \in Procs,
         StoreBundle(p) \/ StoreCopy(p) \/ StoreReceipt(p)
  PROVE  OriginInv'
<1> DEFINE b == loc[p].bundle
<1>1. /\ pc[p] \in {"store"} \cup Copying /\ OriginOK(p)
      /\ prevActive' = prevActive
      /\ b \in Bundles /\ loc[p].verdict # "none"
      /\ stored \in [Bundles -> CopyState] /\ receipts \in [Bundles -> Verdict]
  BY DEF StoreBundle, StoreCopy, StoreReceipt, Copying, OriginInv, OriginOK, pointers,
         TypeInv, TypeOK, FilesOK, WorkOK, Working
<1>2. \E n \in {"prev"} \cup Copying : Advance(p, n, loc[p])
  BY DEF StoreBundle, StoreCopy, StoreReceipt, Copying
<1>3. Others(p) /\ pc'[p] \in {"prev"} \cup Copying /\ loc'[p] = loc[p]
  BY <1>2, AdvanceEffect
<1>4. OriginOK(p)'
  BY <1>1, <1>3 DEF OriginOK, Copying
<1>5. ReceiptsKept'
  <2>1. SUFFICES ASSUME NEW c \in Bundles, stored'[c] # "none", receipts'[c] = "none"
                 PROVE  \E q \in Procs : pc'[q] \in Copying /\ loc'[q].bundle = c
    BY DEF ReceiptsKept
  <2>2. CASE StoreReceipt(p)
    <3>1. /\ stored' = stored /\ receipts' = [receipts EXCEPT ![b] = loc[p].verdict]
      BY <2>2 DEF StoreReceipt
    <3>2. c # b /\ receipts[c] = "none"
      BY <1>1, <2>1, <3>1
    <3>3. PICK q \in Procs : pc[q] \in Copying /\ loc[q].bundle = c
      BY <2>1, <3>1, <3>2 DEF OriginInv, ReceiptsKept
    <3> QED
      BY <1>3, <3>2, <3>3 DEF Others
  <2>3. CASE StoreCopy(p)
    <3>1. /\ pc[p] = "storeCopy" /\ Advance(p, "storeReceipt", loc[p])
          /\ receipts' = receipts
          /\ \A d \in Bundles \ {b} : stored'[d] = stored[d]
      BY <1>1, <2>3 DEF StoreCopy
    <3>2. pc'[p] \in Copying /\ loc'[p].bundle = b
      BY <3>1, AdvanceEffect DEF Copying
    <3>3. CASE c # b
      <4>1. PICK q \in Procs : pc[q] \in Copying /\ loc[q].bundle = c
        BY <2>1, <3>1, <3>3 DEF OriginInv, ReceiptsKept
      <4> QED
        BY <1>3, <3>3, <4>1 DEF Others
    <3> QED
      BY <3>2, <3>3
  <2>4. CASE StoreBundle(p)
    <3>1. /\ pc[p] = "store"
          /\ receipts' = receipts
          /\ \A d \in Bundles \ {b} : stored'[d] = stored[d]
          /\ \/ stored' = stored
             \/ Advance(p, "storeCopy", loc[p])
      BY <1>1, <2>4 DEF StoreBundle
    <3>2. CASE stored[c] # "none"
      <4>1. PICK q \in Procs : pc[q] \in Copying /\ loc[q].bundle = c
        BY <2>1, <3>1, <3>2 DEF OriginInv, ReceiptsKept
      <4>2. q # p
        BY <3>1, <4>1 DEF Copying
      <4> QED
        BY <1>3, <4>1, <4>2 DEF Others
    <3>3. CASE stored[c] = "none"
      <4>1. c = b /\ Advance(p, "storeCopy", loc[p])
        BY <2>1, <3>1, <3>3
      <4>2. pc'[p] \in Copying /\ loc'[p].bundle = c
        BY <4>1, AdvanceEffect DEF Copying
      <4> QED
        BY <4>2
    <3> QED
      BY <3>2, <3>3
  <2> QED
    BY <2>2, <2>3, <2>4
<1>6. Busy(p)
  BY <1>1 DEF Busy, Copying
<1> QED
  BY <1>3, <1>4, <1>5, <1>6, OriginFrame

\* A rollback exchanges the two bundles it has read.
LEMMA OriginRollback ==
  ASSUME TypeInv, SwapInv, OriginInv, Exclusive, NEW p \in Procs,
         RollbackActive(p) \/ RollbackTarget(p)
  PROVE  OriginInv'
<1> USE DEF Copying, OriginPCs
<1>1. /\ loc[p] \in Locals /\ OriginOK(p)
      /\ active \in BundleOrAbsent
      /\ UNCHANGED <<prevActive, stored, receipts>>
      /\ pc[p] \in {"rollback", "target"}
  BY DEF TypeInv, TypeOK, FilesOK, ProcessesOK, OriginInv, RollbackActive,
         RollbackTarget, pointers, store
<1>2. ASSUME NEW code, Finish(p, code)
      PROVE  OriginInv'
  BY <1>1, <1>2, FinishEffect, OriginQuiet
<1>3. CASE RollbackActive(p)
  <2> DEFINE l == [loc[p] EXCEPT !.old = active, !.action = "ROLLBACK"]
  <2>1. l.action = "ROLLBACK"
    BY <1>1, LocalsFields
  <2>2. Finish(p, "error") \/ Advance(p, "target", l)
    BY <1>3 DEF RollbackActive
  <2> HIDE DEF l
  <2>3. CASE Advance(p, "target", l)
    <3>1. Others(p) /\ pc'[p] = "target" /\ loc'[p] = l
      BY <2>3, AdvanceEffect
    <3>2. OriginOK(p)'
      BY <2>1, <3>1 DEF OriginOK
    <3> QED
      BY <1>1, <3>1, <3>2, OriginFrame, ReceiptsFrame
  <2> QED
    BY <1>2, <2>2, <2>3
<1>4. CASE RollbackTarget(p)
  <2> DEFINE l == [loc[p] EXCEPT !.bundle = prevActive]
  <2>1. /\ l.bundle = prevActive /\ l.old = loc[p].old
        /\ l.action = loc[p].action
    BY <1>1, LocalsFields, LocalsAction
  <2>2. \/ Finish(p, "error") \/ Finish(p, "invalid")
        \/ Advance(p, "prev", l)
    BY <1>4 DEF RollbackTarget
  <2> HIDE DEF l
  <2>3. CASE Advance(p, "prev", l)
    <3>1. Others(p) /\ pc'[p] = "prev" /\ loc'[p] = l
      BY <2>3, AdvanceEffect
    <3>2. loc[p].action = "ROLLBACK" /\ loc[p].old \in Bundles
      <4>1. pc[p] = "target"
        BY <1>4 DEF RollbackTarget
      <4>2. loc[p].old # Absent /\ active = loc[p].old
        BY <4>1 DEF SwapInv
      <4> QED
        BY <1>1, <4>1, <4>2 DEF OriginOK, BundleOrAbsent
    <3>3. OriginOK(p)'
      BY <1>1, <2>1, <3>1, <3>2 DEF OriginOK
    <3> QED
      BY <1>1, <3>1, <3>3, OriginFrame, ReceiptsFrame
  <2> QED
    BY <1>2, <2>2, <2>3
<1> QED
  BY <1>3, <1>4

\* Without deaths every step keeps it.
LEMMA OriginNext ==
  ASSUME Undisturbed, TypeInv, Exclusive, SwapInv, OriginInv, [Next]_vars
  PROVE  OriginInv'
<1>1. CASE UNCHANGED vars
  BY <1>1 DEF vars, pointers, store, OriginInv, ReceiptsKept, OriginOK
<1>2. ASSUME NEW p \in Procs
      PROVE  ~Die(p)
  BY DEF Undisturbed, Die, TypeInv, TypeOK, ProcessesOK
<1>3. ASSUME NEW p \in Procs, Run(p)
      PROVE  OriginInv'
  BY <1>3, OriginEnvironment, OriginQuietSteps, OriginCommit, OriginStore,
     OriginRollback DEF Run, CommitStep, RollbackStep
<1> QED
  BY <1>1, <1>2, <1>3, OriginEnvironment DEF Next

LEMMA OriginInit == Init => OriginInv
BY DEF Init, Fresh, Seeded, Shipped, InitFiles, OriginInv, ReceiptsKept, OriginOK,
       Copying

\* The state of the atomic history the engine is in.
Current == IF Pending = {} THEN active ELSE Carrier.bundle

History == IF Pending = {} THEN Recorded
           ELSE Append(Recorded, [action |-> Carrier.action,
                                  active |-> Carrier.bundle,
                                  prev   |-> Carrier.old])

\* What the ledger records grows with the ledger.
LEMMA RecordedGrows ==
  ASSUME NEW log \in Seq(Entry), NEW e \in Entry
  PROVE  [i \in 1 .. Len(Append(log, e)) |-> Strip(Append(log, e)[i].body)]
           = Append([i \in 1 .. Len(log) |-> Strip(log[i].body)], Strip(e.body))
<1> DEFINE n    == Len(log)
           long == Append(log, e)
           S    == [action : LedgerActions, active : BundleOrAbsent, prev : Pointer]
           old  == [i \in 1 .. n |-> Strip(log[i].body)]
           new  == [i \in 1 .. Len(long) |-> Strip(long[i].body)]
<1>1. n \in Nat /\ Len(long) = n + 1 /\ long[n + 1] = e /\ long \in Seq(Entry)
      /\ \A i \in 1 .. n : long[i] = log[i]
  OBVIOUS
<1> HIDE DEF long, n
<1>2. \A x \in Entry : Strip(x.body) \in S
  BY DEF Entry, Body, Strip
<1>3. \A i \in 1 .. n : log[i] \in Entry
  BY DEF n
<1>4. \A i \in 1 .. (n + 1) : long[i] \in Entry
  BY <1>1
<1>5. old \in Seq(S) /\ Len(old) = n
  BY <1>1, <1>2, <1>3
<1>6. new \in Seq(S) /\ Len(new) = n + 1
  BY <1>1, <1>2, <1>4
<1>7. Strip(e.body) \in S
  BY <1>2
<1>8. \A i \in 1 .. n : new[i] = old[i]
  BY <1>1
<1>9. new[n + 1] = Strip(e.body)
  BY <1>1
<1> HIDE DEF old, new, S
<1>10. /\ Append(old, Strip(e.body)) \in Seq(S)
       /\ Len(Append(old, Strip(e.body))) = n + 1
       /\ \A i \in 1 .. n : Append(old, Strip(e.body))[i] = old[i]
       /\ Append(old, Strip(e.body))[n + 1] = Strip(e.body)
  BY <1>5, <1>7
<1>11. \A i \in 1 .. (n + 1) : new[i] = Append(old, Strip(e.body))[i]
  BY <1>1, <1>8, <1>9, <1>10
<1>12. new = Append(old, Strip(e.body))
  BY <1>6, <1>10, <1>11, SeqEqual
<1> QED
  BY <1>12 DEF old, new, long, n

\* The process that works is the only one that can be swapping.
LEMMA OneSwaps ==
  ASSUME Exclusive, NEW p \in Procs, Busy(p), Others(p)
  PROVE  /\ Swapping(p) => Pending = {p} /\ Carrier = loc[p]
         /\ ~Swapping(p) => Pending = {}
         /\ Swapping(p)' => Pending' = {p} /\ Carrier' = loc'[p]
         /\ ~Swapping(p)' => Pending' = {}
<1>1. \A q \in Procs \ {p} : ~Swapping(q) /\ ~Swapping(q)'
  BY DEF Exclusive, Busy, Others, Swapping
<1>2. (CHOOSE q \in {p} : TRUE) = p
  OBVIOUS
<1>3. /\ Swapping(p) => Pending = {p}
      /\ ~Swapping(p) => Pending = {}
      /\ Swapping(p)' => Pending' = {p}
      /\ ~Swapping(p)' => Pending' = {}
  BY <1>1 DEF Pending
<1>4. /\ Pending = {p} => Carrier = loc[p]
      /\ Pending' = {p} => Carrier' = loc'[p]
  BY <1>2 DEF Carrier
<1> QED
  BY <1>3, <1>4

\* A step outside a swap changes nothing of the history.
LEMMA HistoryQuiet ==
  ASSUME Exclusive, NEW p \in Procs, Busy(p), Others(p),
         ~Swapping(p), ~Swapping(p)', UNCHANGED <<active, ledger>>
  PROVE  UNCHANGED <<Current, History>>
<1>1. Pending = {} /\ Pending' = {}
  BY OneSwaps
<1> QED
  BY <1>1 DEF Current, History, Recorded

\* Nor does a step of a swap that has taken effect already.
LEMMA HistoryCarried ==
  ASSUME Exclusive, NEW p \in Procs, Busy(p), Others(p),
         Swapping(p), Swapping(p)', ledger' = ledger,
         loc'[p].bundle = loc[p].bundle, loc'[p].old = loc[p].old,
         loc'[p].action = loc[p].action
  PROVE  UNCHANGED <<Current, History>>
<1>1. Pending = {p} /\ Pending' = {p} /\ Carrier = loc[p] /\ Carrier' = loc'[p]
  BY OneSwaps
<1>2. Pending # {} /\ Pending' # {}
  BY <1>1
<1>3. Recorded' = Recorded
  BY DEF Recorded
<1> QED
  BY <1>1, <1>2, <1>3 DEF Current, History

SwappingPCs == {"active", "next", "receipt", "tail", "append", "publish"}

\* Up to its first pointer write a command has changed nothing.
LEMMA HistoryBefore ==
  ASSUME TypeInv, Exclusive, NEW p \in Procs,
         \/ StageStep(p) \/ VerifyStep(p) \/ UpgradeStep(p) \/ CommitStep(p)
         \/ RollbackActive(p) \/ RollbackTarget(p) \/ AuditStep(p)
  PROVE  UNCHANGED <<Current, prevActive, History>>
<1> USE DEF SwappingPCs
<1>1. Run(p) /\ ~Acquire(p) /\ pc[p] \notin SwappingPCs
  BY DEF Run, RollbackStep, Acquire, StageStep, StageReject, StageBundle,
     StageCopy, WriteStage, VerifyStep, VerifyStaged, RunKernel, CanaryStaged,
     UpgradeStep, NotReady, Ready, Announce, CommitStep, CommitStaged, CheckParent,
     StoreBundle, StoreCopy, StoreReceipt, RollbackActive, RollbackTarget,
     AuditStep, AuditActive, AuditNext, AuditStore, AuditLedger
<1>2. UNCHANGED <<active, prevActive, ledger>>
  <2>1. CASE Announce(p)
    BY <2>1 DEF Announce
  <2>2. CASE ~Announce(p)
    <3>1. ~SwapStep(p) /\ ~PublishEntry(p)
      <4>1. SwapStep(p) \/ PublishEntry(p) => pc[p] \in {"prev"} \cup SwappingPCs
        BY DEF SwapStep, WritePrev, WriteActive, WriteNext, PublishEntry
      <4>2. pc[p] # "prev"
        BY DEF StageStep, StageReject, StageBundle, StageCopy, WriteStage, VerifyStep,
               VerifyStaged, RunKernel, CanaryStaged, UpgradeStep, NotReady, Ready,
               Announce, CommitStep, CommitStaged, CheckParent, StoreBundle, StoreCopy,
               StoreReceipt, RollbackActive, RollbackTarget, AuditStep, AuditActive,
               AuditNext, AuditStore, AuditLedger
      <4> QED
        BY <1>1, <4>1, <4>2
    <3> QED
      BY <1>1, <2>2, <3>1, FilesStill DEF Pointing
  <2> QED
    BY <2>1, <2>2
<1>3. pc'[p] \notin SwappingPCs
  <2>1. CASE StageStep(p)
    <3>1. \/ \E code : Finish(p, code)
          \/ \E n \in {"stageCopy", "stageDesc"} : \E l : Advance(p, n, l)
          \/ StageDone(p, "verify")
      BY <2>1 DEF StageStep, StageReject, StageBundle, StageCopy, WriteStage
    <3> QED
      BY <3>1, FinishEffect, AdvanceEffect, StageDoneEffect
  <2>2. CASE VerifyStep(p)
    <3>1. \/ \E code : Finish(p, code)
          \/ \E l : Advance(p, "kernel", l)
          \/ StageDone(p, "canary") \/ StageDone(p, "commit")
      BY <2>2 DEF VerifyStep, VerifyStaged, RunKernel, CanaryStaged
    <3> QED
      BY <3>1, FinishEffect, AdvanceEffect, StageDoneEffect
  <2>3. CASE UpgradeStep(p) \/ RollbackActive(p) \/ RollbackTarget(p)
    <3>1. \/ \E code : Finish(p, code)
          \/ \E n \in {"announce", "commit", "target", "prev"} : \E l : Advance(p, n, l)
      BY <2>3 DEF UpgradeStep, NotReady, Ready, Announce, RollbackActive, RollbackTarget
    <3> QED
      BY <3>1, FinishEffect, AdvanceEffect
  <2>4. CASE CommitStep(p)
    <3>1. \/ \E code : Finish(p, code)
          \/ \E n \in {"parent", "store", "storeCopy", "storeReceipt", "prev"} :
               \E l : Advance(p, n, l)
      BY <2>4 DEF CommitStep, CommitStaged, CheckParent, StoreBundle, StoreCopy,
                  StoreReceipt
    <3> QED
      BY <3>1, FinishEffect, AdvanceEffect
  <2>5. CASE AuditStep(p)
    <3>1. \/ \E code : Finish(p, code)
          \/ \E n \in {"auditNext", "auditStore", "auditLedger"} :
               \E l : Advance(p, n, l)
      BY <2>5 DEF AuditStep, AuditActive, AuditNext, AuditStore, AuditLedger
    <3> QED
      BY <3>1, FinishEffect, AdvanceEffect
  <2> QED
    BY <2>1, <2>2, <2>3, <2>4, <2>5
<1>4. ~Swapping(p) /\ ~Swapping(p)' /\ Busy(p) /\ Others(p)
  BY <1>1, <1>3, RunEffect DEF Swapping
<1> QED
  BY <1>2, <1>4, HistoryQuiet

\* The step of the history a swap takes with its first pointer write.
LEMMA HistorySwap ==
  ASSUME Undisturbed, TypeInv, Exclusive, SwapInv, SuccessInv, OriginInv,
         NEW p \in Procs, WritePrev(p)
  PROVE  Atomic!HistoryNext
<1> DEFINE b == loc[p].bundle
           o == loc[p].old
           a == loc[p].action
<1>1. /\ pc[p] = "prev" /\ Busy(p)
      /\ active' = active /\ ledger' = ledger /\ prevActive' = o
      /\ Advance(p, "active", loc[p])
  BY DEF WritePrev, Busy, Undisturbed
<1>2. Others(p) /\ pc'[p] = "active" /\ loc'[p] = loc[p]
  BY <1>1, AdvanceEffect
<1>3. a # "REGIME_UPGRADE"
  BY <1>1 DEF SuccessInv, SuccessOK, SwapPCs
<1>4. ~Swapping(p) /\ Swapping(p)'
  BY <1>1, <1>2, <1>3 DEF Swapping
<1>5. /\ Pending = {} /\ Pending' = {p} /\ Carrier' = loc[p]
      /\ Recorded' = Recorded
  BY <1>1, <1>2, <1>4, OneSwaps DEF Recorded
<1>6. Pending' # {}
  BY <1>5
<1>7. /\ Current = active /\ Current' = b
      /\ History = Recorded
      /\ History' = Append(Recorded, [action |-> a, active |-> b, prev |-> o])
  BY <1>5, <1>6 DEF Current, History
<1>8. /\ o # Absent /\ active = IF o = Null THEN Absent ELSE o
      /\ b \in Bundles
  BY <1>1 DEF SwapInv, ActiveStill, TypeInv, WorkOK, Working
<1>9. active \in BundleOrAbsent /\ o \in Pointer
  BY LocTyped DEF TypeInv, TypeOK, FilesOK
<1>10. CASE a = "COMMIT"
  <2>1. Parent[b] = o
    BY <1>1, <1>10 DEF OriginInv, OriginOK
  <2>2. o = IF active = Absent THEN Null ELSE active
    BY <1>8, <1>9, BundlesAssumption DEF Pointer
  <2>3. Atomic!Commit(b)
    BY <1>1, <1>7, <1>10, <2>1, <2>2 DEF Atomic!Commit, Atomic!Record, Current, History
  <2> QED
    BY <1>8, <2>3 DEF Atomic!HistoryNext
<1>11. CASE a # "COMMIT"
  <2>1. a = "ROLLBACK" /\ o \in Bundles /\ prevActive = b
    BY <1>1, <1>11 DEF OriginInv, OriginOK
  <2>2. active = o
    BY <1>8, <2>1, BundlesAssumption
  <2>3. Atomic!Rollback
    BY <1>1, <1>7, <1>8, <2>1, <2>2 DEF Atomic!Rollback, Atomic!Record, Current, History
  <2> QED
    BY <2>3 DEF Atomic!HistoryNext
<1> QED
  BY <1>10, <1>11

\* A rollback finds the receipt of the bundle it has restored.
LEMMA ReceiptFound ==
  ASSUME TypeInv, Exclusive, StoreInv, SuccessInv, OriginInv,
         NEW p \in Procs, ReadReceipt(p)
  PROVE  Advance(p, "tail", loc[p])
<1>1. pc[p] = "receipt" /\ Busy(p)
  BY DEF ReadReceipt, Busy
<1>2. active = loc[p].bundle /\ loc[p].bundle \in Bundles
  BY <1>1 DEF SuccessInv, SuccessOK, Swapped, TypeInv, WorkOK, Working
<1>3. stored[loc[p].bundle] # "none"
  BY <1>2 DEF StoreInv, PointersInStore
<1>4. \A q \in Procs : pc[q] \notin Copying
  BY <1>1 DEF Exclusive, Busy, Copying
<1>5. receipts[loc[p].bundle] # "none"
  BY <1>2, <1>3, <1>4 DEF OriginInv, ReceiptsKept
<1> QED
  BY <1>5 DEF ReadReceipt

\* The rest of the swap, up to the publication, has happened already.
LEMMA HistoryAfter ==
  ASSUME TypeInv, Exclusive, StoreInv, SuccessInv, OriginInv, NEW p \in Procs,
         \/ WriteActive(p) \/ WriteNext(p) \/ ReadReceipt(p)
         \/ ReadLastEntry(p) \/ ReadLedger(p)
  PROVE  UNCHANGED <<Current, prevActive, History>>
<1>1. /\ loc[p] \in Locals /\ Busy(p) /\ pc[p] \in SwappingPCs
      /\ prevActive' = prevActive /\ ledger' = ledger
  BY DEF TypeInv, TypeOK, ProcessesOK, Busy, SwappingPCs, WriteActive, WriteNext,
         ReadReceipt, ReadLastEntry, ReadLedger, pointers
<1> DEFINE Same(l) == /\ l.bundle = loc[p].bundle /\ l.old = loc[p].old
                      /\ l.action = loc[p].action
<1>2. \E n \in SwappingPCs : \E l : Advance(p, n, l) /\ Same(l)
  <2>1. CASE WriteActive(p) \/ WriteNext(p) \/ ReadReceipt(p)
    <3>1. \E n \in {"next", "receipt", "tail"} : Advance(p, n, loc[p])
      BY <2>1, ReceiptFound DEF WriteActive, WriteNext
    <3> QED
      BY <3>1 DEF SwappingPCs
  <2>2. CASE ReadLastEntry(p)
    <3> DEFINE l == [loc[p] EXCEPT !.head = ReadLast(ledger)]
    <3>1. Same(l)
      BY <1>1, LocalsFields, LocalsAction
    <3>2. Advance(p, "append", l)
      BY <2>2 DEF ReadLastEntry
    <3> QED
      BY <3>1, <3>2 DEF SwappingPCs
  <2>3. CASE ReadLedger(p)
    <3> DEFINE l == [loc[p] EXCEPT !.base = ledger]
    <3>1. Same(l)
      BY <1>1, LocalsFields, LocalsAction
    <3>2. Advance(p, "publish", l)
      BY <2>3 DEF ReadLedger
    <3> QED
      BY <3>1, <3>2 DEF SwappingPCs
  <2> QED
    BY <2>1, <2>2, <2>3
<1>3. Others(p) /\ pc'[p] \in SwappingPCs /\ Same(loc'[p])
  BY <1>2, AdvanceEffect
<1>4. CASE loc[p].action # "REGIME_UPGRADE"
  <2>1. Swapping(p) /\ Swapping(p)'
    BY <1>1, <1>3, <1>4 DEF Swapping, SwappingPCs
  <2> QED
    BY <1>1, <1>3, <2>1, HistoryCarried
<1>5. CASE loc[p].action = "REGIME_UPGRADE"
  <2>1. ~Swapping(p) /\ ~Swapping(p)'
    BY <1>3, <1>5 DEF Swapping
  <2>2. active' = active
    <3>1. ~WriteActive(p)
      BY <1>5 DEF WriteActive, SuccessInv, SuccessOK, SwapPCs
    <3> QED
      BY <3>1 DEF WriteNext, ReadReceipt, ReadLastEntry, ReadLedger, pointers
  <2> QED
    BY <1>1, <1>3, <2>1, <2>2, HistoryQuiet
<1> QED
  BY <1>4, <1>5

\* The publication of an entry: that of a swap has been in the history since the
\* swap took effect, the mark of an upgrade enters it now.
LEMMA HistoryPublish ==
  ASSUME TypeInv, Exclusive, SuccessInv, LedgerInv, NEW p \in Procs, PublishEntry(p)
  PROVE  \/ Atomic!HistoryNext
         \/ UNCHANGED <<Current, prevActive, History>>
<1> DEFINE e == MakeEntry(loc[p])
           r == Strip(e.body)
<1>1. /\ ledger' = Append(ledger, e)
      /\ UNCHANGED <<active, prevActive>>
      /\ active = loc[p].bundle
      /\ e.body.action = loc[p].action /\ e.body.active = active
      /\ loc[p].action # "REGIME_UPGRADE" => e.body.prev = prevActive
      /\ loc[p].action = "REGIME_UPGRADE" => CommitOf(ledger, active, prevActive)
  BY Published
<1>2. /\ loc[p] \in Locals /\ e \in Entry /\ ledger \in Seq(Entry)
  BY MakeEntryType DEF TypeInv, TypeOK, FilesOK, ProcessesOK
<1>3. Recorded' = Append(Recorded, r)
  BY <1>1, <1>2, RecordedGrows DEF Recorded
<1>4. /\ pc[p] = "publish" /\ Busy(p) /\ Others(p)
  BY RunEffect DEF PublishEntry, Busy, Run, LedgerStep, Acquire
<1>5. ~Swapping(p)'
  <2> DEFINE l == [NoLocals EXCEPT !.bundle = loc[p].bundle,
                                   !.action = "REGIME_UPGRADE"]
  <2>1. l.action = "REGIME_UPGRADE"
    BY DEF NoLocals
  <2>2. Finish(p, "ok") \/ Advance(p, "tail", l)
    BY DEF PublishEntry
  <2> HIDE DEF l
  <2>3. pc'[p] = "idle" \/ loc'[p] = l
    BY <2>2, FinishEffect, AdvanceEffect
  <2> QED
    BY <2>1, <2>3 DEF Swapping
<1>6. Pending' = {} /\ Current' = active /\ History' = Append(Recorded, r)
  BY <1>1, <1>3, <1>4, <1>5, OneSwaps DEF Current, History
<1>7. r = [action |-> loc[p].action, active |-> active, prev |-> e.body.prev]
  BY <1>1 DEF Strip
<1> HIDE DEF e, r
<1>8. CASE loc[p].action # "REGIME_UPGRADE"
  <2>1. Swapping(p)
    BY <1>4, <1>8 DEF Swapping
  <2>2. Pending = {p} /\ Carrier = loc[p]
    BY <1>4, <2>1, OneSwaps
  <2>3. loc[p].old = prevActive
    BY <1>4, <1>8 DEF SuccessInv, SuccessOK, Swapped
  <2>4. Pending # {}
    BY <2>2
  <2>5. /\ Current = active
        /\ History = Append(Recorded, r)
    BY <1>1, <1>7, <1>8, <2>2, <2>3, <2>4 DEF Current, History
  <2> QED
    BY <1>1, <1>6, <2>5
<1>9. CASE loc[p].action = "REGIME_UPGRADE"
  <2>1. Pending = {}
    BY <1>4, <1>9, OneSwaps DEF Swapping
  <2>2. Current = active /\ History = Recorded
    BY <2>1 DEF Current, History
  <2>3. e.body.prev = Absent
    BY <1>9 DEF e, MakeEntry
  <2>4. /\ Recorded # <<>>
        /\ Recorded[Len(Recorded)] = [action |-> "COMMIT", active |-> active,
                                      prev |-> prevActive]
    <3>1. Len(ledger) \in Nat \ {0}
      BY <1>1, <1>2, <1>9 DEF CommitOf
    <3>2. Len(Recorded) = Len(ledger) /\ Recorded # <<>>
      BY <3>1 DEF Recorded
    <3>3. Recorded[Len(ledger)] = Strip(ledger[Len(ledger)].body)
      BY <3>1 DEF Recorded
    <3> QED
      BY <1>1, <1>9, <3>2, <3>3 DEF CommitOf, Strip
  <2>5. Atomic!MarkUpgrade
    BY <1>1, <1>6, <1>7, <1>9, <2>2, <2>3, <2>4
       DEF Atomic!MarkUpgrade, Atomic!Record, Current, History
  <2> QED
    BY <2>5 DEF Atomic!HistoryNext
<1> QED
  BY <1>8, <1>9

\* Starting a command and taking the lock leave the history alone.
LEMMA HistoryEnvironment ==
  ASSUME TypeInv, NEW p \in Procs,
         \/ \E c \in EnabledCommands, b \in BundleOrAbsent : Start(p, c, b)
         \/ Acquire(p)
  PROVE  UNCHANGED <<Current, prevActive, History>>
<1>1. Others(p) /\ UNCHANGED <<active, prevActive, ledger>>
  BY EnvironmentEffect DEF Start, Acquire, pointers
<1>2. pc[p] \notin SwappingPCs /\ pc'[p] \notin SwappingPCs
  <2>1. ASSUME NEW c \in EnabledCommands, NEW b \in BundleOrAbsent, Start(p, c, b)
        PROVE  <1>2
    BY <2>1, EnvironmentEffect, EnvironmentAssumption
       DEF Start, Entrance, LockedCommands, AllCommands, SwappingPCs
  <2>2. ASSUME Acquire(p)
        PROVE  <1>2
    BY <2>2, EnvironmentEffect DEF SwappingPCs
  <2> QED
    BY <2>1, <2>2
<1>3. \A q \in Procs : (Swapping(q)' <=> Swapping(q)) /\ (Swapping(q) => loc'[q] = loc[q])
  BY <1>1, <1>2 DEF Swapping, SwappingPCs, Others
<1>4. Pending' = Pending
  BY <1>3 DEF Pending
<1>5. Pending # {} => Carrier' = Carrier
  <2>1. SUFFICES ASSUME Pending # {}
                 PROVE  Carrier' = Carrier
    OBVIOUS
  <2>2. (CHOOSE q \in Pending : TRUE) \in Pending
    BY <2>1
  <2> QED
    BY <1>3, <1>4, <2>2 DEF Carrier, Pending
<1> QED
  BY <1>1, <1>4, <1>5 DEF Current, History, Recorded

\* Every step is a step of the history or none.
LEMMA HistoryStep ==
  ASSUME Undisturbed, TypeInv, Exclusive, StoreInv, SwapInv, LedgerInv, SuccessInv,
         OriginInv, [Next]_vars
  PROVE  Atomic!HistoryNext \/ UNCHANGED <<Current, prevActive, History>>
<1>1. CASE UNCHANGED vars
  BY <1>1 DEF vars, pointers, Current, History, Recorded, Carrier, Pending, Swapping
<1>2. ASSUME NEW p \in Procs
      PROVE  ~Die(p)
  BY DEF Undisturbed, Die, TypeInv, TypeOK, ProcessesOK
<1>3. ASSUME NEW p \in Procs, Run(p)
      PROVE  Atomic!HistoryNext \/ UNCHANGED <<Current, prevActive, History>>
  <2>1. CASE \/ StageStep(p) \/ VerifyStep(p) \/ UpgradeStep(p) \/ CommitStep(p)
             \/ RollbackActive(p) \/ RollbackTarget(p) \/ AuditStep(p)
    BY <2>1, HistoryBefore
  <2>2. CASE WritePrev(p)
    BY <2>2, HistorySwap
  <2>3. CASE \/ WriteActive(p) \/ WriteNext(p) \/ ReadReceipt(p)
             \/ ReadLastEntry(p) \/ ReadLedger(p)
    BY <2>3, HistoryAfter
  <2>4. CASE PublishEntry(p)
    BY <2>4, HistoryPublish
  <2>5. CASE Acquire(p)
    BY <2>5, HistoryEnvironment
  <2> QED
    BY <1>3, <2>1, <2>2, <2>3, <2>4, <2>5 DEF Run, RollbackStep, SwapStep, LedgerStep
<1> QED
  BY <1>1, <1>2, <1>3, HistoryEnvironment DEF Next

\* Nothing is swapping and nothing is recorded at first.
LEMMA HistoryStart == Init => Atomic!HistoryInit
<1> SUFFICES ASSUME Init
             PROVE  Atomic!HistoryInit
  OBVIOUS
<1>1. Pending = {}
  BY DEF Init, Pending, Swapping
<1>2. Recorded = <<>>
  BY DEF Init, Recorded
<1>3. active \in Bundles \cup {Absent} /\ prevActive \in Bundles \cup {Absent}
  BY BundlesAssumption DEF Init, Fresh, Seeded, Shipped, InitFiles
<1> QED
  BY <1>1, <1>2, <1>3 DEF Atomic!HistoryInit

\* All that the steps of the history rest on.
HistoryInv ==
  /\ TypeInv /\ LockInv /\ Exclusive /\ StoreInv
  /\ SwapInv /\ LedgerInv /\ SuccessInv /\ OriginInv

LEMMA HistoryInvariant ==
  ASSUME Undisturbed
  PROVE  Spec => []HistoryInv
<1>1. Serialized
  BY DEF Undisturbed
<1>2. Init => SuccessInv
  BY DEF Init, SuccessInv, SuccessOK, StagePCs, AuditPCs, SwapPCs, Swapped
<1>3. TypeInv /\ Exclusive /\ SwapInv /\ OriginInv /\ [Next]_vars => OriginInv'
  BY OriginNext
<1> QED
  BY <1>1, <1>2, <1>3, StoreInit, StoreNext, SwapInit, SwapNext, LedgerInit, LedgerNext,
     SuccessNext, OriginInit, ExclusiveInvariant, PTL DEF Spec, HistoryInv

\* The undisturbed engine implements the atomic history: a commit, a rollback and
\* the mark of an upgrade are one step each, taken with the first pointer write
\* of commit_staged and rollback_active, though each is several file writes.
THEOREM EngineKeepsHistory ==
  ASSUME Undisturbed
  PROVE  Spec => ImplementsHistory
<1>1. HistoryInv /\ [Next]_vars => [Atomic!HistoryNext]_<<Current, prevActive, History>>
  BY HistoryStep DEF HistoryInv
<1>2. HistoryInv /\ [Next]_vars => [Atomic!HistoryNext]_Atomic!historyVars
  BY <1>1 DEF Atomic!historyVars, Current, History
<1> QED
  BY <1>2, HistoryStart, HistoryInvariant, PTL
     DEF Spec, ImplementsHistory, Atomic!HistorySpec

\* The last swap of a history exchanged o for c.
LastIs(h, c, o) ==
  \E i \in 1 .. Len(h) :
    /\ h[i].action # "REGIME_UPGRADE" /\ h[i].active = c /\ h[i].prev = o
    /\ \A j \in (i + 1) .. Len(h) : h[j].action = "REGIME_UPGRADE"

RecordedInv == History # <<>> => LastIs(History, Current, prevActive)

Records == [action : LedgerActions, active : BundleOrAbsent, prev : Pointer]

\* The history is a sequence of records.
LEMMA HistoryType ==
  ASSUME TypeInv
  PROVE  History \in Seq(Records)
<1>1. Recorded \in Seq(Records)
  <2>1. ledger \in Seq(Entry)
    BY DEF TypeInv, TypeOK, FilesOK
  <2>2. \A i \in 1 .. Len(ledger) : Strip(ledger[i].body) \in Records
    <3>1. \A e \in Entry : Strip(e.body) \in Records
      BY DEF Entry, Body, Strip, Records
    <3> QED
      BY <2>1, <3>1
  <2> QED
    BY <2>1, <2>2 DEF Recorded
<1>2. CASE Pending # {}
  <2>1. (CHOOSE p \in Pending : TRUE) \in Procs
    BY <1>2 DEF Pending
  <2>2. Carrier \in Locals
    BY <2>1 DEF Carrier, TypeInv, TypeOK, ProcessesOK
  <2>3. /\ Carrier.action \in LedgerActions /\ Carrier.bundle \in BundleOrAbsent
        /\ Carrier.old \in Pointer
    BY <2>2 DEF Locals
  <2>4. [action |-> Carrier.action, active |-> Carrier.bundle, prev |-> Carrier.old]
          \in Records
    BY <2>3 DEF Records
  <2> QED
    BY <1>1, <1>2, <2>4 DEF History
<1> QED
  BY <1>1, <1>2 DEF History

\* A swap becomes the last one, a mark does not.
LEMMA LastIsKept ==
  ASSUME NEW h \in Seq(Records), NEW r, NEW c, NEW o
  PROVE  /\ r.action # "REGIME_UPGRADE" => LastIs(Append(h, r), r.active, r.prev)
         /\ r.action = "REGIME_UPGRADE" /\ LastIs(h, c, o) => LastIs(Append(h, r), c, o)
<1> DEFINE n == Len(h)
           q == Append(h, r)
<1>1. n \in Nat /\ Len(q) = n + 1 /\ q[n + 1] = r /\ \A i \in 1 .. n : q[i] = h[i]
  OBVIOUS
<1> HIDE DEF q, n
<1>2. ASSUME r.action # "REGIME_UPGRADE"
      PROVE  LastIs(q, r.active, r.prev)
  <2>1. n + 1 \in 1 .. Len(q) /\ ((n + 1) + 1) .. Len(q) = {}
    BY <1>1
  <2> QED
    BY <1>1, <1>2, <2>1 DEF LastIs
<1>3. ASSUME r.action = "REGIME_UPGRADE", LastIs(h, c, o)
      PROVE  LastIs(q, c, o)
  <2>1. PICK i \in 1 .. n :
          /\ h[i].action # "REGIME_UPGRADE" /\ h[i].active = c /\ h[i].prev = o
          /\ \A j \in (i + 1) .. n : h[j].action = "REGIME_UPGRADE"
    BY <1>3 DEF LastIs, n
  <2>2. i \in 1 .. Len(q) /\ q[i] = h[i]
    BY <1>1, <2>1
  <2>3. \A j \in (i + 1) .. Len(q) : q[j].action = "REGIME_UPGRADE"
    BY <1>1, <1>3, <2>1
  <2> QED
    BY <2>1, <2>2, <2>3 DEF LastIs
<1> QED
  BY <1>2, <1>3 DEF q

\* Every step of the atomic history keeps it.
LEMMA RecordedNext ==
  ASSUME TypeInv, RecordedInv, Atomic!HistoryNext
  PROVE  RecordedInv'
<1>1. History \in Seq(Records)
  BY HistoryType
<1>2. ASSUME NEW r, History' = Append(History, r), r.action # "REGIME_UPGRADE",
             Current' = r.active, prevActive' = r.prev
      PROVE  RecordedInv'
  BY <1>1, <1>2, LastIsKept DEF RecordedInv
<1>3. ASSUME NEW b \in Bundles, Atomic!Commit(b)
      PROVE  RecordedInv'
  <2> DEFINE o == IF Current = Absent THEN Null ELSE Current
             r == [action |-> "COMMIT", active |-> b, prev |-> o]
  <2>1. History' = Append(History, r) /\ Current' = b /\ prevActive' = o
    BY <1>3 DEF Atomic!Commit, Atomic!Record, Current, History
  <2>2. r.action # "REGIME_UPGRADE" /\ r.active = b /\ r.prev = o
    OBVIOUS
  <2> HIDE DEF r, o
  <2> QED
    BY <1>2, <2>1, <2>2
<1>4. CASE Atomic!Rollback
  <2> DEFINE r == [action |-> "ROLLBACK", active |-> prevActive, prev |-> Current]
  <2>1. History' = Append(History, r) /\ Current' = prevActive /\ prevActive' = Current
    BY <1>4 DEF Atomic!Rollback, Atomic!Record, Current, History
  <2>2. r.action # "REGIME_UPGRADE" /\ r.active = prevActive /\ r.prev = Current
    OBVIOUS
  <2> HIDE DEF r
  <2> QED
    BY <1>2, <2>1, <2>2
<1>5. CASE Atomic!MarkUpgrade
  <2> DEFINE r == [action |-> "REGIME_UPGRADE", active |-> Current, prev |-> Absent]
  <2>1. /\ History' = Append(History, r) /\ History # <<>>
        /\ Current' = Current /\ prevActive' = prevActive
    BY <1>5 DEF Atomic!MarkUpgrade, Atomic!Record, Current, History
  <2>2. r.action = "REGIME_UPGRADE"
    OBVIOUS
  <2> HIDE DEF r
  <2>3. LastIs(History, Current, prevActive)
    BY <2>1 DEF RecordedInv
  <2> QED
    BY <1>1, <2>1, <2>2, <2>3, LastIsKept DEF RecordedInv
<1> QED
  BY <1>3, <1>4, <1>5 DEF Atomic!HistoryNext

\* Between commands of an undisturbed engine the last swap in the ledger is the
\* one on disk.
THEOREM LedgerAgrees ==
  ASSUME Undisturbed
  PROVE  Spec => []LedgerRecordsPointers
<1>1. Init => RecordedInv
  BY DEF Init, RecordedInv, History, Recorded, Pending, Swapping
<1>2. HistoryInv /\ RecordedInv /\ [Next]_vars => RecordedInv'
  <2> SUFFICES ASSUME HistoryInv, RecordedInv, [Next]_vars
               PROVE  RecordedInv'
    OBVIOUS
  <2>1. CASE UNCHANGED <<Current, prevActive, History>>
    BY <2>1 DEF RecordedInv
  <2> QED
    BY <2>1, HistoryStep, RecordedNext DEF HistoryInv
<1>3. HistoryInv /\ RecordedInv => LedgerRecordsPointers
  <2> SUFFICES ASSUME HistoryInv, RecordedInv, Quiescent, ledger # <<>>
               PROVE  LastSwap.active = active /\ LastSwap.prev = prevActive
    BY DEF LedgerRecordsPointers
  <2>1. Pending = {} /\ History = Recorded /\ Current = active
    BY DEF Quiescent, Pending, Swapping, History, Current
  <2>2. ledger \in Seq(Entry) /\ Len(ledger) \in Nat \ {0}
    BY DEF HistoryInv, TypeInv, TypeOK, FilesOK
  <2>3. /\ Len(Recorded) = Len(ledger) /\ Recorded # <<>>
        /\ \A i \in 1 .. Len(ledger) : Recorded[i] = Strip(ledger[i].body)
    BY <2>2 DEF Recorded
  <2>4. LastIs(Recorded, active, prevActive)
    BY <2>1, <2>3 DEF RecordedInv
  <2>5. PICK i \in 1 .. Len(ledger) :
          /\ Recorded[i].action # "REGIME_UPGRADE"
          /\ Recorded[i].active = active /\ Recorded[i].prev = prevActive
          /\ \A j \in (i + 1) .. Len(ledger) : Recorded[j].action = "REGIME_UPGRADE"
    BY <2>3, <2>4 DEF LastIs
  <2>6. ASSUME NEW j \in 1 .. Len(ledger)
        PROVE  /\ Recorded[j].action = ledger[j].body.action
               /\ Recorded[j].active = ledger[j].body.active
               /\ Recorded[j].prev = ledger[j].body.prev
    <3>1. Recorded[j] = Strip(ledger[j].body)
      BY <2>3
    <3> QED
      BY <3>1 DEF Strip
  <2>7. /\ ledger[i].body.action # "REGIME_UPGRADE"
        /\ ledger[i].body.active = active /\ ledger[i].body.prev = prevActive
        /\ \A j \in (i + 1) .. Len(ledger) : ledger[j].body.action = "REGIME_UPGRADE"
    <3>1. /\ ledger[i].body.action # "REGIME_UPGRADE"
          /\ ledger[i].body.active = active /\ ledger[i].body.prev = prevActive
      BY <2>5, <2>6
    <3>2. ASSUME NEW j \in (i + 1) .. Len(ledger)
          PROVE  ledger[j].body.action = "REGIME_UPGRADE"
      <4>1. j \in 1 .. Len(ledger)
        BY <2>2
      <4> QED
        BY <2>5, <2>6, <4>1
    <3> QED
      BY <3>1, <3>2
  <2>8. LastSwapOf(ledger) = ledger[i].body
    BY <2>2, <2>7, LastSwapIs
  <2> QED
    BY <2>7, <2>8 DEF LastSwap, LastSwapOf
<1> QED
  BY <1>1, <1>2, <1>3, HistoryInvariant, PTL DEF Spec
=============================================================================
