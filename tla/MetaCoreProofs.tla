--------------------------- MODULE MetaCoreProofs ---------------------------
(***************************************************************************)
(* Proofs about the activation engine for any number of processes,         *)
(* bundles, crashes and ledger entries.                                    *)
(***************************************************************************)
EXTENDS MetaCoreSafety, TLAPS

-----------------------------------------------------------------------------
(* Types *)

\* From here on a command knows the bundle it works on.
Working == {"stageCopy", "stageDesc", "kernel", "announce", "parent", "store",
            "storeCopy", "storeReceipt", "prev", "active", "next", "receipt",
            "tail", "append", "publish"}

WorkOK == \A p \in Procs : pc[p] \in Working => loc[p].bundle \in Bundles

TypeInv == TypeOK /\ WorkOK

\* What the processes have read stays a record of the right type when a field
\* is replaced (the local variables of the commands).
LEMMA LocalsTypes ==
  /\ NoLocals \in Locals
  /\ \A l \in Locals :
       /\ l.bundle \in BundleOrAbsent
       /\ l.old \in Pointer
       /\ l.verdict \in Verdict
       /\ l.action \in LedgerActions
       /\ l.head \in [seq : Nat, hash : Hash]
       /\ l.base \in Seq(Entry)
       /\ \A b \in BundleOrAbsent : [l EXCEPT !.bundle = b] \in Locals
       /\ \A h \in [seq : Nat, hash : Hash] : [l EXCEPT !.head = h] \in Locals
       /\ \A s \in Seq(Entry) : [l EXCEPT !.base = s] \in Locals
       /\ \A b \in BundleOrAbsent, v \in Verdict :
            [l EXCEPT !.bundle = b, !.verdict = v] \in Locals
       /\ \A o \in Pointer, a \in LedgerActions :
            [l EXCEPT !.old = o, !.action = a] \in Locals
       /\ \A b \in BundleOrAbsent, a \in LedgerActions :
            [l EXCEPT !.bundle = b, !.action = a] \in Locals
<1>1. NoLocals \in Locals
  BY DEF NoLocals, Locals, BundleOrAbsent, Pointer, Verdict, LedgerActions, Hash
<1>2. QED
  BY <1>1 DEF Locals

\* What a process holds is typed, field by field.
LEMMA LocTyped ==
  ASSUME TypeInv, NEW p \in Procs
  PROVE  /\ loc[p] \in Locals
         /\ loc[p].bundle \in BundleOrAbsent
         /\ loc[p].old \in Pointer
         /\ loc[p].verdict \in Verdict
         /\ loc[p].base \in Seq(Entry)
<1>1. loc[p] \in Locals
  BY DEF TypeInv, TypeOK, ProcessesOK
<1>2. QED
  BY <1>1, LocalsTypes

\* Moving on inside a command keeps the types of the processes (Advance).
LEMMA AdvanceTypes ==
  ASSUME TypeInv, NEW p \in Procs, NEW n \in PCs, NEW l \in Locals,
         Advance(p, n, l), n \in Working => l.bundle \in Bundles
  PROVE  ProcessesOK' /\ WorkOK'
<1>1. ProcessesOK'
  BY DEF TypeInv, TypeOK, ProcessesOK, Advance, control
<1>2. WorkOK'
  BY DEF TypeInv, TypeOK, ProcessesOK, WorkOK, Advance
<1>3. QED
  BY <1>1, <1>2

\* Ending a command keeps the types of the processes (Finish).
LEMMA FinishTypes ==
  ASSUME TypeInv, NEW p \in Procs, NEW code \in {"ok", "invalid", "error"},
         Finish(p, code)
  PROVE  ProcessesOK' /\ WorkOK'
<1>1. ProcessesOK'
  BY LocalsTypes DEF TypeInv, TypeOK, ProcessesOK, Finish, PCs
<1>2. WorkOK'
  BY DEF TypeInv, TypeOK, ProcessesOK, WorkOK, Finish, Working
<1>3. QED
  BY <1>1, <1>2

\* Either way the whole type invariant is kept, if the files keep their types.
LEMMA AdvanceKeeps ==
  ASSUME TypeInv, FilesOK', NEW p \in Procs, NEW n \in PCs, NEW l \in Locals,
         Advance(p, n, l), n \in Working => l.bundle \in Bundles
  PROVE  TypeInv'
<1>1. ProcessesOK' /\ WorkOK'
  BY AdvanceTypes
<1>2. QED
  BY <1>1 DEF TypeInv, TypeOK

LEMMA FinishKeeps ==
  ASSUME TypeInv, FilesOK', NEW p \in Procs, NEW code \in {"ok", "invalid", "error"},
         Finish(p, code)
  PROVE  TypeInv'
<1>1. ProcessesOK' /\ WorkOK'
  BY FinishTypes
<1>2. QED
  BY <1>1 DEF TypeInv, TypeOK

\* A command started by the environment is well typed.
LEMMA StartTypes ==
  ASSUME TypeInv, NEW p \in Procs, NEW c \in EnabledCommands,
         NEW b \in BundleOrAbsent, Start(p, c, b)
  PROVE  TypeInv'
<1>1. FilesOK'
  BY DEF TypeInv, TypeOK, FilesOK, Start, pointers, stage, store
<1>2. /\ Entrance(c) \in PCs
      /\ Entrance(c) \notin Working
      /\ [NoLocals EXCEPT !.bundle = b] \in Locals
  BY LocalsTypes, EnvironmentAssumption
     DEF Entrance, LockedCommands, AllCommands, PCs, Working
<1>3. ProcessesOK'
  BY <1>2, EnvironmentAssumption DEF TypeInv, TypeOK, ProcessesOK, Start
<1>4. WorkOK'
  BY <1>2 DEF TypeInv, TypeOK, ProcessesOK, WorkOK, Start
<1>5. QED
  BY <1>1, <1>3, <1>4 DEF TypeInv, TypeOK

\* Taking the lock and dying are well typed.
LEMMA ProcessTypes ==
  ASSUME TypeInv, NEW p \in Procs, Acquire(p) \/ Die(p)
  PROVE  TypeInv'
<1>1. FilesOK'
  BY DEF TypeInv, TypeOK, FilesOK, Acquire, Die, pointers, stage, store
<1>2. CASE Acquire(p)
  <2>1. ProcessesOK'
    BY <1>2 DEF TypeInv, TypeOK, ProcessesOK, Acquire, PCs
  <2>2. WorkOK'
    BY <1>2 DEF TypeInv, TypeOK, ProcessesOK, WorkOK, Acquire, Working
  <2>3. QED
    BY <1>1, <2>1, <2>2 DEF TypeInv, TypeOK
<1>3. CASE Die(p)
  <2>1. NoLocals \in Locals
    BY LocalsTypes
  <2>2. ProcessesOK'
    BY <1>3, <2>1 DEF TypeInv, TypeOK, ProcessesOK, Die, PCs
  <2>3. WorkOK'
    BY <1>3 DEF TypeInv, TypeOK, ProcessesOK, WorkOK, Die, Working
  <2>4. QED
    BY <1>1, <2>2, <2>3 DEF TypeInv, TypeOK
<1>4. QED
  BY <1>2, <1>3

\* A stage that is done goes on or ends (StageDone).
LEMMA StageDoneTypes ==
  ASSUME TypeInv, NEW p \in Procs, NEW n \in PCs \ Working, StageDone(p, n)
  PROVE  ProcessesOK' /\ WorkOK'
<1>1. CASE Advance(p, n, NoLocals)
  BY <1>1, AdvanceTypes, LocalsTypes
<1>2. CASE Finish(p, "ok")
  BY <1>2, FinishTypes
<1>3. QED
  BY <1>1, <1>2 DEF StageDone

\* Staging a bundle is well typed.
LEMMA StageTypes ==
  ASSUME TypeInv, NEW p \in Procs, StageStep(p)
  PROVE  TypeInv'
<1>. USE DEF PCs, Working
<1>1. CASE StageReject(p)
  <2>1. FilesOK'
    BY <1>1 DEF TypeInv, TypeOK, FilesOK, StageReject, pointers, stage, store
  <2>2. ProcessesOK' /\ WorkOK'
    BY <1>1, FinishTypes DEF StageReject
  <2>3. QED
    BY <2>1, <2>2 DEF TypeInv, TypeOK
<1>2. CASE StageBundle(p)
  <2>1. FilesOK'
    BY <1>2 DEF TypeInv, TypeOK, FilesOK, StageBundle, pointers, store, CopyState
  <2>2. loc[p] \in Locals /\ loc[p].bundle \in Bundles
    BY <1>2, BundlesAssumption DEF StageBundle, TypeInv, TypeOK, ProcessesOK
  <2>3. Advance(p, "stageCopy", loc[p]) \/ Advance(p, "stageDesc", loc[p])
    BY <1>2 DEF StageBundle
  <2>4. ProcessesOK' /\ WorkOK'
    BY <2>2, <2>3, AdvanceTypes
  <2>5. QED
    BY <2>1, <2>4 DEF TypeInv, TypeOK
<1>3. CASE StageCopy(p)
  <2>1. FilesOK'
    BY <1>3 DEF TypeInv, TypeOK, FilesOK, StageCopy, pointers, store, CopyState
  <2>2. loc[p] \in Locals /\ loc[p].bundle \in Bundles
    BY <1>3 DEF StageCopy, TypeInv, TypeOK, ProcessesOK, WorkOK
  <2>3. ProcessesOK' /\ WorkOK'
    BY <1>3, <2>2, AdvanceTypes DEF StageCopy
  <2>4. QED
    BY <2>1, <2>3 DEF TypeInv, TypeOK
<1>4. CASE WriteStage(p)
  <2>1. FilesOK'
    BY <1>4, LocTyped DEF TypeInv, TypeOK, FilesOK, WriteStage, pointers, store
  <2>2. ProcessesOK' /\ WorkOK'
    BY <1>4, StageDoneTypes DEF WriteStage
  <2>3. QED
    BY <2>1, <2>2 DEF TypeInv, TypeOK
<1>5. QED
  BY <1>1, <1>2, <1>3, <1>4 DEF StageStep

\* Verification by the kernel and the canary are well typed.
LEMMA VerifyTypes ==
  ASSUME TypeInv, NEW p \in Procs, VerifyStep(p)
  PROVE  TypeInv'
<1>. USE DEF PCs, Working
<1>1. CASE VerifyStaged(p)
  <2>1. FilesOK'
    BY <1>1 DEF TypeInv, TypeOK, FilesOK, VerifyStaged, pointers, stage, store
  <2>2. CASE Finish(p, "error") \/ Finish(p, "invalid")
    BY <2>1, <2>2, FinishKeeps
  <2>3. CASE stageFile # Absent /\ Advance(p, "kernel", [loc[p] EXCEPT !.bundle = stageFile])
    <3>1. loc[p] \in Locals /\ stageFile \in Bundles
      BY <2>3 DEF TypeInv, TypeOK, FilesOK, ProcessesOK, BundleOrAbsent
    <3>2. /\ [loc[p] EXCEPT !.bundle = stageFile] \in Locals
          /\ [loc[p] EXCEPT !.bundle = stageFile].bundle \in Bundles
      BY <3>1 DEF Locals, BundleOrAbsent
    <3>3. QED
      BY <2>1, <2>3, <3>2, AdvanceKeeps
  <2>4. QED
    BY <1>1, <2>2, <2>3 DEF VerifyStaged
<1>2. CASE RunKernel(p)
  <2>1. loc[p].bundle \in Bundles
    BY <1>2 DEF RunKernel, TypeInv, WorkOK
  <2>2. PICK named \in Bundles \cup {Null}, v \in {"valid", "invalid"} :
          receiptFile' = [bundle |-> named, verdict |-> v]
    <3>. DEFINE ok == KernelAccepts(loc[p].bundle, stageDir[loc[p].bundle])
    <3>. HIDE DEF ok
    <3>1. \E named \in IF ok THEN {loc[p].bundle} ELSE {loc[p].bundle, Null} :
            receiptFile' = [bundle |-> named, verdict |-> IF ok THEN "valid" ELSE "invalid"]
      BY <1>2 DEF RunKernel, ok
    <3>2. CASE ok
      BY <2>1, <3>1, <3>2
    <3>3. CASE ~ok
      BY <2>1, <3>1, <3>3
    <3>4. QED
      BY <3>2, <3>3
  <2>3. FilesOK'
    BY <1>2, <2>2 DEF Receipt, TypeInv, TypeOK, FilesOK, RunKernel, pointers, store
  <2>4. StageDone(p, "canary") \/ Finish(p, "invalid")
    BY <1>2 DEF RunKernel
  <2>5. ProcessesOK' /\ WorkOK'
    BY <2>4, StageDoneTypes, FinishTypes
  <2>6. QED
    BY <2>3, <2>5 DEF TypeInv, TypeOK
<1>3. CASE CanaryStaged(p)
  <2>1. FilesOK'
    BY <1>3 DEF TypeInv, TypeOK, FilesOK, CanaryStaged, pointers, stage, store
  <2>2. Finish(p, "error") \/ Finish(p, "invalid") \/ StageDone(p, "commit")
    BY <1>3 DEF CanaryStaged
  <2>3. ProcessesOK' /\ WorkOK'
    BY <2>2, StageDoneTypes, FinishTypes
  <2>4. QED
    BY <2>1, <2>3 DEF TypeInv, TypeOK
<1>4. QED
  BY <1>1, <1>2, <1>3 DEF VerifyStep

\* A regime upgrade up to its commit is well typed.
LEMMA UpgradeTypes ==
  ASSUME TypeInv, NEW p \in Procs, UpgradeStep(p)
  PROVE  TypeInv'
<1>. USE DEF PCs, Working
<1>1. CASE NotReady(p)
  BY <1>1, FinishTypes
     DEF TypeInv, TypeOK, FilesOK, NotReady, pointers, stage, store
<1>2. CASE Ready(p)
  <2>1. FilesOK'
    BY <1>2 DEF TypeInv, TypeOK, FilesOK, Ready, pointers, stage, store
  <2>2. CASE Finish(p, "error")
    BY <2>1, <2>2, FinishKeeps
  <2>3. CASE stageFile # Absent /\ Advance(p, "announce", [loc[p] EXCEPT !.bundle = stageFile])
    <3>1. loc[p] \in Locals /\ stageFile \in Bundles
      BY <2>3 DEF TypeInv, TypeOK, FilesOK, ProcessesOK, BundleOrAbsent
    <3>2. /\ [loc[p] EXCEPT !.bundle = stageFile] \in Locals
          /\ [loc[p] EXCEPT !.bundle = stageFile].bundle \in Bundles
      BY <3>1 DEF Locals, BundleOrAbsent
    <3>3. QED
      BY <2>1, <2>3, <3>2, AdvanceKeeps
  <2>4. QED
    BY <1>2, <2>2, <2>3 DEF Ready
<1>3. CASE Announce(p)
  <2>1. FilesOK'
    BY <1>3, LocTyped DEF TypeInv, TypeOK, FilesOK, Announce, stage, store
  <2>2. CASE Advance(p, "commit", NoLocals)
    <3>1. NoLocals \in Locals
      BY LocalsTypes
    <3>2. QED
      BY <2>1, <2>2, <3>1, AdvanceKeeps
  <2>3. CASE Finish(p, "error")
    BY <2>1, <2>3, FinishKeeps
  <2>4. QED
    BY <1>3, <2>2, <2>3 DEF Announce
<1>4. QED
  BY <1>1, <1>2, <1>3 DEF UpgradeStep

\* A commit up to its pointers is well typed.
LEMMA CommitTypes ==
  ASSUME TypeInv, NEW p \in Procs, CommitStep(p)
  PROVE  TypeInv'
<1>. USE DEF PCs, Working
<1>1. CASE CommitStaged(p)
  <2>1. FilesOK'
    BY <1>1 DEF TypeInv, TypeOK, FilesOK, CommitStaged, pointers, stage, store
  <2>2. CASE Finish(p, "error")
    BY <2>1, <2>2, FinishKeeps
  <2>3. CASE /\ stageFile # Absent
             /\ receiptFile # Absent
             /\ Advance(p, "parent", [loc[p] EXCEPT !.bundle = stageFile,
                                                    !.verdict = receiptFile.verdict])
    <3>1. loc[p] \in Locals /\ stageFile \in Bundles /\ receiptFile.verdict \in Verdict
      BY <2>3 DEF TypeInv, TypeOK, FilesOK, ProcessesOK, BundleOrAbsent, Receipt, Verdict
    <3>. DEFINE l == [loc[p] EXCEPT !.bundle = stageFile, !.verdict = receiptFile.verdict]
    <3>2. l \in Locals /\ l.bundle \in Bundles
      BY <3>1 DEF Locals, BundleOrAbsent
    <3>3. ProcessesOK' /\ WorkOK'
      BY <2>3, <3>2, AdvanceTypes
    <3>4. QED
      BY <2>1, <3>3 DEF TypeInv, TypeOK
  <2>4. QED
    BY <1>1, <2>2, <2>3 DEF CommitStaged
<1>2. CASE CheckParent(p)
  <2>. DEFINE old == IF active = Absent THEN Null ELSE active
              l   == [loc[p] EXCEPT !.old = old, !.action = "COMMIT"]
  <2>1. FilesOK'
    BY <1>2 DEF TypeInv, TypeOK, FilesOK, CheckParent, pointers, stage, store
  <2>2. /\ loc[p] \in Locals /\ loc[p].bundle \in Bundles
        /\ old \in Pointer
    BY <1>2 DEF CheckParent, TypeInv, TypeOK, FilesOK, ProcessesOK, WorkOK,
                BundleOrAbsent, Pointer
  <2>3. l \in Locals /\ l.bundle \in Bundles
    BY <2>2 DEF Locals, LedgerActions
  <2>4. Finish(p, "invalid") \/ Advance(p, "store", l)
    BY <1>2 DEF CheckParent
  <2>. HIDE DEF l
  <2>5. ProcessesOK' /\ WorkOK'
    BY <2>3, <2>4, AdvanceTypes, FinishTypes
  <2>6. QED
    BY <2>1, <2>5 DEF TypeInv, TypeOK
<1>3. CASE StoreBundle(p)
  <2>1. FilesOK'
    BY <1>3 DEF TypeInv, TypeOK, FilesOK, StoreBundle, pointers, stage, CopyState
  <2>2. loc[p] \in Locals /\ loc[p].bundle \in Bundles
    BY <1>3 DEF StoreBundle, TypeInv, TypeOK, ProcessesOK, WorkOK
  <2>3. Advance(p, "storeCopy", loc[p]) \/ Advance(p, "prev", loc[p])
    BY <1>3 DEF StoreBundle
  <2>4. ProcessesOK' /\ WorkOK'
    BY <2>2, <2>3, AdvanceTypes
  <2>5. QED
    BY <2>1, <2>4 DEF TypeInv, TypeOK
<1>4. CASE StoreCopy(p)
  <2>1. loc[p] \in Locals /\ loc[p].bundle \in Bundles
    BY <1>4 DEF StoreCopy, TypeInv, TypeOK, ProcessesOK, WorkOK
  <2>2. FilesOK'
    BY <1>4, <2>1 DEF TypeInv, TypeOK, FilesOK, StoreCopy, pointers, stage
  <2>3. ProcessesOK' /\ WorkOK'
    BY <1>4, <2>1, AdvanceTypes DEF StoreCopy
  <2>4. QED
    BY <2>2, <2>3 DEF TypeInv, TypeOK
<1>5. CASE StoreReceipt(p)
  <2>1. /\ loc[p] \in Locals /\ loc[p].bundle \in Bundles
        /\ loc[p].verdict \in Verdict
    BY <1>5, LocTyped DEF StoreReceipt, TypeInv, WorkOK
  <2>2. FilesOK'
    BY <1>5, <2>1 DEF TypeInv, TypeOK, FilesOK, StoreReceipt, pointers, stage
  <2>3. ProcessesOK' /\ WorkOK'
    BY <1>5, <2>1, AdvanceTypes DEF StoreReceipt
  <2>4. QED
    BY <2>2, <2>3 DEF TypeInv, TypeOK
<1>6. QED
  BY <1>1, <1>2, <1>3, <1>4, <1>5 DEF CommitStep

\* The reads of a rollback are well typed.
LEMMA RollbackTypes ==
  ASSUME TypeInv, NEW p \in Procs, RollbackStep(p)
  PROVE  TypeInv'
<1>. USE DEF PCs, Working
<1>0. FilesOK'
  BY DEF TypeInv, TypeOK, FilesOK, RollbackStep, RollbackActive, RollbackTarget,
         ReadReceipt, pointers, stage, store
<1>1. CASE RollbackActive(p)
  <2>. DEFINE l == [loc[p] EXCEPT !.old = active, !.action = "ROLLBACK"]
  <2>1. l \in Locals
    <3>1. active \in Pointer /\ "ROLLBACK" \in LedgerActions
      BY DEF TypeInv, TypeOK, FilesOK, BundleOrAbsent, Pointer, LedgerActions
    <3>2. QED
      BY <3>1, LocTyped, LocalsTypes
  <2>2. Finish(p, "error") \/ Advance(p, "target", l)
    BY <1>1 DEF RollbackActive
  <2>. HIDE DEF l
  <2>3. QED
    BY <1>0, <2>1, <2>2, AdvanceKeeps, FinishKeeps
<1>2. CASE RollbackTarget(p)
  <2>1. CASE Finish(p, "error") \/ Finish(p, "invalid")
    BY <1>0, <2>1, FinishKeeps
  <2>2. CASE /\ prevActive \notin {Absent, Null}
             /\ Advance(p, "prev", [loc[p] EXCEPT !.bundle = prevActive])
    <3>1. loc[p] \in Locals /\ prevActive \in Bundles
      BY <2>2 DEF TypeInv, TypeOK, FilesOK, ProcessesOK, Pointer
    <3>. DEFINE l == [loc[p] EXCEPT !.bundle = prevActive]
    <3>2. l \in Locals /\ l.bundle \in Bundles
      BY <3>1 DEF Locals, BundleOrAbsent
    <3>3. QED
      BY <1>0, <2>2, <3>2, AdvanceKeeps
  <2>3. QED
    BY <1>2, <2>1, <2>2 DEF RollbackTarget
<1>3. CASE ReadReceipt(p)
  <2>1. loc[p] \in Locals /\ loc[p].bundle \in Bundles
    BY <1>3 DEF ReadReceipt, TypeInv, TypeOK, ProcessesOK, WorkOK
  <2>2. Finish(p, "error") \/ Advance(p, "tail", loc[p])
    BY <1>3 DEF ReadReceipt
  <2>3. QED
    BY <1>0, <2>1, <2>2, AdvanceKeeps, FinishKeeps
<1>4. QED
  BY <1>1, <1>2, <1>3 DEF RollbackStep

\* Writing the pointers is well typed.
LEMMA SwapTypes ==
  ASSUME TypeInv, NEW p \in Procs, SwapStep(p)
  PROVE  TypeInv'
<1>. USE DEF PCs, Working
<1>1. /\ loc[p] \in Locals
      /\ loc[p].bundle \in Bundles
      /\ loc[p].old \in Pointer
  BY LocTyped DEF SwapStep, WritePrev, WriteActive, WriteNext, TypeInv, WorkOK
<1>2. FilesOK'
  BY <1>1 DEF SwapStep, WritePrev, WriteActive, WriteNext, TypeInv, TypeOK, FilesOK,
              stage, store, BundleOrAbsent
<1>3. \/ Finish(p, "error")
      \/ \E n \in {"active", "next", "receipt", "tail"} : Advance(p, n, loc[p])
  BY DEF SwapStep, WritePrev, WriteActive, WriteNext
<1>4. QED
  BY <1>1, <1>2, <1>3, AdvanceKeeps, FinishKeeps

\* The last entry of a ledger has a sequence number and a hash (read_last_entry).
LEMMA ReadLastType ==
  ASSUME NEW log \in Seq(Entry)
  PROVE  ReadLast(log) \in [seq : Nat, hash : Hash]
<1>1. CASE log = <<>>
  BY <1>1 DEF ReadLast, Hash
<1>2. CASE log # <<>>
  <2>1. log[Len(log)] \in Entry
    BY <1>2
  <2>2. log[Len(log)].body.seq \in Nat /\ EntryHash(log[Len(log)]) \in Hash
    BY <2>1 DEF Entry, Body, Hash, EntryHash
  <2>3. QED
    BY <1>2, <2>2 DEF ReadLast
<1>3. QED
  BY <1>1, <1>2

\* What a command appends is a ledger entry (make_commit_entry and the like).
LEMMA MakeEntryType ==
  ASSUME NEW l \in Locals
  PROVE  MakeEntry(l) \in Entry
<1>1. /\ l.head.seq + 1 \in Nat
      /\ l.head.hash \in Hash
      /\ l.action \in LedgerActions
      /\ l.bundle \in BundleOrAbsent
      /\ (IF l.action = "REGIME_UPGRADE" THEN Absent ELSE l.old) \in Pointer
  BY DEF Locals, Pointer
<1>2. QED
  BY <1>1 DEF MakeEntry, Entry, Body

\* Appending to the ledger is well typed.
LEMMA LedgerTypes ==
  ASSUME TypeInv, NEW p \in Procs, LedgerStep(p)
  PROVE  TypeInv'
<1>. USE DEF PCs, Working
<1>1. loc[p] \in Locals /\ loc[p].bundle \in Bundles
  BY DEF LedgerStep, ReadLastEntry, ReadLedger, PublishEntry, TypeInv, TypeOK,
         ProcessesOK, WorkOK
<1>2. CASE ReadLastEntry(p)
  <2>. DEFINE l == [loc[p] EXCEPT !.head = ReadLast(ledger)]
  <2>1. ReadLast(ledger) \in [seq : Nat, hash : Hash]
    BY ReadLastType DEF TypeInv, TypeOK, FilesOK
  <2>2. l \in Locals /\ l.bundle \in Bundles
    BY <1>1, <2>1 DEF Locals
  <2>3. FilesOK' /\ Advance(p, "append", l)
    BY <1>2 DEF ReadLastEntry, TypeInv, TypeOK, FilesOK, pointers, stage, store
  <2>. HIDE DEF l
  <2>4. QED
    BY <2>2, <2>3, AdvanceKeeps
<1>3. CASE ReadLedger(p)
  <2>. DEFINE l == [loc[p] EXCEPT !.base = ledger]
  <2>1. ledger \in Seq(Entry)
    BY DEF TypeInv, TypeOK, FilesOK
  <2>2. l \in Locals /\ l.bundle \in Bundles
    BY <1>1, <2>1 DEF Locals
  <2>3. FilesOK' /\ Advance(p, "publish", l)
    BY <1>3 DEF ReadLedger, TypeInv, TypeOK, FilesOK, pointers, stage, store
  <2>. HIDE DEF l
  <2>4. QED
    BY <2>2, <2>3, AdvanceKeeps
<1>4. CASE PublishEntry(p)
  <2>. DEFINE l == [NoLocals EXCEPT !.bundle = loc[p].bundle, !.action = "REGIME_UPGRADE"]
  <2>1. loc[p].base \in Seq(Entry) /\ MakeEntry(loc[p]) \in Entry
    BY <1>1, LocTyped, MakeEntryType
  <2>2. ledger' \in Seq(Entry)
    <3>1. ledger' = Append(loc[p].base, MakeEntry(loc[p]))
      BY <1>4 DEF PublishEntry
    <3>2. QED
      BY <2>1, <3>1
  <2>3. FilesOK'
    BY <1>4, <2>2 DEF PublishEntry, TypeInv, TypeOK, FilesOK, pointers, stage, store
  <2>4. l \in Locals /\ l.bundle \in Bundles
    <3>1. /\ loc[p].bundle \in BundleOrAbsent
          /\ "REGIME_UPGRADE" \in LedgerActions
      BY <1>1 DEF BundleOrAbsent, LedgerActions
    <3>2. l \in Locals
      BY <3>1, LocalsTypes
    <3>3. l.bundle = loc[p].bundle
      BY DEF NoLocals
    <3>4. QED
      BY <1>1, <3>2, <3>3
  <2>5. Finish(p, "ok") \/ Advance(p, "tail", l)
    BY <1>4 DEF PublishEntry
  <2>. HIDE DEF l
  <2>6. QED
    BY <2>3, <2>4, <2>5, AdvanceKeeps, FinishKeeps
<1>5. QED
  BY <1>2, <1>3, <1>4 DEF LedgerStep

\* An audit is well typed.
LEMMA AuditTypes ==
  ASSUME TypeInv, NEW p \in Procs, AuditStep(p)
  PROVE  TypeInv'
<1>. USE DEF PCs, Working
<1>1. FilesOK'
  BY DEF TypeInv, TypeOK, FilesOK, AuditStep, AuditActive, AuditNext, AuditStore,
         AuditLedger, pointers, stage, store
<1>2. loc[p] \in Locals /\ [loc[p] EXCEPT !.bundle = active] \in Locals
  <2>1. active \in BundleOrAbsent
    BY DEF TypeInv, TypeOK, FilesOK
  <2>2. QED
    BY <2>1, LocTyped, LocalsTypes
<1>. DEFINE l == [loc[p] EXCEPT !.bundle = active]
<1>3. \/ Finish(p, "ok") \/ Finish(p, "invalid") \/ Finish(p, "error")
      \/ Advance(p, "auditNext", l)
      \/ Advance(p, "auditStore", loc[p])
      \/ Advance(p, "auditLedger", loc[p])
  <2>1. CASE AuditActive(p)
    BY <2>1 DEF AuditActive
  <2>2. CASE AuditNext(p)
    BY <2>2 DEF AuditNext
  <2>3. CASE AuditStore(p)
    BY <2>3 DEF AuditStore
  <2>4. CASE AuditLedger(p)
    BY <2>4 DEF AuditLedger
  <2>5. QED
    BY <2>1, <2>2, <2>3, <2>4 DEF AuditStep
<1>. HIDE DEF l
<1>4. l \in Locals
  BY <1>2 DEF l
<1>5. ProcessesOK' /\ WorkOK'
  <2>0. /\ "auditNext" \in PCs \ Working
        /\ "auditStore" \in PCs \ Working
        /\ "auditLedger" \in PCs \ Working
    OBVIOUS
  <2>. HIDE DEF PCs, Working
  <2>1. CASE Finish(p, "ok") \/ Finish(p, "invalid") \/ Finish(p, "error")
    BY <2>1, FinishTypes
  <2>2. CASE Advance(p, "auditNext", l)
    BY <1>4, <2>0, <2>2, AdvanceTypes
  <2>3. CASE Advance(p, "auditStore", loc[p]) \/ Advance(p, "auditLedger", loc[p])
    BY <1>2, <2>0, <2>3, AdvanceTypes
  <2>4. QED
    BY <1>3, <2>1, <2>2, <2>3
<1>6. QED
  BY <1>1, <1>5 DEF TypeInv, TypeOK

\* The initial files and processes are well typed.
LEMMA InitTypes == Init => TypeInv
<1>. SUFFICES ASSUME Init PROVE TypeInv
  OBVIOUS
<1>1. NoLocals \in Locals
  BY LocalsTypes
<1>2. /\ active \in BundleOrAbsent
      /\ prevActive \in Pointer
      /\ activeNext \in BundleOrAbsent
      /\ stored \in [Bundles -> CopyState]
      /\ receipts \in [Bundles -> Verdict]
  <2>1. CASE Fresh
    BY <2>1 DEF Fresh, InitFiles, BundleOrAbsent, Pointer, CopyState, Verdict
  <2>2. ASSUME NEW b \in Valid, Seeded(b) \/ Shipped(b)
        PROVE  <1>2
    BY <2>2, BundlesAssumption
       DEF Seeded, Shipped, InitFiles, BundleOrAbsent, Pointer, CopyState, Verdict
  <2>3. QED
    BY <2>1, <2>2 DEF Init
<1>3. FilesOK
  BY <1>2 DEF Init, FilesOK, CopyState, BundleOrAbsent
<1>4. ProcessesOK
  BY <1>1 DEF Init, ProcessesOK, PCs
<1>5. WorkOK
  BY DEF Init, WorkOK, Working
<1>6. QED
  BY <1>3, <1>4, <1>5 DEF TypeInv, TypeOK

\* Every step of every process is well typed.
LEMMA NextTypes == TypeInv /\ [Next]_vars => TypeInv'
<1>. SUFFICES ASSUME TypeInv, [Next]_vars PROVE TypeInv'
  OBVIOUS
<1>1. CASE UNCHANGED vars
  BY <1>1 DEF vars, pointers, stage, store, TypeInv, TypeOK, FilesOK, ProcessesOK, WorkOK
<1>2. ASSUME NEW p \in Procs, NEW c \in EnabledCommands, NEW b \in BundleOrAbsent,
             Start(p, c, b)
      PROVE  TypeInv'
  BY <1>2, StartTypes
<1>3. ASSUME NEW p \in Procs, Run(p) \/ Die(p)
      PROVE  TypeInv'
  BY <1>3, ProcessTypes, StageTypes, VerifyTypes, UpgradeTypes, CommitTypes,
     RollbackTypes, SwapTypes, LedgerTypes, AuditTypes DEF Run
<1>4. QED
  BY <1>1, <1>2, <1>3 DEF Next

\* The files and processes of the engine always hold what their readers expect.
THEOREM TypeCorrect == Spec => []TypeOK
<1>1. TypeInv => TypeOK
  BY DEF TypeInv
<1>2. QED
  BY <1>1, InitTypes, NextTypes, PTL DEF Spec

\* The same with the bundle every command works on, for the proofs that follow.
LEMMA TypeInvariant == Spec => []TypeInv
BY InitTypes, NextTypes, PTL DEF Spec

-----------------------------------------------------------------------------
(* What a step does to the processes *)

Others(p) ==
  \A q \in Procs \ {p} : pc'[q] = pc[q] /\ cmd'[q] = cmd[q] /\ loc'[q] = loc[q]

\* Moving on inside a command touches the moving process only (Advance).
LEMMA AdvanceEffect ==
  ASSUME TypeInv, NEW p \in Procs, NEW n, NEW l, Advance(p, n, l)
  PROVE  /\ pc'[p] = n /\ loc'[p] = l /\ cmd'[p] = cmd[p]
         /\ lock' = lock
         /\ Others(p)
BY DEF TypeInv, TypeOK, ProcessesOK, Advance, control, Others

\* Ending a command forgets what it has read and its lock (Finish).
LEMMA FinishEffect ==
  ASSUME TypeInv, NEW p \in Procs, NEW code, Finish(p, code)
  PROVE  /\ pc'[p] = "idle" /\ loc'[p] = NoLocals
         /\ lock' = IF lock = p THEN Free ELSE lock
         /\ Others(p)
BY DEF TypeInv, TypeOK, ProcessesOK, Finish, Others

\* A finished stage goes on or ends with nothing read (StageDone).
LEMMA StageDoneEffect ==
  ASSUME TypeInv, NEW p \in Procs, NEW n, StageDone(p, n)
  PROVE  /\ loc'[p] = NoLocals
         /\ \/ pc'[p] = n /\ cmd'[p] = cmd[p] /\ lock' = lock
            \/ pc'[p] = "idle" /\ lock' = IF lock = p THEN Free ELSE lock
         /\ Others(p)
BY AdvanceEffect, FinishEffect DEF StageDone

\* Starting, waiting for the lock and dying touch one process only.
LEMMA EnvironmentEffect ==
  ASSUME TypeInv, NEW p \in Procs
  PROVE  /\ \A c \in EnabledCommands, b \in BundleOrAbsent :
              Start(p, c, b) =>
                /\ pc'[p] = Entrance(c) /\ cmd'[p] = c
                /\ loc'[p] = [NoLocals EXCEPT !.bundle = b]
                /\ Others(p)
         /\ Acquire(p) =>
              /\ pc[p] = "lock" /\ pc'[p] \in {"stage", "audit"}
              /\ loc'[p] = loc[p] /\ cmd'[p] = cmd[p]
              /\ lock = Free /\ lock' = p
              /\ Others(p)
         /\ Die(p) =>
              /\ pc'[p] = "idle" /\ loc'[p] = NoLocals
              /\ lock' = IF lock = p THEN Free ELSE lock
              /\ Others(p)
BY DEF TypeInv, TypeOK, ProcessesOK, Start, Acquire, Die, Others

-----------------------------------------------------------------------------
(* The store, with any number of processes *)

\* Directories never go away: what a command has seen in the stage or in the
\* store, it can still name in a pointer later.
StoreInv ==
  /\ PointersInStore
  /\ \A p \in Procs :
       /\ pc[p] \in {"parent", "store", "storeCopy"} => stageDir[loc[p].bundle] # "none"
       /\ pc[p] \in {"storeCopy", "storeReceipt", "prev", "active"} =>
            stored[loc[p].bundle] # "none"
       /\ loc[p].old \in Bundles => stored[loc[p].old] # "none"

\* The store invariant only has to be looked at for the process that moves.
LEMMA StoreFrame ==
  ASSUME TypeInv, TypeInv', StoreInv, PointersInStore', NEW p \in Procs, Others(p),
         \A b \in Bundles : /\ stageDir[b] # "none" => stageDir'[b] # "none"
                            /\ stored[b] # "none" => stored'[b] # "none",
         pc'[p] \in {"parent", "store", "storeCopy"} => stageDir'[loc'[p].bundle] # "none",
         pc'[p] \in {"storeCopy", "storeReceipt", "prev", "active"} =>
           stored'[loc'[p].bundle] # "none",
         loc'[p].old \in Bundles => stored'[loc'[p].old] # "none"
  PROVE  StoreInv'
<1>1. SUFFICES ASSUME NEW q \in Procs
      PROVE
        /\ pc'[q] \in {"parent", "store", "storeCopy"} => stageDir'[loc'[q].bundle] # "none"
        /\ pc'[q] \in {"storeCopy", "storeReceipt", "prev", "active"} =>
             stored'[loc'[q].bundle] # "none"
        /\ loc'[q].old \in Bundles => stored'[loc'[q].old] # "none"
  BY DEF StoreInv
<1>2. CASE q = p
  BY <1>2
<1>3. CASE q # p
  <2>1. pc'[q] = pc[q] /\ loc'[q] = loc[q]
    BY <1>3 DEF Others
  <2>2. pc[q] \in Working => loc[q].bundle \in Bundles
    BY DEF TypeInv, WorkOK
  <2>3. QED
    BY <2>1, <2>2 DEF StoreInv, Working
<1>4. QED
  BY <1>2, <1>3

\* A step that writes neither pointer nor directory and remembers no other
\* bundle keeps the store invariant.
LEMMA StoreQuiet ==
  ASSUME TypeInv, TypeInv', StoreInv, NEW p \in Procs, Others(p),
         UNCHANGED <<active, prevActive, stageDir, stored>>,
         pc'[p] \notin {"parent", "store", "storeCopy", "storeReceipt", "prev", "active"},
         loc'[p].old \in {Absent, loc[p].old}
  PROVE  StoreInv'
<1>1. PointersInStore'
  BY DEF StoreInv, PointersInStore
<1>2. loc'[p].old \in Bundles => stored'[loc'[p].old] # "none"
  BY BundlesAssumption DEF StoreInv
<1>3. QED
  BY <1>1, <1>2, StoreFrame

\* What the processes have read is a record (Locals).
LEMMA LocalsFields ==
  /\ NoLocals.old = Absent /\ NoLocals.bundle = Absent
  /\ \A l \in Locals :
       /\ \A b : [l EXCEPT !.bundle = b].old = l.old /\ [l EXCEPT !.bundle = b].bundle = b
       /\ \A b, v : /\ [l EXCEPT !.bundle = b, !.verdict = v].old = l.old
                    /\ [l EXCEPT !.bundle = b, !.verdict = v].bundle = b
       /\ \A o, a : /\ [l EXCEPT !.old = o, !.action = a].old = o
                    /\ [l EXCEPT !.old = o, !.action = a].action = a
                    /\ [l EXCEPT !.old = o, !.action = a].bundle = l.bundle
       /\ \A b, a : /\ [l EXCEPT !.bundle = b, !.action = a].old = l.old
                    /\ [l EXCEPT !.bundle = b, !.action = a].bundle = b
       /\ \A h : /\ [l EXCEPT !.head = h].old = l.old
                 /\ [l EXCEPT !.head = h].bundle = l.bundle
                 /\ [l EXCEPT !.head = h].head = h
       /\ \A e : /\ [l EXCEPT !.base = e].old = l.old
                 /\ [l EXCEPT !.base = e].bundle = l.bundle
                 /\ [l EXCEPT !.base = e].head = l.head
                 /\ [l EXCEPT !.base = e].base = e
BY DEF NoLocals, Locals

\* The steps that leave store and active bundle alone keep the store invariant:
\* everything but the copies, the parent check, the rollback's reads and the swap.
LEMMA StoreQuietSteps ==
  ASSUME TypeInv, TypeInv', StoreInv, NEW p \in Procs,
         \/ Acquire(p) \/ Die(p) \/ StageReject(p) \/ WriteStage(p)
         \/ VerifyStep(p) \/ UpgradeStep(p) \/ LedgerStep(p) \/ AuditStep(p)
  PROVE  StoreInv'
<1>. DEFINE Quiet == UNCHANGED <<active, prevActive, stageDir, stored>>
            Special == {"parent", "store", "storeCopy", "storeReceipt", "prev", "active"}
            Outside == pc'[p] \notin Special
            SameOld == loc'[p].old \in {Absent, loc[p].old}
<1>0. /\ loc[p] \in Locals /\ NoLocals \in Locals
      /\ NoLocals.old = Absent
  BY LocalsTypes, LocalsFields DEF TypeInv, TypeOK, ProcessesOK
<1>1. CASE Acquire(p) \/ Die(p)
  <2>1. Quiet
    BY <1>1 DEF Acquire, Die, pointers, stage, store
  <2>2. Others(p) /\ Outside /\ SameOld
    BY <1>1, EnvironmentEffect, LocalsFields
  <2>3. QED
    BY <2>1, <2>2, StoreQuiet
<1>2. CASE StageReject(p) \/ WriteStage(p)
  <2>1. Quiet
    BY <1>2 DEF StageReject, WriteStage, pointers, stage, store
  <2>2. Finish(p, "invalid") \/ StageDone(p, "verify")
    BY <1>2 DEF StageReject, WriteStage
  <2>3. Others(p) /\ Outside /\ SameOld
    BY <2>2, FinishEffect, StageDoneEffect, LocalsFields
  <2>4. QED
    BY <2>1, <2>3, StoreQuiet
<1>3. CASE VerifyStep(p)
  <2>1. Quiet
    BY <1>3 DEF VerifyStep, VerifyStaged, RunKernel, CanaryStaged, pointers, stage, store
  <2>. DEFINE l == [loc[p] EXCEPT !.bundle = stageFile]
  <2>2. \/ Finish(p, "error") \/ Finish(p, "invalid")
        \/ StageDone(p, "canary") \/ StageDone(p, "commit") \/ Advance(p, "kernel", l)
    BY <1>3 DEF VerifyStep, VerifyStaged, RunKernel, CanaryStaged
  <2>. HIDE DEF l
  <2>3. l.old = loc[p].old
    BY <1>0, LocalsFields DEF l
  <2>4. Others(p) /\ Outside /\ SameOld
    BY <1>0, <2>2, <2>3, FinishEffect, StageDoneEffect, AdvanceEffect
  <2>5. QED
    BY <2>1, <2>4, StoreQuiet
<1>4. CASE UpgradeStep(p)
  <2>1. Quiet
    BY <1>4 DEF UpgradeStep, NotReady, Ready, Announce, pointers, stage, store
  <2>. DEFINE l == [loc[p] EXCEPT !.bundle = stageFile]
  <2>2. \/ Finish(p, "error") \/ Finish(p, "invalid")
        \/ Advance(p, "announce", l) \/ Advance(p, "commit", NoLocals)
    BY <1>4 DEF UpgradeStep, NotReady, Ready, Announce
  <2>. HIDE DEF l
  <2>3. l.old = loc[p].old
    BY <1>0, LocalsFields DEF l
  <2>4. Others(p) /\ Outside /\ SameOld
    BY <1>0, <2>2, <2>3, FinishEffect, AdvanceEffect
  <2>5. QED
    BY <2>1, <2>4, StoreQuiet
<1>5. CASE LedgerStep(p)
  <2>1. Quiet
    BY <1>5 DEF LedgerStep, ReadLastEntry, ReadLedger, PublishEntry, pointers, stage, store
  <2>. DEFINE l == [loc[p] EXCEPT !.head = ReadLast(ledger)]
              m == [loc[p] EXCEPT !.base = ledger]
              k == [NoLocals EXCEPT !.bundle = loc[p].bundle, !.action = "REGIME_UPGRADE"]
  <2>2. \/ Finish(p, "ok") \/ Advance(p, "append", l)
        \/ Advance(p, "publish", m) \/ Advance(p, "tail", k)
    BY <1>5 DEF LedgerStep, ReadLastEntry, ReadLedger, PublishEntry
  <2>. HIDE DEF l, m, k
  <2>3. l.old = loc[p].old /\ m.old = loc[p].old /\ k.old = Absent
    BY <1>0, LocalsFields DEF l, m, k
  <2>4. Others(p) /\ Outside /\ SameOld
    BY <1>0, <2>2, <2>3, FinishEffect, AdvanceEffect
  <2>5. QED
    BY <2>1, <2>4, StoreQuiet
<1>6. CASE AuditStep(p)
  <2>1. Quiet
    BY <1>6 DEF AuditStep, AuditActive, AuditNext, AuditStore, AuditLedger,
                pointers, stage, store
  <2>. DEFINE l == [loc[p] EXCEPT !.bundle = active]
  <2>2. \/ \E code : Finish(p, code)
        \/ Advance(p, "auditNext", l)
        \/ Advance(p, "auditStore", loc[p]) \/ Advance(p, "auditLedger", loc[p])
    BY <1>6 DEF AuditStep, AuditActive, AuditNext, AuditStore, AuditLedger
  <2>. HIDE DEF l
  <2>3. l.old = loc[p].old
    BY <1>0, LocalsFields DEF l
  <2>4. Others(p) /\ Outside /\ SameOld
    BY <1>0, <2>2, <2>3, FinishEffect, AdvanceEffect
  <2>5. QED
    BY <2>1, <2>4, StoreQuiet
<1>7. QED
  BY <1>1, <1>2, <1>3, <1>4, <1>5, <1>6

\* Starting a command keeps the store invariant.
LEMMA StoreStart ==
  ASSUME TypeInv, TypeInv', StoreInv, NEW p \in Procs, NEW c \in EnabledCommands,
         NEW b \in BundleOrAbsent, Start(p, c, b)
  PROVE  StoreInv'
<1>1. UNCHANGED <<active, prevActive, stageDir, stored>>
  BY DEF Start, pointers, stage, store
<1>2. /\ pc'[p] = Entrance(c)
      /\ loc'[p] = [NoLocals EXCEPT !.bundle = b]
      /\ Others(p)
  BY EnvironmentEffect
<1>3. Entrance(c) \notin {"parent", "store", "storeCopy", "storeReceipt", "prev", "active"}
  BY EnvironmentAssumption DEF Entrance, LockedCommands, AllCommands
<1>4. loc'[p].old = Absent
  BY <1>2 DEF NoLocals
<1>5. QED
  BY <1>1, <1>2, <1>3, <1>4, StoreQuiet

\* A new or finished copy keeps the store invariant (stage_bundle, store_bundle).
LEMMA StoreCopies ==
  ASSUME TypeInv, TypeInv', StoreInv, NEW p \in Procs,
         StageBundle(p) \/ StageCopy(p) \/ StoreBundle(p) \/ StoreCopy(p) \/ StoreReceipt(p)
  PROVE  StoreInv'
<1>1. /\ stageDir \in [Bundles -> CopyState] /\ stored \in [Bundles -> CopyState]
      /\ loc[p].old \in Bundles => stored[loc[p].old] # "none"
  BY DEF TypeInv, TypeOK, FilesOK, StoreInv
<1>2. loc[p].bundle \in Bundles
  BY BundlesAssumption
     DEF StageBundle, StageCopy, StoreBundle, StoreCopy, StoreReceipt, TypeInv, WorkOK, Working
<1>. DEFINE Grows ==
       \A b \in Bundles : /\ stageDir[b] # "none" => stageDir'[b] # "none"
                          /\ stored[b] # "none" => stored'[b] # "none"
<1>3. CASE StageBundle(p) \/ StageCopy(p)
  <2>1. /\ Grows
        /\ UNCHANGED <<active, prevActive, stored>>
    BY <1>1, <1>2, <1>3 DEF StageBundle, StageCopy, pointers, store
  <2>2. Advance(p, "stageCopy", loc[p]) \/ Advance(p, "stageDesc", loc[p])
    BY <1>3 DEF StageBundle, StageCopy
  <2>3. /\ Others(p) /\ loc'[p] = loc[p]
        /\ pc'[p] \in {"stageCopy", "stageDesc"}
    BY <2>2, AdvanceEffect
  <2>4. PointersInStore'
    BY <2>1 DEF StoreInv, PointersInStore
  <2>5. QED
    BY <1>1, <2>1, <2>3, <2>4, StoreFrame
<1>4. CASE StoreBundle(p)
  <2>1. /\ Grows
        /\ UNCHANGED <<active, prevActive, stageDir>>
        /\ stored'[loc[p].bundle] # "none"
        /\ stageDir[loc[p].bundle] # "none"
    BY <1>1, <1>2, <1>4 DEF StoreBundle, pointers, stage, StoreInv
  <2>2. Advance(p, "storeCopy", loc[p]) \/ Advance(p, "prev", loc[p])
    BY <1>4 DEF StoreBundle
  <2>3. /\ Others(p) /\ loc'[p] = loc[p]
        /\ pc'[p] \in {"storeCopy", "prev"}
    BY <2>2, AdvanceEffect
  <2>4. PointersInStore'
    BY <2>1 DEF StoreInv, PointersInStore
  <2>5. QED
    BY <1>1, <2>1, <2>3, <2>4, StoreFrame
<1>5. CASE StoreCopy(p)
  <2>1. /\ Grows
        /\ UNCHANGED <<active, prevActive, stageDir>>
        /\ stored'[loc[p].bundle] # "none"
    BY <1>1, <1>2, <1>5 DEF StoreCopy, pointers, stage, StoreInv
  <2>2. /\ Others(p) /\ loc'[p] = loc[p]
        /\ pc'[p] = "storeReceipt"
    BY <1>5, AdvanceEffect DEF StoreCopy
  <2>3. PointersInStore'
    BY <2>1 DEF StoreInv, PointersInStore
  <2>4. QED
    BY <1>1, <2>1, <2>2, <2>3, StoreFrame
<1>6. CASE StoreReceipt(p)
  <2>1. /\ UNCHANGED <<active, prevActive, stageDir, stored>>
        /\ stored[loc[p].bundle] # "none"
    BY <1>6 DEF StoreReceipt, pointers, stage, StoreInv
  <2>2. /\ Others(p) /\ loc'[p] = loc[p]
        /\ pc'[p] = "prev"
    BY <1>6, AdvanceEffect DEF StoreReceipt
  <2>3. PointersInStore'
    BY <2>1 DEF StoreInv, PointersInStore
  <2>4. QED
    BY <1>1, <2>1, <2>2, <2>3, StoreFrame
<1>7. QED
  BY <1>3, <1>4, <1>5, <1>6

\* The reads a swap starts from find stored bundles (commit_staged, rollback_active).
LEMMA StoreReads ==
  ASSUME TypeInv, TypeInv', StoreInv, NEW p \in Procs,
         CommitStaged(p) \/ CheckParent(p) \/ RollbackStep(p)
  PROVE  StoreInv'
<1>1. UNCHANGED <<active, prevActive, stageDir, stored>>
  BY DEF CommitStaged, CheckParent, RollbackStep, RollbackActive, RollbackTarget,
         ReadReceipt, pointers, stage, store
<1>2. PointersInStore'
  BY <1>1 DEF StoreInv, PointersInStore
<1>3. /\ loc[p] \in Locals
      /\ loc[p].old \in Bundles => stored[loc[p].old] # "none"
      /\ active \in Bundles => stored[active] # "none"
      /\ prevActive \in Bundles => stored[prevActive] # "none"
      /\ prevActive \in Pointer
  BY DEF TypeInv, TypeOK, FilesOK, ProcessesOK, StoreInv, PointersInStore
<1>4. ASSUME NEW code, Finish(p, code)
      PROVE  StoreInv'
  BY <1>1, <1>4, FinishEffect, LocalsFields, StoreQuiet
<1>5. CASE CommitStaged(p)
  <2>. DEFINE l == [loc[p] EXCEPT !.bundle = stageFile, !.verdict = receiptFile.verdict]
  <2>1. l.old = loc[p].old /\ l.bundle = stageFile
    BY <1>3, LocalsFields
  <2>2. \/ Finish(p, "error")
        \/ stageDir[stageFile] # "none" /\ Advance(p, "parent", l)
    BY <1>5 DEF CommitStaged
  <2>. HIDE DEF l
  <2>3. CASE stageDir[stageFile] # "none" /\ Advance(p, "parent", l)
    <3>1. Others(p) /\ pc'[p] = "parent" /\ loc'[p] = l
      BY <2>3, AdvanceEffect
    <3>2. QED
      BY <1>1, <1>2, <1>3, <2>1, <2>3, <3>1, StoreFrame
  <2>4. QED
    BY <1>4, <2>2, <2>3
<1>6. CASE CheckParent(p)
  <2>. DEFINE old == IF active = Absent THEN Null ELSE active
              l   == [loc[p] EXCEPT !.old = old, !.action = "COMMIT"]
  <2>1. l.old = old /\ l.bundle = loc[p].bundle
    BY <1>3, LocalsFields
  <2>2. \/ Finish(p, "invalid")
        \/ Advance(p, "store", l)
    BY <1>6 DEF CheckParent
  <2>. HIDE DEF l
  <2>3. CASE Advance(p, "store", l)
    <3>1. Others(p) /\ pc'[p] = "store" /\ loc'[p] = l
      BY <2>3, AdvanceEffect
    <3>2. stageDir[loc[p].bundle] # "none"
      BY <1>6 DEF CheckParent, StoreInv
    <3>3. old \in Bundles => stored[old] # "none"
      BY <1>3, BundlesAssumption
    <3>4. QED
      BY <1>1, <1>2, <2>1, <3>1, <3>2, <3>3, StoreFrame
  <2>4. QED
    BY <1>4, <2>2, <2>3
<1>7. CASE RollbackActive(p)
  <2>. DEFINE l == [loc[p] EXCEPT !.old = active, !.action = "ROLLBACK"]
  <2>1. l.old = active
    BY <1>3, LocalsFields
  <2>2. Finish(p, "error") \/ Advance(p, "target", l)
    BY <1>7 DEF RollbackActive
  <2>. HIDE DEF l
  <2>3. CASE Advance(p, "target", l)
    <3>1. Others(p) /\ pc'[p] = "target" /\ loc'[p] = l
      BY <2>3, AdvanceEffect
    <3>2. QED
      BY <1>1, <1>2, <1>3, <2>1, <3>1, StoreFrame
  <2>4. QED
    BY <1>4, <2>2, <2>3
<1>8. CASE RollbackTarget(p)
  <2>. DEFINE l == [loc[p] EXCEPT !.bundle = prevActive]
  <2>1. l.old = loc[p].old /\ l.bundle = prevActive
    BY <1>3, LocalsFields
  <2>2. \/ Finish(p, "error") \/ Finish(p, "invalid")
        \/ prevActive \notin {Absent, Null} /\ Advance(p, "prev", l)
    BY <1>8 DEF RollbackTarget
  <2>. HIDE DEF l
  <2>3. CASE prevActive \notin {Absent, Null} /\ Advance(p, "prev", l)
    <3>1. Others(p) /\ pc'[p] = "prev" /\ loc'[p] = l
      BY <2>3, AdvanceEffect
    <3>2. stored[prevActive] # "none"
      BY <1>3, <2>3 DEF Pointer
    <3>3. QED
      BY <1>1, <1>2, <1>3, <2>1, <3>1, <3>2, StoreFrame
  <2>4. QED
    BY <1>4, <2>2, <2>3
<1>9. CASE ReadReceipt(p)
  <2>1. Finish(p, "error") \/ Advance(p, "tail", loc[p])
    BY <1>9 DEF ReadReceipt
  <2>2. CASE Advance(p, "tail", loc[p])
    BY <1>1, <2>2, AdvanceEffect, StoreQuiet
  <2>3. QED
    BY <1>4, <2>1, <2>2
<1>10. QED
  BY <1>5, <1>6, <1>7, <1>8, <1>9 DEF RollbackStep

\* The pointers are written with stored bundles (commit_staged, rollback_active).
LEMMA StoreSwap ==
  ASSUME TypeInv, TypeInv', StoreInv, NEW p \in Procs, SwapStep(p)
  PROVE  StoreInv'
<1>1. /\ UNCHANGED <<stageDir, stored>>
      /\ loc[p].old \in Bundles => stored[loc[p].old] # "none"
      /\ pc[p] \in {"prev", "active"} => stored[loc[p].bundle] # "none"
  BY DEF SwapStep, WritePrev, WriteActive, WriteNext, stage, store, StoreInv
<1>2. PointersInStore'
  BY <1>1 DEF SwapStep, WritePrev, WriteActive, WriteNext, StoreInv, PointersInStore
<1>3. /\ Others(p)
      /\ \/ pc'[p] = "idle" /\ loc'[p] = NoLocals
         \/ pc'[p] \in {"active", "next", "receipt", "tail"} /\ loc'[p] = loc[p]
      /\ pc'[p] = "active" => pc[p] = "prev"
  BY AdvanceEffect, FinishEffect DEF SwapStep, WritePrev, WriteActive, WriteNext
<1>4. NoLocals.old = Absent
  BY LocalsFields
<1>5. QED
  BY <1>1, <1>2, <1>3, <1>4, BundlesAssumption, StoreFrame

\* Every step of every process keeps the store invariant.
LEMMA StoreNext == TypeInv /\ TypeInv' /\ StoreInv /\ [Next]_vars => StoreInv'
<1>. SUFFICES ASSUME TypeInv, TypeInv', StoreInv, [Next]_vars PROVE StoreInv'
  OBVIOUS
<1>1. CASE UNCHANGED vars
  BY <1>1 DEF vars, pointers, stage, store, StoreInv, PointersInStore
<1>2. ASSUME NEW p \in Procs, NEW c \in EnabledCommands, NEW b \in BundleOrAbsent,
             Start(p, c, b)
      PROVE  StoreInv'
  BY <1>2, StoreStart
<1>3. ASSUME NEW p \in Procs, Run(p) \/ Die(p)
      PROVE  StoreInv'
  BY <1>3, StoreQuietSteps, StoreCopies, StoreReads, StoreSwap
     DEF Run, StageStep, CommitStep
<1>4. QED
  BY <1>1, <1>2, <1>3 DEF Next

\* The stores a daemon or an installation starts from have the pointers' bundles.
LEMMA StoreInit == Init => StoreInv
BY LocalsFields, BundlesAssumption
   DEF Init, Fresh, Seeded, Shipped, InitFiles, StoreInv, PointersInStore

\* However many commands run at once and wherever they die, a pointer only ever
\* names a bundle that has a directory in the store: commit_staged stores the
\* bundle before it writes a pointer, and nothing removes a directory.
THEOREM PointersAlwaysInStore == Spec => []PointersInStore
<1>1. StoreInv => PointersInStore
  BY DEF StoreInv
<1>2. QED
  BY <1>1, StoreInit, StoreNext, TypeInvariant, PTL DEF Spec

-----------------------------------------------------------------------------
(* Commands one after the other *)

Busy(p) == pc[p] \notin {"idle", "lock"}

\* A command that takes the lock holds it while it works.
LockInv ==
  \A p \in Procs :
    /\ pc[p] # "idle" => cmd[p] \in EnabledCommands
    /\ Busy(p) /\ cmd[p] \in LockedCommands => lock = p

\* At most one command works at a time.
Exclusive == \A p, q \in Procs : Busy(p) /\ Busy(q) => p = q

\* A step of a working process goes on, or ends and lets go of the lock.
LEMMA RunEffect ==
  ASSUME TypeInv, NEW p \in Procs, Run(p), ~Acquire(p)
  PROVE  /\ Busy(p) /\ Others(p)
         /\ \/ lock' = lock /\ cmd'[p] = cmd[p]
            \/ pc'[p] = "idle" /\ lock' = IF lock = p THEN Free ELSE lock
<1>. USE DEF Busy
<1>1. CASE StageStep(p)
  <2>1. \/ \E code : Finish(p, code)
        \/ \E n, l : Advance(p, n, l)
        \/ \E n : StageDone(p, n)
    BY <1>1 DEF StageStep, StageReject, StageBundle, StageCopy, WriteStage
  <2>2. Busy(p)
    BY <1>1 DEF StageStep, StageReject, StageBundle, StageCopy, WriteStage
  <2>3. QED
    BY <2>1, <2>2, FinishEffect, AdvanceEffect, StageDoneEffect
<1>2. CASE VerifyStep(p)
  <2>1. \/ \E code : Finish(p, code)
        \/ \E n, l : Advance(p, n, l)
        \/ \E n : StageDone(p, n)
    BY <1>2 DEF VerifyStep, VerifyStaged, RunKernel, CanaryStaged
  <2>2. Busy(p)
    BY <1>2 DEF VerifyStep, VerifyStaged, RunKernel, CanaryStaged
  <2>3. QED
    BY <2>1, <2>2, FinishEffect, AdvanceEffect, StageDoneEffect
<1>3. CASE UpgradeStep(p)
  <2>1. (\E code : Finish(p, code)) \/ (\E n, l : Advance(p, n, l))
    BY <1>3 DEF UpgradeStep, NotReady, Ready, Announce
  <2>2. Busy(p)
    BY <1>3 DEF UpgradeStep, NotReady, Ready, Announce
  <2>3. QED
    BY <2>1, <2>2, FinishEffect, AdvanceEffect
<1>4. CASE CommitStep(p)
  <2>1. (\E code : Finish(p, code)) \/ (\E n, l : Advance(p, n, l))
    BY <1>4 DEF CommitStep, CommitStaged, CheckParent, StoreBundle, StoreCopy, StoreReceipt
  <2>2. Busy(p)
    BY <1>4 DEF CommitStep, CommitStaged, CheckParent, StoreBundle, StoreCopy, StoreReceipt
  <2>3. QED
    BY <2>1, <2>2, FinishEffect, AdvanceEffect
<1>5. CASE RollbackStep(p)
  <2>1. (\E code : Finish(p, code)) \/ (\E n, l : Advance(p, n, l))
    BY <1>5 DEF RollbackStep, RollbackActive, RollbackTarget, ReadReceipt
  <2>2. Busy(p)
    BY <1>5 DEF RollbackStep, RollbackActive, RollbackTarget, ReadReceipt
  <2>3. QED
    BY <2>1, <2>2, FinishEffect, AdvanceEffect
<1>6. CASE SwapStep(p)
  <2>1. (\E code : Finish(p, code)) \/ (\E n, l : Advance(p, n, l))
    BY <1>6 DEF SwapStep, WritePrev, WriteActive, WriteNext
  <2>2. Busy(p)
    BY <1>6 DEF SwapStep, WritePrev, WriteActive, WriteNext
  <2>3. QED
    BY <2>1, <2>2, FinishEffect, AdvanceEffect
<1>7. CASE LedgerStep(p)
  <2>1. (\E code : Finish(p, code)) \/ (\E n, l : Advance(p, n, l))
    BY <1>7 DEF LedgerStep, ReadLastEntry, ReadLedger, PublishEntry
  <2>2. Busy(p)
    BY <1>7 DEF LedgerStep, ReadLastEntry, ReadLedger, PublishEntry
  <2>3. QED
    BY <2>1, <2>2, FinishEffect, AdvanceEffect
<1>8. CASE AuditStep(p)
  <2>1. (\E code : Finish(p, code)) \/ (\E n, l : Advance(p, n, l))
    BY <1>8 DEF AuditStep, AuditActive, AuditNext, AuditStore, AuditLedger
  <2>2. Busy(p)
    BY <1>8 DEF AuditStep, AuditActive, AuditNext, AuditStore, AuditLedger
  <2>3. QED
    BY <2>1, <2>2, FinishEffect, AdvanceEffect
<1>9. QED
  BY <1>1, <1>2, <1>3, <1>4, <1>5, <1>6, <1>7, <1>8 DEF Run

\* The lock is held by the locked command that works (apply_bundle, audit_active).
LEMMA LockNext == TypeInv /\ LockInv /\ [Next]_vars => LockInv'
<1>. SUFFICES ASSUME TypeInv, LockInv, [Next]_vars PROVE LockInv'
  OBVIOUS
<1>1. CASE UNCHANGED vars
  BY <1>1 DEF vars, LockInv, Busy
<1>2. ASSUME NEW p \in Procs, NEW c \in EnabledCommands, NEW b \in BundleOrAbsent,
             Start(p, c, b)
      PROVE  LockInv'
  <2>1. /\ pc'[p] = Entrance(c) /\ cmd'[p] = c /\ Others(p)
        /\ lock' = lock
    BY <1>2, EnvironmentEffect DEF Start
  <2>2. c \in LockedCommands => Entrance(c) = "lock"
    BY DEF Entrance, LockedCommands
  <2>3. QED
    BY <2>1, <2>2 DEF LockInv, Busy, Others
<1>3. ASSUME NEW p \in Procs, Acquire(p)
      PROVE  LockInv'
  <2>1. /\ pc[p] = "lock" /\ cmd'[p] = cmd[p]
        /\ lock = Free /\ lock' = p
        /\ Others(p)
    BY <1>3, EnvironmentEffect
  <2>2. QED
    BY <2>1, BundlesAssumption DEF LockInv, Busy, Others
<1>4. ASSUME NEW p \in Procs, (Run(p) /\ ~Acquire(p)) \/ Die(p)
      PROVE  LockInv'
  <2>1. /\ Others(p)
        /\ \/ Busy(p) /\ lock' = lock /\ cmd'[p] = cmd[p]
           \/ pc'[p] = "idle" /\ lock' = IF lock = p THEN Free ELSE lock
    BY <1>4, RunEffect, EnvironmentEffect
  <2>2. QED
    BY <2>1 DEF LockInv, Busy, Others
<1>5. QED
  BY <1>1, <1>2, <1>3, <1>4 DEF Next

\* When commands do not overlap, at most one of them works.
LEMMA SerializedIsExclusive == ASSUME Serialized, LockInv PROVE Exclusive
<1>1. CASE \A p, q \in Procs : p = q
  BY <1>1 DEF Exclusive
<1>2. CASE EnabledCommands \subseteq LockedCommands
  BY <1>2 DEF Exclusive, LockInv, Busy
<1>3. QED
  BY <1>1, <1>2 DEF Serialized

\* Mutual exclusion of the commands, for as many processes as there are.
LEMMA ExclusiveInvariant ==
  ASSUME Serialized
  PROVE  Spec => [](TypeInv /\ LockInv /\ Exclusive)
<1>1. Init => LockInv
  BY DEF Init, LockInv, Busy
<1>2. LockInv => Exclusive
  BY SerializedIsExclusive
<1>3. QED
  BY <1>1, <1>2, LockNext, TypeInvariant, PTL DEF Spec

-----------------------------------------------------------------------------
(* The pointers *)

\* What ACTIVE_BUNDLE holds while a swap away from o is under way.
ActiveStill(o) == active = IF o = Null THEN Absent ELSE o

\* b and o are at most one generation apart.
Neighbours(b, o) ==
  IF o = Null THEN Parent[b] = Null
  ELSE b = o \/ Parent[b] = o \/ Parent[o] = b

\* A swap goes from the active bundle to a neighbour of it.
SwapInv ==
  /\ RollbackIsOneGeneration
  /\ \A p \in Procs :
       /\ pc[p] = "target" => loc[p].old # Absent /\ active = loc[p].old
       /\ pc[p] \in {"store", "storeCopy", "storeReceipt", "prev", "active"} =>
            /\ loc[p].old # Absent
            /\ ActiveStill(loc[p].old)
            /\ Neighbours(loc[p].bundle, loc[p].old)
       /\ pc[p] = "active" => prevActive = loc[p].old

\* What SwapInv says of one process.
SwapOK(p) ==
  /\ pc[p] = "target" => loc[p].old # Absent /\ active = loc[p].old
  /\ pc[p] \in {"store", "storeCopy", "storeReceipt", "prev", "active"} =>
       /\ loc[p].old # Absent
       /\ ActiveStill(loc[p].old)
       /\ Neighbours(loc[p].bundle, loc[p].old)
  /\ pc[p] = "active" => prevActive = loc[p].old

SwapPCs == {"target", "store", "storeCopy", "storeReceipt", "prev", "active"}

\* A step that writes no pointer has to be looked at for its own process only.
LEMMA SwapFrame ==
  ASSUME SwapInv, NEW p \in Procs, Others(p), UNCHANGED <<active, prevActive>>,
         SwapOK(p)'
  PROVE  SwapInv'
<1>1. RollbackIsOneGeneration'
  BY DEF SwapInv, RollbackIsOneGeneration
<1>2. ASSUME NEW q \in Procs \ {p}
      PROVE  SwapOK(q)'
  BY DEF SwapInv, SwapOK, Others, ActiveStill, Neighbours
<1>3. QED
  BY <1>1, <1>2 DEF SwapInv, SwapOK

\* A step that writes no pointer and does not get nearer to a swap is harmless.
LEMMA SwapQuiet ==
  ASSUME SwapInv, NEW p \in Procs, Others(p), UNCHANGED <<active, prevActive>>,
         pc'[p] \notin SwapPCs
  PROVE  SwapInv'
BY SwapFrame DEF SwapOK, SwapPCs

\* The steps of a command that are not part of a swap.
LEMMA SwapQuietSteps ==
  ASSUME TypeInv, SwapInv, NEW p \in Procs,
         \/ Acquire(p) \/ Die(p) \/ StageStep(p) \/ VerifyStep(p) \/ UpgradeStep(p)
         \/ CommitStaged(p) \/ ReadReceipt(p) \/ WriteNext(p)
         \/ LedgerStep(p) \/ AuditStep(p)
  PROVE  SwapInv'
<1>. DEFINE Outside == Others(p) /\ pc'[p] \notin SwapPCs
<1>1. CASE Acquire(p) \/ Die(p)
  <2>1. UNCHANGED <<active, prevActive>>
    BY <1>1 DEF Acquire, Die, pointers
  <2>2. Outside
    BY <1>1, EnvironmentEffect DEF SwapPCs
  <2>3. QED
    BY <2>1, <2>2, SwapQuiet
<1>2. CASE StageStep(p)
  <2>1. UNCHANGED <<active, prevActive>>
    BY <1>2 DEF StageStep, StageReject, StageBundle, StageCopy, WriteStage, pointers
  <2>2. \/ \E code : Finish(p, code)
        \/ \E n \in {"stageCopy", "stageDesc"} : \E l : Advance(p, n, l)
        \/ StageDone(p, "verify")
    BY <1>2 DEF StageStep, StageReject, StageBundle, StageCopy, WriteStage
  <2>3. Outside
    BY <2>2, FinishEffect, AdvanceEffect, StageDoneEffect DEF SwapPCs
  <2>4. QED
    BY <2>1, <2>3, SwapQuiet
<1>3. CASE VerifyStep(p)
  <2>1. UNCHANGED <<active, prevActive>>
    BY <1>3 DEF VerifyStep, VerifyStaged, RunKernel, CanaryStaged, pointers
  <2>2. \/ \E code : Finish(p, code)
        \/ \E l : Advance(p, "kernel", l)
        \/ StageDone(p, "canary") \/ StageDone(p, "commit")
    BY <1>3 DEF VerifyStep, VerifyStaged, RunKernel, CanaryStaged
  <2>3. Outside
    BY <2>2, FinishEffect, AdvanceEffect, StageDoneEffect DEF SwapPCs
  <2>4. QED
    BY <2>1, <2>3, SwapQuiet
<1>4. CASE UpgradeStep(p)
  <2>1. UNCHANGED <<active, prevActive>>
    BY <1>4 DEF UpgradeStep, NotReady, Ready, Announce, pointers
  <2>2. \/ \E code : Finish(p, code)
        \/ \E n \in {"announce", "commit"} : \E l : Advance(p, n, l)
    BY <1>4 DEF UpgradeStep, NotReady, Ready, Announce
  <2>3. Outside
    BY <2>2, FinishEffect, AdvanceEffect DEF SwapPCs
  <2>4. QED
    BY <2>1, <2>3, SwapQuiet
<1>5. CASE CommitStaged(p) \/ ReadReceipt(p) \/ WriteNext(p)
  <2>1. UNCHANGED <<active, prevActive>>
    BY <1>5 DEF CommitStaged, ReadReceipt, WriteNext, pointers
  <2>2. \/ \E code : Finish(p, code)
        \/ \E n \in {"parent", "tail", "receipt"} : \E l : Advance(p, n, l)
    BY <1>5 DEF CommitStaged, ReadReceipt, WriteNext
  <2>3. Outside
    BY <2>2, FinishEffect, AdvanceEffect DEF SwapPCs
  <2>4. QED
    BY <2>1, <2>3, SwapQuiet
<1>6. CASE LedgerStep(p)
  <2>1. UNCHANGED <<active, prevActive>>
    BY <1>6 DEF LedgerStep, ReadLastEntry, ReadLedger, PublishEntry, pointers
  <2>2. \/ \E code : Finish(p, code)
        \/ \E n \in {"append", "publish", "tail"} : \E l : Advance(p, n, l)
    BY <1>6 DEF LedgerStep, ReadLastEntry, ReadLedger, PublishEntry
  <2>3. Outside
    BY <2>2, FinishEffect, AdvanceEffect DEF SwapPCs
  <2>4. QED
    BY <2>1, <2>3, SwapQuiet
<1>7. CASE AuditStep(p)
  <2>1. UNCHANGED <<active, prevActive>>
    BY <1>7 DEF AuditStep, AuditActive, AuditNext, AuditStore, AuditLedger, pointers
  <2>2. \/ \E code : Finish(p, code)
        \/ \E n \in {"auditNext", "auditStore", "auditLedger"} : \E l : Advance(p, n, l)
    BY <1>7 DEF AuditStep, AuditActive, AuditNext, AuditStore, AuditLedger
  <2>3. Outside
    BY <2>2, FinishEffect, AdvanceEffect DEF SwapPCs
  <2>4. QED
    BY <2>1, <2>3, SwapQuiet
<1>8. QED
  BY <1>1, <1>2, <1>3, <1>4, <1>5, <1>6, <1>7

\* A swap is set up between the active bundle and a neighbour of it: the parent
\* check of commit_staged, the two pointers rollback_active reads.
LEMMA SwapSetUp ==
  ASSUME TypeInv, SwapInv, NEW p \in Procs,
         \/ CheckParent(p) \/ StoreBundle(p) \/ StoreCopy(p) \/ StoreReceipt(p)
         \/ RollbackActive(p) \/ RollbackTarget(p)
  PROVE  SwapInv'
<1>1. UNCHANGED <<active, prevActive>>
  BY DEF CheckParent, StoreBundle, StoreCopy, StoreReceipt, RollbackActive,
         RollbackTarget, pointers
<1>2. /\ loc[p] \in Locals
      /\ pc[p] \in Working => loc[p].bundle \in Bundles
      /\ active \in BundleOrAbsent /\ prevActive \in Pointer
      /\ SwapOK(p) /\ RollbackIsOneGeneration
  BY DEF TypeInv, TypeOK, FilesOK, ProcessesOK, WorkOK, SwapInv, SwapOK
<1>3. ASSUME NEW code, Finish(p, code)
      PROVE  SwapInv'
  BY <1>1, <1>3, FinishEffect, SwapQuiet DEF SwapPCs
<1>4. CASE CheckParent(p)
  <2>. DEFINE old == IF active = Absent THEN Null ELSE active
              l   == [loc[p] EXCEPT !.old = old, !.action = "COMMIT"]
  <2>1. l.old = old /\ l.bundle = loc[p].bundle
    BY <1>2, LocalsFields
  <2>2. \/ Finish(p, "invalid")
        \/ Advance(p, "store", l) /\ old = Parent[loc[p].bundle]
    BY <1>4 DEF CheckParent
  <2>. HIDE DEF l
  <2>3. CASE Advance(p, "store", l) /\ old = Parent[loc[p].bundle]
    <3>1. Others(p) /\ pc'[p] = "store" /\ loc'[p] = l
      BY <2>3, AdvanceEffect
    <3>2. /\ old # Absent
          /\ ActiveStill(old)
          /\ Neighbours(loc[p].bundle, old)
      BY <1>2, <2>3, BundlesAssumption DEF ActiveStill, Neighbours, BundleOrAbsent
    <3>3. SwapOK(p)'
      BY <1>1, <2>1, <3>1, <3>2 DEF SwapOK, ActiveStill, Neighbours
    <3>4. QED
      BY <1>1, <3>1, <3>3, SwapFrame
  <2>4. QED
    BY <1>3, <2>2, <2>3
<1>5. CASE StoreBundle(p) \/ StoreCopy(p) \/ StoreReceipt(p)
  <2>1. \E n \in {"storeCopy", "storeReceipt", "prev"} : Advance(p, n, loc[p])
    BY <1>5 DEF StoreBundle, StoreCopy, StoreReceipt
  <2>2. /\ Others(p) /\ loc'[p] = loc[p]
        /\ pc'[p] \in {"storeCopy", "storeReceipt", "prev"}
    BY <2>1, AdvanceEffect
  <2>3. pc[p] \in {"store", "storeCopy", "storeReceipt"}
    BY <1>5 DEF StoreBundle, StoreCopy, StoreReceipt
  <2>4. SwapOK(p)'
    BY <1>1, <1>2, <2>2, <2>3 DEF SwapOK, ActiveStill, Neighbours
  <2>5. QED
    BY <1>1, <2>2, <2>4, SwapFrame
<1>6. CASE RollbackActive(p)
  <2>. DEFINE l == [loc[p] EXCEPT !.old = active, !.action = "ROLLBACK"]
  <2>1. l.old = active
    BY <1>2, LocalsFields
  <2>2. Finish(p, "error") \/ (active # Absent /\ Advance(p, "target", l))
    BY <1>6 DEF RollbackActive
  <2>. HIDE DEF l
  <2>3. CASE active # Absent /\ Advance(p, "target", l)
    <3>1. Others(p) /\ pc'[p] = "target" /\ loc'[p] = l
      BY <2>3, AdvanceEffect
    <3>2. SwapOK(p)'
      BY <1>1, <2>1, <2>3, <3>1 DEF SwapOK
    <3>3. QED
      BY <1>1, <3>1, <3>2, SwapFrame
  <2>4. QED
    BY <1>3, <2>2, <2>3
<1>7. CASE RollbackTarget(p)
  <2>. DEFINE l == [loc[p] EXCEPT !.bundle = prevActive]
  <2>1. l.old = loc[p].old /\ l.bundle = prevActive
    BY <1>2, LocalsFields
  <2>2. \/ Finish(p, "error") \/ Finish(p, "invalid")
        \/ prevActive \notin {Absent, Null} /\ Advance(p, "prev", l)
    BY <1>7 DEF RollbackTarget
  <2>. HIDE DEF l
  <2>3. CASE prevActive \notin {Absent, Null} /\ Advance(p, "prev", l)
    <3>1. Others(p) /\ pc'[p] = "prev" /\ loc'[p] = l
      BY <2>3, AdvanceEffect
    <3>2. loc[p].old # Absent /\ active = loc[p].old
      BY <1>2, <1>7 DEF RollbackTarget, SwapOK
    <3>3. active \in Bundles /\ prevActive \in Bundles
      BY <1>2, <2>3, <3>2 DEF BundleOrAbsent, Pointer
    <3>4. /\ ActiveStill(loc[p].old)
          /\ Neighbours(prevActive, loc[p].old)
      BY <1>2, <3>2, <3>3, BundlesAssumption
         DEF RollbackIsOneGeneration, ActiveStill, Neighbours
    <3>5. SwapOK(p)'
      BY <1>1, <2>1, <3>1, <3>2, <3>4 DEF SwapOK, ActiveStill, Neighbours
    <3>6. QED
      BY <1>1, <3>1, <3>5, SwapFrame
  <2>4. QED
    BY <1>3, <2>2, <2>3
<1>8. QED
  BY <1>4, <1>5, <1>6, <1>7

\* PREV_ACTIVE_BUNDLE is replaced by the active bundle (atomic_write_text(prev_path)).
LEMMA SwapWritePrev ==
  ASSUME TypeInv, Exclusive, SwapInv, NEW p \in Procs, WritePrev(p)
  PROVE  SwapInv'
<1>1. /\ pc[p] = "prev" /\ Busy(p)
      /\ active' = active /\ prevActive' = loc[p].old
      /\ SwapOK(p)
  BY DEF WritePrev, Busy, SwapInv, SwapOK
<1>2. /\ Others(p)
      /\ pc'[p] = "idle" \/ (pc'[p] = "active" /\ loc'[p] = loc[p])
  BY AdvanceEffect, FinishEffect DEF WritePrev
<1>3. RollbackIsOneGeneration'
  BY <1>1, BundlesAssumption DEF RollbackIsOneGeneration, SwapOK, ActiveStill
<1>4. SwapOK(p)'
  BY <1>1, <1>2 DEF SwapOK, ActiveStill, Neighbours
<1>5. ASSUME NEW q \in Procs \ {p}
      PROVE  SwapOK(q)'
  BY <1>1, <1>2 DEF SwapOK, Exclusive, Busy, Others
<1>6. QED
  BY <1>3, <1>4, <1>5 DEF SwapInv, SwapOK

\* ACTIVE_BUNDLE is replaced by a neighbour (atomic_write_text(active_path)).
LEMMA SwapWriteActive ==
  ASSUME TypeInv, Exclusive, SwapInv, NEW p \in Procs, WriteActive(p)
  PROVE  /\ SwapInv'
         /\ \/ active' = active
            \/ active = Absent /\ Parent[active'] = Null
            \/ active # Absent /\ (Parent[active'] = active \/ Parent[active] = active')
<1>1. /\ pc[p] = "active" /\ Busy(p)
      /\ active' = loc[p].bundle /\ prevActive' = prevActive
      /\ loc[p].bundle \in Bundles
      /\ SwapOK(p)
  BY DEF WriteActive, Busy, SwapInv, SwapOK, TypeInv, WorkOK, Working
<1>2. Others(p) /\ pc'[p] = "next"
  BY AdvanceEffect DEF WriteActive
<1>3. RollbackIsOneGeneration'
  BY <1>1, BundlesAssumption DEF RollbackIsOneGeneration, SwapOK, Neighbours
<1>4. ASSUME NEW q \in Procs
      PROVE  SwapOK(q)'
  BY <1>1, <1>2 DEF SwapOK, Exclusive, Busy, Others
<1>5. \/ active' = active
      \/ active = Absent /\ Parent[active'] = Null
      \/ active # Absent /\ (Parent[active'] = active \/ Parent[active] = active')
  BY <1>1, BundlesAssumption DEF SwapOK, ActiveStill, Neighbours
<1>6. QED
  BY <1>3, <1>4, <1>5 DEF SwapInv, SwapOK

\* Every step keeps the swap invariant.
LEMMA SwapNext == TypeInv /\ Exclusive /\ SwapInv /\ [Next]_vars => SwapInv'
<1>. SUFFICES ASSUME TypeInv, Exclusive, SwapInv, [Next]_vars PROVE SwapInv'
  OBVIOUS
<1>1. CASE UNCHANGED vars
  BY <1>1 DEF vars, pointers, SwapInv, RollbackIsOneGeneration, ActiveStill, Neighbours
<1>2. ASSUME NEW p \in Procs, NEW c \in EnabledCommands, NEW b \in BundleOrAbsent,
             Start(p, c, b)
      PROVE  SwapInv'
  <2>1. UNCHANGED <<active, prevActive>>
    BY <1>2 DEF Start, pointers
  <2>2. Others(p) /\ pc'[p] = Entrance(c)
    BY <1>2, EnvironmentEffect
  <2>3. Entrance(c) \notin SwapPCs
    BY EnvironmentAssumption DEF Entrance, LockedCommands, AllCommands, SwapPCs
  <2>4. QED
    BY <2>1, <2>2, <2>3, SwapQuiet
<1>3. ASSUME NEW p \in Procs, Run(p) \/ Die(p)
      PROVE  SwapInv'
  BY <1>3, SwapQuietSteps, SwapSetUp, SwapWritePrev, SwapWriteActive
     DEF Run, CommitStep, RollbackStep, SwapStep
<1>4. QED
  BY <1>1, <1>2, <1>3 DEF Next

\* Before the first command the previous bundle is the parent of the active one.
LEMMA SwapInit == Init => SwapInv
BY BundlesAssumption
   DEF Init, Fresh, Seeded, Shipped, InitFiles, SwapInv, RollbackIsOneGeneration

\* When commands do not overlap, then wherever they die, a rollback goes to the
\* parent, a child or the active bundle itself: commit_staged and rollback_active
\* write PREV_ACTIVE_BUNDLE before ACTIVE_BUNDLE.
THEOREM RollbackStaysClose ==
  ASSUME Serialized
  PROVE  Spec => []RollbackIsOneGeneration
<1>1. SwapInv => RollbackIsOneGeneration
  BY DEF SwapInv
<1>2. QED
  BY <1>1, SwapInit, SwapNext, ExclusiveInvariant, PTL DEF Spec

\* Only ACTIVE_BUNDLE's own write changes it.
LEMMA ActiveWrittenOnce ==
  ASSUME NEW p \in Procs, Run(p), ~WriteActive(p)
  PROVE  active' = active
BY DEF Run, Acquire, StageStep, StageReject, StageBundle, StageCopy, WriteStage,
       VerifyStep, VerifyStaged, RunKernel, CanaryStaged, UpgradeStep, NotReady, Ready,
       Announce, CommitStep, CommitStaged, CheckParent, StoreBundle, StoreCopy,
       StoreReceipt, RollbackStep, RollbackActive, RollbackTarget, ReadReceipt, SwapStep,
       WritePrev, WriteNext, LedgerStep, ReadLastEntry, ReadLedger, PublishEntry,
       AuditStep, AuditActive, AuditNext, AuditStore, AuditLedger, pointers

\* When commands do not overlap, the active bundle is only ever replaced by a
\* child or by its parent: the comparison in commit_staged still holds when
\* ACTIVE_BUNDLE is written, several file operations later.
THEOREM SwapsFollowParents ==
  ASSUME Serialized
  PROVE  Spec => SwapFollowsParent
<1>. DEFINE Relative ==
       \/ active' = active
       \/ active = Absent /\ Parent[active'] = Null
       \/ active # Absent /\ (Parent[active'] = active \/ Parent[active] = active')
<1>1. ASSUME TypeInv, Exclusive, SwapInv, [Next]_vars
      PROVE  [Relative]_active
  <2>1. CASE UNCHANGED vars
    BY <2>1 DEF vars, pointers
  <2>2. ASSUME NEW p \in Procs, NEW c \in EnabledCommands, NEW b \in BundleOrAbsent,
               Start(p, c, b)
        PROVE  active' = active
    BY <2>2 DEF Start, pointers
  <2>3. ASSUME NEW p \in Procs, Run(p) \/ Die(p)
        PROVE  Relative
    <3>1. CASE WriteActive(p)
      BY <1>1, <3>1, SwapWriteActive
    <3>2. CASE Run(p) /\ ~WriteActive(p)
      BY <3>2, ActiveWrittenOnce
    <3>3. CASE Die(p)
      BY <3>3 DEF Die, pointers
    <3>4. QED
      BY <2>3, <3>1, <3>2, <3>3
  <2>4. QED
    BY <1>1, <2>1, <2>2, <2>3 DEF Next
<1>2. QED
  BY <1>1, SwapInit, SwapNext, ExclusiveInvariant, PTL DEF Spec, SwapFollowsParent

-----------------------------------------------------------------------------
(* The ledger *)

\* The entry to append continues the ledger it is appended to.
LedgerInv ==
  /\ LedgerChainValid
  /\ \A p \in Procs :
       /\ pc[p] \in {"append", "publish"} => loc[p].head = ReadLast(ledger)
       /\ pc[p] = "publish" => loc[p].base = ledger

\* The sequence number of the last entry of a valid chain is its length.
LEMMA ReadLastOfChain ==
  ASSUME NEW log \in Seq(Entry), ValidChain(log)
  PROVE  /\ ReadLast(log).seq = Len(log)
         /\ ReadLast(log).hash = IF log = <<>> THEN <<>> ELSE EntryHash(log[Len(log)])
<1>1. CASE log = <<>>
  BY <1>1 DEF ReadLast
<1>2. CASE log # <<>>
  <2>1. Len(log) \in 1..Len(log)
    BY <1>2
  <2>2. log[Len(log)].body.seq = Len(log)
    BY <2>1 DEF ValidChain
  <2>3. QED
    BY <1>2, <2>2 DEF ReadLast
<1>3. QED
  BY <1>1, <1>2

\* An entry made from the last one of a valid chain makes the chain longer
\* (make_commit_entry and the like, validate_chain).
LEMMA AppendKeepsChain ==
  ASSUME NEW log \in Seq(Entry), ValidChain(log), NEW l \in Locals,
         l.head = ReadLast(log)
  PROVE  ValidChain(Append(log, MakeEntry(l)))
<1>. DEFINE e == MakeEntry(l)
            longer == Append(log, e)
<1>1. /\ e.body.seq = Len(log) + 1
      /\ e.prevHash = IF log = <<>> THEN <<>> ELSE EntryHash(log[Len(log)])
  BY ReadLastOfChain DEF MakeEntry
<1>2. e \in Entry
  BY MakeEntryType
<1>. HIDE DEF e
<1>3. /\ Len(longer) = Len(log) + 1
      /\ longer[Len(log) + 1] = e
      /\ \A i \in 1..Len(log) : longer[i] = log[i]
  BY <1>2
<1>4. ASSUME NEW i \in 1..Len(longer)
      PROVE  /\ longer[i].body.seq = i
             /\ longer[i].prevHash = IF i = 1 THEN <<>> ELSE EntryHash(longer[i - 1])
  <2>1. CASE i \in 1..Len(log)
    <3>1. /\ log[i].body.seq = i
          /\ log[i].prevHash = IF i = 1 THEN <<>> ELSE EntryHash(log[i - 1])
      BY <2>1 DEF ValidChain
    <3>2. i # 1 => i - 1 \in 1..Len(log)
      BY <2>1
    <3>3. QED
      BY <1>3, <2>1, <3>1, <3>2
  <2>2. CASE i = Len(log) + 1
    <3>1. longer[i] = e
      BY <1>3, <2>2
    <3>2. log = <<>> <=> i = 1
      BY <2>2
    <3>3. i # 1 => longer[i - 1] = log[Len(log)]
      BY <1>3, <2>2
    <3>4. QED
      BY <1>1, <2>2, <3>1, <3>2, <3>3
  <2>3. QED
    BY <1>3, <2>1, <2>2
<1>. HIDE DEF longer
<1>5. ValidChain(longer)
  BY <1>4 DEF ValidChain
<1>6. QED
  BY <1>5 DEF longer, e

\* What LedgerInv says of one process.
AppendOK(p) ==
  /\ pc[p] \in {"append", "publish"} => loc[p].head = ReadLast(ledger)
  /\ pc[p] = "publish" => loc[p].base = ledger

\* A step that leaves the ledger alone has to be looked at for its own process only.
LEMMA LedgerFrame ==
  ASSUME LedgerInv, NEW p \in Procs, Others(p), ledger' = ledger, AppendOK(p)'
  PROVE  LedgerInv'
<1>1. LedgerChainValid'
  BY DEF LedgerInv, LedgerChainValid, ValidChain
<1>2. ASSUME NEW q \in Procs \ {p}
      PROVE  AppendOK(q)'
  BY DEF LedgerInv, AppendOK, Others
<1>3. QED
  BY <1>1, <1>2 DEF LedgerInv, AppendOK

\* Only the steps of an append read the ledger into a process.
LEMMA LedgerQuiet ==
  ASSUME LedgerInv, NEW p \in Procs, Others(p), ledger' = ledger,
         pc'[p] \notin {"append", "publish"}
  PROVE  LedgerInv'
BY LedgerFrame DEF AppendOK

\* Every step outside an append leaves the ledger alone and stays outside.
LEMMA OutsideAppend ==
  ASSUME TypeInv, NEW p \in Procs,
         \/ Acquire(p) \/ Die(p) \/ StageStep(p) \/ VerifyStep(p) \/ UpgradeStep(p)
         \/ CommitStep(p) \/ RollbackStep(p) \/ SwapStep(p) \/ AuditStep(p)
  PROVE  Others(p) /\ ledger' = ledger /\ pc'[p] \notin {"append", "publish"}
<1>1. CASE Acquire(p) \/ Die(p)
  <2>1. ledger' = ledger
    BY <1>1 DEF Acquire, Die
  <2>2. QED
    BY <1>1, <2>1, EnvironmentEffect
<1>2. CASE StageStep(p)
  <2>1. ledger' = ledger
    BY <1>2 DEF StageStep, StageReject, StageBundle, StageCopy, WriteStage
  <2>2. \/ \E code : Finish(p, code)
        \/ \E n \in {"stageCopy", "stageDesc"} : \E l : Advance(p, n, l)
        \/ StageDone(p, "verify")
    BY <1>2 DEF StageStep, StageReject, StageBundle, StageCopy, WriteStage
  <2>3. QED
    BY <2>1, <2>2, FinishEffect, AdvanceEffect, StageDoneEffect
<1>3. CASE VerifyStep(p)
  <2>1. ledger' = ledger
    BY <1>3 DEF VerifyStep, VerifyStaged, RunKernel, CanaryStaged
  <2>2. \/ \E code : Finish(p, code)
        \/ \E l : Advance(p, "kernel", l)
        \/ StageDone(p, "canary") \/ StageDone(p, "commit")
    BY <1>3 DEF VerifyStep, VerifyStaged, RunKernel, CanaryStaged
  <2>3. QED
    BY <2>1, <2>2, FinishEffect, AdvanceEffect, StageDoneEffect
<1>4. CASE UpgradeStep(p)
  <2>1. ledger' = ledger
    BY <1>4 DEF UpgradeStep, NotReady, Ready, Announce
  <2>2. \/ \E code : Finish(p, code)
        \/ \E n \in {"announce", "commit"} : \E l : Advance(p, n, l)
    BY <1>4 DEF UpgradeStep, NotReady, Ready, Announce
  <2>3. QED
    BY <2>1, <2>2, FinishEffect, AdvanceEffect
<1>5. CASE CommitStep(p)
  <2>1. ledger' = ledger
    BY <1>5 DEF CommitStep, CommitStaged, CheckParent, StoreBundle, StoreCopy, StoreReceipt
  <2>2. \/ \E code : Finish(p, code)
        \/ \E n \in {"parent", "store", "storeCopy", "storeReceipt", "prev"} : \E l :
             Advance(p, n, l)
    BY <1>5 DEF CommitStep, CommitStaged, CheckParent, StoreBundle, StoreCopy, StoreReceipt
  <2>3. QED
    BY <2>1, <2>2, FinishEffect, AdvanceEffect
<1>6. CASE RollbackStep(p)
  <2>1. ledger' = ledger
    BY <1>6 DEF RollbackStep, RollbackActive, RollbackTarget, ReadReceipt
  <2>2. \/ \E code : Finish(p, code)
        \/ \E n \in {"target", "prev", "tail"} : \E l : Advance(p, n, l)
    BY <1>6 DEF RollbackStep, RollbackActive, RollbackTarget, ReadReceipt
  <2>3. QED
    BY <2>1, <2>2, FinishEffect, AdvanceEffect
<1>7. CASE SwapStep(p)
  <2>1. ledger' = ledger
    BY <1>7 DEF SwapStep, WritePrev, WriteActive, WriteNext
  <2>2. \/ \E code : Finish(p, code)
        \/ \E n \in {"active", "next", "receipt", "tail"} : \E l : Advance(p, n, l)
    BY <1>7 DEF SwapStep, WritePrev, WriteActive, WriteNext
  <2>3. QED
    BY <2>1, <2>2, FinishEffect, AdvanceEffect
<1>8. CASE AuditStep(p)
  <2>1. ledger' = ledger
    BY <1>8 DEF AuditStep, AuditActive, AuditNext, AuditStore, AuditLedger
  <2>2. \/ \E code : Finish(p, code)
        \/ \E n \in {"auditNext", "auditStore", "auditLedger"} : \E l : Advance(p, n, l)
    BY <1>8 DEF AuditStep, AuditActive, AuditNext, AuditStore, AuditLedger
  <2>3. QED
    BY <2>1, <2>2, FinishEffect, AdvanceEffect
<1>9. QED
  BY <1>1, <1>2, <1>3, <1>4, <1>5, <1>6, <1>7, <1>8

\* What the append reads is what the ledger holds (read_last_entry, and the
\* first half of append_entry_crash_safe).
LEMMA LedgerReads ==
  ASSUME TypeInv, LedgerInv, NEW p \in Procs, ReadLastEntry(p) \/ ReadLedger(p)
  PROVE  LedgerInv'
<1>1. loc[p] \in Locals
  BY DEF TypeInv, TypeOK, ProcessesOK
<1>2. CASE ReadLastEntry(p)
  <2>. DEFINE l == [loc[p] EXCEPT !.head = ReadLast(ledger)]
  <2>1. l.head = ReadLast(ledger)
    BY <1>1, LocalsFields
  <2>2. Advance(p, "append", l) /\ ledger' = ledger
    BY <1>2 DEF ReadLastEntry
  <2>. HIDE DEF l
  <2>3. Others(p) /\ pc'[p] = "append" /\ loc'[p] = l
    BY <2>2, AdvanceEffect
  <2>4. AppendOK(p)'
    BY <2>1, <2>2, <2>3 DEF AppendOK
  <2>5. QED
    BY <2>2, <2>3, <2>4, LedgerFrame
<1>3. CASE ReadLedger(p)
  <2>. DEFINE l == [loc[p] EXCEPT !.base = ledger]
  <2>1. l.base = ledger /\ l.head = loc[p].head
    BY <1>1, LocalsFields
  <2>2. Advance(p, "publish", l) /\ ledger' = ledger /\ pc[p] = "append"
    BY <1>3 DEF ReadLedger
  <2>. HIDE DEF l
  <2>3. Others(p) /\ pc'[p] = "publish" /\ loc'[p] = l
    BY <2>2, AdvanceEffect
  <2>4. loc[p].head = ReadLast(ledger)
    BY <2>2 DEF LedgerInv
  <2>5. AppendOK(p)'
    BY <2>1, <2>2, <2>3, <2>4 DEF AppendOK
  <2>6. QED
    BY <2>2, <2>3, <2>5, LedgerFrame
<1>4. QED
  BY <1>2, <1>3

\* The ledger grows by one entry that continues its chain (the second half of
\* append_entry_crash_safe).
LEMMA LedgerPublish ==
  ASSUME TypeInv, Exclusive, LedgerInv, NEW p \in Procs, PublishEntry(p)
  PROVE  /\ LedgerInv'
         /\ Len(ledger') = Len(ledger) + 1
         /\ SubSeq(ledger', 1, Len(ledger)) = ledger
<1>1. /\ pc[p] = "publish" /\ Busy(p)
      /\ ledger' = Append(loc[p].base, MakeEntry(loc[p]))
      /\ loc[p].base = ledger /\ loc[p].head = ReadLast(ledger)
  BY DEF PublishEntry, Busy, LedgerInv
<1>2. /\ loc[p] \in Locals /\ ledger \in Seq(Entry) /\ MakeEntry(loc[p]) \in Entry
      /\ ValidChain(ledger)
  BY MakeEntryType DEF TypeInv, TypeOK, FilesOK, ProcessesOK, LedgerInv, LedgerChainValid
<1>3. LedgerChainValid'
  BY <1>1, <1>2, AppendKeepsChain DEF LedgerChainValid
<1>4. Others(p) /\ pc'[p] \in {"idle", "tail"}
  <2>. DEFINE l == [NoLocals EXCEPT !.bundle = loc[p].bundle, !.action = "REGIME_UPGRADE"]
  <2>1. Finish(p, "ok") \/ Advance(p, "tail", l)
    BY DEF PublishEntry
  <2>. HIDE DEF l
  <2>2. QED
    BY <2>1, FinishEffect, AdvanceEffect
<1>5. ASSUME NEW q \in Procs
      PROVE  AppendOK(q)'
  BY <1>1, <1>4 DEF AppendOK, Exclusive, Busy, Others
<1>6. LedgerInv'
  BY <1>3, <1>5 DEF LedgerInv, AppendOK
<1>7. ledger' = Append(ledger, MakeEntry(loc[p]))
  BY <1>1
<1>8. Len(ledger') = Len(ledger) + 1 /\ SubSeq(ledger', 1, Len(ledger)) = ledger
  BY <1>2, <1>7
<1>9. QED
  BY <1>6, <1>8

\* Every step keeps the ledger invariant.
LEMMA LedgerNext == TypeInv /\ Exclusive /\ LedgerInv /\ [Next]_vars => LedgerInv'
<1>. SUFFICES ASSUME TypeInv, Exclusive, LedgerInv, [Next]_vars PROVE LedgerInv'
  OBVIOUS
<1>1. CASE UNCHANGED vars
  BY <1>1 DEF vars, LedgerInv, LedgerChainValid, ValidChain
<1>2. ASSUME NEW p \in Procs, NEW c \in EnabledCommands, NEW b \in BundleOrAbsent,
             Start(p, c, b)
      PROVE  LedgerInv'
  <2>1. Others(p) /\ pc'[p] = Entrance(c) /\ ledger' = ledger
    BY <1>2, EnvironmentEffect DEF Start
  <2>2. Entrance(c) \notin {"append", "publish"}
    BY EnvironmentAssumption DEF Entrance, LockedCommands, AllCommands
  <2>3. QED
    BY <2>1, <2>2, LedgerQuiet
<1>3. ASSUME NEW p \in Procs, Run(p) \/ Die(p)
      PROVE  LedgerInv'
  <2>1. CASE LedgerStep(p)
    BY <2>1, LedgerReads, LedgerPublish DEF LedgerStep
  <2>2. CASE ~LedgerStep(p)
    BY <1>3, <2>2, OutsideAppend, LedgerQuiet DEF Run
  <2>3. QED
    BY <2>1, <2>2
<1>4. QED
  BY <1>1, <1>2, <1>3 DEF Next

\* There is no ledger before the first command.
LEMMA LedgerInit == Init => LedgerInv
BY DEF Init, LedgerInv, LedgerChainValid, ValidChain

\* When commands do not overlap, the ledger is a valid hash chain at every
\* moment, wherever commands die (append_entry_crash_safe replaces the file).
THEOREM LedgerAlwaysValid ==
  ASSUME Serialized
  PROVE  Spec => []LedgerChainValid
<1>1. LedgerInv => LedgerChainValid
  BY DEF LedgerInv
<1>2. QED
  BY <1>1, LedgerInit, LedgerNext, ExclusiveInvariant, PTL DEF Spec

\* When commands do not overlap, the ledger only grows at its end, entry by
\* entry: no entry is lost, changed or reordered (append_entry_crash_safe).
THEOREM LedgerOnlyGrows ==
  ASSUME Serialized
  PROVE  Spec => LedgerAppendOnly
<1>. DEFINE Grows ==
       \/ ledger' = ledger
       \/ /\ Len(ledger') = Len(ledger) + 1
          /\ SubSeq(ledger', 1, Len(ledger)) = ledger
<1>1. ASSUME TypeInv, Exclusive, LedgerInv, [Next]_vars
      PROVE  [Grows]_ledger
  <2>1. CASE UNCHANGED vars
    BY <2>1 DEF vars
  <2>2. ASSUME NEW p \in Procs, NEW c \in EnabledCommands, NEW b \in BundleOrAbsent,
               Start(p, c, b)
        PROVE  ledger' = ledger
    BY <2>2 DEF Start
  <2>3. ASSUME NEW p \in Procs, Run(p) \/ Die(p)
        PROVE  Grows
    <3>1. CASE PublishEntry(p)
      BY <1>1, <3>1, LedgerPublish
    <3>2. CASE ReadLastEntry(p) \/ ReadLedger(p)
      BY <3>2 DEF ReadLastEntry, ReadLedger
    <3>3. CASE ~LedgerStep(p)
      BY <1>1, <2>3, <3>3, OutsideAppend DEF Run
    <3>4. QED
      BY <3>1, <3>2, <3>3 DEF LedgerStep
  <2>4. QED
    BY <1>1, <2>1, <2>2, <2>3 DEF Next
<1>2. QED
  BY <1>1, LedgerInit, LedgerNext, ExclusiveInvariant, PTL DEF Spec, LedgerAppendOnly
=============================================================================
