------------------------- MODULE MetaCoreActivation -------------------------
(***************************************************************************)
(* The activation engine of meta-core (meta-core/engine): a bundle is      *)
(* staged, verified by the kernel, tried as a canary and committed; the    *)
(* active bundle is swapped back by a rollback or promoted by a regime     *)
(* upgrade; an audit re-checks what is on disk.                            *)
(*                                                                         *)
(* A command is an operating-system process that moves through the file    *)
(* operations of the engine one at a time, so that other commands and the  *)
(* death of the process fall between any two of them.  Every file the      *)
(* commands share is a variable; nothing else survives a process.          *)
(***************************************************************************)
EXTENDS Integers, Sequences

CONSTANTS
  Procs,           \* process slots from which commands are run
  Bundles,         \* bundle hashes
  Parent,          \* manifest.parent_bundle_hash of each bundle, Null if ""
  WellFormed,      \* bundles whose declared hashes match their contents
  Valid,           \* bundles whose constitutional checks the kernel accepts
  EnabledCommands, \* the commands the environment issues
  Failpoints,      \* the values META_CORE_FAILPOINT may take
  MaxLedger,       \* bound: no appending command starts once the ledger is this long
  MaxCrashes,      \* bound: how many processes may die inside a command
  Null,            \* NULL_BUNDLE_HASH, the all-zero hash
  Absent,          \* a file that does not exist
  Free             \* nobody holds the flock on active/LOCK

AllCommands ==
  {"stage", "verify", "canary", "commit", "apply", "rollback", "upgrade", "audit"}

\* The commands that take the exclusive flock on active/LOCK.
LockedCommands == {"apply", "audit"}

\* The commands that append to the ledger.
AppendingCommands == {"commit", "apply", "rollback", "upgrade"}

ASSUME BundlesAssumption ==
  /\ Null \notin Bundles
  /\ Absent \notin Bundles
  /\ Null # Absent
  /\ Free \notin Procs
  /\ Parent \in [Bundles -> Bundles \cup {Null}]
  /\ WellFormed \subseteq Bundles
  /\ Valid \subseteq Bundles

ASSUME EnvironmentAssumption ==
  /\ EnabledCommands \subseteq AllCommands
  /\ Failpoints \subseteq {"AFTER_PREV_WRITE", "AFTER_NEXT_WRITE"}
  /\ MaxLedger \in Nat
  /\ MaxCrashes \in Nat

VARIABLES
  active,      \* active/ACTIVE_BUNDLE
  prevActive,  \* active/PREV_ACTIVE_BUNDLE
  activeNext,  \* active/ACTIVE_NEXT_BUNDLE
  ledger,      \* active/ledger/ledger.log, one entry per line
  stageDir,    \* stage/bundles/<hash>: how much of the copy is there
  stageFile,   \* active/work/stage.json, by the bundle it describes
  receiptFile, \* active/work/receipt.json
  stored,      \* store/bundles/<hash>: how much of the copy is there
  receipts,    \* store/bundles/<hash>/kernel_receipt.json: the verdict it holds
  lock,        \* holder of the flock on active/LOCK
  pc,          \* next file operation of each process
  cmd,         \* command each process is running
  loc,         \* what each process has read so far
  result,      \* exit code of the last command of each process
  crashes      \* processes that have died inside a command

pointers == <<active, prevActive, activeNext>>
stage    == <<stageDir, stageFile, receiptFile>>
store    == <<stored, receipts>>
control  == <<lock, cmd, result, crashes>>
vars     == <<pointers, ledger, stage, store, lock, pc, cmd, loc, result, crashes>>

-----------------------------------------------------------------------------
(* Types *)

BundleOrAbsent == Bundles \cup {Absent}
Pointer        == Bundles \cup {Null, Absent}
LedgerActions  == {"COMMIT", "ROLLBACK", "REGIME_UPGRADE"}

\* What entry_hash covers, apart from prev_entry_hash.
Body == [seq : Nat, action : LedgerActions, active : BundleOrAbsent, prev : Pointer]

\* SHA-256 is injective here: a hash is the chain of bodies it commits to, and
\* <<>> is the hash of the empty chain (NULL_BUNDLE_HASH in the ledger).
Hash  == Seq(Body)
Entry == [body : Body, prevHash : Hash]

\* A directory made by copytree: missing, with some files, with all of them.
CopyState == {"none", "partial", "copied"}
Verdict   == {"none", "valid", "invalid"}
Receipt   == [bundle : Bundles \cup {Null}, verdict : {"valid", "invalid"}]

PCs == {"idle", "lock", "stage", "stageCopy", "stageDesc", "verify", "kernel",
        "canary", "readiness", "announce", "commit", "parent", "store",
        "storeCopy", "storeReceipt", "rollback", "target", "prev", "active",
        "next", "receipt", "tail", "append", "publish", "audit", "auditNext",
        "auditStore", "auditLedger"}

Locals == [bundle : BundleOrAbsent,    \* bundle being staged, committed or restored
           old    : Pointer,           \* ACTIVE_BUNDLE as read
           verdict : Verdict,          \* of the receipt the commit has read
           action : LedgerActions,     \* ledger entry to append
           head   : [seq : Nat, hash : Hash],  \* read_last_entry
           base   : Seq(Entry)]        \* ledger bytes read by the append

NoLocals == [bundle |-> Absent, old |-> Absent, verdict |-> "none",
             action |-> "COMMIT",
             head |-> [seq |-> 0, hash |-> <<>>], base |-> <<>>]

FilesOK ==
  /\ active \in BundleOrAbsent
  /\ prevActive \in Pointer
  /\ activeNext \in BundleOrAbsent
  /\ ledger \in Seq(Entry)
  /\ stageDir \in [Bundles -> CopyState]
  /\ stageFile \in BundleOrAbsent
  /\ receiptFile \in Receipt \cup {Absent}
  /\ stored \in [Bundles -> CopyState]
  /\ receipts \in [Bundles -> Verdict]

ProcessesOK ==
  /\ lock \in Procs \cup {Free}
  /\ pc \in [Procs -> PCs]
  /\ cmd \in [Procs -> AllCommands \cup {"none"}]
  /\ loc \in [Procs -> Locals]
  /\ result \in [Procs -> {"none", "ok", "invalid", "error", "died"}]
  /\ crashes \in Nat

\* The files hold what the engine writes into them; the all-zero hash can be in
\* PREV_ACTIVE_BUNDLE only (_read_pointer, rollback_active).
TypeOK == FilesOK /\ ProcessesOK

-----------------------------------------------------------------------------
(* The ledger *)

EntryHash(e) == Append(e.prevHash, e.body)

\* Fault: the hash the last entry points to instead of its own.
ReadLastPrevHash(log) ==
  IF log = <<>> THEN [seq |-> 0, hash |-> <<>>]
  ELSE [seq |-> log[Len(log)].body.seq, hash |-> log[Len(log)].prevHash]

\* read_last_entry: sequence number and hash of the last entry.
ReadLast(log) ==
  IF log = <<>> THEN [seq |-> 0, hash |-> <<>>]
  ELSE [seq |-> log[Len(log)].body.seq, hash |-> EntryHash(log[Len(log)])]

\* Fault: the two bundles of a rollback entry are swapped.
MakeEntrySwapped(l) ==
  [body     |-> [seq    |-> l.head.seq + 1,
                 action |-> l.action,
                 active |-> IF l.action = "ROLLBACK" THEN l.old ELSE l.bundle,
                 prev   |-> CASE l.action = "REGIME_UPGRADE" -> Absent
                              [] l.action = "ROLLBACK"       -> l.bundle
                              [] OTHER                       -> l.old],
   prevHash |-> l.head.hash]

\* make_commit_entry, make_rollback_entry and make_regime_upgrade_entry.  A
\* regime upgrade entry does not name the bundle it replaces.
MakeEntry(l) ==
  [body     |-> [seq    |-> l.head.seq + 1,
                 action |-> l.action,
                 active |-> l.bundle,
                 prev   |-> IF l.action = "REGIME_UPGRADE" THEN Absent ELSE l.old],
   prevHash |-> l.head.hash]

\* validate_chain: sequence numbers count from 1 and every entry names the hash
\* of the one before it.
ValidChain(log) ==
  \A i \in 1..Len(log) :
    /\ log[i].body.seq = i
    /\ log[i].prevHash = IF i = 1 THEN <<>> ELSE EntryHash(log[i - 1])

-----------------------------------------------------------------------------
(* The kernel verifier *)

\* The parent directory the kernel is given: none for a root bundle.
ParentPresent(b) == Parent[b] = Null \/ stored[Parent[b]] # "none"

\* verifier verify --bundle-dir <d> --parent-bundle-dir <p>: the contents of the
\* bundle and of its parent have to be complete and the bundle constitutional.
KernelAccepts(b, state) ==
  /\ b \in Valid
  /\ state = "copied"
  /\ Parent[b] = Null \/ stored[Parent[b]] = "copied"

-----------------------------------------------------------------------------
(* Steps of a process *)

Advance(p, next, l) ==
  /\ pc' = [pc EXCEPT ![p] = next]
  /\ loc' = [loc EXCEPT ![p] = l]
  /\ UNCHANGED control

\* Fault: the descriptor of active/LOCK outlives the command.
FinishLeakingLock(p, code) ==
  /\ pc' = [pc EXCEPT ![p] = "idle"]
  /\ loc' = [loc EXCEPT ![p] = NoLocals]
  /\ cmd' = [cmd EXCEPT ![p] = "none"]
  /\ result' = [result EXCEPT ![p] = code]
  /\ UNCHANGED <<lock, crashes>>

\* The command exits with a code; its flock goes with it.
Finish(p, code) ==
  /\ pc' = [pc EXCEPT ![p] = "idle"]
  /\ loc' = [loc EXCEPT ![p] = NoLocals]
  /\ cmd' = [cmd EXCEPT ![p] = "none"]
  /\ result' = [result EXCEPT ![p] = code]
  /\ lock' = IF lock = p THEN Free ELSE lock
  /\ UNCHANGED crashes

\* A stand-alone command is done after its own stage; apply goes on.
StageDone(p, next) ==
  IF cmd[p] = "apply" THEN Advance(p, next, NoLocals) ELSE Finish(p, "ok")

Entrance(c) ==
  CASE c \in LockedCommands -> "lock"
    [] c = "upgrade"        -> "readiness"
    [] OTHER                -> c

\* A command is started; apply and stage name a bundle directory.
Start(p, c, b) ==
  /\ pc[p] = "idle"
  /\ c \in EnabledCommands
  /\ b \in IF c \in {"apply", "stage"} THEN Bundles ELSE {Absent}
  /\ c \in AppendingCommands => Len(ledger) < MaxLedger
  /\ pc' = [pc EXCEPT ![p] = Entrance(c)]
  /\ cmd' = [cmd EXCEPT ![p] = c]
  /\ loc' = [loc EXCEPT ![p] = [NoLocals EXCEPT !.bundle = b]]
  /\ result' = [result EXCEPT ![p] = "none"]
  /\ UNCHANGED <<pointers, ledger, stage, store, lock, crashes>>

\* Fault: the lock is opened and never taken.
AcquireNothing(p) ==
  /\ pc[p] = "lock"
  /\ pc' = [pc EXCEPT ![p] = IF cmd[p] = "apply" THEN "stage" ELSE "audit"]
  /\ UNCHANGED <<pointers, ledger, stage, store, lock, cmd, loc, result, crashes>>

\* Fault: an audit, which writes nothing, does not wait for the lock.
AcquireToWrite(p) ==
  /\ pc[p] = "lock"
  /\ \/ cmd[p] = "audit" /\ UNCHANGED lock
     \/ cmd[p] = "apply" /\ lock = Free /\ lock' = p
  /\ pc' = [pc EXCEPT ![p] = IF cmd[p] = "apply" THEN "stage" ELSE "audit"]
  /\ UNCHANGED <<pointers, ledger, stage, store, cmd, loc, result, crashes>>

\* flock(LOCK_EX) returns.
Acquire(p) ==
  /\ pc[p] = "lock"
  /\ lock = Free
  /\ lock' = p
  /\ pc' = [pc EXCEPT ![p] = IF cmd[p] = "apply" THEN "stage" ELSE "audit"]
  /\ UNCHANGED <<pointers, ledger, stage, store, cmd, loc, result, crashes>>

\* stage_bundle: a declared hash differs from the recomputed one.
StageReject(p) ==
  /\ pc[p] = "stage"
  /\ loc[p].bundle \notin WellFormed
  /\ Finish(p, "invalid")
  /\ UNCHANGED <<pointers, ledger, stage, store>>

\* stage_bundle: an existing stage directory is taken as it is, otherwise
\* copytree creates it.
StageBundle(p) ==
  LET b == loc[p].bundle IN
  /\ pc[p] = "stage"
  /\ b \in WellFormed
  /\ IF stageDir[b] = "none"
     THEN /\ stageDir' = [stageDir EXCEPT ![b] = "partial"]
          /\ Advance(p, "stageCopy", loc[p])
     ELSE /\ Advance(p, "stageDesc", loc[p])
          /\ UNCHANGED stageDir
  /\ UNCHANGED <<pointers, ledger, stageFile, receiptFile, store>>

\* copytree has copied the last file.
StageCopy(p) ==
  /\ pc[p] = "stageCopy"
  /\ stageDir' = [stageDir EXCEPT ![loc[p].bundle] = "copied"]
  /\ Advance(p, "stageDesc", loc[p])
  /\ UNCHANGED <<pointers, ledger, stageFile, receiptFile, store>>

\* stage.json is written.
WriteStage(p) ==
  /\ pc[p] = "stageDesc"
  /\ stageFile' = loc[p].bundle
  /\ StageDone(p, "verify")
  /\ UNCHANGED <<pointers, ledger, stageDir, receiptFile, store>>

\* verify_staged up to the run of the kernel.
VerifyStaged(p) ==
  /\ pc[p] = "verify"
  /\ IF stageFile = Absent THEN Finish(p, "error")
     ELSE IF stageDir[stageFile] = "none" THEN Finish(p, "error")
     ELSE IF ~ParentPresent(stageFile) THEN Finish(p, "invalid")
     ELSE Advance(p, "kernel", [loc[p] EXCEPT !.bundle = stageFile])
  /\ UNCHANGED <<pointers, ledger, stage, store>>

\* The kernel writes its receipt whatever its verdict.  A rejection that comes
\* before the manifest is parsed names the all-zero hash.
RunKernel(p) ==
  LET b  == loc[p].bundle
      ok == KernelAccepts(b, stageDir[b]) IN
  /\ pc[p] = "kernel"
  /\ \E named \in IF ok THEN {b} ELSE {b, Null} :
       receiptFile' = [bundle  |-> named,
                       verdict |-> IF ok THEN "valid" ELSE "invalid"]
  /\ IF ok THEN StageDone(p, "canary") ELSE Finish(p, "invalid")
  /\ UNCHANGED <<pointers, ledger, stageDir, stageFile, store>>

\* canary_staged: the hashes of the staged copy are recomputed and the kernel
\* runs again; an incomplete copy either raises or no longer hashes the same.
CanaryStaged(p) ==
  /\ pc[p] = "canary"
  /\ IF stageFile = Absent THEN Finish(p, "error")
     ELSE IF stageDir[stageFile] = "none" THEN Finish(p, "error")
     ELSE IF stageDir[stageFile] = "partial"
       THEN \E code \in {"invalid", "error"} : Finish(p, code)
     ELSE IF ~KernelAccepts(stageFile, stageDir[stageFile]) THEN Finish(p, "invalid")
     ELSE StageDone(p, "commit")
  /\ UNCHANGED <<pointers, ledger, stage, store>>

\* commit_staged_regime_upgrade: the readiness receipt has not all three flags.
NotReady(p) ==
  /\ pc[p] = "readiness"
  /\ Finish(p, "invalid")
  /\ UNCHANGED <<pointers, ledger, stage, store>>

\* commit_staged_regime_upgrade: ready; stage.json is read.
Ready(p) ==
  /\ pc[p] = "readiness"
  /\ IF stageFile = Absent THEN Finish(p, "error")
     ELSE Advance(p, "announce", [loc[p] EXCEPT !.bundle = stageFile])
  /\ UNCHANGED <<pointers, ledger, stage, store>>

\* The upgrade announces the bundle in ACTIVE_NEXT_BUNDLE, then commits it.
Announce(p) ==
  /\ pc[p] = "announce"
  /\ activeNext' = loc[p].bundle
  /\ \/ Advance(p, "commit", NoLocals)
     \/ "AFTER_NEXT_WRITE" \in Failpoints /\ Finish(p, "error")
  /\ UNCHANGED <<active, prevActive, ledger, stage, store>>

\* commit_staged: stage.json and the receipt are read.  The receipt has to name
\* the staged bundle; its verdict is taken along and not looked at.
CommitStaged(p) ==
  /\ pc[p] = "commit"
  /\ IF \/ stageFile = Absent
        \/ receiptFile = Absent
     THEN Finish(p, "error")
     ELSE IF stageDir[stageFile] = "none" \/ receiptFile.bundle # stageFile
       THEN Finish(p, "error")
     ELSE Advance(p, "parent", [loc[p] EXCEPT !.bundle = stageFile,
                                              !.verdict = receiptFile.verdict])
  /\ UNCHANGED <<pointers, ledger, stage, store>>

\* Fault: the parent is not compared.
CheckParentNever(p) ==
  LET old == IF active = Absent THEN Null ELSE active IN
  /\ pc[p] = "parent"
  /\ Advance(p, "store", [loc[p] EXCEPT !.old = old, !.action = "COMMIT"])
  /\ UNCHANGED <<pointers, ledger, stage, store>>

\* Fault: the parent is compared only when some bundle is active.
CheckParentOfActive(p) ==
  LET old == IF active = Absent THEN Null ELSE active IN
  /\ pc[p] = "parent"
  /\ IF old # Null /\ old # Parent[loc[p].bundle] THEN Finish(p, "invalid")
     ELSE Advance(p, "store", [loc[p] EXCEPT !.old = old, !.action = "COMMIT"])
  /\ UNCHANGED <<pointers, ledger, stage, store>>

\* Fault: the pointers are written without a copy in the store.
CheckParentOnly(p) ==
  LET old == IF active = Absent THEN Null ELSE active IN
  /\ pc[p] = "parent"
  /\ IF old # Parent[loc[p].bundle] THEN Finish(p, "invalid")
     ELSE Advance(p, "prev", [loc[p] EXCEPT !.old = old, !.action = "COMMIT"])
  /\ UNCHANGED <<pointers, ledger, stage, store>>

\* commit_staged: ACTIVE_BUNDLE is read and has to be the parent of the bundle.
CheckParent(p) ==
  LET old == IF active = Absent THEN Null ELSE active IN
  /\ pc[p] = "parent"
  /\ IF old # Parent[loc[p].bundle] THEN Finish(p, "invalid")
     ELSE Advance(p, "store", [loc[p] EXCEPT !.old = old, !.action = "COMMIT"])
  /\ UNCHANGED <<pointers, ledger, stage, store>>

\* Fault: a bundle that is already stored counts as already committed.
StoreBundleOnce(p) ==
  LET b == loc[p].bundle IN
  /\ pc[p] = "store"
  /\ IF stored[b] = "none"
     THEN /\ stored' = [stored EXCEPT ![b] = "partial"]
          /\ Advance(p, "storeCopy", loc[p])
     ELSE /\ Finish(p, "ok")
          /\ UNCHANGED stored
  /\ UNCHANGED <<pointers, ledger, stage, receipts>>

\* store_bundle: an existing store directory is taken as it is, otherwise
\* copytree creates it.
StoreBundle(p) ==
  LET b == loc[p].bundle IN
  /\ pc[p] = "store"
  /\ IF stored[b] = "none"
     THEN /\ stored' = [stored EXCEPT ![b] = "partial"]
          /\ Advance(p, "storeCopy", loc[p])
     ELSE /\ Advance(p, "prev", loc[p])
          /\ UNCHANGED stored
  /\ UNCHANGED <<pointers, ledger, stage, receipts>>

\* Fault: kernel_receipt.json is not written.
StoreCopyOnly(p) ==
  /\ pc[p] = "storeCopy"
  /\ stored' = [stored EXCEPT ![loc[p].bundle] = stageDir[loc[p].bundle]]
  /\ Advance(p, "prev", loc[p])
  /\ UNCHANGED <<pointers, ledger, stage, receipts>>

\* copytree has copied the last file the stage directory has.
StoreCopy(p) ==
  LET b == loc[p].bundle IN
  /\ pc[p] = "storeCopy"
  /\ stored' = [stored EXCEPT ![b] = stageDir[b]]
  /\ Advance(p, "storeReceipt", loc[p])
  /\ UNCHANGED <<pointers, ledger, stage, receipts>>

\* kernel_receipt.json is written into the store directory.
StoreReceipt(p) ==
  /\ pc[p] = "storeReceipt"
  /\ receipts' = [receipts EXCEPT ![loc[p].bundle] = loc[p].verdict]
  /\ Advance(p, "prev", loc[p])
  /\ UNCHANGED <<pointers, ledger, stage, stored>>

\* rollback_active: ACTIVE_BUNDLE is read, it has to exist.
RollbackActive(p) ==
  /\ pc[p] = "rollback"
  /\ IF active = Absent THEN Finish(p, "error")
     ELSE Advance(p, "target", [loc[p] EXCEPT !.old = active, !.action = "ROLLBACK"])
  /\ UNCHANGED <<pointers, ledger, stage, store>>

\* Fault: the all-zero hash is taken for a bundle.
RollbackTargetNull(p) ==
  /\ pc[p] = "target"
  /\ IF prevActive = Absent THEN Finish(p, "error")
     ELSE Advance(p, "prev", [loc[p] EXCEPT !.bundle = prevActive])
  /\ UNCHANGED <<pointers, ledger, stage, store>>

\* rollback_active: PREV_ACTIVE_BUNDLE is read, it has to exist and not be zero.
RollbackTarget(p) ==
  /\ pc[p] = "target"
  /\ IF prevActive = Absent THEN Finish(p, "error")
     ELSE IF prevActive = Null THEN Finish(p, "invalid")
     ELSE Advance(p, "prev", [loc[p] EXCEPT !.bundle = prevActive])
  /\ UNCHANGED <<pointers, ledger, stage, store>>

\* PREV_ACTIVE_BUNDLE is replaced; a commit has a failpoint behind it.
WritePrev(p) ==
  /\ pc[p] = "prev"
  /\ prevActive' = loc[p].old
  /\ \/ Advance(p, "active", loc[p])
     \/ /\ "AFTER_PREV_WRITE" \in Failpoints
        /\ loc[p].action = "COMMIT"
        /\ Finish(p, "error")
  /\ UNCHANGED <<active, activeNext, ledger, stage, store>>

\* ACTIVE_BUNDLE is replaced.
WriteActive(p) ==
  /\ pc[p] = "active"
  /\ active' = loc[p].bundle
  /\ Advance(p, "next", loc[p])
  /\ UNCHANGED <<prevActive, activeNext, ledger, stage, store>>

\* ACTIVE_NEXT_BUNDLE is replaced.
WriteNext(p) ==
  /\ pc[p] = "next"
  /\ activeNext' = loc[p].bundle
  /\ Advance(p, IF loc[p].action = "ROLLBACK" THEN "receipt" ELSE "tail", loc[p])
  /\ UNCHANGED <<active, prevActive, ledger, stage, store>>

\* rollback_active: the receipt of the restored bundle is read from the store.
ReadReceipt(p) ==
  /\ pc[p] = "receipt"
  /\ IF receipts[loc[p].bundle] # "none" THEN Advance(p, "tail", loc[p])
     ELSE Finish(p, "error")
  /\ UNCHANGED <<pointers, ledger, stage, store>>

\* read_last_entry.
ReadLastEntry(p) ==
  /\ pc[p] = "tail"
  /\ Advance(p, "append", [loc[p] EXCEPT !.head = ReadLast(ledger)])
  /\ UNCHANGED <<pointers, ledger, stage, store>>

\* append_entry_crash_safe reads the whole log ...
ReadLedger(p) ==
  /\ pc[p] = "append"
  /\ Advance(p, "publish", [loc[p] EXCEPT !.base = ledger])
  /\ UNCHANGED <<pointers, ledger, stage, store>>

\* Fault: the temporary file gets the new line without the old ones.
PublishEntryAlone(p) ==
  /\ pc[p] = "publish"
  /\ ledger' = <<MakeEntry(loc[p])>>
  /\ IF cmd[p] = "upgrade" /\ loc[p].action = "COMMIT"
     THEN Advance(p, "tail", [NoLocals EXCEPT !.bundle = loc[p].bundle,
                                              !.action = "REGIME_UPGRADE"])
     ELSE Finish(p, "ok")
  /\ UNCHANGED <<pointers, stage, store>>

\* ... and replaces it by what it read and one more line.  A regime upgrade
\* appends a second entry once its commit is recorded.
PublishEntry(p) ==
  /\ pc[p] = "publish"
  /\ ledger' = Append(loc[p].base, MakeEntry(loc[p]))
  /\ IF cmd[p] = "upgrade" /\ loc[p].action = "COMMIT"
     THEN Advance(p, "tail", [NoLocals EXCEPT !.bundle = loc[p].bundle,
                                              !.action = "REGIME_UPGRADE"])
     ELSE Finish(p, "ok")
  /\ UNCHANGED <<pointers, stage, store>>

\* audit_active: ACTIVE_BUNDLE has to exist.
AuditActive(p) ==
  /\ pc[p] = "audit"
  /\ IF active = Absent THEN Finish(p, "invalid")
     ELSE Advance(p, "auditNext", [loc[p] EXCEPT !.bundle = active])
  /\ UNCHANGED <<pointers, ledger, stage, store>>

\* audit_active: ACTIVE_NEXT_BUNDLE, when there, has to be the active bundle.
AuditNext(p) ==
  /\ pc[p] = "auditNext"
  /\ IF activeNext \notin {Absent, loc[p].bundle} THEN Finish(p, "invalid")
     ELSE Advance(p, "auditStore", loc[p])
  /\ UNCHANGED <<pointers, ledger, stage, store>>

\* audit_active: the stored bundle has a receipt, its parent is in the store and
\* the kernel gives the same receipt again.
AuditStore(p) ==
  LET b == loc[p].bundle IN
  /\ pc[p] = "auditStore"
  /\ IF receipts[b] = "valid" /\ ParentPresent(b) /\ KernelAccepts(b, stored[b])
     THEN Advance(p, "auditLedger", loc[p])
     ELSE Finish(p, "invalid")
  /\ UNCHANGED <<pointers, ledger, stage, store>>

\* audit_active: the ledger has to be a valid chain.
AuditLedger(p) ==
  /\ pc[p] = "auditLedger"
  /\ Finish(p, IF ValidChain(ledger) THEN "ok" ELSE "error")
  /\ UNCHANGED <<pointers, ledger, stage, store>>

\* The process is killed, or an I/O error ends its command.
Die(p) ==
  /\ pc[p] # "idle"
  /\ crashes < MaxCrashes
  /\ crashes' = crashes + 1
  /\ pc' = [pc EXCEPT ![p] = "idle"]
  /\ loc' = [loc EXCEPT ![p] = NoLocals]
  /\ cmd' = [cmd EXCEPT ![p] = "none"]
  /\ result' = [result EXCEPT ![p] = "died"]
  /\ lock' = IF lock = p THEN Free ELSE lock
  /\ UNCHANGED <<pointers, ledger, stage, store>>

-----------------------------------------------------------------------------
(* The specification *)

StageStep(p)    == StageReject(p) \/ StageBundle(p) \/ StageCopy(p) \/ WriteStage(p)
VerifyStep(p)   == VerifyStaged(p) \/ RunKernel(p) \/ CanaryStaged(p)
UpgradeStep(p)  == NotReady(p) \/ Ready(p) \/ Announce(p)
CommitStep(p)   == CommitStaged(p) \/ CheckParent(p)
                     \/ StoreBundle(p) \/ StoreCopy(p) \/ StoreReceipt(p)
RollbackStep(p) == RollbackActive(p) \/ RollbackTarget(p) \/ ReadReceipt(p)

\* Fault: ACTIVE_BUNDLE is replaced before PREV_ACTIVE_BUNDLE.
SwapActiveFirst(p) ==
  \/ /\ pc[p] = "prev"
     /\ active' = loc[p].bundle
     /\ Advance(p, "active", loc[p])
     /\ UNCHANGED <<prevActive, activeNext, ledger, stage, store>>
  \/ /\ pc[p] = "active"
     /\ prevActive' = loc[p].old
     /\ Advance(p, "next", loc[p])
     /\ UNCHANGED <<active, activeNext, ledger, stage, store>>
  \/ WriteNext(p)

SwapStep(p)     == WritePrev(p) \/ WriteActive(p) \/ WriteNext(p)
LedgerStep(p)   == ReadLastEntry(p) \/ ReadLedger(p) \/ PublishEntry(p)
AuditStep(p)    == AuditActive(p) \/ AuditNext(p) \/ AuditStore(p) \/ AuditLedger(p)

\* What a process does by itself once its command is started.
Run(p) ==
  \/ Acquire(p) \/ StageStep(p) \/ VerifyStep(p) \/ UpgradeStep(p)
  \/ CommitStep(p) \/ RollbackStep(p) \/ SwapStep(p) \/ LedgerStep(p) \/ AuditStep(p)

\* A new installation, the store the orchestration tests seed (one bundle,
\* ACTIVE_BUNDLE only), and the one the repository ships (ACTIVE_NEXT_BUNDLE the
\* active bundle, PREV_ACTIVE_BUNDLE its parent, no ledger yet).
InitFiles(a, p, n, kept) ==
  /\ active = a
  /\ prevActive = p
  /\ activeNext = n
  /\ stored = [b \in Bundles |-> IF b \in kept THEN "copied" ELSE "none"]
  /\ receipts = [b \in Bundles |-> IF b \in kept THEN "valid" ELSE "none"]

Fresh     == InitFiles(Absent, Absent, Absent, {})
Seeded(b) == Parent[b] = Null /\ InitFiles(b, Absent, Absent, {b})
Shipped(b) ==
  /\ Parent[b] \in Bundles
  /\ Parent[b] \in Valid
  /\ Parent[Parent[b]] = Null
  /\ InitFiles(b, Parent[b], b, {b, Parent[b]})

Init ==
  /\ Fresh \/ \E b \in Valid : Seeded(b) \/ Shipped(b)
  /\ ledger = <<>>
  /\ stageDir = [b \in Bundles |-> "none"]
  /\ stageFile = Absent
  /\ receiptFile = Absent
  /\ lock = Free
  /\ pc = [p \in Procs |-> "idle"]
  /\ cmd = [p \in Procs |-> "none"]
  /\ loc = [p \in Procs |-> NoLocals]
  /\ result = [p \in Procs |-> "none"]
  /\ crashes = 0

Next ==
  \E p \in Procs :
    \/ \E c \in EnabledCommands, b \in BundleOrAbsent : Start(p, c, b)
    \/ Run(p)
    \/ Die(p)

Spec == Init /\ [][Next]_vars

\* The operating system keeps running a live process.
FairSpec == Spec /\ \A p \in Procs : WF_vars(Run(p))
=============================================================================
