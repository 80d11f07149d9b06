--------------------------- MODULE ActivatorProofs ---------------------------
(***************************************************************************)
(* Proofs about the omega activator for any number of daemons, commands    *)
(* given by hand, deaths and bundles: under the daemons meta-core keeps    *)
(* what it guarantees by itself, and a success is the daemon's own.        *)
(***************************************************************************)
EXTENDS OmegaActivator, MetaCoreProofs

-----------------------------------------------------------------------------
(* The slots of the daemons *)

SlotTyped == slot \in [Daemons -> Procs]

\* Only a new tick takes another slot, beside a command that was left behind.
LEMMA SlotStays ==
  ASSUME NEW d \in Daemons, Step(d) \/ Kill(d)
  PROVE  UNCHANGED slotVars
<1>1. CASE Kill(d)
  BY <1>1 DEF Kill
<1>2. CASE Build(d) \/ Begin(d) \/ DoNotApply(d) \/ Applied(d) \/ Reread(d) \/ Gate(d)
  BY <1>2 DEF Build, Begin, DoNotApply, Applied, Reread, Gate
<1>3. CASE Apply(d) \/ RollBack(d)
  BY <1>3 DEF Apply, RollBack, Launch
<1>4. CASE PublishRoute(d) \/ WriteActivation(d) \/ Final(d)
  BY <1>4 DEF PublishRoute, WriteActivation, Final
<1>5. CASE NothingToRollBack(d) \/ RolledBack(d)
  BY <1>5 DEF NothingToRollBack, RolledBack, Undone
<1>6. QED
  BY <1>1, <1>2, <1>3, <1>4, <1>5 DEF Step, Undo

LEMMA SlotTakes ==
  ASSUME NEW d \in Daemons, NEW b \in Bundles, AlreadyActive(d, b) \/ Promote(d, b)
  PROVE  \/ Exited(d) /\ UNCHANGED slotVars
         \/ beside' = TRUE /\ \E p \in Procs : slot' = [slot EXCEPT ![d] = p]
BY DEF AlreadyActive, Promote, NewTick, TakeSlot, slotVars

LEMMA SlotNext ==
  ASSUME SlotTyped, [ActivatorNext]_allVars
  PROVE  SlotTyped' /\ (beside => beside') /\ (~beside' => slot' = slot)
<1>1. ASSUME UNCHANGED slotVars
      PROVE  SlotTyped' /\ (beside => beside') /\ (~beside' => slot' = slot)
  BY <1>1 DEF slotVars, SlotTyped
<1>2. CASE UNCHANGED allVars
  BY <1>1, <1>2 DEF allVars, slotVars
<1>3. ASSUME NEW d \in Daemons, NEW b \in Bundles, AlreadyActive(d, b) \/ Promote(d, b)
      PROVE  SlotTyped' /\ (beside => beside') /\ (~beside' => slot' = slot)
  <2>1. CASE UNCHANGED slotVars
    BY <1>1, <2>1
  <2>2. CASE beside' = TRUE /\ \E p \in Procs : slot' = [slot EXCEPT ![d] = p]
    BY <2>2 DEF SlotTyped
  <2>3. QED
    BY <1>3, <2>1, <2>2, SlotTakes
<1>4. ASSUME NEW d \in Daemons, Step(d) \/ Kill(d)
      PROVE  UNCHANGED slotVars
  BY <1>4, SlotStays
<1>5. ASSUME NEW p \in Procs, NEW c \in Manual, NEW b \in BundleOrAbsent, ByHand(p, c, b)
      PROVE  UNCHANGED slotVars
  BY <1>5 DEF ByHand, daemonVars
<1>6. CASE MetaCore
  BY <1>1, <1>6 DEF MetaCore, daemonVars
<1>7. QED
  BY <1>1, <1>2, <1>3, <1>4, <1>5, <1>6 DEF ActivatorNext

LEMMA SlotInit == ActivatorInit => SlotTyped /\ ~beside /\ \A d \in Daemons : slot[d] = d
BY DaemonsAssumption DEF ActivatorInit, SlotTyped

-----------------------------------------------------------------------------
(* The daemons run meta-core and nothing else *)

\* A daemon starts commands and waits for them; apart from that it leaves the
\* files of meta-core alone (_run_meta_core_apply, _run_meta_core_rollback).
LEMMA DaemonStepsEngine ==
  ASSUME SlotTyped, NEW d \in Daemons, Step(d) \/ Kill(d)
  PROVE  [Next]_vars
<1>1. CASE Apply(d) \/ RollBack(d)
  <2>1. PICK c \in {"apply", "rollback"}, b \in {job[d].bundle, Absent} :
          Start(slot[d], c, b)
    BY <1>1 DEF Apply, RollBack, Launch
  <2>2. c \in EnabledCommands /\ b \in BundleOrAbsent /\ slot[d] \in Procs
    BY <2>1 DEF Start, BundleOrAbsent, SlotTyped
  <2>3. QED
    BY <2>1, <2>2 DEF Next
<1>2. CASE ~(Apply(d) \/ RollBack(d))
  BY <1>2 DEF Step, Undo, Kill, Build, Begin, DoNotApply, Applied, Reread, Gate,
              PublishRoute, WriteActivation, Final, NothingToRollBack, RolledBack,
              Undone, engine
<1>3. QED
  BY <1>1, <1>2

\* Every step of the daemons over meta-core is one of meta-core or leaves it alone.
LEMMA EngineNext == SlotTyped /\ [ActivatorNext]_allVars => [Next]_vars
<1>. SUFFICES ASSUME SlotTyped, [ActivatorNext]_allVars PROVE [Next]_vars
  OBVIOUS
<1>1. CASE UNCHANGED allVars
  BY <1>1 DEF allVars
<1>2. ASSUME NEW d \in Daemons, NEW b \in Bundles, AlreadyActive(d, b) \/ Promote(d, b)
      PROVE  UNCHANGED vars
  BY <1>2 DEF AlreadyActive, Promote, engine
<1>3. ASSUME NEW d \in Daemons, Step(d) \/ Kill(d)
      PROVE  [Next]_vars
  BY <1>3, DaemonStepsEngine
<1>4. ASSUME NEW p \in Procs, NEW c \in Manual, NEW b \in BundleOrAbsent, ByHand(p, c, b)
      PROVE  Next
  BY <1>4, DaemonsAssumption DEF ByHand, Next
<1>5. CASE MetaCore
  BY <1>5 DEF MetaCore, Next
<1>6. QED
  BY <1>1, <1>2, <1>3, <1>4, <1>5 DEF ActivatorNext

\* The daemons and the operator are an environment meta-core was specified for:
\* all that is proved of the engine holds under the activator as well.
THEOREM ActivatorUsesEngine == ActivatorSpec => Spec
<1>1. ActivatorInit => Init
  BY DEF ActivatorInit
<1>2. SlotTyped /\ [ActivatorNext]_allVars => SlotTyped'
  BY SlotNext
<1>3. QED
  BY <1>1, <1>2, SlotInit, EngineNext, PTL DEF ActivatorSpec, Spec

-----------------------------------------------------------------------------
(* Types *)

\* An activation under way knows its bundle.
BundleKnown == \A d \in Daemons : job[d].phase # "idle" => job[d].bundle \in Bundles

DaemonInv == ActivatorTypeOK /\ BundleKnown

\* The active hash is a pointer (_active_manifest_hash).
LEMMA ActiveHashType == TypeInv => ActiveHash \in Pointer
BY DEF TypeInv, TypeOK, FilesOK, ActiveHash, Pointer, BundleOrAbsent

\* An idle daemon is well typed.
LEMMA NoJobType == NoJob \in Job /\ NoJob.phase = "idle" /\ ~NoJob.applied
BY DEF NoJob, Job, Phases, Pointer, BundleOrAbsent, NoRoutes, Routes

\* A daemon that moves leaves the jobs of the others alone.
LEMMA JobStep ==
  ASSUME DaemonInv, NEW d \in Daemons, NEW j \in Job,
         j.phase # "idle" => j.bundle \in Bundles,
         job' = [job EXCEPT ![d] = j]
  PROVE  /\ job' \in [Daemons -> Job]
         /\ BundleKnown'
         /\ job'[d] = j
         /\ \A e \in Daemons \ {d} : job'[e] = job[e]
BY DEF DaemonInv, ActivatorTypeOK, BundleKnown

\* What a job is made of, and what it becomes when a field is replaced.
LEMMA JobFields ==
  \A j \in Job :
    /\ j.phase \in Phases /\ j.bundle \in BundleOrAbsent
    /\ j.before \in Pointer /\ j.after \in Pointer
    /\ j.health \in BOOLEAN /\ j.applied \in BOOLEAN /\ j.bound \in BOOLEAN
    /\ j.routes \in Routes
    /\ \A f \in Phases : /\ [j EXCEPT !.phase = f] \in Job
                         /\ [j EXCEPT !.phase = f].bundle = j.bundle
BY DEF Job

\* A step that only moves the daemon on keeps its job typed (Goto).
LEMMA GotoTypes ==
  ASSUME DaemonInv, NEW d \in Daemons, NEW f \in Phases, Goto(d, f),
         f # "idle" => job[d].bundle \in Bundles
  PROVE  job' \in [Daemons -> Job] /\ BundleKnown'
<1>. DEFINE j == [job[d] EXCEPT !.phase = f]
<1>1. job[d] \in Job
  BY DEF DaemonInv, ActivatorTypeOK
<1>2. j \in Job /\ (j.phase # "idle" => j.bundle \in Bundles)
  BY <1>1, JobFields DEF Job
<1>3. job' = [job EXCEPT ![d] = j]
  BY DEF Goto
<1>. HIDE DEF j
<1>4. QED
  BY <1>2, <1>3, JobStep

\* An activation up to the end of its apply is well typed (run_promotion, and
\* run_activation as far as _run_meta_core_apply).
LEMMA ApplyTypes ==
  ASSUME TypeInv, DaemonInv, NEW d \in Daemons,
         Build(d) \/ Begin(d) \/ Apply(d) \/ DoNotApply(d) \/ Applied(d)
  PROVE  DaemonInv'
<1>1. job[d] \in Job /\ job[d].phase # "idle" /\ job[d].bundle \in Bundles
  BY DEF DaemonInv, ActivatorTypeOK, BundleKnown, Build, Begin, Apply, DoNotApply, Applied
<1>2. UNCHANGED <<registry, activation, undone, returned, slot, beside, kills>>
  BY DEF Build, Begin, Apply, Launch, DoNotApply, Applied, receiptVars, slotVars
<1>3. job' \in [Daemons -> Job] /\ BundleKnown'
  <2>1. CASE Build(d)
    <3>1. Goto(d, "begin") \/ job' = [job EXCEPT ![d] = NoJob]
      BY <2>1 DEF Build
    <3>2. QED
      BY <1>1, <3>1, NoJobType, JobStep, GotoTypes DEF Phases
  <2>2. CASE Begin(d)
    <3>1. PICK healthy \in BOOLEAN :
            job' = [job EXCEPT ![d].phase = "compare", ![d].before = ActiveHash,
                               ![d].health = healthy]
      BY <2>2 DEF Begin
    <3>. DEFINE j == [job[d] EXCEPT !.phase = "compare", !.before = ActiveHash,
                                    !.health = healthy]
    <3>2. j \in Job /\ j.bundle \in Bundles
      BY <1>1, ActiveHashType DEF Job, Phases
    <3>3. job' = [job EXCEPT ![d] = j]
      BY <3>1 DEF DaemonInv, ActivatorTypeOK
    <3>. HIDE DEF j
    <3>4. QED
      BY <3>2, <3>3, JobStep
  <2>3. CASE Apply(d) \/ DoNotApply(d)
    BY <1>1, <2>3, GotoTypes DEF Apply, DoNotApply, Phases
  <2>4. CASE Applied(d)
    <3>. DEFINE j == [job[d] EXCEPT !.phase = "reread",
                                    !.applied = (result[slot[d]] = "ok")]
    <3>1. j \in Job /\ j.bundle \in Bundles
      BY <1>1 DEF Job, Phases
    <3>2. job' = [job EXCEPT ![d] = j]
      BY <2>4 DEF Applied, DaemonInv, ActivatorTypeOK
    <3>. HIDE DEF j
    <3>3. QED
      BY <3>1, <3>2, JobStep
  <2>5. QED
    BY <2>1, <2>2, <2>3, <2>4
<1>4. QED
  BY <1>2, <1>3 DEF DaemonInv, ActivatorTypeOK

\* Comparing, gating and registering are well typed (run_activation,
\* _native_activation_gate, _update_active_native_registry).
LEMMA GateTypes ==
  ASSUME TypeInv, DaemonInv, NEW d \in Daemons,
         Reread(d) \/ Gate(d) \/ PublishRoute(d)
  PROVE  DaemonInv'
<1>1. /\ job[d] \in Job /\ job[d].phase # "idle" /\ job[d].bundle \in Bundles
      /\ registry \in Routes /\ job[d].routes \in Routes
  <2>1. job[d] \in Job /\ registry \in Routes
    BY DEF DaemonInv, ActivatorTypeOK
  <2>2. job[d].phase \in {"reread", "gate", "publish"}
    BY <2>1 DEF Reread, Gate, PublishRoute, Job
  <2>3. QED
    BY <2>1, <2>2, JobFields DEF DaemonInv, BundleKnown
<1>2. UNCHANGED <<activation, undone, returned, slot, beside, kills>>
  BY DEF Reread, Gate, PublishRoute, receiptVars, slotVars
<1>3. CASE Reread(d)
  <2>. DEFINE r == [job[d] EXCEPT !.after = ActiveHash]
  <2>1. PICK bound \in BOOLEAN, f \in {"gate", "report"} :
          job' = [job EXCEPT ![d] = [r EXCEPT !.bound = bound, !.phase = f]]
    BY <1>3 DEF Reread, BindingMatches
  <2>. DEFINE j == [r EXCEPT !.bound = bound, !.phase = f]
  <2>2. j \in Job /\ j.bundle \in Bundles
    BY <1>1, ActiveHashType DEF Job, Phases
  <2>3. job' = [job EXCEPT ![d] = j]
    BY <2>1
  <2>. HIDE DEF j
  <2>4. QED
    BY <1>2, <1>3, <2>2, <2>3, JobStep DEF DaemonInv, ActivatorTypeOK, Reread
<1>4. CASE Gate(d)
  <2>. DEFINE failed == [job[d] EXCEPT !.phase = "report", !.health = FALSE]
              passed == [job[d] EXCEPT !.phase = "publish", !.routes = registry]
  <2>1. /\ failed \in Job /\ failed.bundle \in Bundles
        /\ passed \in Job /\ passed.bundle \in Bundles
    BY <1>1 DEF Job, Phases
  <2>2. \E j \in {failed, passed} : job' = [job EXCEPT ![d] = j]
    BY <1>4 DEF Gate, DaemonInv, ActivatorTypeOK
  <2>. HIDE DEF failed, passed
  <2>3. QED
    BY <1>2, <1>4, <2>1, <2>2, JobStep DEF DaemonInv, ActivatorTypeOK, Gate
<1>5. CASE PublishRoute(d)
  <2>1. registry' \in Routes
    BY <1>1, <1>5 DEF PublishRoute, Routes, Ops, BundleOrAbsent
  <2>2. job' \in [Daemons -> Job] /\ BundleKnown'
    BY <1>1, <1>5, GotoTypes DEF PublishRoute, Phases
  <2>3. QED
    BY <1>2, <2>1, <2>2 DEF DaemonInv, ActivatorTypeOK
<1>6. QED
  BY <1>3, <1>4, <1>5

\* The receipts and the hash that is returned are well typed (run_activation).
LEMMA ReportTypes ==
  ASSUME TypeInv, DaemonInv, NEW d \in Daemons,
         WriteActivation(d) \/ Final(d) \/ Undo(d) \/ Kill(d)
  PROVE  DaemonInv'
<1>1. /\ job[d] \in Job /\ job[d].phase # "idle" /\ job[d].bundle \in Bundles
      /\ job[d].before \in Pointer /\ job[d].after \in Pointer
      /\ job[d].health \in BOOLEAN
  BY JobFields
     DEF DaemonInv, ActivatorTypeOK, BundleKnown, WriteActivation, Final, Undo, RollBack,
         NothingToRollBack, RolledBack, Kill
<1>2. CASE WriteActivation(d)
  <2>1. Succeeds(job[d]) \in BOOLEAN
    BY <1>1 DEF Succeeds, Changed, Job
  <2>. DEFINE r == [bundle |-> job[d].bundle, before |-> job[d].before,
                    after |-> job[d].after, health |-> job[d].health,
                    success |-> Succeeds(job[d])]
  <2>2. r \in ActivationReceipt
    BY <1>1, <2>1 DEF ActivationReceipt
  <2>3. activation' = [activation EXCEPT ![d] = r]
    BY <1>2 DEF WriteActivation
  <2>. HIDE DEF r
  <2>4. Goto(d, "final") \/ Goto(d, "undo")
    BY <1>2 DEF WriteActivation
  <2>5. job' \in [Daemons -> Job] /\ BundleKnown'
    BY <1>1, <2>4, GotoTypes DEF Phases
  <2>6. QED
    BY <1>2, <2>2, <2>3, <2>5 DEF DaemonInv, ActivatorTypeOK, WriteActivation, slotVars
<1>3. CASE Final(d) \/ NothingToRollBack(d) \/ RolledBack(d)
  <2>1. PICK to \in Pointer :
          /\ returned' = [returned EXCEPT ![d] = to]
          /\ \/ UNCHANGED undone
             \/ undone' = [undone EXCEPT ![d] = [from |-> job[d].after, to |-> to]]
    BY <1>1, <1>3, ActiveHashType DEF Final, NothingToRollBack, RolledBack, Undone
  <2>2. [from |-> job[d].after, to |-> to] \in RollbackReceipt
    BY <1>1 DEF RollbackReceipt
  <2>3. /\ job' = [job EXCEPT ![d] = NoJob]
        /\ UNCHANGED <<registry, activation, slot, beside, kills>>
    BY <1>3 DEF Final, NothingToRollBack, RolledBack, Undone, slotVars
  <2>4. job' \in [Daemons -> Job] /\ BundleKnown'
    BY <2>3, NoJobType, JobStep
  <2>5. returned' \in [Daemons -> Pointer]
    BY <2>1 DEF DaemonInv, ActivatorTypeOK
  <2>6. undone' \in [Daemons -> RollbackReceipt \cup {Absent}]
    BY <2>1, <2>2 DEF DaemonInv, ActivatorTypeOK
  <2>7. QED
    BY <2>3, <2>4, <2>5, <2>6 DEF DaemonInv, ActivatorTypeOK
<1>4. CASE RollBack(d)
  <2>1. /\ Goto(d, "rollingBack")
        /\ UNCHANGED <<registry, activation, undone, returned, slot, beside, kills>>
    BY <1>4 DEF RollBack, Launch, receiptVars, slotVars
  <2>2. job' \in [Daemons -> Job] /\ BundleKnown'
    BY <1>1, <2>1, GotoTypes DEF Phases
  <2>3. QED
    BY <2>1, <2>2 DEF DaemonInv, ActivatorTypeOK
<1>5. CASE Kill(d)
  <2>1. job' \in [Daemons -> Job] /\ BundleKnown'
    BY <1>5, NoJobType, JobStep DEF Kill
  <2>2. kills' \in Nat
    BY <1>5 DEF Kill, DaemonInv, ActivatorTypeOK
  <2>3. QED
    BY <1>5, <2>1, <2>2 DEF DaemonInv, ActivatorTypeOK, Kill, receiptVars, slotVars
<1>6. QED
  BY <1>2, <1>3, <1>4, <1>5 DEF Undo

\* A new promotion is well typed (run_promotion).
LEMMA PromoteTypes ==
  ASSUME TypeInv, DaemonInv, NEW d \in Daemons, NEW b \in Bundles,
         AlreadyActive(d, b) \/ Promote(d, b)
  PROVE  DaemonInv'
<1>1. /\ active \in Bundles
      /\ \E hash \in {active, Absent} : returned' = [returned EXCEPT ![d] = hash]
      /\ activation' = [activation EXCEPT ![d] = Absent]
      /\ undone' = [undone EXCEPT ![d] = Absent]
      /\ UNCHANGED <<registry, kills>>
  BY DEF AlreadyActive, Promote, NewTick
<1>. DEFINE j == [NoJob EXCEPT !.phase = "build", !.bundle = b]
<1>2. j \in Job /\ j.bundle \in Bundles
  BY NoJobType DEF Job, Phases, BundleOrAbsent
<1>3. job' = job \/ job' = [job EXCEPT ![d] = j]
  BY DEF AlreadyActive, Promote
<1>. HIDE DEF j
<1>4. job' \in [Daemons -> Job] /\ BundleKnown'
  BY <1>2, <1>3, JobStep DEF DaemonInv, ActivatorTypeOK, BundleKnown
<1>5. returned' \in [Daemons -> Pointer]
  BY <1>1 DEF DaemonInv, ActivatorTypeOK, Pointer
<1>6. slot' \in [Daemons -> Procs] /\ beside' \in BOOLEAN
  BY SlotTakes DEF DaemonInv, ActivatorTypeOK, slotVars
<1>7. QED
  BY <1>1, <1>4, <1>5, <1>6 DEF DaemonInv, ActivatorTypeOK

\* Every step keeps the types of the daemons.
LEMMA DaemonNext == TypeInv /\ DaemonInv /\ [ActivatorNext]_allVars => DaemonInv'
<1>. SUFFICES ASSUME TypeInv, DaemonInv, [ActivatorNext]_allVars PROVE DaemonInv'
  OBVIOUS
<1>1. ASSUME UNCHANGED daemonVars
      PROVE  DaemonInv'
  BY <1>1 DEF daemonVars, receiptVars, slotVars, DaemonInv, ActivatorTypeOK, BundleKnown
<1>2. CASE UNCHANGED allVars
  BY <1>1, <1>2 DEF allVars, daemonVars, receiptVars, slotVars
<1>3. ASSUME NEW d \in Daemons, NEW b \in Bundles, AlreadyActive(d, b) \/ Promote(d, b)
      PROVE  DaemonInv'
  BY <1>3, PromoteTypes
<1>4. ASSUME NEW d \in Daemons, Step(d) \/ Kill(d)
      PROVE  DaemonInv'
  BY <1>4, ApplyTypes, GateTypes, ReportTypes DEF Step
<1>5. ASSUME NEW p \in Procs, NEW c \in Manual, NEW b \in BundleOrAbsent, ByHand(p, c, b)
      PROVE  DaemonInv'
  BY <1>1, <1>5 DEF ByHand
<1>6. CASE MetaCore
  BY <1>1, <1>6 DEF MetaCore
<1>7. QED
  BY <1>2, <1>3, <1>4, <1>5, <1>6 DEF ActivatorNext

LEMMA DaemonInit == ActivatorInit => DaemonInv
<1>. SUFFICES ASSUME ActivatorInit PROVE DaemonInv
  OBVIOUS
<1>1. ActivatorTypeOK
  BY NoJobType, SlotInit
     DEF ActivatorInit, ActivatorTypeOK, NoRoutes, Routes, BundleOrAbsent, Pointer, SlotTyped
<1>2. BundleKnown
  BY NoJobType DEF ActivatorInit, BundleKnown
<1>3. QED
  BY <1>1, <1>2 DEF DaemonInv

\* Whatever daemons and commands do and wherever they die, what the daemons keep
\* and write is of the types its readers expect.
THEOREM ActivatorTypes == ActivatorSpec => []ActivatorTypeOK
<1>1. DaemonInv => ActivatorTypeOK
  BY DEF DaemonInv
<1>2. QED
  BY <1>1, DaemonInit, DaemonNext, ActivatorUsesEngine, TypeInvariant, PTL DEF ActivatorSpec

\* The types of engine and daemons, for the proofs that build on them.
LEMMA ActivatorInvariants == ActivatorSpec => []TypeInv /\ []StoreInv /\ []DaemonInv
<1>1. Init => StoreInv
  BY StoreInit
<1>2. QED
  BY <1>1, StoreNext, DaemonInit, DaemonNext, ActivatorUsesEngine, TypeInvariant, PTL
     DEF ActivatorSpec, Spec

-----------------------------------------------------------------------------
(* A success is the daemon's own *)

\* Nothing removes a bundle from the store (store_bundle).
LEMMA StoredStays ==
  ASSUME TypeInv, StoreInv, [Next]_vars, NEW b \in Bundles, stored[b] # "none"
  PROVE  stored'[b] # "none"
<1>1. CASE UNCHANGED vars
  BY <1>1 DEF vars, store
<1>2. ASSUME NEW p \in Procs, NEW c \in EnabledCommands, NEW bb \in BundleOrAbsent,
             Start(p, c, bb)
      PROVE  stored' = stored
  BY <1>2 DEF Start, store
<1>3. ASSUME NEW p \in Procs, Run(p) \/ Die(p)
      PROVE  stored'[b] # "none"
  <2>1. CASE StoreBundle(p) \/ StoreCopy(p)
    BY <2>1 DEF StoreBundle, StoreCopy, TypeInv, TypeOK, FilesOK, StoreInv
  <2>2. CASE ~(StoreBundle(p) \/ StoreCopy(p))
    <3>1. stored' = stored
      BY <1>3, <2>2
         DEF Die, Run, Acquire, StageStep, StageReject, StageBundle, StageCopy, WriteStage,
             VerifyStep, VerifyStaged, RunKernel, CanaryStaged, UpgradeStep, NotReady, Ready,
             Announce, CommitStep, CommitStaged, CheckParent, StoreReceipt, RollbackStep,
             RollbackActive, RollbackTarget, ReadReceipt, SwapStep, WritePrev, WriteActive,
             WriteNext, LedgerStep, ReadLastEntry, ReadLedger, PublishEntry, AuditStep,
             AuditActive, AuditNext, AuditStore, AuditLedger, store
    <3>2. QED
      BY <3>1
  <2>3. QED
    BY <2>1, <2>2
<1>4. QED
  BY <1>1, <1>2, <1>3 DEF Next

\* What run_activation knows at each of its steps: nothing is applied before the
\* apply, the apply is made on top of the parent, and once the hash was read again
\* a bound change is to the bundle that was asked for, which is in the store.
BeforeApply == {"idle", "build", "begin", "compare", "applying"}

JobOK(j, kept) ==
  /\ j.phase \in BeforeApply => ~j.applied
  /\ j.phase = "applying" \/ j.applied => j.before = Parent[j.bundle]
  /\ (j.phase \notin BeforeApply \cup {"reread"} /\ j.applied /\ j.bound /\ Changed(j)) =>
       /\ j.after = j.bundle
       /\ kept[j.bundle] # "none"

OwnInv == SuccessIsOwn /\ \A d \in Daemons : JobOK(job[d], stored)

\* What was known stays true while meta-core works.
LEMMA JobStays ==
  ASSUME TypeInv, StoreInv, [Next]_vars, NEW j \in Job, j.applied => j.bundle \in Bundles,
         JobOK(j, stored)
  PROVE  JobOK(j, stored')
BY StoredStays DEF JobOK, Changed

LEMMA SuccessStays ==
  ASSUME TypeInv, StoreInv, DaemonInv, SuccessIsOwn, [Next]_vars, activation' = activation
  PROVE  SuccessIsOwn'
<1>1. ASSUME NEW d \in Daemons, activation[d] # Absent
      PROVE  activation[d].bundle \in Bundles
  BY <1>1 DEF DaemonInv, ActivatorTypeOK, ActivationReceipt
<1>2. QED
  BY <1>1, StoredStays DEF SuccessIsOwn

\* A step of one daemon only has to be looked at for that daemon.
LEMMA OwnFrame ==
  ASSUME TypeInv, StoreInv, DaemonInv, OwnInv, [Next]_vars,
         NEW d \in Daemons, NEW j \in Job, job' = [job EXCEPT ![d] = j],
         JobOK(j, stored'), SuccessIsOwn'
  PROVE  OwnInv'
<1>1. job'[d] = j /\ \A e \in Daemons \ {d} : job'[e] = job[e]
  BY DEF DaemonInv, ActivatorTypeOK
<1>2. ASSUME NEW e \in Daemons \ {d}
      PROVE  JobOK(job'[e], stored')
  <2>1. job[e] \in Job /\ JobOK(job[e], stored)
    BY DEF DaemonInv, ActivatorTypeOK, OwnInv
  <2>2. job[e].applied => job[e].bundle \in Bundles
    BY <2>1 DEF DaemonInv, BundleKnown, JobOK, BeforeApply
  <2>3. UNCHANGED job[e]
    BY <1>1
  <2>4. QED
    BY <2>1, <2>2, <2>3, JobStays
<1>3. QED
  BY <1>1, <1>2 DEF OwnInv, JobOK, Changed

\* Up to the exit of the apply (run_activation, _bundle_parent_hash).
LEMMA OwnApply ==
  ASSUME TypeInv, StoreInv, DaemonInv, OwnInv, [Next]_vars, NEW d \in Daemons,
         Build(d) \/ Begin(d) \/ Apply(d) \/ DoNotApply(d) \/ Applied(d)
  PROVE  OwnInv'
<1>1. job[d] \in Job /\ JobOK(job[d], stored) /\ job[d].bundle \in Bundles
  BY DEF DaemonInv, ActivatorTypeOK, BundleKnown, OwnInv, Build, Begin, Apply, DoNotApply,
         Applied
<1>2. activation' = activation
  BY DEF Build, Begin, Apply, Launch, DoNotApply, Applied, receiptVars
<1>3. SuccessIsOwn'
  BY <1>2, SuccessStays DEF OwnInv
<1>4. \E j \in Job : job' = [job EXCEPT ![d] = j] /\ JobOK(j, stored')
  <2>1. CASE Build(d)
    <3>. DEFINE j == [job[d] EXCEPT !.phase = "begin"]
    <3>1. j \in Job /\ JobOK(j, stored')
      BY <1>1, <2>1 DEF Build, JobOK, BeforeApply, Job, Phases
    <3>2. NoJob \in Job /\ JobOK(NoJob, stored')
      BY NoJobType DEF NoJob, JobOK, BeforeApply
    <3>3. \E k \in {j, NoJob} : job' = [job EXCEPT ![d] = k]
      BY <2>1 DEF Build, Goto
    <3>. HIDE DEF j
    <3>4. QED
      BY <3>1, <3>2, <3>3
  <2>2. CASE Begin(d)
    <3>1. PICK healthy \in BOOLEAN :
            job' = [job EXCEPT ![d].phase = "compare", ![d].before = ActiveHash,
                               ![d].health = healthy]
      BY <2>2 DEF Begin
    <3>. DEFINE j == [job[d] EXCEPT !.phase = "compare", !.before = ActiveHash,
                                    !.health = healthy]
    <3>2. j \in Job /\ JobOK(j, stored')
      BY <1>1, <2>2, ActiveHashType DEF Begin, JobOK, BeforeApply, Job, Phases
    <3>3. job' = [job EXCEPT ![d] = j]
      BY <3>1 DEF DaemonInv, ActivatorTypeOK
    <3>4. QED
      BY <3>2, <3>3
  <2>3. CASE Apply(d)
    <3>. DEFINE j == [job[d] EXCEPT !.phase = "applying"]
    <3>1. j \in Job /\ JobOK(j, stored')
      BY <1>1, <2>3 DEF Apply, JobOK, BeforeApply, Job, Phases
    <3>2. job' = [job EXCEPT ![d] = j]
      BY <2>3 DEF Apply, Goto
    <3>3. QED
      BY <3>1, <3>2
  <2>4. CASE DoNotApply(d)
    <3>. DEFINE j == [job[d] EXCEPT !.phase = "reread"]
    <3>1. j \in Job /\ JobOK(j, stored')
      BY <1>1, <2>4 DEF DoNotApply, JobOK, BeforeApply, Job, Phases
    <3>2. job' = [job EXCEPT ![d] = j]
      BY <2>4 DEF DoNotApply, Goto
    <3>3. QED
      BY <3>1, <3>2
  <2>5. CASE Applied(d)
    <3>. DEFINE j == [job[d] EXCEPT !.phase = "reread",
                                    !.applied = (result[slot[d]] = "ok")]
    <3>1. j \in Job
      BY <1>1 DEF Job, Phases
    <3>2. JobOK(j, stored')
      BY <1>1, <2>5 DEF Applied, JobOK, BeforeApply, Job
    <3>3. job' = [job EXCEPT ![d] = j]
      BY <2>5 DEF Applied, DaemonInv, ActivatorTypeOK
    <3>4. QED
      BY <3>1, <3>2, <3>3
  <2>6. QED
    BY <2>1, <2>2, <2>3, <2>4, <2>5
<1>5. QED
  BY <1>3, <1>4, OwnFrame

\* The hash that is read again is compared with the bundle that was asked for
\* (_binding_matches_after_bundle): a bundle that is active is in the store.
LEMMA OwnReread ==
  ASSUME TypeInv, StoreInv, DaemonInv, OwnInv, [Next]_vars, NEW d \in Daemons, Reread(d)
  PROVE  OwnInv'
<1>. DEFINE r == [job[d] EXCEPT !.after = ActiveHash]
<1>1. job[d] \in Job /\ JobOK(job[d], stored)
  BY DEF DaemonInv, ActivatorTypeOK, OwnInv
<1>2. /\ job[d].phase = "reread" /\ job[d].bundle \in Bundles
      /\ r \in Job /\ r.phase = "reread" /\ r.after = ActiveHash
      /\ r.bundle = job[d].bundle /\ r.before = job[d].before
      /\ r.applied = job[d].applied
  <2>1. job[d].phase = "reread"
    BY <1>1 DEF Reread, Job
  <2>2. QED
    BY <1>1, <2>1, ActiveHashType DEF Job, DaemonInv, BundleKnown
<1>3. PICK bound \in IF r.applied /\ Changed(r)
                     THEN BindingMatches(r.bundle, r.after) ELSE {TRUE},
           f \in {"gate", "report"} :
        job' = [job EXCEPT ![d] = [r EXCEPT !.bound = bound, !.phase = f]]
  BY DEF Reread
<1>. DEFINE j == [r EXCEPT !.bound = bound, !.phase = f]
<1>4. /\ j \in Job /\ j.phase = f /\ j.bound = bound
      /\ j.after = r.after /\ j.before = r.before /\ j.applied = r.applied
      /\ j.bundle = r.bundle
  BY <1>2 DEF Job, Phases, BindingMatches
<1>. HIDE DEF j, r
<1>5. ASSUME j.applied, j.bound, Changed(j)
      PROVE  j.after = j.bundle /\ stored'[j.bundle] # "none"
  <2>1. Changed(r)
    BY <1>4, <1>5 DEF Changed
  <2>2. ActiveHash = r.bundle
    BY <1>2, <1>4, <1>5, <2>1 DEF BindingMatches
  <2>3. active = r.bundle
    BY <1>2, <2>2, BundlesAssumption DEF ActiveHash
  <2>4. stored[r.bundle] # "none"
    BY <1>2, <2>3 DEF StoreInv, PointersInStore
  <2>5. QED
    BY <1>2, <1>4, <2>2, <2>4, StoredStays
<1>6. JobOK(j, stored')
  BY <1>1, <1>2, <1>4, <1>5 DEF JobOK, BeforeApply
<1>7. SuccessIsOwn'
  BY SuccessStays DEF OwnInv, Reread, receiptVars
<1>8. job' = [job EXCEPT ![d] = j]
  BY <1>3 DEF j
<1>9. QED
  BY <1>4, <1>6, <1>7, <1>8, OwnFrame

\* The steps behind it leave what was found alone (run_activation).
LEMMA OwnAfter ==
  ASSUME TypeInv, StoreInv, DaemonInv, OwnInv, [Next]_vars, NEW d \in Daemons,
         Gate(d) \/ PublishRoute(d) \/ RollBack(d)
  PROVE  OwnInv'
<1>1. /\ job[d] \in Job /\ JobOK(job[d], stored') /\ job[d].bundle \in Bundles
      /\ job[d].phase \notin BeforeApply \cup {"reread"}
      /\ registry \in Routes
  <2>1. job[d] \in Job /\ JobOK(job[d], stored) /\ job[d].bundle \in Bundles /\ registry \in Routes
    BY DEF DaemonInv, ActivatorTypeOK, BundleKnown, OwnInv, Gate, PublishRoute, RollBack
  <2>2. job[d].phase \in {"gate", "publish", "undo"}
    BY DEF Gate, PublishRoute, RollBack
  <2>3. QED
    BY <2>1, <2>2, StoredStays DEF JobOK, BeforeApply, Changed
<1>2. activation' = activation
  BY DEF Gate, PublishRoute, RollBack, Launch, receiptVars
<1>3. SuccessIsOwn'
  BY <1>2, SuccessStays DEF OwnInv
<1>4. \E j \in Job : job' = [job EXCEPT ![d] = j] /\ JobOK(j, stored')
  <2>1. CASE Gate(d)
    <3>. DEFINE failed == [job[d] EXCEPT !.phase = "report", !.health = FALSE]
                passed == [job[d] EXCEPT !.phase = "publish", !.routes = registry]
    <3>1. failed \in Job /\ passed \in Job
      BY <1>1 DEF Job, Phases
    <3>2. JobOK(failed, stored') /\ JobOK(passed, stored')
      BY <1>1 DEF JobOK, BeforeApply, Changed, Job
    <3>3. \E j \in {failed, passed} : job' = [job EXCEPT ![d] = j]
      BY <2>1 DEF Gate, DaemonInv, ActivatorTypeOK
    <3>. HIDE DEF failed, passed
    <3>4. QED
      BY <3>1, <3>2, <3>3
  <2>2. CASE PublishRoute(d) \/ RollBack(d)
    <3>1. PICK f \in {"report", "rollingBack"} : Goto(d, f)
      BY <2>2 DEF PublishRoute, RollBack
    <3>. DEFINE j == [job[d] EXCEPT !.phase = f]
    <3>2. j \in Job
      BY <1>1 DEF Job, Phases
    <3>3. JobOK(j, stored')
      BY <1>1 DEF JobOK, BeforeApply, Changed, Job
    <3>4. job' = [job EXCEPT ![d] = j]
      BY <3>1 DEF Goto
    <3>5. QED
      BY <3>2, <3>3, <3>4
  <2>3. QED
    BY <2>1, <2>2
<1>5. QED
  BY <1>3, <1>4, OwnFrame

\* The receipt says what was found (run_activation, activation_success).
LEMMA OwnReport ==
  ASSUME TypeInv, StoreInv, DaemonInv, OwnInv, [Next]_vars, NEW d \in Daemons,
         WriteActivation(d)
  PROVE  OwnInv'
<1>. DEFINE k == job[d]
            r == [bundle |-> k.bundle, before |-> k.before, after |-> k.after,
                  health |-> k.health, success |-> Succeeds(k)]
<1>1. k \in Job /\ JobOK(k, stored) /\ k.bundle \in Bundles /\ k.phase = "report"
  BY DEF DaemonInv, ActivatorTypeOK, BundleKnown, OwnInv, WriteActivation
<1>2. PICK f \in {"final", "undo"} : Goto(d, f)
  BY DEF WriteActivation
<1>. DEFINE j == [k EXCEPT !.phase = f]
<1>3. j \in Job
  BY <1>1 DEF Job, Phases
<1>4. JobOK(j, stored')
  BY <1>1, StoredStays DEF JobOK, BeforeApply, Changed, Job
<1>5. job' = [job EXCEPT ![d] = j]
  BY <1>2 DEF Goto
<1>6. Succeeds(k) => /\ k.after = k.bundle /\ k.before = Parent[k.bundle]
                     /\ stored'[k.bundle] # "none"
  BY <1>1, StoredStays DEF JobOK, Succeeds, BeforeApply
<1>7. activation' = [activation EXCEPT ![d] = r]
  BY DEF WriteActivation
<1>8. ASSUME NEW e \in Daemons, activation'[e] # Absent, activation'[e].success
      PROVE  /\ activation'[e].after = activation'[e].bundle
             /\ activation'[e].before = Parent[activation'[e].bundle]
             /\ stored'[activation'[e].bundle] # "none"
  <2>1. CASE e = d
    <3>1. activation'[e] = r
      BY <1>7, <2>1 DEF DaemonInv, ActivatorTypeOK
    <3>2. QED
      BY <1>6, <1>8, <3>1
  <2>2. CASE e # d
    <3>1. activation'[e] = activation[e] /\ activation[e] # Absent
      BY <1>7, <1>8, <2>2 DEF DaemonInv, ActivatorTypeOK
    <3>2. activation[e].bundle \in Bundles
      BY <3>1 DEF DaemonInv, ActivatorTypeOK, ActivationReceipt
    <3>3. QED
      BY <1>8, <3>1, <3>2, StoredStays DEF OwnInv, SuccessIsOwn
  <2>3. QED
    BY <2>1, <2>2
<1>9. SuccessIsOwn'
  BY <1>8 DEF SuccessIsOwn
<1>. HIDE DEF j
<1>10. QED
  BY <1>3, <1>4, <1>5, <1>9, OwnFrame

\* A daemon that is done or killed knows nothing; a new tick has no receipts.
LEMMA OwnEnds ==
  ASSUME TypeInv, StoreInv, DaemonInv, OwnInv, [Next]_vars, NEW d \in Daemons,
         Final(d) \/ NothingToRollBack(d) \/ RolledBack(d) \/ Kill(d)
  PROVE  OwnInv'
<1>1. NoJob \in Job /\ JobOK(NoJob, stored')
  BY NoJobType DEF NoJob, JobOK, BeforeApply
<1>2. job' = [job EXCEPT ![d] = NoJob] /\ activation' = activation
  BY DEF Final, NothingToRollBack, RolledBack, Undone, Kill, receiptVars
<1>3. SuccessIsOwn'
  BY <1>2, SuccessStays DEF OwnInv
<1>4. QED
  BY <1>1, <1>2, <1>3, OwnFrame

LEMMA OwnPromote ==
  ASSUME TypeInv, StoreInv, DaemonInv, OwnInv, [Next]_vars, NEW d \in Daemons,
         NEW b \in Bundles, AlreadyActive(d, b) \/ Promote(d, b)
  PROVE  OwnInv'
<1>. DEFINE new == [NoJob EXCEPT !.phase = "build", !.bundle = b]
<1>1. /\ activation' = [activation EXCEPT ![d] = Absent]
      /\ stored' = stored
  BY DEF AlreadyActive, Promote, NewTick, engine, vars, store
<1>2. SuccessIsOwn'
  BY <1>1 DEF OwnInv, SuccessIsOwn, DaemonInv, ActivatorTypeOK
<1>3. new \in Job /\ JobOK(new, stored')
  BY NoJobType DEF NoJob, JobOK, BeforeApply, Job, Phases, BundleOrAbsent
<1>4. job[d] \in Job /\ JobOK(job[d], stored')
  BY <1>1 DEF DaemonInv, ActivatorTypeOK, OwnInv, JobOK, Changed
<1>5. \E j \in {new, job[d]} : job' = [job EXCEPT ![d] = j]
  BY DEF AlreadyActive, Promote, DaemonInv, ActivatorTypeOK
<1>. HIDE DEF new
<1>6. QED
  BY <1>2, <1>3, <1>4, <1>5, OwnFrame

\* Every step keeps what the daemons know.
LEMMA OwnNext ==
  TypeInv /\ StoreInv /\ DaemonInv /\ OwnInv /\ [ActivatorNext]_allVars => OwnInv'
<1>. SUFFICES ASSUME TypeInv, StoreInv, DaemonInv, OwnInv, [ActivatorNext]_allVars
              PROVE  OwnInv'
  OBVIOUS
<1>1. [Next]_vars
  BY EngineNext DEF DaemonInv, ActivatorTypeOK, SlotTyped
<1>2. ASSUME UNCHANGED daemonVars
      PROVE  OwnInv'
  <2>1. job' = job /\ activation' = activation
    BY <1>2 DEF daemonVars, receiptVars
  <2>2. SuccessIsOwn'
    BY <1>1, <2>1, SuccessStays DEF OwnInv
  <2>3. ASSUME NEW d \in Daemons
        PROVE  JobOK(job'[d], stored')
    <3>1. job[d] \in Job /\ JobOK(job[d], stored)
      BY DEF DaemonInv, ActivatorTypeOK, OwnInv
    <3>2. job[d].applied => job[d].bundle \in Bundles
      BY <3>1 DEF DaemonInv, BundleKnown, JobOK, BeforeApply
    <3>3. QED
      BY <1>1, <2>1, <3>1, <3>2, JobStays
  <2>4. QED
    BY <2>2, <2>3 DEF OwnInv
<1>3. CASE UNCHANGED allVars
  BY <1>2, <1>3 DEF allVars, daemonVars, receiptVars, slotVars
<1>4. ASSUME NEW d \in Daemons, NEW b \in Bundles, AlreadyActive(d, b) \/ Promote(d, b)
      PROVE  OwnInv'
  BY <1>1, <1>4, OwnPromote
<1>5. ASSUME NEW d \in Daemons, Step(d) \/ Kill(d)
      PROVE  OwnInv'
  BY <1>1, <1>5, OwnApply, OwnReread, OwnAfter, OwnReport, OwnEnds DEF Step, Undo
<1>6. ASSUME NEW p \in Procs, NEW c \in Manual, NEW b \in BundleOrAbsent, ByHand(p, c, b)
      PROVE  OwnInv'
  BY <1>2, <1>6 DEF ByHand
<1>7. CASE MetaCore
  BY <1>2, <1>7 DEF MetaCore
<1>8. QED
  BY <1>3, <1>4, <1>5, <1>6, <1>7 DEF ActivatorNext

LEMMA OwnInit == ActivatorInit => OwnInv
<1>. SUFFICES ASSUME ActivatorInit PROVE OwnInv
  OBVIOUS
<1>1. SuccessIsOwn
  BY DEF ActivatorInit, SuccessIsOwn
<1>2. JobOK(NoJob, stored)
  BY NoJobType DEF NoJob, JobOK, BeforeApply
<1>3. QED
  BY <1>1, <1>2 DEF ActivatorInit, OwnInv

\* An activation reported as a success has put its own bundle, built for the
\* bundle that was active before, into the store and into ACTIVE_BUNDLE, however
\* many daemons and operators share the installation and wherever they die
\* (run_activation, _binding_matches_after_bundle).
THEOREM SuccessIsAlwaysOwn == ActivatorSpec => []SuccessIsOwn
<1>1. OwnInv => SuccessIsOwn
  BY DEF OwnInv
<1>2. QED
  BY <1>1, OwnInit, OwnNext, ActivatorInvariants, PTL DEF ActivatorSpec
-----------------------------------------------------------------------------
(* One daemon *)

\* One omega daemon runs on the installation, and by hand only commands are run
\* that append nothing to the ledger: stage, verify, canary and audit.
OneDaemon ==
  /\ \A d, e \in Daemons : d = e
  /\ Manual \cap AppendingCommands = {}

\* The daemons run their commands in the slots they started with: no tick has
\* begun beside a command that was left behind.
Home == \A d \in Daemons : slot[d] = d

\* The steps of the commands run by hand: they swap no pointer.
HandPCs == {"idle", "lock", "stage", "stageCopy", "stageDesc", "verify", "kernel",
            "canary", "audit", "auditNext", "auditStore", "auditLedger"}

ByHandOK ==
  \A p \in Procs \ Daemons : pc[p] \in HandPCs /\ cmd[p] \notin AppendingCommands

\* Everything a daemon has registered is at or below b.
RegistryBelow(b) == \A o \in Ops : registry[o] # Absent => registry[o] \in Lineage(b)

\* The ledger holds the commit of b on top of o.
CommitRecorded(b, o) ==
  \E i \in 1..Len(ledger) : /\ ledger[i].body.action = "COMMIT"
                            /\ ledger[i].body.active = b
                            /\ ledger[i].body.prev = o

\* An apply of the daemon: the bundle it commits is a child of the active one.
ApplyPCs == {"lock", "stage", "stageCopy", "stageDesc", "verify", "kernel", "canary",
             "commit", "parent"}
SwapUp   == {"store", "storeCopy", "storeReceipt", "prev", "active"}
Swapped  == {"next", "tail", "append", "publish"}

ApplyOK(d) ==
  LET l == loc[d] IN
  /\ pc[d] \in ApplyPCs \cup SwapUp \cup Swapped
  /\ pc[d] \in SwapUp \cup Swapped => l.action = "COMMIT" /\ Parent[l.bundle] = l.old
  /\ pc[d] \in SwapUp => active = l.old
  /\ pc[d] = "active" => prevActive = l.old
  /\ pc[d] \in Swapped => active = l.bundle /\ prevActive = l.old

\* A rollback of the daemon: what is registered is below the bundle it restores.
RollbackOK(d) ==
  LET l == loc[d] IN
  /\ pc[d] \in {"rollback", "target", "prev", "active", "receipt"} \cup Swapped
  /\ pc[d] # "rollback" => l.action = "ROLLBACK"
  /\ pc[d] \in {"rollback", "target"} /\ prevActive \in Bundles => RegistryBelow(prevActive)
  /\ pc[d] \in {"prev", "active"} => RegistryBelow(l.bundle)

SlotOK(d) ==
  /\ active \in Bundles
  /\ RegistryBelow(active)
  /\ pc[d] # "idle" => \/ cmd[d] = "apply" /\ ApplyOK(d)
                       \/ cmd[d] = "rollback" /\ RollbackOK(d)

\* The apply of j is on disk.
Landed(j) == Parent[active] = j.before /\ prevActive = j.before /\ CommitRecorded(active, j.before)

Unpublished(j) ==
  \/ j.phase \in {"compare", "applying", "reread", "gate", "publish"}
  \/ j.phase \in {"report", "undo"} /\ ~j.health

\* The daemon waits for the apply, ...
WaitsForApply(d) ==
  LET j == job[d] IN
  /\ pc[d] # "idle" => cmd[d] = "apply"
  /\ pc[d] \in ApplyPCs \cup SwapUp => active = j.before
  /\ pc[d] \in Swapped => prevActive = j.before
  /\ pc[d] = "idle" /\ result[d] = "ok" => Landed(j)
  /\ pc[d] = "idle" /\ result[d] # "ok" /\ crashes = 0 => active = j.before

\* ... or for the rollback to the bundle from before.
WaitsForRollback(d) ==
  LET j == job[d] IN
  /\ pc[d] # "idle" => cmd[d] = "rollback"
  /\ pc[d] \in {"rollback", "target"} => prevActive = j.before
  /\ pc[d] \in {"prev", "active"} => loc[d].bundle = j.before
  /\ pc[d] \in {"receipt"} \cup Swapped => active = j.before
  /\ pc[d] = "idle" /\ crashes = 0 => active = j.before

\* What one daemon knows of the installation at each step of run_activation.
KnowsOK(d) ==
  LET j == job[d] IN
  /\ pc[d] # "idle" => j.phase \in {"idle", "applying", "rollingBack"}
  /\ j.phase = "begin" => active = Parent[j.bundle]
  /\ j.phase \notin {"idle", "build", "begin"} =>
       j.before \in Bundles /\ j.before = Parent[j.bundle]
  /\ Unpublished(j) => RegistryBelow(j.before)
  /\ j.phase = "compare" => active = j.before
  /\ j.phase = "applying" => WaitsForApply(d)
  /\ j.phase \in {"reread", "gate", "publish", "report", "final", "undo"} =>
       /\ j.applied => Landed(j)
       /\ ~j.applied /\ crashes = 0 => active = j.before
  /\ j.phase \in {"gate", "publish", "report", "final", "undo"} => j.after = active
  /\ j.phase \in {"gate", "publish"} => j.health /\ active = j.bundle
  /\ j.phase = "publish" => j.routes = registry
  /\ j.phase = "final" => j.health
  /\ j.phase = "undo" => ~j.health
  /\ j.phase = "rollingBack" => WaitsForRollback(d)

\* What the receipts of its last activation say.
ReceiptsOK(d) ==
  LET j == job[d] a == activation[d] IN
  /\ j.phase \in Phases \ {"idle", "final", "undo", "rollingBack"} => a = Absent
  /\ j.phase \in {"final", "undo", "rollingBack"} => a.bundle = j.bundle
  /\ j.phase \in {"undo", "rollingBack"} => ~a.success
  /\ a # Absent /\ a.success => pc[d] = "idle" /\ CommitRecorded(a.bundle, a.before)
  /\ returned[d] # Absent => /\ j.phase = "idle" /\ pc[d] = "idle"
                             /\ crashes = 0 => returned[d] = active
  /\ undone[d] # Absent /\ crashes = 0 =>
       returned[d] # Absent /\ active = Parent[a.bundle]

OneInv == ByHandOK /\ \A d \in Daemons : SlotOK(d) /\ KnowsOK(d) /\ ReceiptsOK(d)

\* A bundle is in its own lineage, and its parent's lineage is part of its own.
LEMMA OwnLineage == \A b \in Bundles : b \in Lineage(b)
BY DEF Lineage

LEMMA ParentLineage ==
  ASSUME NEW b \in Bundles, Parent[b] \in Bundles
  PROVE  Lineage(Parent[b]) \subseteq Lineage(b)
<1>1. ASSUME NEW a \in Lineage(Parent[b]), NEW S \in SUBSET Bundles, b \in S,
             \A c \in S : Parent[c] \in Bundles => Parent[c] \in S
      PROVE  a \in S
  <2>1. Parent[b] \in S
    BY <1>1
  <2>2. QED
    BY <1>1, <2>1 DEF Lineage
<1>2. QED
  BY <1>1 DEF Lineage

\* What is below a bundle is below its children as well.
LEMMA BelowChild ==
  ASSUME NEW b \in Bundles, Parent[b] \in Bundles, RegistryBelow(Parent[b])
  PROVE  RegistryBelow(b)
BY ParentLineage DEF RegistryBelow

\* No process writes into the result of another one's command (Advance, Finish).
LEMMA ResultEffect ==
  ASSUME TypeInv, NEW p \in Procs
  PROVE  /\ \A n, l : Advance(p, n, l) => result' = result /\ crashes' = crashes
         /\ \A code : Finish(p, code) =>
              /\ result'[p] = code /\ crashes' = crashes
              /\ \A q \in Procs \ {p} : result'[q] = result[q]
         /\ Acquire(p) => result' = result /\ crashes' = crashes
         /\ Die(p) => /\ crashes' # 0
                      /\ \A q \in Procs \ {p} : result'[q] = result[q]
BY DEF TypeInv, TypeOK, ProcessesOK, Advance, control, Finish, Acquire, Die

\* A step that leaves alone what the daemon has to do with.
Untouched(d) ==
  /\ UNCHANGED <<active, prevActive, ledger, registry>>
  /\ pc'[d] = pc[d] /\ cmd'[d] = cmd[d] /\ loc'[d] = loc[d] /\ result'[d] = result[d]
  /\ job'[d] = job[d] /\ activation'[d] = activation[d]
  /\ undone'[d] = undone[d] /\ returned'[d] = returned[d]
  /\ crashes' = 0 => crashes = 0

DaemonOK(d) == SlotOK(d) /\ KnowsOK(d) /\ ReceiptsOK(d)

LEMMA UntouchedKeeps ==
  ASSUME NEW d \in Daemons, DaemonOK(d), Untouched(d)
  PROVE  DaemonOK(d)'
<1>1. RegistryBelow(active)' /\ \A b : RegistryBelow(b) => RegistryBelow(b)'
  BY DEF Untouched, DaemonOK, SlotOK, RegistryBelow
<1>2. SlotOK(d)'
  <2>1. ApplyOK(d) => ApplyOK(d)'
    BY DEF Untouched, ApplyOK
  <2>2. RollbackOK(d) => RollbackOK(d)'
    BY <1>1 DEF Untouched, RollbackOK
  <2>3. QED
    BY <1>1, <2>1, <2>2 DEF Untouched, DaemonOK, SlotOK
<1>3. \A b, o : CommitRecorded(b, o)' = CommitRecorded(b, o)
  BY DEF Untouched, CommitRecorded
<1>4. KnowsOK(d)'
  <2>1. Landed(job[d]) => Landed(job[d])'
    BY <1>3 DEF Untouched, Landed
  <2>2. WaitsForApply(d) => WaitsForApply(d)'
    BY <2>1 DEF Untouched, WaitsForApply
  <2>3. WaitsForRollback(d) => WaitsForRollback(d)'
    BY DEF Untouched, WaitsForRollback
  <2>4. QED
    BY <1>1, <2>1, <2>2, <2>3 DEF Untouched, DaemonOK, KnowsOK, Unpublished
<1>5. ReceiptsOK(d)'
  BY <1>3 DEF Untouched, DaemonOK, ReceiptsOK
<1>6. QED
  BY <1>2, <1>4, <1>5 DEF DaemonOK

\* What the daemons keep, apart from the moving command (MetaCore).
LEMMA DaemonVarsSame ==
  ASSUME UNCHANGED daemonVars
  PROVE  /\ registry' = registry
         /\ \A d : /\ job'[d] = job[d] /\ activation'[d] = activation[d]
                   /\ undone'[d] = undone[d] /\ returned'[d] = returned[d]
BY DEF daemonVars, receiptVars

-----------------------------------------------------------------------------
(* Commands run by hand *)

\* A stage, verification, canary or audit writes no pointer and no ledger.
LEMMA HandStep ==
  ASSUME TypeInv, NEW p \in Procs, pc[p] \in HandPCs, cmd[p] \notin AppendingCommands,
         Run(p) \/ Die(p)
  PROVE  /\ UNCHANGED <<active, prevActive, ledger>>
         /\ Others(p) /\ (\A q \in Procs \ {p} : result'[q] = result[q])
         /\ crashes' = 0 => crashes = 0
         /\ pc'[p] \in HandPCs /\ cmd'[p] \notin AppendingCommands
<1>0. "none" \notin AppendingCommands /\ cmd[p] # "apply"
  BY DEF AppendingCommands
<1>1. CASE Acquire(p)
  <2>1. /\ UNCHANGED <<active, prevActive, ledger>> /\ Others(p) /\ cmd'[p] = cmd[p]
        /\ result' = result /\ crashes' = crashes
    BY <1>1, EnvironmentEffect, ResultEffect DEF Acquire, pointers
  <2>2. pc'[p] \in HandPCs
    BY <1>1, EnvironmentEffect DEF HandPCs
  <2>3. QED
    BY <2>1, <2>2
<1>2. CASE Die(p)
  <2>1. /\ UNCHANGED <<active, prevActive, ledger>> /\ Others(p) /\ cmd'[p] = "none"
        /\ pc'[p] = "idle" /\ crashes' # 0
    <3>1. Others(p) /\ crashes' # 0
      BY <1>2, EnvironmentEffect, ResultEffect
    <3>2. cmd'[p] = "none" /\ pc'[p] = "idle"
      BY <1>2 DEF Die, TypeInv, TypeOK, ProcessesOK
    <3>3. UNCHANGED <<active, prevActive, ledger>>
      BY <1>2 DEF Die, pointers
    <3>4. QED
      BY <3>1, <3>2, <3>3
  <2>2. \A q \in Procs \ {p} : result'[q] = result[q]
    BY <1>2, ResultEffect
  <2>3. QED
    BY <1>0, <2>1, <2>2 DEF HandPCs
<1>3. CASE Run(p) /\ ~Acquire(p)
  <2>1. StageStep(p) \/ VerifyStep(p) \/ AuditStep(p)
    BY <1>3 DEF Run, HandPCs, UpgradeStep, NotReady, Ready, Announce, CommitStep,
                CommitStaged, CheckParent, StoreBundle, StoreCopy, StoreReceipt,
                RollbackStep, RollbackActive, RollbackTarget, ReadReceipt, SwapStep,
                WritePrev, WriteActive, WriteNext, LedgerStep, ReadLastEntry, ReadLedger,
                PublishEntry
  <2>2. UNCHANGED <<active, prevActive, ledger>>
    BY <2>1 DEF StageStep, StageReject, StageBundle, StageCopy, WriteStage, VerifyStep,
                VerifyStaged, RunKernel, CanaryStaged, AuditStep, AuditActive, AuditNext,
                AuditStore, AuditLedger, pointers
  <2>3. \/ \E code : Finish(p, code)
        \/ \E n \in HandPCs : \E l : Advance(p, n, l)
    BY <1>0, <2>1
       DEF StageStep, StageReject, StageBundle, StageCopy, WriteStage, VerifyStep,
           VerifyStaged, RunKernel, CanaryStaged, AuditStep, AuditActive, AuditNext,
           AuditStore, AuditLedger, StageDone, HandPCs
  <2>4. CASE \E code : Finish(p, code)
    <3>1. pc'[p] = "idle" /\ cmd'[p] = "none"
      BY <2>4 DEF Finish, TypeInv, TypeOK, ProcessesOK
    <3>2. QED
      BY <1>0, <2>2, <2>4, <3>1, FinishEffect, ResultEffect DEF HandPCs
  <2>5. CASE \E n \in HandPCs : \E l : Advance(p, n, l)
    BY <2>2, <2>5, AdvanceEffect, ResultEffect
  <2>6. QED
    BY <2>3, <2>4, <2>5
<1>4. QED
  BY <1>1, <1>2, <1>3

\* The daemon does not notice them.
LEMMA HandKeeps ==
  ASSUME TypeInv, OneInv, NEW p \in Procs \ Daemons, Run(p) \/ Die(p), UNCHANGED daemonVars
  PROVE  OneInv'
<1>1. /\ UNCHANGED <<active, prevActive, ledger>>
      /\ Others(p) /\ (\A q \in Procs \ {p} : result'[q] = result[q])
      /\ crashes' = 0 => crashes = 0
      /\ pc'[p] \in HandPCs /\ cmd'[p] \notin AppendingCommands
  BY HandStep DEF OneInv, ByHandOK
<1>2. ByHandOK'
  BY <1>1 DEF OneInv, ByHandOK, Others
<1>3. ASSUME NEW d \in Daemons
      PROVE  DaemonOK(d)'
  <2>1. d \in Procs \ {p}
    BY DaemonsAssumption
  <2>2. Untouched(d)
    BY <1>1, <2>1, DaemonVarsSame DEF Untouched, Others
  <2>3. QED
    BY <2>2, UntouchedKeeps DEF OneInv, DaemonOK
<1>4. QED
  BY <1>2, <1>3 DEF OneInv, DaemonOK

\* Nor does it notice that an operator starts one.
LEMMA HandStarts ==
  ASSUME OneDaemon, Home, TypeInv, OneInv, NEW p \in Procs, NEW c \in Manual,
         NEW b \in BundleOrAbsent, ByHand(p, c, b)
  PROVE  OneInv'
<1>1. /\ p \notin Daemons /\ c \in EnabledCommands /\ c \notin AppendingCommands
      /\ Start(p, c, b) /\ UNCHANGED daemonVars
  BY DaemonsAssumption DEF OneDaemon, ByHand, Home, Taken
<1>2. /\ UNCHANGED <<active, prevActive, ledger, crashes>>
      /\ Others(p) /\ (\A q \in Procs \ {p} : result'[q] = result[q])
      /\ pc'[p] = Entrance(c) /\ cmd'[p] = c
  BY <1>1, EnvironmentEffect DEF Start, pointers, TypeInv, TypeOK, ProcessesOK
<1>3. Entrance(c) \in HandPCs
  BY <1>1, EnvironmentAssumption
     DEF Entrance, LockedCommands, AllCommands, AppendingCommands, HandPCs
<1>4. ByHandOK'
  BY <1>1, <1>2, <1>3 DEF OneInv, ByHandOK, Others
<1>5. ASSUME NEW d \in Daemons
      PROVE  DaemonOK(d)'
  <2>1. d \in Procs \ {p}
    BY <1>1, DaemonsAssumption
  <2>2. Untouched(d)
    BY <1>1, <1>2, <2>1, DaemonVarsSame DEF Untouched, Others
  <2>3. QED
    BY <2>2, UntouchedKeeps DEF OneInv, DaemonOK
<1>6. QED
  BY <1>4, <1>5 DEF OneInv, DaemonOK

-----------------------------------------------------------------------------
(* The command in the slot of the daemon *)

\* A step of the one daemon has to be looked at for that daemon only.
LEMMA OneFrame ==
  ASSUME OneDaemon, OneInv, NEW d \in Daemons, Others(d) \/ UNCHANGED <<pc, cmd, loc>>,
         DaemonOK(d)'
  PROVE  OneInv'
<1>1. \A p \in Procs \ Daemons : pc'[p] = pc[p] /\ cmd'[p] = cmd[p]
  BY DEF Others
<1>2. ByHandOK'
  BY <1>1 DEF OneInv, ByHandOK
<1>3. \A e \in Daemons : e = d
  BY DEF OneDaemon
<1>4. QED
  BY <1>2, <1>3 DEF OneInv, DaemonOK

\* While a command runs the daemon waits, or it was killed: only what it waits
\* for is to be looked at.
LEMMA SlotMoves ==
  ASSUME NEW d \in Daemons, DaemonOK(d), UNCHANGED daemonVars, pc[d] # "idle",
         crashes' = 0 => crashes = 0,
         SlotOK(d)',
         job[d].phase = "applying" => WaitsForApply(d)',
         job[d].phase = "rollingBack" => WaitsForRollback(d)'
  PROVE  DaemonOK(d)'
<1>1. /\ job'[d] = job[d] /\ activation'[d] = activation[d]
      /\ undone'[d] = undone[d] /\ returned'[d] = returned[d] /\ registry' = registry
  BY DaemonVarsSame
<1>2. job[d].phase \in {"idle", "applying", "rollingBack"}
  BY DEF DaemonOK, KnowsOK
<1>3. \A b : RegistryBelow(b) => RegistryBelow(b)'
  BY <1>1 DEF RegistryBelow
<1>4. Unpublished(job[d]) => RegistryBelow(job[d].before)
  BY DEF DaemonOK, KnowsOK
<1>5. KnowsOK(d)'
  BY <1>1, <1>2, <1>3, <1>4 DEF DaemonOK, KnowsOK, Unpublished
<1>6. ReceiptsOK(d)'
  <2>1. /\ ~(activation[d] # Absent /\ activation[d].success)
        /\ returned[d] = Absent
        /\ undone[d] # Absent => crashes # 0
    BY DEF DaemonOK, ReceiptsOK
  <2>2. QED
    BY <1>1, <1>2, <2>1 DEF DaemonOK, ReceiptsOK
<1>7. QED
  BY <1>5, <1>6 DEF DaemonOK

\* A command that does not make it, or has not come to the pointers, has changed
\* nothing.
LEMMA SlotQuiet ==
  ASSUME NEW d \in Daemons, DaemonOK(d), UNCHANGED daemonVars,
         UNCHANGED <<active, prevActive, ledger>>, pc[d] # "idle",
         crashes' = 0 => crashes = 0,
         \/ pc'[d] = "idle" /\ result'[d] # "ok"
              /\ (pc[d] \in {"rollback", "target"} \cup Swapped => crashes' # 0)
              /\ (pc[d] \in {"prev", "active"} /\ cmd[d] = "rollback" => crashes' # 0)
         \/ pc[d] \in ApplyPCs /\ pc'[d] \in ApplyPCs /\ cmd[d] = "apply" /\ cmd'[d] = "apply"
  PROVE  DaemonOK(d)'
<1>1. registry' = registry /\ job'[d] = job[d]
  BY DaemonVarsSame
<1>2. \A b : RegistryBelow(b) => RegistryBelow(b)'
  BY <1>1 DEF RegistryBelow
<1>3. SlotOK(d)'
  BY <1>2 DEF DaemonOK, SlotOK, ApplyOK, ApplyPCs, SwapUp, Swapped
<1>4. job[d].phase = "applying" => WaitsForApply(d)'
  BY <1>1 DEF DaemonOK, SlotOK, ApplyOK, KnowsOK, WaitsForApply, ApplyPCs, SwapUp, Swapped
<1>5. job[d].phase = "rollingBack" => WaitsForRollback(d)'
  BY <1>1 DEF DaemonOK, SlotOK, RollbackOK, KnowsOK, WaitsForRollback, ApplyPCs, SwapUp, Swapped
<1>6. QED
  BY <1>3, <1>4, <1>5, SlotMoves

\* An apply until it has checked the parent (apply_bundle up to commit_staged).
LEMMA ApplyBegins ==
  ASSUME TypeInv, NEW d \in Daemons, DaemonOK(d), UNCHANGED daemonVars, cmd[d] = "apply",
         Acquire(d) \/ StageStep(d) \/ VerifyStep(d) \/ CommitStaged(d)
  PROVE  DaemonOK(d)' /\ Others(d)
<1>0. d \in Procs
  BY DaemonsAssumption
<1>1. UNCHANGED <<active, prevActive, ledger>>
  BY DEF Acquire, StageStep, StageReject, StageBundle, StageCopy, WriteStage, VerifyStep,
         VerifyStaged, RunKernel, CanaryStaged, CommitStaged, pointers
<1>2. pc[d] \in ApplyPCs
  BY DEF Acquire, StageStep, StageReject, StageBundle, StageCopy, WriteStage, VerifyStep,
         VerifyStaged, RunKernel, CanaryStaged, CommitStaged, ApplyPCs
<1>3. CASE Acquire(d)
  <2>1. /\ pc'[d] = "stage" /\ cmd'[d] = cmd[d] /\ Others(d) /\ crashes' = crashes
    BY <1>0, <1>3, ResultEffect, EnvironmentEffect DEF Acquire, TypeInv, TypeOK, ProcessesOK
  <2>2. QED
    BY <1>1, <1>2, <2>1, SlotQuiet DEF ApplyPCs
<1>4. CASE ~Acquire(d)
  <2>1. \/ \E code \in {"invalid", "error"} : Finish(d, code)
        \/ \E n \in ApplyPCs : \E l : Advance(d, n, l)
    BY <1>4 DEF StageStep, StageReject, StageBundle, StageCopy, WriteStage, VerifyStep,
                VerifyStaged, RunKernel, CanaryStaged, CommitStaged, StageDone, ApplyPCs
  <2>2. CASE \E code \in {"invalid", "error"} : Finish(d, code)
    <3>1. /\ pc'[d] = "idle" /\ result'[d] # "ok" /\ Others(d) /\ crashes' = crashes
      BY <1>0, <2>2, FinishEffect, ResultEffect
    <3>2. QED
      BY <1>1, <1>2, <3>1, SlotQuiet DEF ApplyPCs, Swapped
  <2>3. CASE \E n \in ApplyPCs : \E l : Advance(d, n, l)
    <3>1. /\ pc'[d] \in ApplyPCs /\ cmd'[d] = cmd[d] /\ Others(d) /\ crashes' = crashes
      BY <1>0, <2>3, AdvanceEffect, ResultEffect
    <3>2. QED
      BY <1>1, <1>2, <3>1, SlotQuiet DEF ApplyPCs
  <2>4. QED
    BY <2>1, <2>2, <2>3
<1>5. QED
  BY <1>3, <1>4

\* ... checks it and stores the bundle (commit_staged, store_bundle).
LEMMA ApplyStores ==
  ASSUME TypeInv, NEW d \in Daemons, DaemonOK(d), UNCHANGED daemonVars, cmd[d] = "apply",
         CheckParent(d) \/ StoreBundle(d) \/ StoreCopy(d) \/ StoreReceipt(d)
  PROVE  DaemonOK(d)' /\ Others(d)
<1>0. /\ d \in Procs /\ loc[d] \in Locals
      /\ registry' = registry /\ job'[d] = job[d]
  BY DaemonsAssumption, LocTyped, DaemonVarsSame
<1>1. /\ UNCHANGED <<active, prevActive, ledger>>
      /\ active # Absent
  BY BundlesAssumption
     DEF CheckParent, StoreBundle, StoreCopy, StoreReceipt, pointers, DaemonOK, SlotOK
<1>2. CASE Finish(d, "invalid") /\ pc[d] = "parent"
  <2>1. /\ pc'[d] = "idle" /\ result'[d] # "ok" /\ Others(d) /\ crashes' = crashes
    BY <1>0, <1>2, FinishEffect, ResultEffect
  <2>2. QED
    BY <1>1, <1>2, <2>1, SlotQuiet DEF Swapped
<1>3. CASE ~(Finish(d, "invalid") /\ pc[d] = "parent")
  <2>1. PICK l \in Locals, n \in {"store", "storeCopy", "storeReceipt", "prev"} :
          /\ Advance(d, n, l)
          /\ l.action = "COMMIT" /\ active = l.old /\ Parent[l.bundle] = l.old
          /\ pc[d] \in ApplyPCs \cup SwapUp
    <3>1. CASE CheckParent(d)
      <4>. DEFINE l == [loc[d] EXCEPT !.old = active, !.action = "COMMIT"]
      <4>1. /\ Advance(d, "store", l) /\ active = Parent[loc[d].bundle]
            /\ pc[d] = "parent"
        BY <1>1, <1>3, <3>1 DEF CheckParent
      <4>2. /\ l \in Locals /\ l.action = "COMMIT" /\ l.old = active
            /\ l.bundle = loc[d].bundle
        <5>1. active \in Pointer /\ "COMMIT" \in LedgerActions
          BY DEF DaemonOK, SlotOK, Pointer, LedgerActions
        <5>2. QED
          BY <1>0, <5>1, LocalsTypes DEF Locals
      <4>. HIDE DEF l
      <4>3. QED
        BY <4>1, <4>2 DEF ApplyPCs
    <3>2. CASE StoreBundle(d) \/ StoreCopy(d) \/ StoreReceipt(d)
      <4>1. \E n \in {"storeCopy", "storeReceipt", "prev"} : Advance(d, n, loc[d])
        BY <3>2 DEF StoreBundle, StoreCopy, StoreReceipt
      <4>2. pc[d] \in {"store", "storeCopy", "storeReceipt"}
        BY <3>2 DEF StoreBundle, StoreCopy, StoreReceipt
      <4>3. /\ loc[d].action = "COMMIT" /\ active = loc[d].old
            /\ Parent[loc[d].bundle] = loc[d].old
        BY <4>2 DEF DaemonOK, SlotOK, ApplyOK, SwapUp
      <4>4. QED
        BY <1>0, <4>1, <4>2, <4>3 DEF SwapUp
    <3>3. QED
      BY <3>1, <3>2
  <2>2. /\ pc'[d] = n /\ cmd'[d] = "apply" /\ loc'[d] = l /\ Others(d)
        /\ crashes' = crashes
    BY <1>0, <2>1, AdvanceEffect, ResultEffect
  <2>3. SlotOK(d)'
    BY <1>0, <1>1, <2>1, <2>2
       DEF DaemonOK, SlotOK, ApplyOK, SwapUp, Swapped, RegistryBelow
  <2>4. WaitsForApply(d) => WaitsForApply(d)'
    BY <1>0, <1>1, <2>1, <2>2 DEF WaitsForApply, SwapUp, Swapped, ApplyPCs
  <2>5. job[d].phase = "rollingBack" => WaitsForRollback(d)'
    BY <2>1 DEF DaemonOK, KnowsOK, WaitsForRollback, ApplyPCs, SwapUp
  <2>6. pc[d] # "idle" /\ (job[d].phase = "applying" => WaitsForApply(d))
    BY <2>1 DEF ApplyPCs, SwapUp, DaemonOK, KnowsOK
  <2>7. QED
    BY <2>2, <2>3, <2>4, <2>5, <2>6, SlotMoves
<1>4. QED
  BY <1>2, <1>3

\* The pointers are written in the order PREV_ACTIVE_BUNDLE, ACTIVE_BUNDLE,
\* ACTIVE_NEXT_BUNDLE (commit_staged, rollback_active).
LEMMA SlotSwaps ==
  ASSUME TypeInv, NEW d \in Daemons, DaemonOK(d), UNCHANGED daemonVars, SwapStep(d)
  PROVE  DaemonOK(d)' /\ Others(d)
<1>0. /\ d \in Procs /\ loc[d] \in Locals
      /\ registry' = registry /\ job'[d] = job[d]
      /\ pc[d] \in {"prev", "active", "next"}
      /\ loc[d].bundle \in Bundles
      /\ ledger' = ledger
  BY DaemonsAssumption, LocTyped, DaemonVarsSame
     DEF SwapStep, WritePrev, WriteActive, WriteNext, TypeInv, WorkOK, Working
<1>1. \/ cmd[d] = "apply" /\ ApplyOK(d)
      \/ cmd[d] = "rollback" /\ RollbackOK(d)
  BY <1>0 DEF DaemonOK, SlotOK
<1>2. /\ job[d].phase = "applying" => cmd[d] = "apply" /\ WaitsForApply(d)
      /\ job[d].phase = "rollingBack" => cmd[d] = "rollback" /\ WaitsForRollback(d)
  BY <1>0 DEF DaemonOK, KnowsOK, WaitsForApply, WaitsForRollback
<1>3. \A b : RegistryBelow(b) => RegistryBelow(b)'
  BY <1>0 DEF RegistryBelow
<1>4. CASE Finish(d, "error")
  <2>1. /\ pc'[d] = "idle" /\ result'[d] = "error" /\ crashes' = crashes /\ Others(d)
    BY <1>0, <1>4, FinishEffect, ResultEffect
  <2>2. pc[d] = "prev" /\ active' = active /\ cmd[d] = "apply"
    <3>1. pc[d] # "active" /\ pc[d] # "next"
      BY <1>0, <2>1, AdvanceEffect DEF SwapStep, WritePrev, WriteActive, WriteNext
    <3>2. WritePrev(d) /\ pc'[d] # "active"
      BY <2>1, <3>1 DEF SwapStep, WriteActive, WriteNext
    <3>3. loc[d].action = "COMMIT"
      BY <1>0, <3>2, AdvanceEffect DEF WritePrev
    <3>4. QED
      BY <1>1, <3>2, <3>3 DEF WritePrev, RollbackOK
  <2>3. SlotOK(d)'
    BY <1>3, <2>1, <2>2 DEF DaemonOK, SlotOK
  <2>4. WaitsForApply(d) => WaitsForApply(d)'
    BY <1>0, <2>1, <2>2 DEF WaitsForApply, SwapUp, Swapped, ApplyPCs
  <2>5. QED
    BY <1>0, <1>2, <2>1, <2>2, <2>3, <2>4, SlotMoves
<1>5. CASE \E n : Advance(d, n, loc[d])
  <2>1. /\ cmd'[d] = cmd[d] /\ loc'[d] = loc[d] /\ Others(d) /\ crashes' = crashes
    BY <1>0, <1>5, AdvanceEffect, ResultEffect
  <2>2. CASE WritePrev(d)
    <3>1. /\ pc'[d] = "active" /\ active' = active /\ prevActive' = loc[d].old
          /\ pc[d] = "prev"
      <4>1. \A code : ~Finish(d, code)
        BY <1>0, <1>1, <2>1 DEF Finish, TypeInv, TypeOK, ProcessesOK
      <4>2. QED
        BY <1>0, <2>2, <4>1, AdvanceEffect DEF WritePrev
    <3>2. SlotOK(d)'
      BY <1>0, <1>1, <1>3, <2>1, <3>1
         DEF DaemonOK, SlotOK, ApplyOK, RollbackOK, SwapUp, Swapped
    <3>3. /\ WaitsForApply(d) => WaitsForApply(d)'
          /\ WaitsForRollback(d) => WaitsForRollback(d)'
      BY <1>0, <2>1, <3>1
         DEF WaitsForApply, WaitsForRollback, SwapUp, Swapped, ApplyPCs
    <3>4. QED
      BY <1>0, <1>2, <2>1, <3>2, <3>3, SlotMoves
  <2>3. CASE WriteActive(d)
    <3>1. /\ pc[d] = "active" /\ pc'[d] = "next" /\ active' = loc[d].bundle
          /\ prevActive' = prevActive
      BY <1>0, <2>3, AdvanceEffect DEF WriteActive
    <3>2. RegistryBelow(loc[d].bundle)
      <4>1. CASE cmd[d] = "apply" /\ ApplyOK(d)
        <5>1. Parent[loc[d].bundle] = active
          BY <3>1, <4>1 DEF ApplyOK, SwapUp
        <5>2. QED
          BY <1>0, <5>1, BelowChild DEF DaemonOK, SlotOK
      <4>2. CASE cmd[d] = "rollback" /\ RollbackOK(d)
        BY <3>1, <4>2 DEF RollbackOK
      <4>3. QED
        BY <1>1, <4>1, <4>2
    <3>3. SlotOK(d)'
      <4>1. RegistryBelow(active)'
        BY <1>0, <3>1, <3>2 DEF RegistryBelow
      <4>2. QED
        BY <1>0, <1>1, <2>1, <3>1, <4>1
           DEF DaemonOK, SlotOK, ApplyOK, RollbackOK, SwapUp, Swapped
    <3>4. cmd[d] = "apply" /\ WaitsForApply(d) => WaitsForApply(d)'
      BY <1>0, <1>1, <2>1, <3>1
         DEF WaitsForApply, ApplyOK, SwapUp, Swapped, ApplyPCs
    <3>5. cmd[d] = "rollback" /\ WaitsForRollback(d) => WaitsForRollback(d)'
      BY <1>0, <2>1, <3>1 DEF WaitsForRollback, Swapped
    <3>6. QED
      BY <1>0, <1>2, <2>1, <3>3, <3>4, <3>5, SlotMoves
  <2>4. CASE WriteNext(d)
    <3>1. /\ pc[d] = "next" /\ UNCHANGED <<active, prevActive>>
          /\ pc'[d] = IF loc[d].action = "ROLLBACK" THEN "receipt" ELSE "tail"
      BY <1>0, <2>4, AdvanceEffect DEF WriteNext
    <3>2. cmd[d] = "apply" => pc'[d] = "tail"
      BY <1>1, <3>1 DEF ApplyOK, Swapped
    <3>3. SlotOK(d)'
      BY <1>0, <1>1, <1>3, <2>1, <3>1, <3>2
         DEF DaemonOK, SlotOK, ApplyOK, RollbackOK, SwapUp, Swapped
    <3>4. cmd[d] = "apply" /\ WaitsForApply(d) => WaitsForApply(d)'
      BY <1>0, <2>1, <3>1, <3>2 DEF WaitsForApply, SwapUp, Swapped, ApplyPCs
    <3>5. cmd[d] = "rollback" /\ WaitsForRollback(d) => WaitsForRollback(d)'
      BY <1>0, <2>1, <3>1 DEF WaitsForRollback, Swapped
    <3>6. QED
      BY <1>0, <1>2, <2>1, <3>3, <3>4, <3>5, SlotMoves
  <2>5. QED
    BY <2>2, <2>3, <2>4 DEF SwapStep
<1>6. QED
  BY <1>4, <1>5 DEF SwapStep, WritePrev, WriteActive, WriteNext

\* Once swapped, the ledger gets its entry (read_last_entry,
\* append_entry_crash_safe); a rollback has the receipt to read first.
LEMMA SlotRecords ==
  ASSUME TypeInv, NEW d \in Daemons, DaemonOK(d), UNCHANGED daemonVars,
         cmd[d] \in {"apply", "rollback"}, LedgerStep(d) \/ ReadReceipt(d)
  PROVE  DaemonOK(d)' /\ Others(d)
<1>0. /\ d \in Procs /\ loc[d] \in Locals
      /\ registry' = registry /\ job'[d] = job[d]
      /\ pc[d] \in {"receipt", "tail", "append", "publish"}
      /\ UNCHANGED <<active, prevActive>>
  BY DaemonsAssumption, LocTyped, DaemonVarsSame
     DEF LedgerStep, ReadLastEntry, ReadLedger, PublishEntry, ReadReceipt, pointers
<1>1. \/ cmd[d] = "apply" /\ ApplyOK(d)
      \/ cmd[d] = "rollback" /\ RollbackOK(d)
  BY <1>0 DEF DaemonOK, SlotOK
<1>2. /\ job[d].phase = "applying" => cmd[d] = "apply" /\ WaitsForApply(d)
      /\ job[d].phase = "rollingBack" => cmd[d] = "rollback" /\ WaitsForRollback(d)
  BY <1>0 DEF DaemonOK, KnowsOK, WaitsForApply, WaitsForRollback
<1>3. \A b : RegistryBelow(b) => RegistryBelow(b)'
  BY <1>0 DEF RegistryBelow
<1>4. CASE \E n, l : /\ Advance(d, n, l) /\ n \in {"tail", "append", "publish"}
                     /\ l.bundle = loc[d].bundle /\ l.old = loc[d].old
                     /\ l.action = loc[d].action
  <2>1. /\ cmd'[d] = cmd[d] /\ Others(d) /\ crashes' = crashes
        /\ loc'[d].bundle = loc[d].bundle /\ loc'[d].old = loc[d].old
        /\ loc'[d].action = loc[d].action
        /\ pc'[d] \in {"tail", "append", "publish"}
    BY <1>0, <1>4, AdvanceEffect, ResultEffect
  <2>2. SlotOK(d)'
    <3>1. ApplyOK(d) => ApplyOK(d)'
      BY <1>0, <2>1 DEF ApplyOK, ApplyPCs, SwapUp, Swapped
    <3>2. RollbackOK(d) => RollbackOK(d)'
      BY <1>0, <2>1 DEF RollbackOK, Swapped
    <3>3. active' \in Bundles /\ RegistryBelow(active)'
      BY <1>0, <1>3 DEF DaemonOK, SlotOK, RegistryBelow
    <3>4. QED
      BY <1>1, <2>1, <3>1, <3>2, <3>3 DEF SlotOK
  <2>3. cmd[d] = "apply" /\ WaitsForApply(d) => WaitsForApply(d)'
    BY <1>0, <1>1, <2>1 DEF WaitsForApply, ApplyOK, SwapUp, Swapped, ApplyPCs
  <2>4. WaitsForRollback(d) => WaitsForRollback(d)'
    BY <1>0, <2>1 DEF WaitsForRollback, Swapped
  <2>5. QED
    BY <1>0, <1>2, <2>1, <2>2, <2>3, <2>4, SlotMoves
<1>5. CASE ReadReceipt(d) /\ Finish(d, "error")
  <2>1. /\ pc'[d] = "idle" /\ result'[d] = "error" /\ crashes' = crashes /\ Others(d)
        /\ cmd[d] = "rollback"
    BY <1>0, <1>1, <1>5, FinishEffect, ResultEffect
       DEF ReadReceipt, ApplyOK, ApplyPCs, SwapUp, Swapped
  <2>2. SlotOK(d)'
    BY <1>0, <1>3, <2>1 DEF DaemonOK, SlotOK
  <2>3. WaitsForRollback(d) => WaitsForRollback(d)'
    BY <1>0, <2>1 DEF WaitsForRollback, Swapped
  <2>4. QED
    BY <1>0, <1>2, <2>1, <2>2, <2>3, SlotMoves
<1>6. CASE PublishEntry(d)
  <2>1. /\ pc[d] = "publish" /\ Finish(d, "ok")
        /\ ledger' = Append(loc[d].base, MakeEntry(loc[d]))
    BY <1>6 DEF PublishEntry
  <2>2. /\ pc'[d] = "idle" /\ result'[d] = "ok" /\ crashes' = crashes /\ Others(d)
    BY <1>0, <2>1, FinishEffect, ResultEffect
  <2>3. SlotOK(d)'
    BY <1>0, <1>3, <2>2 DEF DaemonOK, SlotOK
  <2>4. ASSUME cmd[d] = "apply", NEW b, NEW o, b = loc[d].bundle, o = loc[d].old
        PROVE  CommitRecorded(b, o)'
    <3>. DEFINE log == loc[d].base  e == MakeEntry(loc[d])
    <3>1. log \in Seq(Entry)
      BY <1>0, LocTyped
    <3>2. Len(log) + 1 \in 1..Len(ledger') /\ ledger'[Len(log) + 1] = e
      BY <2>1, <3>1
    <3>3. e.body.action = "COMMIT" /\ e.body.active = b /\ e.body.prev = o
      BY <1>1, <2>1, <2>4 DEF MakeEntry, ApplyOK, Swapped
    <3>. HIDE DEF e, log
    <3>4. QED
      BY <3>2, <3>3 DEF CommitRecorded
  <2>5. cmd[d] = "apply" /\ WaitsForApply(d) => WaitsForApply(d)'
    <3>1. SUFFICES ASSUME cmd[d] = "apply", WaitsForApply(d) PROVE WaitsForApply(d)'
      OBVIOUS
    <3>2. /\ active = loc[d].bundle /\ prevActive = loc[d].old
          /\ Parent[active] = prevActive /\ prevActive = job[d].before
      BY <1>1, <2>1, <3>1 DEF ApplyOK, WaitsForApply, Swapped
    <3>3. Landed(job[d])'
      BY <1>0, <2>4, <3>1, <3>2 DEF Landed
    <3>4. QED
      BY <1>0, <2>1, <2>2, <3>3 DEF WaitsForApply, SwapUp, Swapped, ApplyPCs, Landed
  <2>6. WaitsForRollback(d) => WaitsForRollback(d)'
    BY <1>0, <2>1, <2>2 DEF WaitsForRollback, Swapped
  <2>7. QED
    BY <1>0, <1>2, <2>2, <2>3, <2>5, <2>6, SlotMoves
<1>7. QED
  <2>1. CASE ReadLastEntry(d)
    <3>. DEFINE l == [loc[d] EXCEPT !.head = ReadLast(ledger)]
    <3>1. Advance(d, "append", l)
      BY <2>1 DEF ReadLastEntry
    <3>2. l.bundle = loc[d].bundle /\ l.old = loc[d].old /\ l.action = loc[d].action
      BY <1>0 DEF Locals
    <3>3. QED
      BY <1>4, <3>1, <3>2
  <2>2. CASE ReadLedger(d)
    <3>. DEFINE l == [loc[d] EXCEPT !.base = ledger]
    <3>1. Advance(d, "publish", l)
      BY <2>2 DEF ReadLedger
    <3>2. l.bundle = loc[d].bundle /\ l.old = loc[d].old /\ l.action = loc[d].action
      BY <1>0 DEF Locals
    <3>3. QED
      BY <1>4, <3>1, <3>2
  <2>3. CASE ReadReceipt(d) /\ Advance(d, "tail", loc[d])
    BY <1>4, <2>3
  <2>4. QED
    BY <1>5, <1>6, <2>1, <2>2, <2>3 DEF LedgerStep, ReadReceipt

\* A rollback reads what it restores (rollback_active).
LEMMA SlotRestores ==
  ASSUME TypeInv, NEW d \in Daemons, DaemonOK(d), UNCHANGED daemonVars,
         cmd[d] = "rollback", RollbackActive(d) \/ RollbackTarget(d)
  PROVE  DaemonOK(d)' /\ Others(d)
<1>0. /\ d \in Procs /\ loc[d] \in Locals
      /\ registry' = registry /\ job'[d] = job[d]
      /\ pc[d] \in {"rollback", "target"}
      /\ UNCHANGED <<active, prevActive, ledger>>
      /\ active \in Bundles /\ active # Absent /\ prevActive \in Pointer
      /\ RollbackOK(d) /\ RegistryBelow(active)
  BY DaemonsAssumption, LocTyped, DaemonVarsSame, BundlesAssumption
     DEF RollbackActive, RollbackTarget, pointers, DaemonOK, SlotOK, TypeInv, TypeOK, FilesOK
<1>1. /\ job[d].phase # "applying"
      /\ job[d].phase = "rollingBack" =>
           /\ WaitsForRollback(d) /\ prevActive = job[d].before
           /\ prevActive \in Bundles
  BY <1>0 DEF DaemonOK, KnowsOK, WaitsForApply, WaitsForRollback
<1>2. /\ RegistryBelow(active)'
      /\ \A b : RegistryBelow(b) => RegistryBelow(b)'
  BY <1>0 DEF RegistryBelow
<1>3. ASSUME NEW code, Finish(d, code), prevActive \in {Absent, Null}
      PROVE  DaemonOK(d)' /\ Others(d)
  <2>1. pc'[d] = "idle" /\ crashes' = crashes /\ Others(d)
    BY <1>0, <1>3, FinishEffect, ResultEffect
  <2>2. SlotOK(d)'
    BY <1>0, <1>2, <2>1 DEF SlotOK
  <2>3. job[d].phase # "rollingBack"
    BY <1>1, <1>3, BundlesAssumption
  <2>4. QED
    BY <1>0, <1>1, <2>1, <2>2, <2>3, SlotMoves
<1>4. CASE RollbackActive(d)
  <2>. DEFINE l == [loc[d] EXCEPT !.old = active, !.action = "ROLLBACK"]
  <2>1. l.action = "ROLLBACK"
    BY <1>0 DEF Locals
  <2>2. Advance(d, "target", l)
    BY <1>0, <1>4 DEF RollbackActive
  <2>. HIDE DEF l
  <2>3. /\ pc'[d] = "target" /\ cmd'[d] = "rollback" /\ loc'[d] = l /\ Others(d)
        /\ crashes' = crashes
    BY <1>0, <2>2, AdvanceEffect, ResultEffect
  <2>4. prevActive \in Bundles => RegistryBelow(prevActive)
    BY <1>0 DEF RollbackOK
  <2>5. prevActive' \in Bundles => RegistryBelow(prevActive)'
    BY <1>0, <2>4 DEF RegistryBelow
  <2>6. SlotOK(d)'
    BY <1>0, <1>2, <2>1, <2>3, <2>5 DEF SlotOK, RollbackOK
  <2>7. WaitsForRollback(d) => WaitsForRollback(d)'
    BY <1>0, <2>3 DEF WaitsForRollback, Swapped
  <2>8. QED
    BY <1>0, <1>1, <2>3, <2>6, <2>7, SlotMoves
<1>5. CASE RollbackTarget(d) /\ prevActive \notin {Absent, Null}
  <2>. DEFINE l == [loc[d] EXCEPT !.bundle = prevActive]
  <2>1. l.action = loc[d].action /\ l.bundle = prevActive
    BY <1>0 DEF Locals
  <2>2. Advance(d, "prev", l) /\ pc[d] = "target"
    BY <1>5 DEF RollbackTarget
  <2>. HIDE DEF l
  <2>3. /\ pc'[d] = "prev" /\ cmd'[d] = "rollback" /\ loc'[d] = l /\ Others(d)
        /\ crashes' = crashes
    BY <1>0, <2>2, AdvanceEffect, ResultEffect
  <2>4. RegistryBelow(prevActive) /\ loc[d].action = "ROLLBACK"
    BY <1>0, <1>5, <2>2 DEF RollbackOK, Pointer
  <2>5. RegistryBelow(loc[d].bundle)'
    BY <1>0, <2>1, <2>3, <2>4 DEF RegistryBelow
  <2>6. SlotOK(d)'
    BY <1>0, <1>2, <2>1, <2>3, <2>4, <2>5 DEF SlotOK, RollbackOK
  <2>7. job[d].phase = "rollingBack" => WaitsForRollback(d)'
    BY <1>0, <1>1, <2>1, <2>3 DEF WaitsForRollback, Swapped
  <2>8. QED
    BY <1>0, <1>1, <2>3, <2>6, <2>7, SlotMoves
<1>6. QED
  BY <1>3, <1>4, <1>5 DEF RollbackTarget

\* Whatever the command in the slot of the daemon does, and if it dies.
LEMMA SlotSteps ==
  ASSUME OneDaemon, TypeInv, OneInv, NEW d \in Daemons, Run(d) \/ Die(d),
         UNCHANGED daemonVars
  PROVE  OneInv'
<1>1. d \in Procs /\ DaemonOK(d) /\ pc[d] # "idle"
  <2>1. d \in Procs /\ DaemonOK(d)
    BY DaemonsAssumption DEF OneInv, DaemonOK
  <2>2. Run(d) /\ ~Acquire(d) => Busy(d)
    BY <2>1, RunEffect
  <2>3. QED
    BY <2>1, <2>2 DEF Busy, Acquire, Die
<1>2. CASE Die(d)
  <2>1. /\ UNCHANGED <<active, prevActive, ledger>> /\ Others(d)
        /\ pc'[d] = "idle" /\ result'[d] = "died" /\ crashes' # 0
    <3>1. UNCHANGED <<active, prevActive, ledger>> /\ result'[d] = "died"
      BY <1>1, <1>2 DEF Die, pointers, TypeInv, TypeOK, ProcessesOK
    <3>2. QED
      BY <1>1, <1>2, <3>1, EnvironmentEffect, ResultEffect
  <2>2. DaemonOK(d)'
    BY <1>1, <2>1, SlotQuiet
  <2>3. QED
    BY <2>1, <2>2, OneFrame
<1>3. CASE cmd[d] = "apply" /\ ApplyOK(d) /\ Run(d)
  <2>1. \/ Acquire(d) \/ StageStep(d) \/ VerifyStep(d) \/ CommitStaged(d)
        \/ CheckParent(d) \/ StoreBundle(d) \/ StoreCopy(d) \/ StoreReceipt(d)
        \/ SwapStep(d) \/ LedgerStep(d)
    BY <1>3 DEF Run, ApplyOK, ApplyPCs, SwapUp, Swapped, CommitStep, UpgradeStep, NotReady,
                Ready, Announce, RollbackStep, RollbackActive, RollbackTarget, ReadReceipt,
                AuditStep, AuditActive, AuditNext, AuditStore, AuditLedger
  <2>2. DaemonOK(d)' /\ Others(d)
    BY <1>1, <1>3, <2>1, ApplyBegins, ApplyStores, SlotSwaps, SlotRecords
  <2>3. QED
    BY <2>2, OneFrame
<1>4. CASE cmd[d] = "rollback" /\ RollbackOK(d) /\ Run(d)
  <2>1. \/ RollbackActive(d) \/ RollbackTarget(d) \/ ReadReceipt(d)
        \/ SwapStep(d) \/ LedgerStep(d)
    BY <1>4 DEF Run, RollbackOK, Swapped, Acquire, StageStep, StageReject, StageBundle,
                StageCopy, WriteStage, VerifyStep, VerifyStaged, RunKernel, CanaryStaged,
                CommitStep, CommitStaged, CheckParent, StoreBundle, StoreCopy, StoreReceipt,
                UpgradeStep, NotReady, Ready, Announce, RollbackStep,
                AuditStep, AuditActive, AuditNext, AuditStore, AuditLedger
  <2>2. DaemonOK(d)' /\ Others(d)
    BY <1>1, <1>4, <2>1, SlotRestores, SlotSwaps, SlotRecords
  <2>3. QED
    BY <2>2, OneFrame
<1>5. QED
  BY <1>1, <1>2, <1>3, <1>4 DEF DaemonOK, SlotOK

-----------------------------------------------------------------------------
(* The daemon *)

\* What the daemon does by itself leaves its slot alone.
EngineSame ==
  UNCHANGED <<active, prevActive, ledger, pc, cmd, loc, result, crashes>>

LEMMA EngineUnchanged == UNCHANGED engine => EngineSame
BY DEF engine, vars, pointers, EngineSame

\* Nothing runs in its slot, and what was active stays active.
LEMMA DaemonFrame ==
  ASSUME OneInv, NEW d \in Daemons, DaemonInv, EngineSame,
         NEW j \in Job, job' = [job EXCEPT ![d] = j]
  PROVE  /\ DaemonOK(d) /\ active \in Bundles /\ active # Absent /\ ActiveHash = active
         /\ job[d] \in Job /\ job'[d] = j
         /\ registry' = registry => SlotOK(d)'
         /\ \A b : RegistryBelow(b) /\ registry' = registry => RegistryBelow(b)'
         /\ \A b, o : CommitRecorded(b, o) => CommitRecorded(b, o)'
         /\ Landed(job[d]) /\ j.before = job[d].before => Landed(j)'
<1>1. DaemonOK(d) /\ active \in Bundles /\ active # Absent
  BY BundlesAssumption DEF OneInv, DaemonOK, SlotOK
<1>2. job[d] \in Job /\ job'[d] = j
  BY DEF DaemonInv, ActivatorTypeOK
<1>3. \A b : RegistryBelow(b) /\ registry' = registry => RegistryBelow(b)'
  BY DEF RegistryBelow
<1>4. \A b, o : CommitRecorded(b, o) => CommitRecorded(b, o)'
  BY DEF CommitRecorded, EngineSame
<1>5. registry' = registry => SlotOK(d)'
  <2>1. SUFFICES ASSUME registry' = registry PROVE SlotOK(d)'
    OBVIOUS
  <2>2. RegistryBelow(active)'
    BY <2>1 DEF DaemonOK, OneInv, SlotOK, EngineSame, RegistryBelow
  <2>3. ApplyOK(d) => ApplyOK(d)'
    BY DEF ApplyOK, EngineSame
  <2>4. RollbackOK(d) => RollbackOK(d)'
    BY <2>1, <1>3 DEF RollbackOK, EngineSame
  <2>5. QED
    BY <2>2, <2>3, <2>4, <1>1 DEF DaemonOK, SlotOK, EngineSame
<1>6. Landed(job[d]) /\ j.before = job[d].before => Landed(j)'
  BY DEF Landed, CommitRecorded, EngineSame
<1>7. QED
  BY <1>1, <1>2, <1>3, <1>4, <1>5, <1>6 DEF ActiveHash

\* A new tick, and the bundle that is built on top of the active one
\* (run_promotion, _build_meta_core_activation_bundle).
LEMMA OnePromotes ==
  ASSUME OneDaemon, DaemonInv, Home, OneInv, ~beside', NEW d \in Daemons,
         Build(d) \/ \E b \in Bundles : AlreadyActive(d, b) \/ Promote(d, b)
  PROVE  OneInv'
<1>1. EngineSame /\ registry' = registry
  BY EngineUnchanged DEF Build, AlreadyActive, Promote, NewTick
<1>2. CASE Build(d)
  <2>. DEFINE begin == [job[d] EXCEPT !.phase = "begin"]
  <2>1. job[d] \in Job /\ begin \in Job
    BY DEF DaemonInv, ActivatorTypeOK, Job, Phases
  <2>2. PICK j \in {begin, NoJob} :
          /\ job' = [job EXCEPT ![d] = j]
          /\ j = begin => Parent[job[d].bundle] = active
    <3>1. begin # NoJob
      BY <2>1 DEF Job, NoJob
    <3>2. QED
      BY <1>2, <3>1 DEF Build, Goto
  <2>3. /\ j \in Job /\ job[d].phase = "build"
        /\ j.phase \in {"begin", "idle"}
        /\ j.phase = "begin" => Parent[j.bundle] = active
    BY <1>2, <2>1, <2>2, NoJobType DEF Build, Job, NoJob
  <2>4. SlotOK(d)' /\ job'[d] = j /\ DaemonOK(d)
    BY <1>1, <2>2, <2>3, DaemonFrame
  <2>5. UNCHANGED <<activation, undone, returned>>
    BY <1>2 DEF Build, receiptVars
  <2>6. KnowsOK(d)'
    BY <1>1, <2>3, <2>4 DEF DaemonOK, KnowsOK, Unpublished, EngineSame
  <2>7. ReceiptsOK(d)'
    BY <1>1, <2>3, <2>4, <2>5 DEF DaemonOK, ReceiptsOK, EngineSame, Phases
  <2>8. QED
    BY <1>1, <2>4, <2>6, <2>7, OneFrame DEF DaemonOK, EngineSame
<1>3. CASE \E b \in Bundles : AlreadyActive(d, b) \/ Promote(d, b)
  <2>1. PICK b \in Bundles : AlreadyActive(d, b) \/ Promote(d, b)
    BY <1>3
  <2>. DEFINE new == [NoJob EXCEPT !.phase = "build", !.bundle = b]
  <2>2. /\ job[d] \in Job /\ job[d].phase = "idle" /\ pc[d] = "idle"
        /\ activation'[d] = Absent /\ undone'[d] = Absent
        /\ new \in Job /\ new.phase = "build"
        /\ \/ job' = [job EXCEPT ![d] = job[d]] /\ returned'[d] = active
           \/ job' = [job EXCEPT ![d] = new] /\ returned'[d] = Absent
    <3>1. new \in Job /\ new.phase = "build"
      BY NoJobType DEF Job, Phases, BundleOrAbsent
    <3>2. job[d] \in Job /\ job = [job EXCEPT ![d] = job[d]]
      BY DEF DaemonInv, ActivatorTypeOK
    <3>3. /\ job[d].phase = "idle" /\ pc[d] = "idle"
          /\ activation'[d] = Absent /\ undone'[d] = Absent
      <4>1. Exited(d)
        BY <2>1, SlotTakes
      <4>2. QED
        BY <2>1, <4>1
           DEF AlreadyActive, Promote, NewTick, Exited, Home, DaemonInv, ActivatorTypeOK
    <3>4. \/ job' = job /\ returned'[d] = active
          \/ job' = [job EXCEPT ![d] = new] /\ returned'[d] = Absent
      BY <2>1 DEF AlreadyActive, Promote, NewTick, DaemonInv, ActivatorTypeOK
    <3>. HIDE DEF new
    <3>5. QED
      BY <3>1, <3>2, <3>3, <3>4
  <2>. HIDE DEF new
  <2>3. PICK j \in Job :
          /\ job' = [job EXCEPT ![d] = j]
          /\ \/ j.phase = "idle" /\ returned'[d] = active
             \/ j.phase = "build" /\ returned'[d] = Absent
    BY <2>2
  <2>4. SlotOK(d)' /\ job'[d] = j /\ DaemonOK(d)
    BY <1>1, <2>3, DaemonFrame
  <2>5. KnowsOK(d)'
    BY <1>1, <2>2, <2>3, <2>4 DEF DaemonOK, KnowsOK, Unpublished, EngineSame
  <2>6. ReceiptsOK(d)'
    BY <1>1, <2>2, <2>3, <2>4 DEF DaemonOK, ReceiptsOK, EngineSame
  <2>7. QED
    BY <1>1, <2>4, <2>5, <2>6, OneFrame DEF DaemonOK, EngineSame
<1>4. QED
  BY <1>2, <1>3

\* The active hash is read, and meta-core applies the bundle (run_activation,
\* _run_meta_core_apply): nothing has changed since the bundle was built.
LEMMA OneApplies ==
  ASSUME OneDaemon, TypeInv, DaemonInv, Home, OneInv, NEW d \in Daemons,
         Begin(d) \/ Apply(d) \/ DoNotApply(d) \/ Applied(d)
  PROVE  OneInv'
<1>0. /\ d \in Procs /\ job[d] \in Job /\ DaemonOK(d) /\ registry' = registry
      /\ active \in Bundles /\ ActiveHash = active
      /\ UNCHANGED <<activation, undone, returned>>
  BY DaemonsAssumption, BundlesAssumption
     DEF DaemonInv, ActivatorTypeOK, OneInv, DaemonOK, SlotOK, ActiveHash,
         Begin, Apply, Launch, DoNotApply, Applied, receiptVars
<1>1. CASE Begin(d)
  <2>1. PICK healthy \in BOOLEAN :
          job' = [job EXCEPT ![d].phase = "compare", ![d].before = ActiveHash,
                             ![d].health = healthy]
    BY <1>1 DEF Begin
  <2>2. PICK j \in Job :
          /\ job' = [job EXCEPT ![d] = j]
          /\ j.phase = "compare" /\ j.before = active /\ j.bundle = job[d].bundle
    <3>. DEFINE j == [job[d] EXCEPT !.phase = "compare", !.before = active,
                                    !.health = healthy]
    <3>1. /\ j \in Job /\ j.phase = "compare" /\ j.before = active
          /\ j.bundle = job[d].bundle
      BY <1>0 DEF Job, Phases, Pointer
    <3>2. job' = [job EXCEPT ![d] = j]
      BY <1>0, <2>1 DEF DaemonInv, ActivatorTypeOK
    <3>. HIDE DEF j
    <3>3. QED
      BY <3>1, <3>2
  <2>4. EngineSame /\ job[d].phase = "begin"
    BY <1>1, EngineUnchanged DEF Begin
  <2>5. SlotOK(d)' /\ job'[d] = j
    BY <1>0, <2>2, <2>4, DaemonFrame
  <2>6. KnowsOK(d)'
    BY <1>0, <2>2, <2>4, <2>5
       DEF DaemonOK, SlotOK, KnowsOK, Unpublished, EngineSame, RegistryBelow
  <2>7. ReceiptsOK(d)'
    BY <1>0, <2>2, <2>4, <2>5 DEF DaemonOK, ReceiptsOK, EngineSame, Phases
  <2>8. QED
    BY <2>4, <2>5, <2>6, <2>7, OneFrame DEF DaemonOK, EngineSame
<1>2. CASE Apply(d)
  <2>. DEFINE j == [job[d] EXCEPT !.phase = "applying"]
  <2>1. /\ j.phase = "applying" /\ j.before = job[d].before /\ j.bundle = job[d].bundle
        /\ job'[d] = j /\ job[d].phase = "compare"
    BY <1>0, <1>2 DEF Apply, Goto, DaemonInv, ActivatorTypeOK, Job
  <2>. HIDE DEF j
  <2>2. /\ pc'[d] = "lock" /\ cmd'[d] = "apply" /\ Others(d)
        /\ UNCHANGED <<active, prevActive, ledger, crashes>>
    BY <1>0, <1>2, EnvironmentEffect
       DEF Apply, Launch, Home, Start, Entrance, LockedCommands, pointers, TypeInv, TypeOK,
           ProcessesOK, Others
  <2>3. SlotOK(d)'
    BY <1>0, <2>2
       DEF DaemonOK, SlotOK, ApplyOK, ApplyPCs, SwapUp, Swapped, RegistryBelow
  <2>4. WaitsForApply(d)'
    BY <1>0, <2>1, <2>2 DEF DaemonOK, KnowsOK, WaitsForApply, ApplyPCs, SwapUp, Swapped
  <2>5. KnowsOK(d)'
    BY <1>0, <2>1, <2>2, <2>4 DEF DaemonOK, KnowsOK, Unpublished, RegistryBelow
  <2>6. ReceiptsOK(d)'
    BY <1>0, <2>1, <2>2 DEF DaemonOK, ReceiptsOK, Phases
  <2>7. QED
    BY <2>2, <2>3, <2>5, <2>6, OneFrame DEF DaemonOK
<1>3. CASE DoNotApply(d)
  BY <1>0, <1>3 DEF DoNotApply, DaemonOK, KnowsOK
<1>4. CASE Applied(d)
  <2>1. PICK j \in Job :
          /\ job' = [job EXCEPT ![d] = j]
          /\ j.phase = "reread" /\ j.applied = (result[d] = "ok")
          /\ j.before = job[d].before /\ j.bundle = job[d].bundle
    <3>. DEFINE j == [job[d] EXCEPT !.phase = "reread", !.applied = (result[d] = "ok")]
    <3>1. /\ j \in Job /\ j.phase = "reread" /\ j.applied = (result[d] = "ok")
          /\ j.before = job[d].before /\ j.bundle = job[d].bundle
      BY <1>0 DEF Job, Phases
    <3>2. job' = [job EXCEPT ![d] = j]
      BY <1>4 DEF Applied, Home, DaemonInv, ActivatorTypeOK
    <3>. HIDE DEF j
    <3>3. QED
      BY <3>1, <3>2
  <2>3. EngineSame /\ job[d].phase = "applying" /\ pc[d] = "idle"
    BY <1>4, EngineUnchanged DEF Applied, Exited, Home
  <2>4. SlotOK(d)' /\ job'[d] = j /\ (Landed(job[d]) => Landed(j)')
    BY <1>0, <2>1, <2>3, DaemonFrame
  <2>5. WaitsForApply(d)
    BY <1>0, <2>3 DEF DaemonOK, KnowsOK
  <2>6. (j.applied => Landed(j)') /\ (~j.applied /\ crashes' = 0 => active' = j.before)
    BY <2>1, <2>3, <2>4, <2>5 DEF WaitsForApply, EngineSame
  <2>7. KnowsOK(d)'
    BY <1>0, <2>1, <2>3, <2>4, <2>6
       DEF DaemonOK, KnowsOK, Unpublished, EngineSame, RegistryBelow, Landed, CommitRecorded
  <2>8. ReceiptsOK(d)'
    BY <1>0, <2>1, <2>3, <2>4 DEF DaemonOK, ReceiptsOK, EngineSame, Phases
  <2>9. QED
    BY <2>3, <2>4, <2>7, <2>8, OneFrame DEF DaemonOK, EngineSame
<1>5. QED
  BY <1>1, <1>2, <1>3, <1>4

\* What was applied is compared and gated; the module is registered while its
\* bundle is active (_binding_matches_after_bundle, _native_activation_gate,
\* _update_active_native_registry).
LEMMA OneGates ==
  ASSUME OneDaemon, DaemonInv, OneInv, NEW d \in Daemons,
         Reread(d) \/ Gate(d) \/ PublishRoute(d)
  PROVE  OneInv'
<1>0. /\ job[d] \in Job /\ DaemonOK(d)
      /\ active \in Bundles /\ ActiveHash = active
      /\ EngineSame /\ UNCHANGED <<activation, undone, returned>>
      /\ job[d].phase \in {"reread", "gate", "publish"}
  <2>1. job[d] \in Job /\ DaemonOK(d) /\ active \in Bundles
    BY DEF DaemonInv, ActivatorTypeOK, OneInv, DaemonOK, SlotOK
  <2>2. ActiveHash = active
    BY <2>1, BundlesAssumption DEF ActiveHash
  <2>3. EngineSame /\ UNCHANGED <<activation, undone, returned>>
    BY EngineUnchanged DEF Reread, Gate, PublishRoute, receiptVars
  <2>4. job[d].phase \in {"reread", "gate", "publish"}
    <3>1. CASE Reread(d)
      BY <2>1, <3>1 DEF Reread, Job
    <3>2. CASE Gate(d) \/ PublishRoute(d)
      BY <3>2 DEF Gate, PublishRoute
    <3>3. QED
      BY <3>1, <3>2
  <2>5. QED
    BY <2>1, <2>2, <2>3, <2>4
<1>1. CASE Reread(d)
  <2>1. PICK j \in Job :
          /\ job' = [job EXCEPT ![d] = j]
          /\ j.after = active /\ j.before = job[d].before /\ j.bundle = job[d].bundle
          /\ j.applied = job[d].applied /\ j.health = job[d].health
          /\ \/ j.phase = "report"
             \/ j.phase = "gate" /\ j.health /\ active = j.bundle
    <3>. DEFINE r == [job[d] EXCEPT !.after = ActiveHash]
    <3>1. PICK bound \in IF r.applied /\ Changed(r)
                         THEN BindingMatches(r.bundle, r.after) ELSE {TRUE} :
            job' = [job EXCEPT ![d] =
                      [r EXCEPT !.bound = bound,
                                !.phase = IF /\ r.applied /\ bound /\ Changed(r)
                                             /\ r.health /\ r.bundle \in Native
                                          THEN "gate" ELSE "report"]]
      BY <1>1 DEF Reread
    <3>2. /\ r \in Job /\ r.after = active /\ r.before = job[d].before
          /\ r.bundle = job[d].bundle /\ r.applied = job[d].applied
          /\ r.health = job[d].health
      BY <1>0 DEF Job, Pointer
    <3>. HIDE DEF r
    <3>3. bound \in BOOLEAN /\ (r.applied /\ bound /\ Changed(r) => active = r.bundle)
      BY <3>1, <3>2 DEF BindingMatches
    <3>4. PICK f \in {"gate", "report"} :
            /\ job' = [job EXCEPT ![d] = [r EXCEPT !.bound = bound, !.phase = f]]
            /\ f = "gate" => r.applied /\ bound /\ Changed(r) /\ r.health
      BY <3>1
    <3>. DEFINE j == [r EXCEPT !.bound = bound, !.phase = f]
    <3>5. /\ j \in Job /\ j.phase = f /\ j.after = r.after /\ j.before = r.before
          /\ j.bundle = r.bundle /\ j.applied = r.applied /\ j.health = r.health
      BY <3>2, <3>3 DEF Job, Phases
    <3>. HIDE DEF j
    <3>6. QED
      BY <3>2, <3>3, <3>4, <3>5 DEF j
  <2>2. registry' = registry /\ job[d].phase = "reread"
    BY <1>0, <1>1 DEF Reread, Job
  <2>3. SlotOK(d)' /\ job'[d] = j /\ (Landed(job[d]) => Landed(j)')
    BY <1>0, <2>1, <2>2, DaemonFrame
  <2>4. KnowsOK(d)'
    BY <1>0, <2>1, <2>2, <2>3
       DEF DaemonOK, KnowsOK, Unpublished, EngineSame, RegistryBelow, Landed, CommitRecorded
  <2>5. ReceiptsOK(d)'
    BY <1>0, <2>1, <2>2, <2>3 DEF DaemonOK, ReceiptsOK, EngineSame, Phases
  <2>6. QED
    BY <1>0, <2>3, <2>4, <2>5, OneFrame DEF DaemonOK, EngineSame
<1>2. CASE Gate(d)
  <2>1. PICK j \in Job :
          /\ job' = [job EXCEPT ![d] = j]
          /\ j.after = job[d].after /\ j.before = job[d].before
          /\ j.bundle = job[d].bundle /\ j.applied = job[d].applied
          /\ \/ j.phase = "report" /\ ~j.health
             \/ j.phase = "publish" /\ j.health = job[d].health /\ j.routes = registry
    <3>. DEFINE failed == [job[d] EXCEPT !.phase = "report", !.health = FALSE]
                passed == [job[d] EXCEPT !.phase = "publish", !.routes = registry]
    <3>1. /\ failed \in Job /\ failed.phase = "report" /\ ~failed.health
          /\ failed.after = job[d].after /\ failed.before = job[d].before
          /\ failed.bundle = job[d].bundle /\ failed.applied = job[d].applied
      BY <1>0 DEF Job, Phases
    <3>2. /\ passed \in Job /\ passed.phase = "publish" /\ passed.routes = registry
          /\ passed.health = job[d].health
          /\ passed.after = job[d].after /\ passed.before = job[d].before
          /\ passed.bundle = job[d].bundle /\ passed.applied = job[d].applied
      BY <1>0 DEF Job, Phases, DaemonInv, ActivatorTypeOK
    <3>3. \/ job' = [job EXCEPT ![d] = failed]
          \/ job' = [job EXCEPT ![d] = passed]
      BY <1>2 DEF Gate, DaemonInv, ActivatorTypeOK
    <3>. HIDE DEF failed, passed
    <3>4. QED
      BY <3>1, <3>2, <3>3
  <2>2. registry' = registry /\ job[d].phase = "gate"
    BY <1>2 DEF Gate
  <2>3. SlotOK(d)' /\ job'[d] = j /\ (Landed(job[d]) => Landed(j)')
    BY <1>0, <2>1, <2>2, DaemonFrame
  <2>4. KnowsOK(d)'
    BY <1>0, <2>1, <2>2, <2>3
       DEF DaemonOK, KnowsOK, Unpublished, EngineSame, RegistryBelow, Landed, CommitRecorded
  <2>5. ReceiptsOK(d)'
    BY <1>0, <2>1, <2>2, <2>3 DEF DaemonOK, ReceiptsOK, EngineSame, Phases
  <2>6. QED
    BY <1>0, <2>3, <2>4, <2>5, OneFrame DEF DaemonOK, EngineSame
<1>3. CASE PublishRoute(d)
  <2>1. PICK j \in Job :
          /\ job' = [job EXCEPT ![d] = j]
          /\ j.phase = "report" /\ j.health = job[d].health
          /\ j.after = job[d].after /\ j.before = job[d].before
          /\ j.bundle = job[d].bundle /\ j.applied = job[d].applied
    <3>. DEFINE j == [job[d] EXCEPT !.phase = "report"]
    <3>1. /\ j \in Job /\ j.phase = "report" /\ j.health = job[d].health
          /\ j.after = job[d].after /\ j.before = job[d].before
          /\ j.bundle = job[d].bundle /\ j.applied = job[d].applied
      BY <1>0 DEF Job, Phases
    <3>2. job' = [job EXCEPT ![d] = j]
      BY <1>3 DEF PublishRoute, Goto
    <3>. HIDE DEF j
    <3>3. QED
      BY <3>1, <3>2
  <2>2. /\ job[d].phase = "publish" /\ job[d].routes = registry /\ job[d].health
        /\ job[d].bundle = active /\ registry \in Routes /\ pc[d] = "idle"
    BY <1>0, <1>3
       DEF PublishRoute, DaemonOK, KnowsOK, DaemonInv, ActivatorTypeOK
  <2>3. job'[d] = j /\ (Landed(job[d]) => Landed(j)')
    BY <1>0, <2>1, DaemonFrame
  <2>4. SlotOK(d)'
    <3>1. ASSUME NEW o \in Ops, registry'[o] # Absent
          PROVE  registry'[o] \in Lineage(active)
      <4>1. registry' = [registry EXCEPT ![Op[active]] = active]
        BY <1>3, <2>2 DEF PublishRoute
      <4>2. CASE o = Op[active]
        <5>1. registry'[o] = active
          BY <2>2, <4>1, <4>2 DEF Routes
        <5>2. QED
          BY <1>0, <5>1, OwnLineage
      <4>3. CASE o # Op[active]
        <5>1. registry'[o] = registry[o]
          BY <2>2, <4>1, <4>3 DEF Routes
        <5>2. QED
          BY <1>0, <3>1, <5>1 DEF DaemonOK, SlotOK, RegistryBelow
      <4>4. QED
        BY <4>2, <4>3
    <3>2. RegistryBelow(active)'
      BY <1>0, <3>1 DEF RegistryBelow, EngineSame
    <3>3. QED
      BY <1>0, <2>2, <3>2 DEF SlotOK, EngineSame
  <2>5. KnowsOK(d)'
    <3>1. j.applied => Landed(j)'
      BY <1>0, <2>1, <2>2, <2>3 DEF DaemonOK, KnowsOK
    <3>2. /\ j.before \in Bundles /\ j.before = Parent[j.bundle]
          /\ (~j.applied /\ crashes = 0 => active = j.before)
          /\ j.after = active /\ ~Unpublished(j)
      BY <1>0, <2>1, <2>2 DEF DaemonOK, KnowsOK, Unpublished
    <3>3. QED
      BY <1>0, <2>1, <2>2, <2>3, <3>1, <3>2 DEF KnowsOK, EngineSame, Unpublished
  <2>6. ReceiptsOK(d)'
    BY <1>0, <2>1, <2>2, <2>3 DEF DaemonOK, ReceiptsOK, EngineSame, Phases
  <2>7. QED
    BY <1>0, <2>3, <2>4, <2>5, <2>6, OneFrame DEF DaemonOK, EngineSame
<1>4. QED
  BY <1>1, <1>2, <1>3

\* The receipt of the activation is written, and an unhealthy one rolled back
\* (run_activation, _run_meta_core_rollback).
LEMMA OneReports ==
  ASSUME OneDaemon, TypeInv, DaemonInv, Home, OwnInv, OneInv, NEW d \in Daemons,
         WriteActivation(d) \/ RollBack(d)
  PROVE  OneInv'
<1>0. /\ d \in Procs /\ job[d] \in Job /\ DaemonOK(d) /\ active \in Bundles
      /\ UNCHANGED <<registry, undone, returned>>
  BY DaemonsAssumption
     DEF DaemonInv, ActivatorTypeOK, OneInv, DaemonOK, SlotOK, WriteActivation, RollBack,
         Launch, receiptVars
<1>1. CASE WriteActivation(d)
  <2>1. PICK j \in Job :
          /\ job' = [job EXCEPT ![d] = j]
          /\ j.phase = IF job[d].health THEN "final" ELSE "undo"
          /\ j.health = job[d].health
          /\ j.after = job[d].after /\ j.before = job[d].before
          /\ j.bundle = job[d].bundle /\ j.applied = job[d].applied
    <3>. DEFINE f == IF job[d].health THEN "final" ELSE "undo"
                j == [job[d] EXCEPT !.phase = f]
    <3>1. /\ j \in Job /\ j.phase = f /\ j.health = job[d].health
          /\ j.after = job[d].after /\ j.before = job[d].before
          /\ j.bundle = job[d].bundle /\ j.applied = job[d].applied
      BY <1>0 DEF Job, Phases
    <3>2. job' = [job EXCEPT ![d] = j]
      BY <1>1 DEF WriteActivation, Goto
    <3>. HIDE DEF j
    <3>3. QED
      BY <3>1, <3>2
  <2>2. /\ job[d].phase = "report" /\ EngineSame /\ pc[d] = "idle"
        /\ job[d].after = active
    BY <1>0, <1>1, EngineUnchanged DEF WriteActivation, DaemonOK, KnowsOK
  <2>3. SlotOK(d)' /\ job'[d] = j /\ (Landed(job[d]) => Landed(j)')
    BY <1>0, <2>1, <2>2, DaemonFrame
  <2>4. KnowsOK(d)'
    BY <1>0, <2>1, <2>2, <2>3
       DEF DaemonOK, KnowsOK, Unpublished, EngineSame, RegistryBelow, Landed, CommitRecorded,
           Job
  <2>5. /\ activation'[d].bundle = job[d].bundle
        /\ activation'[d].before = job[d].before
        /\ activation'[d].success = Succeeds(job[d])
        /\ \A b, o : CommitRecorded(b, o) => CommitRecorded(b, o)'
    <3>. DEFINE k == job[d]
                r == [bundle |-> k.bundle, before |-> k.before, after |-> k.after,
                      health |-> k.health, success |-> Succeeds(k)]
    <3>1. activation'[d] = r
      BY <1>1 DEF WriteActivation, DaemonInv, ActivatorTypeOK
    <3>2. QED
      BY <2>2, <3>1 DEF CommitRecorded, EngineSame
  <2>6. Succeeds(job[d]) => CommitRecorded(job[d].bundle, job[d].before) /\ job[d].health
    <3>1. JobOK(job[d], stored)
      BY DEF OwnInv
    <3>2. Succeeds(job[d]) => job[d].after = job[d].bundle /\ Landed(job[d]) /\ job[d].health
      BY <1>0, <2>2, <3>1 DEF Succeeds, JobOK, BeforeApply, DaemonOK, KnowsOK
    <3>3. QED
      BY <2>2, <3>2 DEF Landed
  <2>7. ReceiptsOK(d)'
    BY <1>0, <2>1, <2>2, <2>3, <2>5, <2>6
       DEF DaemonOK, ReceiptsOK, EngineSame, Phases, CommitRecorded
  <2>8. QED
    BY <2>2, <2>3, <2>4, <2>7, OneFrame DEF DaemonOK, EngineSame
<1>2. CASE RollBack(d)
  <2>1. PICK j \in Job :
          /\ job' = [job EXCEPT ![d] = j]
          /\ j.phase = "rollingBack"
          /\ j.after = job[d].after /\ j.before = job[d].before
          /\ j.bundle = job[d].bundle /\ j.applied = job[d].applied
    <3>. DEFINE j == [job[d] EXCEPT !.phase = "rollingBack"]
    <3>1. /\ j \in Job /\ j.phase = "rollingBack"
          /\ j.after = job[d].after /\ j.before = job[d].before
          /\ j.bundle = job[d].bundle /\ j.applied = job[d].applied
      BY <1>0 DEF Job, Phases
    <3>2. job' = [job EXCEPT ![d] = j]
      BY <1>2 DEF RollBack, Goto
    <3>. HIDE DEF j
    <3>3. QED
      BY <3>1, <3>2
  <2>2. /\ job'[d] = j /\ activation'[d] = activation[d]
        /\ job[d].phase = "undo" /\ prevActive = job[d].before
        /\ RegistryBelow(job[d].before) /\ ~activation[d].success
    BY <1>0, <1>2, <2>1
       DEF RollBack, Launch, receiptVars, DaemonInv, ActivatorTypeOK, DaemonOK, KnowsOK, Landed,
           Unpublished, ReceiptsOK
  <2>3. /\ pc'[d] = "rollback" /\ cmd'[d] = "rollback" /\ Others(d)
        /\ UNCHANGED <<active, prevActive, ledger, crashes>>
    BY <1>0, <1>2, EnvironmentEffect
       DEF RollBack, Launch, Home, Start, Entrance, LockedCommands, pointers, TypeInv, TypeOK,
           ProcessesOK, Others
  <2>4. SlotOK(d)'
    BY <1>0, <2>2, <2>3 DEF DaemonOK, SlotOK, RollbackOK, Swapped, RegistryBelow
  <2>5. WaitsForRollback(d)'
    BY <2>1, <2>2, <2>3 DEF WaitsForRollback, Swapped
  <2>6. KnowsOK(d)'
    BY <1>0, <2>1, <2>2, <2>3, <2>5 DEF DaemonOK, KnowsOK, Unpublished
  <2>7. ReceiptsOK(d)'
    BY <1>0, <2>1, <2>2, <2>3 DEF DaemonOK, ReceiptsOK, Phases
  <2>8. QED
    BY <2>3, <2>4, <2>6, <2>7, OneFrame DEF DaemonOK
<1>3. QED
  BY <1>1, <1>2

\* The activation ends: what it returns is active, unless a command has died
\* (run_activation); a daemon that is killed returns nothing.
LEMMA OneEnds ==
  ASSUME OneDaemon, DaemonInv, Home, OneInv, NEW d \in Daemons,
         Final(d) \/ NothingToRollBack(d) \/ RolledBack(d) \/ Kill(d)
  PROVE  OneInv'
<1>0. /\ job[d] \in Job /\ DaemonOK(d) /\ active \in Bundles /\ ActiveHash = active
      /\ EngineSame /\ UNCHANGED <<registry, activation>>
      /\ job' = [job EXCEPT ![d] = NoJob]
      /\ NoJob \in Job /\ NoJob.phase = "idle"
      /\ job[d].phase # "idle"
  BY BundlesAssumption, EngineUnchanged, NoJobType
     DEF DaemonInv, ActivatorTypeOK, OneInv, DaemonOK, SlotOK, ActiveHash, Final,
         NothingToRollBack, RolledBack, Undone, Kill, receiptVars
<1>1. SlotOK(d)' /\ job'[d] = NoJob
  BY <1>0, DaemonFrame
<1>2. KnowsOK(d)'
  BY <1>0, <1>1 DEF KnowsOK, Unpublished
<1>3. CASE Kill(d)
  <2>1. UNCHANGED <<undone, returned>>
    BY <1>3 DEF Kill, receiptVars
  <2>2. ReceiptsOK(d)'
    BY <1>0, <1>1, <2>1 DEF DaemonOK, ReceiptsOK, EngineSame, CommitRecorded
  <2>3. QED
    BY <1>0, <1>1, <1>2, <2>2, OneFrame DEF DaemonOK, EngineSame
<1>4. CASE ~Kill(d)
  <2>1. /\ job[d].phase \in {"final", "undo", "rollingBack"} /\ pc[d] = "idle"
    BY <1>0, <1>4 DEF Final, NothingToRollBack, RolledBack, Exited, Home, DaemonOK, KnowsOK
  <2>2. crashes = 0 => returned'[d] = active
    <3>1. CASE Final(d) \/ RolledBack(d)
      BY <1>0, <3>1 DEF Final, RolledBack, Undone, DaemonInv, ActivatorTypeOK
    <3>2. CASE NothingToRollBack(d)
      <4>1. /\ job[d].phase = "undo" /\ job[d].after = active
            /\ ~(job[d].applied /\ Changed(job[d]))
            /\ returned'[d] = job[d].before
        BY <1>0, <3>2
           DEF NothingToRollBack, Undone, DaemonInv, ActivatorTypeOK, DaemonOK, KnowsOK
      <4>2. crashes = 0 => job[d].before = active
        BY <1>0, <4>1 DEF Changed, DaemonOK, KnowsOK, Job
      <4>3. QED
        BY <4>1, <4>2
    <3>3. QED
      BY <1>0, <1>4, <3>1, <3>2
  <2>3. undone'[d] # undone[d] /\ crashes = 0 => active = Parent[job[d].bundle]
    <3>1. CASE Final(d)
      BY <3>1 DEF Final
    <3>2. CASE NothingToRollBack(d) \/ RolledBack(d)
      <4>1. crashes = 0 => active = job[d].before
        BY <1>0, <2>1, <2>2, <3>2
           DEF NothingToRollBack, RolledBack, Undone, Changed, DaemonInv, ActivatorTypeOK,
               DaemonOK, KnowsOK, WaitsForRollback
      <4>2. job[d].before = Parent[job[d].bundle]
        BY <1>0, <2>1 DEF DaemonOK, KnowsOK
      <4>3. QED
        BY <4>1, <4>2
    <3>3. QED
      BY <1>4, <3>1, <3>2
  <2>4. /\ undone[d] # Absent => crashes # 0
        /\ activation[d].bundle = job[d].bundle
    BY <1>0, <2>1 DEF DaemonOK, ReceiptsOK
  <2>5. active # Absent
    BY <1>0, BundlesAssumption
  <2>6. ReceiptsOK(d)'
    BY <1>0, <1>1, <2>1, <2>2, <2>3, <2>4, <2>5
       DEF DaemonOK, ReceiptsOK, EngineSame, CommitRecorded
  <2>7. QED
    BY <1>0, <1>1, <1>2, <2>6, OneFrame DEF DaemonOK, EngineSame
<1>5. QED
  BY <1>3, <1>4

-----------------------------------------------------------------------------

\* Every step of one daemon over meta-core keeps the invariant, unless a tick
\* begins beside a command that was left behind.
LEMMA OneStep ==
  ASSUME OneDaemon, TypeInv, DaemonInv, OwnInv, Home, OneInv, [ActivatorNext]_allVars,
         ~beside'
  PROVE  OneInv'
<1>1. CASE UNCHANGED allVars
  <2>1. UNCHANGED <<pc, cmd, loc>> /\ \A d \in Daemons : Untouched(d)
    BY <1>1 DEF allVars, vars, pointers, Untouched
  <2>2. \A d \in Daemons : DaemonOK(d)'
    BY <2>1, UntouchedKeeps DEF OneInv, DaemonOK
  <2>3. QED
    BY <2>1, <2>2 DEF OneInv, ByHandOK, DaemonOK
<1>2. ASSUME NEW d \in Daemons, \E b \in Bundles : AlreadyActive(d, b) \/ Promote(d, b)
      PROVE  OneInv'
  BY <1>2, OnePromotes
<1>3. ASSUME NEW d \in Daemons, Step(d) \/ Kill(d)
      PROVE  OneInv'
  BY <1>3, OnePromotes, OneApplies, OneGates, OneReports, OneEnds DEF Step, Undo
<1>4. ASSUME NEW p \in Procs, NEW c \in Manual, NEW b \in BundleOrAbsent, ByHand(p, c, b)
      PROVE  OneInv'
  BY <1>4, HandStarts
<1>5. CASE MetaCore
  <2>1. PICK p \in Procs : Run(p) \/ Die(p)
    BY <1>5 DEF MetaCore
  <2>2. UNCHANGED daemonVars
    BY <1>5 DEF MetaCore
  <2>3. QED
    BY <2>1, <2>2, HandKeeps, SlotSteps
<1>6. QED
  BY <1>1, <1>2, <1>3, <1>4, <1>5 DEF ActivatorNext

\* The invariant of one daemon, as long as no tick has begun beside a command of a
\* killed one.
Undivided == ~beside => Home /\ OneInv

LEMMA OneNext ==
  ASSUME OneDaemon
  PROVE  TypeInv /\ DaemonInv /\ OwnInv /\ Undivided /\ [ActivatorNext]_allVars => Undivided'
<1>. SUFFICES ASSUME TypeInv, DaemonInv, OwnInv, Undivided, [ActivatorNext]_allVars, ~beside'
              PROVE  Home' /\ OneInv'
  BY DEF Undivided
<1>1. ~beside /\ slot' = slot
  BY SlotNext DEF DaemonInv, ActivatorTypeOK, SlotTyped
<1>2. Home /\ OneInv
  BY <1>1 DEF Undivided
<1>3. QED
  BY <1>1, <1>2, OneStep DEF Home

LEMMA OneInit == ActivatorInit => Undivided
<1>. SUFFICES ASSUME ActivatorInit PROVE Home /\ OneInv
  BY DEF Undivided
<1>1. ByHandOK
  BY DEF ActivatorInit, Init, ByHandOK, HandPCs, AppendingCommands
<1>2. ASSUME NEW d \in Daemons
      PROVE  DaemonOK(d)
  <2>1. /\ d \in Procs /\ pc[d] = "idle" /\ active \in Bundles
        /\ job[d].phase = "idle" /\ activation[d] = Absent /\ undone[d] = Absent
        /\ returned[d] = Absent
    BY DaemonsAssumption, NoJobType DEF ActivatorInit, Init
  <2>2. RegistryBelow(active)
    BY DEF ActivatorInit, NoRoutes, RegistryBelow
  <2>3. QED
    BY <2>1, <2>2 DEF DaemonOK, SlotOK, KnowsOK, Unpublished, ReceiptsOK
<1>3. Home
  BY SlotInit DEF Home
<1>4. QED
  BY <1>1, <1>2, <1>3 DEF OneInv, DaemonOK

LEMMA OneDaemonInvariant ==
  ASSUME OneDaemon
  PROVE  ActivatorSpec => [](Undivided /\ OwnInv)
<1>1. TypeInv /\ StoreInv /\ DaemonInv /\ OwnInv /\ [ActivatorNext]_allVars => OwnInv'
  BY OwnNext
<1>2. QED
  BY <1>1, OneInit, OneNext, OwnInit, ActivatorInvariants, PTL DEF ActivatorSpec

\* With one daemon on the installation, the ledger holds the commit of every
\* activation it has reported as a success, wherever the daemon is killed or a
\* command dies, as long as no tick begins beside a command of a killed daemon
\* (run_activation trusts the exit code of apply).
THEOREM SuccessIsAlwaysRecorded ==
  ASSUME OneDaemon
  PROVE  ActivatorSpec => []SuccessIsRecorded
<1>1. Undivided => SuccessIsRecorded
  BY DEF Undivided, OneInv, ReceiptsOK, CommitRecorded, SuccessIsRecorded
<1>2. QED
  BY <1>1, OneDaemonInvariant, PTL

\* With one daemon, an operation is routed to the native module of a bundle only
\* while that bundle is active or below the active one, wherever the daemon is
\* killed or a command dies, as long as no tick begins beside a command of a killed
\* daemon (_native_activation_gate registers a module as its last act, and what is
\* rolled back was not registered).
THEOREM RoutedIsAlwaysActivated ==
  ASSUME OneDaemon, Daemons # {}
  PROVE  ActivatorSpec => []RoutedIsActivated
<1>1. Undivided => RoutedIsActivated
  BY DEF Undivided, OneInv, SlotOK, RegistryBelow, RoutedIsActivated
<1>2. QED
  BY <1>1, OneDaemonInvariant, PTL

\* With one daemon, an unhealthy activation leaves no trace unless a command has
\* died or a tick began beside a command of a killed daemon: the bundle from before
\* is active again, and its hash is what the next tick is given (run_activation,
\* _run_meta_core_rollback).  No bundle names itself as parent: a bundle's hash
\* covers its manifest.
THEOREM UnhealthyIsAlwaysGone ==
  ASSUME OneDaemon, \A b \in Bundles : Parent[b] # b
  PROVE  ActivatorSpec => []UnhealthyIsGone
<1>1. Undivided => UnhealthyIsGone
  <2>. SUFFICES ASSUME OneInv, NEW d \in Daemons, Settled(d), returned[d] # Absent,
                       crashes = 0
                PROVE  /\ returned[d] = ActiveHash
                       /\ undone[d] # Absent => active # activation[d].bundle
    BY DEF UnhealthyIsGone, Undivided
  <2>1. active \in Bundles /\ returned[d] = active
    BY DEF OneInv, SlotOK, ReceiptsOK
  <2>2. returned[d] = ActiveHash
    BY <2>1, BundlesAssumption DEF ActiveHash
  <2>3. undone[d] # Absent => active = Parent[activation[d].bundle]
    BY DEF OneInv, ReceiptsOK
  <2>4. QED
    BY <2>1, <2>2, <2>3
<1>2. QED
  BY <1>1, OneDaemonInvariant, PTL
=============================================================================
