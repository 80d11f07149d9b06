--------------------------- MODULE OmegaActivator ---------------------------
(***************************************************************************)
(* Promotion and activation of the omega daemon (cdel/v18_0/               *)
(* omega_promoter_v1.py and omega_activator_v1.py) on top of the           *)
(* activation engine of meta-core: the promoter builds a bundle on top of  *)
(* the active one, the activator has meta-core apply it, compares what is  *)
(* active afterwards with what it asked for, gates a native module, and    *)
(* has meta-core roll back when the health check or the gate failed.       *)
(*                                                                         *)
(* apply and rollback are the processes of MetaCoreActivation, which this  *)
(* module extends: a daemon starts one in its slot and waits for its exit  *)
(* code.  A command outlives a daemon that is killed; the daemon that is   *)
(* started next takes another slot and does not wait for it.  The slots    *)
(* that no daemon has run commands given by hand.                          *)
(***************************************************************************)
EXTENDS MetaCoreActivation, FiniteSets

CONSTANTS
  Daemons,    \* omega daemons that share the meta-core root, named after the
              \* process slots they start with
  Manual,     \* commands an operator runs from the remaining slots
  Key,        \* capability_id and activation_key in the binding of each bundle
  Native,     \* bundles whose binding carries a native_module
  Op,         \* op_id of the native module of each bundle
  MaxKills    \* bound: how many times a daemon is killed

ASSUME DaemonsAssumption ==
  /\ Daemons \subseteq Procs
  /\ Manual \subseteq EnabledCommands
  /\ Native \subseteq Bundles
  /\ MaxKills \in Nat

Ops == {Op[b] : b \in Bundles}

VARIABLES
  job,         \* what the running activation of each daemon has seen so far
  registry,    \* .omega_cache/native_runtime/active_registry_v1.json: bundle
               \* whose module each operation is routed to
  activation,  \* omega_activation_receipt_v1.json of the last activation
  undone,      \* omega_rollback_receipt_v1.json of the last activation
  returned,    \* active hash the last activation returned to the coordinator
  slot,        \* process slot the commands of each daemon run in
  beside,      \* history: a tick has begun beside a command of a killed daemon
  kills        \* daemons killed so far

engine   == vars
receiptVars == <<activation, undone, returned>>
slotVars   == <<slot, beside>>
daemonVars == <<job, registry, receiptVars, slotVars, kills>>
allVars    == <<vars, job, registry, activation, undone, returned, slot, beside,
                kills>>

Phases == {"idle", "build", "begin", "compare", "applying", "reread", "gate",
           "publish", "report", "final", "undo", "rollingBack"}

Routes == [Ops -> BundleOrAbsent]

Job == [phase   : Phases,
        bundle  : BundleOrAbsent,  \* activation bundle
        before  : Pointer,         \* active hash before the apply
        after   : Pointer,         \* and behind it
        health  : BOOLEAN,         \* health_ok
        applied : BOOLEAN,         \* activation_ok
        bound   : BOOLEAN,         \* binding_ok
        routes  : Routes]          \* registry as read by the gate

NoRoutes == [o \in Ops |-> Absent]
NoJob    == [phase |-> "idle", bundle |-> Absent, before |-> Absent,
             after |-> Absent, health |-> FALSE, applied |-> FALSE,
             bound |-> TRUE, routes |-> NoRoutes]

ActivationReceipt == [bundle : Bundles, before : Pointer, after : Pointer,
                      health : BOOLEAN, success : BOOLEAN]
RollbackReceipt   == [from : Pointer, to : Pointer]

\* What the daemons keep and write is of these types; a pointer that does not
\* exist is read as the all-zero hash (_active_manifest_hash).
ActivatorTypeOK ==
  /\ job \in [Daemons -> Job]
  /\ registry \in Routes
  /\ activation \in [Daemons -> ActivationReceipt \cup {Absent}]
  /\ undone \in [Daemons -> RollbackReceipt \cup {Absent}]
  /\ returned \in [Daemons -> Pointer]
  /\ slot \in [Daemons -> Procs]
  /\ beside \in BOOLEAN
  /\ kills \in Nat

-----------------------------------------------------------------------------

\* _active_manifest_hash.
ActiveHash == IF active = Absent THEN Null ELSE active

\* Bound: entries the ledger may still get from what is already under way.
Engaged == {d \in Daemons : job[d].phase # "idle"}
Outstanding ==
  2 * Cardinality(Engaged)
    + Cardinality({p \in Procs : /\ cmd[p] \in AppendingCommands
                                /\ \A d \in Engaged : slot[d] # p})

Goto(d, phase) == job' = [job EXCEPT ![d].phase = phase]

\* The daemon starts a command of meta-core in its slot.
Launch(d, c, b) ==
  /\ Start(slot[d], c, b)
  /\ UNCHANGED <<registry, receiptVars, slotVars, kills>>

\* The command has exited.
Exited(d) == pc[slot[d]] = "idle"

-----------------------------------------------------------------------------
(* run_promotion *)

Taken == {slot[e] : e \in Daemons}

\* Bound: a command is waited for only if all the other slots are taken.
\* The child of subprocess.run outlives a daemon that is killed, and nobody looks
\* for it: the command of the next daemon runs beside it.
TakeSlot(d) ==
  IF Exited(d) THEN UNCHANGED slotVars
  ELSE /\ beside' = TRUE
       /\ \E p \in Procs \ Taken : pc[p] = "idle" /\ slot' = [slot EXCEPT ![d] = p]

\* The receipts of an activation are written into the directory of its tick.
NewTick(d, hash) ==
  /\ job[d].phase = "idle"
  /\ TakeSlot(d)
  /\ active \in Bundles
  /\ activation' = [activation EXCEPT ![d] = Absent]
  /\ undone' = [undone EXCEPT ![d] = Absent]
  /\ returned' = [returned EXCEPT ![d] = hash]

\* The binding of the active bundle has the capability and the key the campaign
\* has come up with again: ALREADY_ACTIVE, and run_activation returns at once.
AlreadyActive(d, b) ==
  /\ NewTick(d, active)
  /\ Key[active] = Key[b]
  /\ UNCHANGED <<engine, job, registry, kills>>

\* Another binding is promoted.
Promote(d, b) ==
  /\ NewTick(d, Absent)
  /\ Len(ledger) + Outstanding + 2 <= MaxLedger
  /\ Key[active] # Key[b]
  /\ job' = [job EXCEPT ![d] = [NoJob EXCEPT !.phase = "build", !.bundle = b]]
  /\ UNCHANGED <<engine, registry, kills>>

\* _build_meta_core_activation_bundle copies the directory of the active bundle
\* and names that one as the parent: a bundle that has the parent Parent[b]
\* exists only while that one is active.
Build(d) ==
  /\ job[d].phase = "build"
  /\ IF Parent[job[d].bundle] = active THEN Goto(d, "begin")
     ELSE job' = [job EXCEPT ![d] = NoJob]
  /\ UNCHANGED <<engine, registry, receiptVars, slotVars, kills>>

-----------------------------------------------------------------------------
(* run_activation *)

\* The active hash is read and the health check runs on the state directory,
\* before anything is applied.
Begin(d) ==
  /\ job[d].phase = "begin"
  /\ \E healthy \in BOOLEAN :
       job' = [job EXCEPT ![d].phase = "compare", ![d].before = ActiveHash,
                          ![d].health = healthy]
  /\ UNCHANGED <<engine, registry, receiptVars, slotVars, kills>>

\* meta-core apply is started if the bundle still has the active one as parent.
Apply(d) ==
  /\ job[d].phase = "compare"
  /\ Parent[job[d].bundle] = job[d].before
  /\ Launch(d, "apply", job[d].bundle)
  /\ Goto(d, "applying")

DoNotApply(d) ==
  /\ job[d].phase = "compare"
  /\ Parent[job[d].bundle] # job[d].before
  /\ Goto(d, "reread")
  /\ UNCHANGED <<engine, registry, receiptVars, slotVars, kills>>

\* Fault: a command that failed is waited for again.
AppliedOnSuccess(d) ==
  /\ job[d].phase = "applying"
  /\ Exited(d)
  /\ result[slot[d]] = "ok"
  /\ job' = [job EXCEPT ![d].phase = "reread", ![d].applied = TRUE]
  /\ UNCHANGED <<engine, registry, receiptVars, slotVars, kills>>

\* activation_ok: the command exited with 0 and the verdict COMMITTED.
Applied(d) ==
  /\ job[d].phase = "applying"
  /\ Exited(d)
  /\ job' = [job EXCEPT ![d].phase = "reread",
                        ![d].applied = (result[slot[d]] = "ok")]
  /\ UNCHANGED <<engine, registry, receiptVars, slotVars, kills>>

\* _binding_matches_after_bundle: each bundle carries the binding it was built
\* with, which an incomplete copy may lack.
BindingMatches(b, after) ==
  IF after = b THEN IF stored[b] = "copied" THEN {TRUE} ELSE BOOLEAN ELSE {FALSE}

Changed(j) == j.after # j.before

\* Fault: what meta-core has applied is not compared with what was asked for.
RereadUnbound(d) ==
  LET j == [job[d] EXCEPT !.after = ActiveHash] IN
  /\ j.phase = "reread"
  /\ job' = [job EXCEPT ![d] =
                [j EXCEPT !.phase = IF j.applied /\ Changed(j) /\ j.health
                                       /\ j.bundle \in Native
                                    THEN "gate" ELSE "report"]]
  /\ UNCHANGED <<engine, registry, receiptVars, slotVars, kills>>

\* The active hash is read again; the binding is compared if the apply went
\* through and changed it, and the gate runs if nothing failed so far.
Reread(d) ==
  LET j == [job[d] EXCEPT !.after = ActiveHash] IN
  /\ j.phase = "reread"
  /\ \E bound \in IF j.applied /\ Changed(j)
                  THEN BindingMatches(j.bundle, j.after) ELSE {TRUE} :
       job' = [job EXCEPT ![d] =
                 [j EXCEPT !.bound = bound,
                           !.phase = IF /\ j.applied /\ bound /\ Changed(j)
                                        /\ j.health /\ j.bundle \in Native
                                     THEN "gate" ELSE "report"]]
  /\ UNCHANGED <<engine, registry, receiptVars, slotVars, kills>>

\* Fault: the module is registered before its health vectors have run.
GateAfterwards(d) ==
  /\ job[d].phase = "gate"
  /\ \E passed \in BOOLEAN :
       job' = [job EXCEPT ![d].phase = "publish", ![d].routes = registry,
                          ![d].health = passed]
  /\ UNCHANGED <<engine, registry, receiptVars, slotVars, kills>>

\* _native_activation_gate: the module is loaded and its health vectors run; a
\* failure counts as a failed health check.  The registry file is read.
Gate(d) ==
  /\ job[d].phase = "gate"
  /\ \/ job' = [job EXCEPT ![d].phase = "report", ![d].health = FALSE]
     \/ job' = [job EXCEPT ![d].phase = "publish", ![d].routes = registry]
  /\ UNCHANGED <<engine, registry, receiptVars, slotVars, kills>>

\* Fault: the file is replaced by the entry of the new module.
PublishAlone(d) ==
  LET j == job[d] IN
  /\ j.phase = "publish"
  /\ registry' = [o \in {Op[j.bundle]} |-> j.bundle]
  /\ Goto(d, "report")
  /\ UNCHANGED <<engine, receiptVars, slotVars, kills>>

\* _update_active_native_registry: the file is replaced by what was read with
\* the new module in it.
PublishRoute(d) ==
  LET j == job[d] IN
  /\ j.phase = "publish"
  /\ registry' = [j.routes EXCEPT ![Op[j.bundle]] = j.bundle]
  /\ Goto(d, "report")
  /\ UNCHANGED <<engine, receiptVars, slotVars, kills>>

\* Fault: a bundle that is active counts as activated.
SucceedsIfActive(j) == j.bound /\ j.health /\ Changed(j)

\* activation_success.
Succeeds(j) == j.applied /\ j.bound /\ j.health /\ Changed(j)

\* The activation receipt is written.
WriteActivation(d) ==
  LET j == job[d] IN
  /\ j.phase = "report"
  /\ activation' = [activation EXCEPT ![d] =
       [bundle |-> j.bundle, before |-> j.before, after |-> j.after,
        health |-> j.health, success |-> Succeeds(j)]]
  /\ Goto(d, IF j.health THEN "final" ELSE "undo")
  /\ UNCHANGED <<engine, registry, undone, returned, slotVars, kills>>

\* Fault: the hash from before the apply is returned.
FinalFromMemory(d) ==
  /\ job[d].phase = "final"
  /\ returned' = [returned EXCEPT ![d] = job[d].before]
  /\ job' = [job EXCEPT ![d] = NoJob]
  /\ UNCHANGED <<engine, registry, activation, undone, slotVars, kills>>

\* The health check passed: the active hash is read once more and returned.  A
\* binding that does not match is not rolled back.
Final(d) ==
  /\ job[d].phase = "final"
  /\ returned' = [returned EXCEPT ![d] = ActiveHash]
  /\ job' = [job EXCEPT ![d] = NoJob]
  /\ UNCHANGED <<engine, registry, activation, undone, slotVars, kills>>

\* The rollback receipt is written and its target returned.
Undone(d, to) ==
  /\ undone' = [undone EXCEPT ![d] = [from |-> job[d].after, to |-> to]]
  /\ returned' = [returned EXCEPT ![d] = to]
  /\ job' = [job EXCEPT ![d] = NoJob]
  /\ UNCHANGED <<engine, registry, activation, slotVars, kills>>

\* The health check failed and there is something to roll back ...
RollBack(d) ==
  /\ job[d].phase = "undo"
  /\ job[d].applied
  /\ Changed(job[d])
  /\ Launch(d, "rollback", Absent)
  /\ Goto(d, "rollingBack")

\* ... or the apply was not made, or was not reported as made: the receipt says
\* that the hash from before is active again.
NothingToRollBack(d) ==
  /\ job[d].phase = "undo"
  /\ ~(job[d].applied /\ Changed(job[d]))
  /\ Undone(d, job[d].before)

\* Whether the rollback succeeded is not looked at; the active hash is.
RolledBack(d) ==
  /\ job[d].phase = "rollingBack"
  /\ Exited(d)
  /\ Undone(d, ActiveHash)

Undo(d) == RollBack(d) \/ NothingToRollBack(d) \/ RolledBack(d)

-----------------------------------------------------------------------------

\* A daemon is killed; the command it has started runs on.
Kill(d) ==
  /\ job[d].phase # "idle"
  /\ kills < MaxKills
  /\ kills' = kills + 1
  /\ job' = [job EXCEPT ![d] = NoJob]
  /\ UNCHANGED <<engine, registry, receiptVars, slotVars>>

\* meta-core runs what was started, by a daemon or by hand.
MetaCore ==
  /\ \E p \in Procs : Run(p) \/ Die(p)
  /\ UNCHANGED daemonVars

\* An operator starts a command.
ByHand(p, c, b) ==
  /\ p \notin Taken
  /\ c \in Manual
  /\ c \in AppendingCommands => Len(ledger) + Outstanding + 1 <= MaxLedger
  /\ Start(p, c, b)
  /\ UNCHANGED daemonVars

Step(d) ==
  \/ Build(d) \/ Begin(d) \/ Apply(d) \/ DoNotApply(d) \/ Applied(d)
  \/ Reread(d) \/ Gate(d) \/ PublishRoute(d) \/ WriteActivation(d)
  \/ Final(d) \/ Undo(d)

ActivatorInit ==
  /\ Init
  /\ active \in Bundles
  /\ job = [d \in Daemons |-> NoJob]
  /\ registry = NoRoutes
  /\ activation = [d \in Daemons |-> Absent]
  /\ undone = [d \in Daemons |-> Absent]
  /\ returned = [d \in Daemons |-> Absent]
  /\ slot = [d \in Daemons |-> d]
  /\ beside = FALSE
  /\ kills = 0

ActivatorNext ==
  \/ \E d \in Daemons :
       \/ \E b \in Bundles : AlreadyActive(d, b) \/ Promote(d, b)
       \/ Step(d)
       \/ Kill(d)
  \/ \E p \in Procs, c \in Manual, b \in BundleOrAbsent : ByHand(p, c, b)
  \/ MetaCore

ActivatorSpec == ActivatorInit /\ [][ActivatorNext]_allVars

\* The daemon is scheduled and so are the commands it waits for.
FairActivatorSpec ==
  /\ ActivatorSpec
  /\ \A d \in Daemons : WF_allVars(Step(d))
  /\ \A p \in Procs : WF_allVars(Run(p) /\ UNCHANGED daemonVars)

-----------------------------------------------------------------------------
(* Properties *)

\* b and the bundles below it: the smallest set that holds b and, with a bundle,
\* the parent that bundle was built on.
Lineage(b) ==
  {a \in Bundles : \A S \in SUBSET Bundles :
     (b \in S /\ \A c \in S : Parent[c] \in Bundles => Parent[c] \in S) => a \in S}

Settled(d) == job[d].phase = "idle" /\ \A p \in Procs : pc[p] = "idle"

\* An activation reported as a success has put its own bundle on top of the
\* parent it was built for, in the store before a pointer named it, whatever the
\* other daemons and the operator do meanwhile (activation_success with the
\* binding compared; two daemons may apply between any two steps of this one).
SuccessIsOwn ==
  \A d \in Daemons :
    (activation[d] # Absent /\ activation[d].success) =>
      /\ activation[d].after = activation[d].bundle
      /\ activation[d].before = Parent[activation[d].bundle]
      /\ stored[activation[d].bundle] # "none"

\* With one daemon, the ledger holds the commit of every activation reported as
\* a success (run_activation believes the exit code of apply), whenever daemons and
\* commands die, as long as no tick begins beside a command of a killed daemon: a
\* rollback left behind that has read the ledger writes over the entry.
SuccessIsRecorded ==
  \A d \in Daemons :
    (activation[d] # Absent /\ activation[d].success /\ ~beside) =>
      \E i \in 1..Len(ledger) :
        /\ ledger[i].body.action = "COMMIT"
        /\ ledger[i].body.active = activation[d].bundle
        /\ ledger[i].body.prev = activation[d].before

\* A native module is routed to only while its bundle is active or below the
\* active one: the gate registers it as its last act, and nothing a daemon rolls
\* back was registered, wherever a daemon or a command dies, as long as no tick
\* begins beside a command of a killed daemon, which may be a rollback.
RoutedIsActivated ==
  \A o \in Ops :
    (registry[o] # Absent /\ ~beside) => /\ active \in Bundles
                                        /\ registry[o] \in Lineage(active)

\* Unless a command died or a tick began beside a command of a killed daemon, a
\* daemon that reported an unhealthy activation has left the bundle from before
\* active, and the hash it hands to the next tick is the active one ("Healthcheck
\* failed after a successful live apply: force rollback and emit rollback receipt",
\* omega_activator_v1.py).
UnhealthyIsGone ==
  \A d \in Daemons :
    (Settled(d) /\ returned[d] # Absent /\ crashes = 0 /\ ~beside) =>
      /\ returned[d] = ActiveHash
      /\ undone[d] # Absent => active # activation[d].bundle

\* Every activation comes to an end and hands an active hash to the coordinator,
\* unless the daemon is killed.
ActivationReturns ==
  \A d \in Daemons :
    job[d].phase = "begin" ~>
      job[d].phase = "idle" /\ (returned[d] # Absent \/ kills > 0)
=============================================================================
