# Verification of AGI-Stack-Unchained

TLA+ models, TLC runs and TLAPS proofs kept beside the code. Every definition
is translated from the source; documentation is quoted only where a run shows
that it says something else. Line numbers are those of the commit under `src/`.

## 1. Inventory of the system

| Part | State it keeps | Operations | Hard behaviours |
|---|---|---|---|
| **meta-core engine** `meta-core/engine` | `active/` pointers `ACTIVE_BUNDLE`, `PREV_ACTIVE_BUNDLE`, `ACTIVE_NEXT_BUNDLE`; `active/ledger/ledger.log`; `stage/bundles`, `active/work/stage.json`, `receipt.json`; `store/bundles/<hash>` with `kernel_receipt.json`; the flock `active/LOCK` | stage, verify, canary, commit, apply, rollback, regime upgrade, audit | a crash between two file writes, directories left half copied, unlocked commands beside locked ones, read-then-replace of the ledger |
| **kernel verifier** `meta-core/kernel/verifier` | none; writes one receipt file | `verify --bundle-dir --parent-bundle-dir` | writes a receipt for rejections too |
| **Omega activator** `CDEL-v2/cdel/v18_0/omega_activator_v1.py` | registry of native modules, receipts of a tick | healthcheck, apply through the command line, binding check, native gate, rollback on a failed healthcheck | steps that are not undone when a later one fails, an ignored rollback result, two daemons on one installation |
| **Omega tick** `omega_state`, `omega_budgets`, `omega_runaway`, `omega_ledger`, `omega_decider`; driven by `orchestrator/omega_v18_0/coordinator_v1.py` and `omega_v19_0/microkernel_v1.py` | one state file per tick, remaining budgets, cooldowns, goals, runaway state, a hash-chained trace ledger | observe, diagnose, decide, dispatch, verify, promote, activate, write the next state | a tick that dies between its ledger events and its state and is run again in a directory that holds the files of its first attempt, floors and limits of budgets, a lock file that outlives its owner, escalation over many ticks |
| **Omega bid market** `omega_bid_market_v1.py` | bankroll, credibility, bankruptcy streak and disabled mark of each campaign; the selection of each tick | settle the last winner, disable bankrupt campaigns, bid, select | rounding and clamping of fixed-point numbers, a settlement read from the files of a tick that was run twice |
| **Omega promoter, dispatcher, native router** | campaign directories, routing registry | run a campaign, package, route | subprocess failure, shadow against active routing |
| **APFSC production control plane** `baremetal_lgp/src/apfsc/prod` (Rust) | SQLite tables `leases`, `runs`, `jobs`; `control/journal.jsonl`; pointers | acquire, renew and release leases; StartRun, Resume, ForceClearRecovery, Rollback; startup recovery; garbage collection | lease expiry inside a long epoch, two threads of one run, operator overrides, retries, crash between an epoch and its commit marker |
| APFSC search, `baremetal_lgp` engine | candidate store, scores | numeric search | none of the control kind |
| CDEL verifiers v1.5r to v17, CDEL ledger and adoption | artefacts of a finished run | replay and check | pure functions of files |
| Extension-1, Genesis, agi-orchestrator, polymath, authority, campaigns, tools, UI | packs, schemas, dashboards | generate proposals, show state | input and output only |

How they interact: proposers (Extension-1, campaigns) produce candidate
bundles; CDEL verifies them; the promoter packages one; the activator runs
`meta_core_apply.py` as a subprocess and, when its healthcheck fails,
`meta_core_rollback.py`; the coordinator writes the bundle hash that is active
afterwards into the tick's state. meta-core trusts none of them. The APFSC
control plane is a separate daemon with its own pointers; requests arrive on a
Unix socket, epochs run in threads that share the database and the journal
with it.

What makes each part correct:

- **meta-core**: only accepted bundles become active, each on top of its
  parent; pointers, store and ledger agree; a crash costs at most the command
  that was running; a rollback brings back the previous bundle; the ledger is
  an append-only chain; an audit tells the truth.
- **Omega activator**: a reported success is the daemon's own bundle, recorded
  in the ledger; a failed healthcheck leaves the bundle that was active before;
  a native module is routed to only while its bundle is.
- **Omega tick**: budgets are never exceeded, cooldowns and goal states follow
  the decisions, an edited pack halts the run, a tick that dies costs no more
  than its own run, and no tick blocks the next.
- **Omega bid market**: each selection is settled once and in order, and a
  campaign is disabled for cause only.
- **APFSC control plane**: one executor per critical section, every epoch is
  counted once, an override stops a run for good, a request takes effect once.

The hazards of these parts, each at its line, are the `hazards` of
`PROJECT.json`; those no property covers say why in their note.

## 2. Modules

| Module | What it is |
|---|---|
| `MetaCoreActivation` | The activation engine: the files as variables, one action per file operation, all eight commands, processes, the lock, deaths and failpoints |
| `ActivationHistory` | The abstract specification: active bundle, previous bundle and history change in one step |
| `MetaCoreSafety` | Invariants, action properties, liveness and the refinement mapping to `ActivationHistory` |
| `MCMetaCore` | Bundle trees, command sets and process sets for TLC |
| `MetaCoreProofs` | Types, store, exclusion, swaps and ledger of the engine, proved |
| `MetaCoreHistoryProofs` | Which bundles become active, what a success leaves behind, and the refinement of `ActivationHistory`, proved |
| `MetaCoreAuditProofs` | That the active bundle passes the audit and that an audit raises no false alarm, proved |
| `ApfscRuns` | The APFSC control plane: tables, journal and pointers as variables, one action per SQLite transaction or file operation, the service, the threads of runs and recoveries, clock, kill and restart |
| `ApfscSafety` | Its invariants, action properties and liveness |
| `MCApfsc` | Requests, commands and bounds for TLC |
| `ApfscProofs` | Types and leases of the control plane, proved |
| `ApfscRunProofs` | Overrides, exclusion of epochs, lost runs, counts and repeated epochs, proved |
| `OmegaActivator` | Promotion and activation by omega daemons, composed with `MetaCoreActivation`, which it extends: the commands a daemon starts are processes of that module |
| `MCActivator` | Bundles, bindings and daemons for TLC |
| `ActivatorProofs` | The refinement of the engine and every safety property of the activator, proved |
| `BidMarket` | The bid market as operators: settlement, bankruptcy, bids, selection |
| `OmegaTick` | The tick of the v18 coordinator over its files: lock, loaders, market or decider, campaign, next state, exceptions, kills and reruns |
| `MCTick` | Campaigns, goals and market parameters for TLC |
| `OmegaTickProofs` | Types, budgets, cooldowns, goals and policy of the ticks, and what a tick that dies may lose, proved |
| `OmegaMarketProofs` | Bankruptcy and the settlement of selections, proved |

### MetaCoreActivation and the code

A command is a process. `pc[p]` is the next file operation, `loc[p]` what it
has read (its Python locals), `cmd[p]` the command, `result[p]` its exit code:
`"ok"` 0, `"error"` 1 (INTERNAL_ERROR), `"invalid"` 2 (INVALID or REJECTED),
`"died"` for a process that was killed. Between any two operations other
processes may run or the process may die, after which `pc`, `loc` and its lock
are gone and the files remain.

| Code | Actions |
|---|---|
| `apply.py apply_bundle` | `Start`, `Acquire`, then the steps of stage, verify, canary and commit; `Finish` releases the lock on every path |
| `activation.py stage_bundle` | `StageReject`, `StageBundle`, `StageCopy`, `WriteStage` |
| `verify_staged`, kernel `verify_bundle` | `VerifyStaged`, `RunKernel` |
| `canary_staged` | `CanaryStaged` |
| `commit_staged`, `store.py store_bundle` | `CommitStaged`, `CheckParent`, `StoreBundle`, `StoreCopy`, `StoreReceipt`, `WritePrev`, `WriteActive`, `WriteNext`, `ReadLastEntry`, `ReadLedger`, `PublishEntry` |
| `rollback_active` | `RollbackActive`, `RollbackTarget`, the three writes, `ReadReceipt`, the ledger steps |
| `regime_upgrade.py` | `NotReady`, `Ready`, `Announce`, a whole commit, a second turn of the ledger steps |
| `audit.py audit_active` | `Acquire`, `AuditActive`, `AuditNext`, `AuditStore`, `AuditLedger` |
| `ledger.py` | `ReadLast`, `MakeEntry`, `EntryHash`, `ValidChain` |

Abstractions, all of data:

- A bundle is its hash. Its manifest is `Parent`; whether its declared hashes
  match its contents is `WellFormed`; whether the kernel's constitutional
  checks accept it is `Valid`. Those three are constants: contents do not
  change under a hash.
- SHA-256 is injective: the hash of a ledger entry is the sequence of bodies
  it commits to. Meta, kernel, toolchain and receipt hashes in an entry, and
  the optional reason, are left out, no property tells them apart.
- A directory made by `copytree` is missing, partial or copied.
- `canary_receipt.json` and `audit_receipt.json` are written and never read
  by another command, and are left out.
- An atomic write (`atomic_fs.py`) is one step. This holds as long as two
  processes do not write the same file at once, which unlocked commands can
  do: they share the name `<path>.tmp`. That case is not modelled (section 7). The
  run of the kernel, the recomputation of hashes, and the reading of stage
  descriptor and receipt in `commit_staged` are one step each.
- An I/O error that ends a command (`InternalError` from a file operation) is
  the same step as a death.
- `PREV_ACTIVE_BUNDLE` is only checked by the audit for its format, which the
  engine always writes, so the model's audit does not read it.
- Two commands that name a stage or receipt path of their own are not told
  apart: all of them use `active/work`, as `apply_bundle` and the tests do.

In every module, operators introduced by a comment "Fault: ..." are not used by the
specification. Each one is a plausible mistake in the definition that follows
it, and a run shows that the property it is paired with notices it.

### ActivationHistory

`MetaCoreSafety!ImplementsHistory` maps the engine to it. A swap takes effect
when `PREV_ACTIVE_BUNDLE` has been written: from then on the process carries
the bundle to activate and the entry still to be appended, and `current` and
`history` are read from it. With one command at a time and no death every
commit, rollback and regime upgrade is then one abstract step.

### ApfscRuns and the code

`pc[t]` is the next operation of thread `t`, `loc[t]` what it has read and has
to do. `Service` is the thread of the socket: it answers one request after the
other. Each member of `Workers` is a slot for a background thread, used by a
StartRun or by a recovery; a spawn waits for a free slot, which is a bound of
the model.

| Code (`apfsc/prod`) | Actions |
|---|---|
| `leases.rs` | `Grantable`, `Granted`, `AllOwned`, `Released`, one transaction per use |
| `journal.rs append_journal`, `artifacts.rs append_jsonl_atomic`, `apf3 write_atomic` | `Log` sends a thread through `ReadJournal`, `WriteTmp`, `RenameTmp` |
| `service.rs handle_request` | `Receive`, `Replay`, the command, `Close`, `Reply` |
| StartRun | `StartRun`, `InsertRun`, `Unstart`, `SpawnRun` |
| Resume, Pause, CancelRun | `Resume`, `Pause` |
| ForceClearRecovery | `ClearLeases`, `ClearRuns`, `ClearFlag` |
| `recovery.rs resume_run` | `ResumeRun`, `EnsureCandidate`, `GiveUp`, `NoEpochs`, `AcquireSection`, `EpochLoop`, `RenewSection`, `RunEpoch`, `RecordEpoch`, `CompleteRun`, `ReleaseSection`, `LeavePending`, `Return` |
| `recovery.rs startup_recovery` | `Scan`, `PickRun`, `SettleRun`, `CommitMarker`, `MarkPending`, `LeftBehind`, `FinishRecovery` |
| `bin/apfscd.rs` | `Restart`; a kill is `Crash` |

`resume_run` has two kinds of error. One inside the epoch loop is handled: the
leases go back and the run becomes RecoveryPending (`ReleaseSection`,
`LeavePending`). One before the loop, from `ensure_runtime_active_candidate`
(`recovery.rs:267`) or from the acquisition of the leases, is returned past that
handler (`GiveUp`): the run and its leases stay as they are. For a recovery the
run then is RecoveryPending already; for the thread of a StartRun it stays
Running. The history variable `stranded`, which no action reads, holds the runs
the living daemon has left that way: by `GiveUp`, by `Unstart`, and by a
recovery that ended in an error before it came to them (`LeftBehind`). The next
start of the daemon empties it and picks all of them up.

Abstractions:

- The journal is the set of its commit markers. Its readers ask whether a
  marker is there (`has_run_commit_marker`, `has_committed_idempotency`) or for
  the greatest epoch (`last_committed_epoch`); a row without a marker only
  costs an append, which can fail and can lose the row of another thread.
- A lease has a time left instead of an expiry; `Tick` lets it run down.
  `Timely` says that a thread renews before that; see the bounds.
- A run is its position in the order of creation. Ids are digests of the
  request, its parameters and the second, so two starts of one request within
  one second are not distinguished from two runs.
- `active_snapshot` is unset or seeded. That is what a first run does to it;
  what an epoch does to it is left out.
- The table `jobs` is left out: the service writes Planned, Committed and
  Failed, and recovery lists Leased, Running and RecoveryPending, which
  nothing writes. The audit log, the state strings of the runtime status, the
  garbage collection of every 25th epoch, the thermal spike and the
  rehydration of alien seeds are left out: no operation modelled here reads
  them.
- `ensure_runtime_active_candidate` may fail wherever it is called, before or
  after it has seeded the snapshot: there may be no candidate, or one that cannot
  be loaded or rebased, or the seeding may fail.
- Errors of SQLite and of the file system are left out otherwise, with one
  exception: the rename of a temporary file that another thread has renamed
  already. Such an error, in the rehydration of alien seeds for instance, could
  end a recovery before it has listed the runs. The write of the temporary file is
  one step; a reader between its truncation and its end is not modelled.
- The start of the daemon in omega mode, with an in-memory database and
  without recovery, is left out, as are the other commands of the service.

`Init` is a daemon on a root whose first recovery has found nothing, with the
snapshot unset or seeded by an earlier use.

### OmegaActivator and the code

`slot[d]` is the process slot of `MetaCoreActivation` in which daemon `d` starts
its commands, at first the slot of its own name; the slots no daemon has belong
to operators. `job[d].phase` is the next operation of `run_promotion` or
`run_activation`, the other fields are its Python locals. The commands themselves
are all the steps of `MetaCoreActivation`: between two of them a second daemon
or an operator may run.

A command is a child of `subprocess.run` (`run_invoker_v1.py:165`) and outlives
a daemon that is killed. Nothing in the code waits for it or looks for it: the
daemon that is started next begins a tick beside it. `NewTick` therefore takes a
free slot (`TakeSlot`) when the command in the daemon's own has not ended, and the
history variable `beside`, which no action reads, remembers that this has happened.

| Code (`cdel/v18_0`) | Actions |
|---|---|
| `omega_promoter_v1.py run_promotion` | `AlreadyActive`, `Promote` |
| `_build_meta_core_activation_bundle` | `Build` |
| `omega_activator_v1.py run_activation` | `Begin`, `Apply` or `DoNotApply`, `Applied`, `Reread`, `WriteActivation`, `Final`, `RollBack`, `NothingToRollBack`, `RolledBack` |
| `_binding_matches_after_bundle` | `BindingMatches` in `Reread` |
| `_native_activation_gate`, `_update_active_native_registry` | `Gate`, `PublishRoute` |
| a new tick, beside a command of a killed daemon or not | `NewTick`, `TakeSlot` |
| a killed daemon, a command typed in by hand (environment) | `Kill`, `ByHand` |

Abstractions: the health check and the native health vectors have any outcome.
A binding is its capability and activation key (`Key`), which is what
ALREADY_ACTIVE compares. The promoter, the subverifier before it and the
assembly of the bundle write into the directory of the tick and end in `Build`;
a bundle that has the parent `Parent[b]` can be built only while that parent is
active. Simulate mode, policy updates, queued extensions and the shadow
registry of the knowledge transpiler are left out.

### BidMarket, OmegaTick and the code

Numbers are integers in units of 1/`One` (2^32 in the code), so each rounding
of the code is a rounding here, and the clamps are the code's clamps. Campaigns
are numbers because the code breaks ties by their ids.

`disk[i]` holds the state, market and selection files of directory `i`;
`run[d]` says where in `run_tick` daemon `d` is and holds its locals. A file is
named by the hash of its content: a tick that runs again in its directory adds
files, and a loader that finds several of the highest tick takes the one whose
hash is last, which is any of them (`Loaded`). The records `runs`, `settled` and
`path` of a file, and the variables `ran` and `deaths`, are history: no action
reads them.

| Code | Actions and operators |
|---|---|
| `omega_v18_0/locks_v1.py acquire_lock` | `Enter`, `Leave` |
| `coordinator_v1.py run_tick`, state loading | `Load`, `Genesis`, `Loaded` |
| bid market branch of `run_tick` | `Settle`, `Select`, `Settlement` |
| `omega_bid_market_v1.py` | `Updated`, `Bankruptcy`, `SettledRows`, `PredictedDelta`, `Score`, `Eligible`, `Winners` |
| `omega_decider_v1.py decide` | `DecidedPlans` and the four kinds of plans, `Decide` |
| `omega_budgets_v1.py`, goals and cooldowns of `run_tick`, `omega_state_v1.py next_state` | `Charged`, `Judged`, `NextState`, `WriteState` |
| dispatch, subverifier, promotion and activation | `Dispatch`, `Promote` |
| exception, kill and rerun | `Raise`, `Crash`, `Enter` |

Abstractions:

- What a tick observes is the change of the objective that a settlement reads;
  which metric, issue or rule the decider prefers depends on observation, so any
  plan its paths allow may be the one. Runaway escalation only changes that
  preference.
- A settlement that has no objective of the previous tick (`realized_delta` is
  None: neither its observation nor a metric series was found) rewards nobody and
  still counts bankruptcies. Which it is, is any choice (`known` in `Settle`).
- The three cost budgets (CPU, build, verifier) are debited with one cost each
  and tested together; the model has one, the least.
- Goals synthesized during a tick are left out; those of the pack's queue are in.
- The outcome of a campaign (activated, already active, nothing, halt) is any
  of them. `OmegaActivator` models what the first two mean for meta-core.
- The rest of what a tick writes (trace ledger, snapshot, statistics, runaway
  state, dispatch receipts) is read by no operation modelled here.
- The daemon's loop and an operator who starts the next tick are the same step:
  nothing survives a tick but the files.

## 3. Runs

| Run | Instance | Shows |
|---|---|---|
| `serial` | 1 process, 4 bundles in a tree, all commands, ledger 4, no deaths | `TypeOK`, `ActiveAuditable`, `LedgerRecordsPointers`, `ImplementsHistory` |
| `crash` | 1 process, a root and two children, all commands, both failpoints, 2 deaths, ledger 2 | `LedgerChainValid`, `PointersInStore`, `RollbackIsOneGeneration`, `LedgerAppendOnly`, `SwapFollowsParent`, `SuccessReconciles` |
| `locked` | 2 processes, apply and audit, malformed and unconstitutional bundles, 1 death, weak fairness | `OnlyAcceptedActive`, `AuditNoFalseAlarm`, `CommandsFinish` |
| `race_ledger` | 2 processes, one of them an unlocked rollback | violated: `LedgerAppendOnly` |
| `runs_leases` | 2 runs of one epoch, 2 threads, two starts that may overlap with threads, a pause, epochs that fail, TTL 2, symmetric threads | `TypeOK`, `LeasesTogether`, `ExclusiveEpochs` |
| `runs_recovery` | 2 runs of no or two epochs, 1 thread, start, Resume and ForceClearRecovery between threads, epochs and candidates that fail, leases that expire, 1 kill | `NoOrphan`, `NoEpochTwice`, `CompletedNeverDrops`, `OverrideStays` |
| `runs_ending` | 2 runs of one epoch, 1 thread, a StartRun that is sent again and ForceClearRecovery at any time, epochs, candidates and appends that fail, refused leases, 1 kill, weak fairness | `RunsLeaveRunning` |
| `retry` | one StartRun, sent again | violated: `IdempotentRetry` |
| `activation` | 1 daemon, a second slot for an operator's verify or for the commands of the next daemon, 4 bundles of which 2 are native, 1 death of a command, 1 kill of the daemon, ledger 4, weak fairness | `ActivatorTypeOK`, `SuccessIsRecorded`, `RoutedIsActivated`, `UnhealthyIsGone`, `ActivationReturns` |
| `two_daemons` | 2 daemons, a third slot, the same bundles, 1 kill, ledger 4 | `SuccessIsOwn` |
| `ticks` | 1 daemon, 3 ticks, 2 campaigns, 2 goals, a pack with and without a market, one directory or one per tick, 1 edit of the policy, 1 exception or kill, weak fairness | `TickTypeOK`, `BudgetAccounted`, `LossesBounded`, `CooldownHolds`, `ClosedGoalsRest`, `OnePolicy`, `SettledOnce`, `SettlesWhatRan`, `DisabledForCause`, `TicksGoOn` |
| `tick_lock` | 2 daemons in one directory, no exceptions | violated: `OneTickAtATime` |

Bounds of the engine, and why they are enough. `MaxLedger` only keeps appending commands
from starting, it never cuts one short; four entries hold a commit, a second
commit, a rollback and the rollback of it, or two regime upgrades. Two deaths
are the least with which a command dies on what another dead command left;
a third leaves no new kind of file state. A tree of depth two with a branch
has a parent mismatch, a grandparent and a sibling; the crash run has the
branch. Two processes are all it takes for each race, as every conflict is
between one writer and one reader or writer. Runs start from an empty
installation, from the one the orchestration tests seed and from the one the
repository ships (`active/ACTIVE_BUNDLE` and its parent in the store, no
ledger). No run of the engine disables the deadlock check: in every instance an
idle process can still start a command that appends nothing (audit, stage, verify
or canary), and one that waits for the lock waits for a process that can move.

Bounds of the control plane. `MaxRuns` ends the starts; two runs are the least
that compete for leases and the least of which a recovery picks one after the
other. Two epochs tell an epoch in the middle from the last one; no epochs is
the early return of `resume_run` that keeps the leases. One kill can hit every
operation of the first life of the daemon, and of the life after the
`Resume` of an earlier failure. `Overlap` is the set of commands that clients
send while a background thread works. Where it is empty the run says what holds
when an operator waits; `retry` and the instances of section 5 say what does
not hold when nobody waits. `ExclusiveEpochs` is checked with `Timely`: an epoch
that outlasts its lease is not stopped by anything in the code. In `runs_ending`
both StartRun and ForceClearRecovery overlap with threads: appends collide, a
second start finds the leases taken, and a clear takes them from a working
thread, whose renewal then fails as it does after an expiry; that is why the
run can afford `Timely`. Resume is not among its commands, recoveries are those
of the restart; with Resume in `Overlap` the instance is too large. No run of the
control plane disables the deadlock check: the service can always take another
request or the daemon can be restarted.

Bounds of the activator. Four ledger entries are two activations that are each
rolled back, or three activations down the tree. `Promote` starts only what the
ledger still has room for, so no command is cut short by the bound. The tree has two
bundles of different campaigns on one parent, whose daemons compete, and a
native bundle below a native one, of another operation, so that a route can
outlive the bundle on top of it. The properties of `activation` are about one
daemon: with two, `rollback` takes no lock and names no bundle, so that one
daemon can roll back what the other activated, and `SuccessIsRecorded`,
`RoutedIsActivated` and `UnhealthyIsGone` fail. The same three say nothing once a tick has begun
beside a command of a killed daemon (`beside`), for the same reason; `SuccessIsOwn`
and `ActivationReturns` have no such condition. The slots are as many as the
daemons and one more: one kill leaves one command behind. A new tick waits for the
command of its killed predecessor only if all other slots are taken, which is a
bound of the model. `UnhealthyIsGone` excepts a command that died: a daemon
that waits for an apply that was killed after its pointers were written takes
the hash from before as restored (section 5).

Bounds of the ticks. Three ticks are a tick without a predecessor, one that
reads what a first wrote, and one that reads what a settled and charged tick
wrote; a cooldown of two and a bankruptcy after two settlements both end within
them, and a budget of four is used up by two runs of the dear campaign. Fixed-point
numbers are in quarters: every clamp, the error cap and the rounding are reached.
One death suffices for two files of one tick and one of the tick that read the
wrong one. `ticks` and `tick_lock` disable the deadlock check: a daemon that
has done its last tick stops, as it does when the number of ticks is given.
`SettledOnce` is claimed of a shared directory only where no tick died: one
that is run again there takes its own first attempt for the previous tick.

Fairness of the activator: `FairActivatorSpec` has weak fairness of the steps of
a daemon and of the commands, which the operating system schedules; neither
kills, deaths nor operators are fair. Fairness of the ticks: `FairTickSpec` has
weak fairness of `Step(d)`: a daemon that can go on does, and a tick that failed
is started again. `Raise`, `Crash` and `EditPolicy` are not fair. `TicksGoOn`
therefore says that nothing a dead tick leaves behind, the file LOCK in particular,
keeps the run from going on.

Fairness of the control plane: weak fairness of the service and of every
background thread (the operating system runs a live daemon, and an epoch
returns, with or without an error), and of the restart (somebody or something
starts a dead daemon again). `Receive`, `Tick` and `Crash` are not fair.
`RunsLeaveRunning` claims no more than that a run ends, is left pending, or is
one of `stranded`: nothing brings a pending or stranded run back but a Resume or
a restart. A clear does end it.

Fairness of the engine: `FairSpec` has weak fairness of `Run(p)` for every process: the
operating system keeps scheduling a live process. `Start` and `Die` are not
fair. Nothing is assumed of the lock, and nothing is claimed of the wait for
it: flock is not fair, a process may starve. `CommandsFinish` speaks of a
command that is past the lock.

What the runs with deaths leave out on purpose: after a death the pointers and
the ledger may disagree and an active bundle may have no receipt (section 5),
so `ActiveAuditable` and `LedgerRecordsPointers` are checked without deaths,
and `SuccessReconciles` says what the next successful command restores.

## 4. Findings

Each is a `violation` run; `PROJECT.json` quotes the lines.

1. `rollback_active` and the stand-alone commit take no lock; ledger entries
   can be overwritten (`race_ledger`).
2. The journal of the control plane is appended to by several threads through
   one temporary file (`artifacts.rs:420`): rows are lost, and a request whose
   Committed row is lost is carried out again when it is sent again (`retry`).
3. A daemon that is refused the LOCK of a run directory removes it on its way
   out (`locks_v1.py:22`), because the exclusive open is inside the `try` whose
   `finally` unlinks the file: the next daemon enters while the first tick
   still runs (`tick_lock`). The same lines are why a LOCK left by a killed tick
   refuses only one daemon, on which `TicksGoOn` rests.

## 5. Further disagreements

These were found with the same models and are not kept as runs. Each line says how to
see it again.

meta-core:

- A directory a dead process left in the store passes for a stored bundle
  (`store.py:36`): a bundle becomes active without its receipt, and a rollback
  to it moves the pointers and fails (instance `crash`, an active bundle
  whose directory is not copied or has no receipt).
- A regime upgrade that is refused has already replaced `ACTIVE_NEXT_BUNDLE`
  (`regime_upgrade.py:91`), and audits fail until the next swap.
- A process that dies between the writes of `PREV_ACTIVE_BUNDLE` and
  `ACTIVE_BUNDLE` leaves a rollback target equal to the active bundle, and the
  next rollback succeeds and restores nothing. After a death between the pointers
  and the ledger an audit answers OK although no entry names the active bundle.
- A stand-alone commit accepts the receipt of a rejection, because the kernel
  writes one for every verdict and the commit compares only its bundle hash
  (`apply_bundle` returns at the verdict and is not concerned).
- Two unlocked commits, or a commit and a rollback, can replace a bundle that
  is not the parent any more. A rollback that cannot read the receipt of its
  target exits 1 with the pointers moved and nothing recorded.

APFSC control plane:

- The lease owner is named after the run: a Resume while the thread of the
  StartRun works makes a second thread execute the same epochs
  (`recovery.rs:282`; `ExclusiveEpochs` with `Overlap` containing Resume, two
  workers, one run of two epochs).
- So does a StartRun that is received after a restart, before the recovery of that
  restart has listed the runs (`recovery.rs:84`): the run it inserts is one of
  them, and is driven by its own thread and by the recovery (`ExclusiveEpochs`,
  instance `runs_leases` with one start and one kill). The second driver
  repeats epochs that the first has counted (`NoEpochTwice`, instance
  `runs_ending`), and with two threads the recovery sets the count of a run
  back that has gone on since its scan (`recovery.rs:145`;
  `CompletedNeverDrops`, instance `runs_ending` with two workers). This is what
  `NoEpochTwice` and `CompletedNeverDrops` owe to clients that wait.
- A run that ForceClearRecovery fails during an epoch is set back to Running or
  RecoveryPending by its thread (`recovery.rs:341`, `recovery.rs:417`), and the
  next recovery resumes it (`OverrideStays` with `Overlap` containing
  ForceClearRecovery).
- A StartRun whose candidate cannot be found, loaded, rebased or seeded
  (`recovery.rs:267`) leaves a run that is Running, with no thread and with its
  three leases until they expire: the error passes the handler at
  `recovery.rs:406`, and the thread only sets a status text (`service.rs:1230`).
  The same happens when the acquisition of the leases is refused (`recovery.rs:282`), after
  a ForceClearRecovery and a second StartRun for instance. The run has counted
  no epoch by then (`NoOrphan` without its last disjunct in the instance
  `runs_recovery`; `RunsLeaveRunning` without `stranded`).
- A StartRun whose journal row cannot be appended gives the leases back and
  leaves the run Running with no thread (`service.rs:1212`). It takes an append
  of another thread at the same time (`NoOrphan` without its last disjunct in
  the instance `runs_ending`).
- A recovery ends with the first append that fails (`recovery.rs:125`,
  `recovery.rs:154`), and the runs it has not come to stay Running: a daemon
  killed with two runs under way, restarted, and sent a request whose rows
  collide with the recovery's (`RunsLeaveRunning` without `LeftBehind` in
  `FinishRecovery`, and `NoOrphan`, instance `runs_ending`: the run left behind
  may have counted epochs). This is what `NoOrphan` owes to clients that
  wait: without a second append no error ends a recovery.
- A StartRun on a root without a snapshot changes the key its own retry would
  be found by, and a run of no epochs keeps its leases until they expire.

Omega:

- With two daemons on one installation one can roll back the other's
  activation, both report what they did not leave behind, and the native
  registry, which is read, changed and replaced, loses routes (instance
  `two_daemons` with the invariants of `activation`).
- The command of a killed daemon works on beside the next tick
  (`run_invoker_v1.py:165`). A rollback left behind that has read the ledger
  overwrites the entry of the next activation (`SuccessIsRecorded`); one that has read
  its target ends after the next tick has routed a native module
  (`RoutedIsActivated`); an apply left behind commits after the next tick has
  returned the hash from before (`UnhealthyIsGone`). One daemon and one kill are
  enough, no command has to die (instance `activation`, each of the three
  without `~beside`).
- After an apply that died behind its pointers, `NothingToRollBack` writes a
  rollback receipt that names the hash from before as restored
  (`omega_activator_v1.py:1402`; `UnhealthyIsGone` without `crashes = 0`).
- A tick that is run again in a shared directory settles the selection of its
  own first attempt, and after a crash the winner that is settled need not be
  the campaign that ran (`SettledOnce`, `SettlesWhatRan` without their
  conditions).
- Two daemons run ticks of one number and know only the files: each state lacks
  the other's runs (`LossesBounded`, instance `tick_lock`), and in a shared
  directory one settles the selection of the other's tick, or one that has not
  run yet (`SettledOnce`, `SettlesWhatRan`, instance `tick_lock` with markets,
  two ticks and a shared directory).
- A pack with a market never compares the policy of its state: an edited pack
  halts a run without a market and goes unnoticed with one (`OnePolicy`
  without its condition); nor does such a pack ever take up a goal.

Read, not run: `subverifier_invalid_stall` of the runaway state can never be
true; the escalation level is computed and then overwritten by the forced one
(`omega_runaway_v1.py:289`); the trace ledger of a shared directory starts a
new chain with every tick; `CDEL-v2/cdel/v18_0/omega_bid_market_v1.py` is a
copy of the market whose `select_winner` has neither the confidence factor nor
the check for disabled campaigns.

## 6. Proofs

### meta-core

`MetaCoreProofs` proves for every number of processes and bundles, every tree
of parents, every set of commands and failpoints, and every bound:

| Theorem | Statement |
|---|---|
| `TypeCorrect` | `Spec => []TypeOK` |
| `PointersAlwaysInStore` | `Spec => []PointersInStore` |
| `RollbackStaysClose` | `Serialized`, then `Spec => []RollbackIsOneGeneration` |
| `SwapsFollowParents` | `Serialized`, then `Spec => SwapFollowsParent` |
| `LedgerAlwaysValid` | `Serialized`, then `Spec => []LedgerChainValid` |
| `LedgerOnlyGrows` | `Serialized`, then `Spec => LedgerAppendOnly` |

`Serialized` says that commands do not overlap: there is one process, or all
commands take the lock. Without it `race_ledger` refutes the last two. The
other assumptions are `BundlesAssumption` and `EnvironmentAssumption` of
`MetaCoreActivation`, which TLC evaluates in every run.

The argument. None of the properties is inductive, since a process acts on
what it has read earlier. Each invariant therefore says what a process knows
at each of its steps:

- `TypeInv`: the types, and that a process that is about to write a pointer
  holds a real bundle, the all-zero hash having been refused by
  `RollbackTarget`.
- `StoreInv`: from the step after `StoreBundle`, or after `RollbackTarget`, on
  the bundle a process holds has its directory in the store. Directories never
  vanish, so no other process can disturb it and no assumption on the number
  of processes is needed.
- `LockInv` and `Exclusive`: a process that is past the lock holds it, so with
  `Serialized` at most one process is inside a command.
- `SwapInv`: what `loc[p].old` and `loc[p].bundle` have to do with the
  pointers at every step of a swap, the half-written ones included, and that
  the three possible relations between the two pointers are closed under every
  prefix of a swap.
- `LedgerInv`: the head a process has read is that of the ledger, and the
  copy it is about to extend is the ledger.

Lemmas such as `AdvanceTypes`, `FinishEffect`, `LedgerFrame` say once what a
step of one process leaves alone for all the others. Under them each invariant
has one step per action.

`MetaCoreHistoryProofs` and `MetaCoreAuditProofs` build on them:

| Theorem | Statement |
|---|---|
| `ActiveIsAccepted` | `OnlyLocked`, then `Spec => []OnlyAcceptedActive` |
| `SuccessAgrees` | `Serialized`, then `Spec => SuccessReconciles` |
| `EngineKeepsHistory` | `Undisturbed`, then `Spec => ImplementsHistory` |
| `LedgerAgrees` | `Undisturbed`, then `Spec => []LedgerRecordsPointers` |
| `AuditableBetweenCommands` | `Serialized`, `Trusted`, no deaths, then `Spec => []ActiveAuditable` |
| `NoFalseAlarm` | `OnlyLocked`, then `Spec => AuditNoFalseAlarm` |

`OnlyLocked` says that there are only apply and audit. `Undisturbed` is
`Serialized` without deaths and without the failpoint between the first two
pointer writes. `Trusted` says that the kernel accepts every bundle or that
only apply commits one, since a stand-alone commit takes the receipt of a
rejection. Section 5 names what goes wrong without these assumptions. The
argument:

- `AcceptInv`: from the canary of an apply to its commit `stage.json` names an
  accepted bundle, because nobody else is inside a command; from the parent
  check on the process holds that bundle itself, and its parent was active.
- `SuccessInv`: what a process knows of the pointers and of the ledger at each
  step from its first pointer write to its last entry. It holds after deaths too,
  since a swap writes all three pointers and never relies on what it finds.
- `OriginInv` and `ReceiptsKept`: what a process is going to put into the
  history, and that a stored bundle without a receipt is one somebody is storing,
  so that a rollback finds the receipt it reads behind its pointers.
- The refinement: the first pointer write is the abstract step
  (`HistorySwap`); until then the mapping reads the files, from then on the
  carrier, and the publication of the entry moves the last element of the
  history from the carrier into the ledger (`HistoryPublish`). The mark of an
  upgrade is a step of its own. Every other step is a stutter.
- `LedgerAgrees` follows from the refinement: the last swap of the abstract
  history always is the one that led to `current` and `previous`
  (`RecordedInv`), and between commands the mapping is the identity.
- `CleanInv`: while nobody has died, a partial copy is one somebody is
  making, `stage.json` names a whole copy, and a commit carries a valid verdict.
  `RunKernel` then sees whole directories, and so does the audit. One death
  makes all of it void, which is what section 5 says of half copied directories.
- `AlarmInv`: `ACTIVE_NEXT_BUNDLE` differs from `ACTIVE_BUNDLE` only while
  somebody is between the two writes, and the bundle an audit has read stays
  active until it ends.

### APFSC control plane

`ApfscProofs` proves, for every number of runs, epochs, threads, requests and
kills, whatever overlaps, and for timely and late threads alike:

| Theorem | Statement |
|---|---|
| `ControlTyped` | `Spec => []TypeOK` |
| `LeasesGoTogether` | `Spec => []LeasesTogether` |

The assumptions are `RunsAssumption` and `ClientsAssumption`. The types are not
inductive by themselves, as a thread writes the marker of the run in its locals
and its locals may name none. `TypeInv` adds `Ready`: a thread at an operation
that uses its run has one, also when that operation only comes after the append
it is in (`Coming`), and likewise for the request the service answers.
`AdvanceOK`, `LogOK` and `SpawnOK` say once what a step of one thread, an
append and a spawn leave alone; under them there is one step per action.
`LeasesTogether` is inductive given the types.

`ApfscRunProofs` goes on from `TypeInv`, again for every number of runs, epochs,
threads, requests and kills:

| Theorem | Statement |
|---|---|
| `OverridesAreFinal` | `"clear" \notin Overlap`, then `Spec => OverrideStays` |
| `EpochsExclude` | `OneDriver`, then `Spec => []ExclusiveEpochs` |
| `NoRunIsLost` | `ClientsWait`, then `Spec => []NoOrphan` |
| `CountsNeverDrop` | `ClientsWait`, then `Spec => CompletedNeverDrops` |
| `EpochsAreOnce` | `ClientsWait`, then `Spec => NoEpochTwice` |

`Overlap` is the set of commands a client may send while a thread works.
`"clear" \notin Overlap` keeps ForceClearRecovery out of it, `ClientsWait` says
that it is empty. `OneDriver` is either `ClientsWait`, or that any of the other
commands may overlap while the leases do the work: threads renew in time
(`Timely`) and nothing picks a run up a second time (`NoRecovery`: no kill and
no Resume). Section 5 names what happens otherwise: the leases carry the name
of the run and not of the thread, so that they do not keep a Resume or the
recovery of a restart from the run of a working thread, which then repeats
epochs and sets counts back; and when clients do not wait, appends collide, one of
which ends a recovery before it has come to all its runs. `NoRunIsLost` is about
every run that has begun: a StartRun whose candidate cannot be readied is
allowed to leave its run in `stranded`, with no epoch counted. The two runs of the
table in section 3 satisfy these assumptions, `runs_recovery` the first and
`runs_leases` the second part of `OneDriver`. The argument:

- `BaseInv`: while the daemon is down nothing is under way, and an append never
  leads to another append. An append is three operations of a thread with others in
  between, so everything below speaks of the operations a thread is at or will
  come to (`To`).
- `OverrideInv`: a thread only drives a run that is neither failed nor unknown
  (`DrivesLive`), and a request to clear is answered while nobody works
  (`ServiceOK`). What a worker writes into a row is then never an
  operator's Failed.
- `AloneInv`: when clients wait, there is one worker, and none before the
  service has started it. Two epochs exclude each other at once.
- `SectionInv` is the other half of `EpochsExclude`. Every thread has a run of
  its own (`Apart`), and from the acquisition to the release the three leases
  are those of its run and have time left (`Holds`). Leases are granted
  together or not at all, hence to one run.
- `OrphanInv`: every run that is Running is `Minded` by a thread or by the service
  that is about to start one, or was given up by the thread of its StartRun before
  it had counted anything. Who leaves a run after that leaves it in another state
  (`Doorway`), and a recovery with runs of a dead daemon ahead of it cannot be ended
  by an error, because it has the journal to itself (`Ahead`). That a given up run
  has counted nothing takes the thread's own history (`FreshInv`).
- `EpochInv`: a committed mark is in the journal or under way to it
  (`Somewhere`); the marks of a thread's run and its row count no further than the epoch
  it is at, which neither of them has while it is begun (`MarksOK`, `CountOK`);
  and what a recovery has read of a run it has not come to yet still is the row and the
  journal's last word (`TodoOK`, with `Steady`: no append under way adds the mark or
  drops it, as a copy read before would).

TLC checked `OverrideInv`, `SectionInv`, `OrphanInv` and `EpochInv` as
invariants of the instances of `runs_recovery` and `runs_leases` before
they were proved.

### Omega activator

`ActivatorProofs` proves, for every number of daemons, operators, bundles,
deaths and kills:

| Theorem | Statement |
|---|---|
| `ActivatorUsesEngine` | `ActivatorSpec => Spec`: the composed system refines the engine |
| `ActivatorTypes` | `ActivatorSpec => []ActivatorTypeOK` |
| `SuccessIsAlwaysOwn` | `ActivatorSpec => []SuccessIsOwn` |
| `SuccessIsAlwaysRecorded` | `OneDaemon`, then `ActivatorSpec => []SuccessIsRecorded` |
| `RoutedIsAlwaysActivated` | `OneDaemon`, then `ActivatorSpec => []RoutedIsActivated` |
| `UnhealthyIsAlwaysGone` | `OneDaemon`, no bundle its own parent, then `ActivatorSpec => []UnhealthyIsGone` |

Every step of a daemon is a step of the engine or leaves its files alone, so
the theorems of `MetaCoreProofs` hold of the composition without a new proof.
`SuccessIsOwn` needs to know what a daemon knows at each phase: from `Apply` on
the bundle's parent is the hash read before, and from `Reread` on a binding
that matched means that the hash read afterwards is the bundle's own, which a
pointer named and which `PointersAlwaysInStore` therefore puts into the store.
The assumptions are those of the engine and `DaemonsAssumption`.

`OneDaemon` says that at most one omega daemon runs on the installation and
that by hand only commands are run that append nothing to the ledger: stage,
verify, canary, audit. The run `activation` is such an installation. Between two daemons the
properties may fail (section 3): a `rollback` names no bundle and may undo what is
the other daemon's. No bundle is its own parent because its hash covers its
manifest. Commands may die and the daemon may be killed at every step, and the command of a
killed daemon runs on. `OneInv`, which the proof carries as long as no tick has
begun beside such a command (`Undivided`), is what the three properties need beyond
`OwnInv`. Until then the daemon keeps its slot (`Home`): a tick takes another one
only by setting `beside`. `SuccessIsAlwaysOwn` and the types hold whatever is
left behind; section 5 says what happens to the other three.

- `SlotOK`: the slot of the pointers. During an apply the bundle about to be
  swapped in is a child of the active one; every module the registry holds is
  `RegistryBelow` the active bundle; during a rollback it already is below the
  bundle that is about to be restored, so that the restoration never leaves a
  route to the bundle it takes away.
- `KnowsOK`: what the daemon knows at each phase of `run_activation`. While it
  waits for the apply (`WaitsForApply`), an exit code of success means that
  the swap and its entry are on disk (`Landed`), and without a death every other exit
  means that nothing has changed. While it waits for the rollback
  (`WaitsForRollback`), `PREV_ACTIVE_BUNDLE` is the hash read before the apply. An
  activation that ends in `report` without health or in `undo` has published no route
  (`Unpublished`).
- `ReceiptsOK`: what the activation and rollback receipts, and the hash handed to
  the next tick, say of the installation.

`Lineage` is the smallest set closed under `Parent` that holds a bundle, which
makes the two facts about it (a bundle is in its own lineage, the lineage of the parent is
contained in it) provable without an induction.

### Omega tick

`OmegaTickProofs` proves, for every number of daemons, campaigns, goals and
ticks, all market parameters and all costs, whatever daemons race, raise or die
(the last for one daemon):

| Theorem | Statement |
|---|---|
| `TickTypes` | `TickSpec => []TickTypeOK` |
| `BudgetsAdd` | `TickSpec => []BudgetAccounted` |
| `CooldownsHold` | `TickSpec => []CooldownHolds` |
| `ClosedGoalsStay` | `TickSpec => []ClosedGoalsRest` |
| `PolicyStays` | `TickSpec => []OnePolicy` |
| `LossesStayBounded` | `OneDaemon`, `SomeCampaigns`, then `TickSpec => []LossesBounded` |

The argument: what a state file promises is a property of that file alone
(`GoodState`), so it does not matter which daemon wrote it, which of several
files a loader takes or how often a tick was run. `TickInv` says that every
file is good and, of each daemon (`GoodRun`), that its state is good and that a plan it holds is one
its state permits: the campaign is ready, the goal is pending, the policy is
the state's. `NextState` of a good state under such a plan is good. The lock is
needed for none of them, which is why `tick_lock` does no harm to them. The
assumptions are `MarketAssumption` and `TickAssumption`.

`LossesBounded` is no property of a file: it compares the state a tick
may load with all that ever ran. `OneDaemon` says that there is one daemon,
`SomeCampaigns` that the registry has campaigns, finitely many: otherwise
there is no dearest run. `LossInv` keeps an account. The `Allowance` of a tick is
the dearest run for each death, plus one more from its own dispatch to its end,
minus the costs of all that ran. A state of the tick before accounts for the
allowance, and a state of the tick at hand, which the tick may have left in an earlier
attempt, for the allowance and a dearest run. No step within a tick lowers the allowance: a
dispatch adds the dearest run and takes off a cost that is no higher, a death
turns the run that may be lost into a lost one. When a tick has been
done, its states become those of the tick before, and one of them is sure to exist.
TLC checked `LossInv` on the instance of `ticks` with two deaths (19.6 million
states) first.

`CostOf` is a recursive function on an interval. The library's induction
theorems cannot be used, as they take an operator, but well-founded induction
has a first-order form: `LeastNat` follows from `NatLessThanWellFounded` and
`WFMin`, and `Induct` from `LeastNat` (a set of numbers that has 0 and all
successors has all numbers). With it `SumExists` and `SumsAgree` establish that
the recursive equations have a solution, the same one for a sequence and its
extension, and `CostOfAppend` that one run more costs what it costs. `Dearest`, that
finitely many costs have a greatest, is an induction of the same kind.

### Omega bid market

`OmegaMarketProofs` goes on from `TickInv`:

| Theorem | Statement |
|---|---|
| `DisabledOnlyForCause` | `TickSpec => []DisabledForCause` |
| `SettledInOrder` | `OneIfShared`, then `TickSpec => []SettledOnce` |
| `SettledHasRun` | `OneDaemon`, then `TickSpec => []SettlesWhatRan` |

`OneIfShared` says that ticks share a directory only where one daemon runs them
(a daemon of a directory per tick disturbs nobody), `OneDaemon` that there is
one. The argument:

- `DisabledForCause` is about one file. `TallyInv` adds the streak, which no
  property mentions: it is the length of the last stay below the threshold, so
  that the settlement that brings it to `disable_after` is the last of that many
  in a row, and no other settlement disables.
- `SettledOnce` is not about one file, since a settlement combines the market
  and the selection of the previous tick's directory. `OrderInv` says that a
  market of tick `t` settled the selections of the ticks before `t`, and, of
  every daemon, that what its next load can find ends with the tick before its
  own. The second part is what a death in a shared directory breaks.
- `SettlesWhatRan` is about the past: a selection is on disk before its
  campaign runs. `RanInv` says that every selection on disk has run or is
  promised by the daemon that is about to dispatch it. Only one daemon that
  never dies is sure to keep the promise before the next settlement.

### What stays with TLC

Liveness under fairness is out of the prover's reach: `CommandsFinish`,
`RunsLeaveRunning`, `ActivationReturns`, `TicksGoOn`. Every other property of a
passing run, invariant, action property or refinement, is stated by a theorem
above. Where a theorem has an assumption (one daemon, clients that wait,
commands that do not overlap), the run it generalizes satisfies it, and
section 5 names what fails without it.

## 7. Plan and what is not modelled

Done: `MetaCoreActivation`, `ApfscRuns`, `OmegaActivator`, `BidMarket`,
`OmegaTick`, their properties, runs and first theorems. What would come next:

1. `AtomicFs`: two writers of one file and their common temporary name.
2. Of the control plane: an abstract specification (an exclusive executor that
   counts every epoch once) it implements when clients wait, the distiller and
   the Rollback command as further writers of the pointers, the jobs table.
3. Proofs: `ExclusiveEpochs` with kills and restarts when only StartRun overlaps with
   threads, once the recovery of a restart and the requests that follow it are told apart; the
   refinement of 2.
4. The runaway state over many ticks, once something a tick decides on it can
   be told apart from a free choice.

Not modelled, because a small model would say nothing about them: the 9,700
lines of policy of the v19 microkernel, whose frame is that of the v18 tick;
the numeric search and JIT of `baremetal_lgp`; the replay verifiers of CDEL,
which are pure functions of finished artefacts; the kernel's constitutional
checks; the comparisons of the native router; Extension-1, campaigns, tools and
the user interface, which are only input and output. They are most of the
repository by lines.
