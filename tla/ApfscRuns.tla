----------------------------- MODULE ApfscRuns -----------------------------
(***************************************************************************)
(* Runs of the APFSC production control plane                              *)
(* (baremetal_lgp/src/apfsc/prod): the leases of the epoch critical        *)
(* section, the journal of control/journal.jsonl, the service that answers *)
(* requests, the threads that drive runs, and the recovery that picks runs *)
(* up again after a restart or a Resume.                                   *)
(*                                                                         *)
(* A thread moves through its SQLite transactions and file operations one  *)
(* at a time.  The service is one thread and answers one request after the *)
(* other; every StartRun and every recovery gets a thread of its own.      *)
(***************************************************************************)
EXTENDS Integers

CONSTANTS
  MaxRuns,       \* bound: how many runs may be started
  Targets,       \* the numbers of epochs a StartRun may ask for
  TTL,           \* LEASE_TTL_S and START_RUN_LEASE_TTL_S, in ticks of the clock
  Workers,       \* bound: slots for background threads
  Service,       \* the thread that serves the socket
  Requests,      \* request ids; a client may send one again, answered or not
  Kind,          \* the command of each request
  Overlap,       \* commands clients send while a background thread works
  FirstSnapshot, \* active_snapshot at the first start
  EpochMayFail,  \* whether run_single_epoch may return an error
  Timely,        \* whether a thread renews its leases before they expire
  MaxCrashes,    \* bound: how often the daemon is killed
  NoReq          \* no request

Commands == {"start", "resume", "clear", "pause"}

ASSUME RunsAssumption ==
  /\ MaxRuns \in Nat
  /\ Targets \subseteq Nat
  /\ TTL \in Nat \ {0}
  /\ MaxCrashes \in Nat

ASSUME ClientsAssumption ==
  /\ Service \notin Workers
  /\ NoReq \notin Requests
  /\ Kind \in [Requests -> Commands]
  /\ Overlap \subseteq Commands
  /\ FirstSnapshot \in {"none", "seeded"}
  /\ EpochMayFail \in BOOLEAN
  /\ Timely \in BOOLEAN

VARIABLES
  leases,     \* table leases: owner and time left of each; no owner, no row
  runs,       \* table runs: state, completed_epochs, target_epochs
  journal,    \* the commit markers in journal.jsonl
  tmp,        \* .journal.jsonl.tmp, the file every append goes through
  snapshot,   \* pointers/active_snapshot
  up,         \* the daemon is alive
  recovering, \* RuntimeStateHandle.recovery_in_progress
  pc,         \* next operation of each thread
  loc,        \* what each thread has read and has to do
  answered,   \* requests a client has seen succeed
  crashes,    \* how often the daemon has been killed
  stranded    \* history: runs this daemon has given up as they were

db     == <<leases, runs>>
files  == <<journal, tmp, snapshot>>
daemon == <<up, recovering, crashes, stranded>>
vars   == <<db, files, daemon, pc, loc, answered>>

-----------------------------------------------------------------------------
(* Types *)

\* Runs are numbered in the order of created_at.  0 stands for none.
Runs    == 1 .. MaxRuns
Owners  == 0 .. MaxRuns
Threads == Workers \cup {Service}

LeaseNames == {"orchestrator", "judge", "activation"}
Lease      == [owner : Owners, left : 0 .. TTL]
NoLease    == [owner |-> 0, left |-> 0]

RunStates == {"none", "Running", "RecoveryPending", "Succeeded", "Failed"}
Progress  == [state : RunStates, completed : Nat, target : Nat]
Snapshots == {"none", "seeded"}

\* commit_marker of a journal row: epoch_commit, run_commit, or the
\* service_commit of a request under its idempotency key.
EpochMark(r, e) == <<"epoch", r, e>>
RunMark(r)      == <<"run", r, 0>>
KeyMark(q, s)   == <<"request", q, s>>
Marks == ({"epoch"} \X Runs \X Nat) \cup ({"run"} \X Runs \X {0})
           \cup ({"request"} \X Requests \X Snapshots)

\* The content of the temporary file, when there is one.
TmpFile == [there : BOOLEAN, marks : SUBSET Marks]
NoFile  == [there |-> FALSE, marks |-> {}]

PCs == {"idle", "replay", "dispatch", "insert", "spawn", "unstart", "clearRuns",
        "clearFlag", "close", "reply", "read", "write", "rename", "resume",
        "ensure", "zero", "acquire", "loop", "renew", "epoch", "record",
        "complete", "release", "abort", "pend", "return", "scan", "pick",
        "settle", "marker", "mark", "finish"}

\* A row of the scan of startup_recovery.
Pending == [run : Runs, completed : Nat]

Locals == [req   : Requests \cup {NoReq},  \* request being answered
           key   : Snapshots,              \* active_snapshot in its key
           ok    : BOOLEAN,                \* what the dispatch returned
           job   : {"none", "start", "recover"},
           run   : Owners,
           epoch : Nat,                    \* last epoch that is begun or done
           todo  : SUBSET Pending,
           marks : SUBSET Marks,           \* of the row to append
           seen  : SUBSET Marks,           \* journal as read by the append
           next  : PCs,                    \* after the append
           onErr : PCs]                    \* when the append fails

NoLocals == [req |-> NoReq, key |-> "none", ok |-> FALSE, job |-> "none",
             run |-> 0, epoch |-> 0, todo |-> {}, marks |-> {}, seen |-> {},
             next |-> "idle", onErr |-> "idle"]

TypeOK ==
  /\ leases \in [LeaseNames -> Lease]
  /\ runs \in [Runs -> Progress]
  /\ journal \subseteq Marks
  /\ tmp \in TmpFile
  /\ snapshot \in Snapshots
  /\ up \in BOOLEAN
  /\ recovering \in BOOLEAN
  /\ pc \in [Threads -> PCs]
  /\ loc \in [Threads -> Locals]
  /\ answered \subseteq Requests
  /\ crashes \in 0 .. MaxCrashes
  /\ stranded \subseteq Runs

-----------------------------------------------------------------------------
(* Threads *)

Advance(t, next, l) ==
  /\ pc' = [pc EXCEPT ![t] = next]
  /\ loc' = [loc EXCEPT ![t] = l]

\* append_journal: a row is appended before the thread goes on.
Log(t, l, marks, next, onErr) ==
  Advance(t, "read", [l EXCEPT !.marks = marks, !.next = next, !.onErr = onErr])

Quiet == \A w \in Workers : pc[w] = "idle"

-----------------------------------------------------------------------------
(* The journal: append_jsonl_atomic reads the whole file, writes it and one  *)
(* more row to a temporary file of a fixed name, and renames that.           *)

ReadJournal(t) ==
  /\ pc[t] = "read"
  /\ Advance(t, "write", [loc[t] EXCEPT !.seen = journal])
  /\ UNCHANGED <<db, files, daemon, answered>>

WriteTmp(t) ==
  /\ pc[t] = "write"
  /\ tmp' = [there |-> TRUE, marks |-> loc[t].seen \cup loc[t].marks]
  /\ Advance(t, "rename", loc[t])
  /\ UNCHANGED <<db, journal, snapshot, daemon, answered>>

\* The rename fails when another thread has renamed the file in the meantime.
RenameTmp(t) ==
  LET l == [loc[t] EXCEPT !.marks = {}, !.seen = {}, !.next = "idle", !.onErr = "idle"] IN
  /\ pc[t] = "rename"
  /\ IF tmp.there
     THEN /\ journal' = tmp.marks
          /\ tmp' = NoFile
          /\ Advance(t, loc[t].next, l)
     ELSE /\ Advance(t, loc[t].onErr, l)
          /\ UNCHANGED <<journal, tmp>>
  /\ UNCHANGED <<db, snapshot, daemon, answered>>

AppendStep(t) == ReadJournal(t) \/ WriteTmp(t) \/ RenameTmp(t)

-----------------------------------------------------------------------------
(* Leases.  The owner of a lease is named after the run; each operation is   *)
(* one SQLite transaction over the three leases.                             *)

\* Fault: the expiry is compared the wrong way round.
GrantableAlive(name, r) ==
  \/ leases[name].owner \in {0, r}
  \/ leases[name].left > 0

\* acquire_single_lease_tx: there is no row, or it is the owner's, or expired.
Grantable(name, r) ==
  \/ leases[name].owner \in {0, r}
  \/ leases[name].left = 0

AllGrantable(r) == \A name \in LeaseNames : Grantable(name, r)

\* Fault: a renewal adds to the time that is left.
GrantedLonger(r) ==
  [name \in LeaseNames |-> [owner |-> r, left |-> leases[name].left + TTL]]

Granted(r) == [name \in LeaseNames |-> [owner |-> r, left |-> TTL]]

\* renew_lease asks for the owner and not for the expiry.
AllOwned(r) == \A name \in LeaseNames : leases[name].owner = r

\* Fault: the activation lease is not given back.
ReleasedTwo(r) ==
  [name \in LeaseNames |->
     IF leases[name].owner = r /\ name # "activation" THEN NoLease ELSE leases[name]]

Released(r) ==
  [name \in LeaseNames |-> IF leases[name].owner = r THEN NoLease ELSE leases[name]]

\* Fault: a failed run may go on.
AllowedFailed(r) == runs[r].state \in {"Running", "RecoveryPending", "Failed"}

\* run_state_allows_progress
Allowed(r) == runs[r].state \in {"Running", "RecoveryPending"}

-----------------------------------------------------------------------------
(* The service                                                             *)

\* The run a StartRun creates: ids are new, its time being part of the digest.
NewRun(r) ==
  /\ runs[r].state = "none"
  /\ \A s \in Runs : s < r => runs[s].state # "none"

\* handle_request: the idempotency key is made from the active snapshot.  Bound:
\* a StartRun arrives as long as there is a run id left.
Receive(q) ==
  /\ up
  /\ pc[Service] = "idle"
  /\ Kind[q] \in Overlap \/ Quiet
  /\ Kind[q] = "start" => \E r \in Runs : NewRun(r)
  /\ Advance(Service, "replay", [NoLocals EXCEPT !.req = q, !.key = snapshot])
  /\ UNCHANGED <<db, files, daemon, answered>>

\* A committed key is answered from the journal; else the request is planned,
\* and refused when that row cannot be appended.
Replay ==
  LET l == loc[Service] IN
  /\ pc[Service] = "replay"
  /\ IF KeyMark(l.req, l.key) \in journal
     THEN Advance(Service, "reply", [l EXCEPT !.ok = TRUE])
     ELSE Log(Service, l, {}, "dispatch", "reply")
  /\ UNCHANGED <<db, files, daemon, answered>>

\* Pause, and CancelRun likewise, are accepted and do nothing.
Pause ==
  /\ pc[Service] = "dispatch"
  /\ Kind[loc[Service].req] = "pause"
  /\ Advance(Service, "close", [loc[Service] EXCEPT !.ok = TRUE])
  /\ UNCHANGED <<db, files, daemon, answered>>

\* StartRun takes the leases in the name of the new run, or answers 409.
StartRun(r) ==
  /\ pc[Service] = "dispatch"
  /\ Kind[loc[Service].req] = "start"
  /\ NewRun(r)
  /\ IF AllGrantable(r)
     THEN /\ leases' = Granted(r)
          /\ Advance(Service, "insert", [loc[Service] EXCEPT !.run = r])
     ELSE /\ Advance(Service, "close", loc[Service])
          /\ UNCHANGED leases
  /\ UNCHANGED <<runs, files, daemon, answered>>

\* StartRun inserts the run and journals it.
InsertRun(n) ==
  LET l == loc[Service] IN
  /\ pc[Service] = "insert"
  /\ runs' = [runs EXCEPT ![l.run] =
                [state |-> "Running", completed |-> 0, target |-> n]]
  /\ Log(Service, l, {}, "spawn", "unstart")
  /\ UNCHANGED <<leases, files, daemon, answered>>

\* The row could not be appended: the leases go back, the run stays as it is.
Unstart ==
  /\ pc[Service] = "unstart"
  /\ leases' = Released(loc[Service].run)
  /\ stranded' = stranded \cup {loc[Service].run}
  /\ Advance(Service, "close", loc[Service])
  /\ UNCHANGED <<runs, files, up, recovering, crashes, answered>>

\* Thread t starts thread w and goes on.
Spawn(t, w, first, l, next, lt) ==
  /\ pc[w] = "idle"
  /\ pc' = [pc EXCEPT ![w] = first, ![t] = next]
  /\ loc' = [loc EXCEPT ![w] = l, ![t] = lt]

\* StartRun leaves the epochs to a thread of their own.
SpawnRun(w) ==
  LET l == loc[Service] IN
  /\ pc[Service] = "spawn"
  /\ Spawn(Service, w, "resume", [NoLocals EXCEPT !.job = "start", !.run = l.run],
           "close", [l EXCEPT !.ok = TRUE])
  /\ UNCHANGED <<db, files, daemon, answered>>

\* Resume starts a recovery unless one is in progress; it is accepted anyway.
Resume(w) ==
  LET l == [loc[Service] EXCEPT !.ok = TRUE] IN
  /\ pc[Service] = "dispatch"
  /\ Kind[loc[Service].req] = "resume"
  /\ IF recovering
     THEN /\ Advance(Service, "close", l)
          /\ UNCHANGED recovering
     ELSE /\ Spawn(Service, w, "scan", [NoLocals EXCEPT !.job = "recover"], "close", l)
          /\ recovering' = TRUE
  /\ UNCHANGED <<db, files, up, crashes, stranded, answered>>

\* ForceClearRecovery deletes the leases, ...
ClearLeases ==
  /\ pc[Service] = "dispatch"
  /\ Kind[loc[Service].req] = "clear"
  /\ leases' = [name \in LeaseNames |-> NoLease]
  /\ Advance(Service, "clearRuns", loc[Service])
  /\ UNCHANGED <<runs, files, daemon, answered>>

\* ... fails every run that could go on, ...
ClearRuns ==
  /\ pc[Service] = "clearRuns"
  /\ runs' = [r \in Runs |->
                IF Allowed(r) THEN [runs[r] EXCEPT !.state = "Failed"] ELSE runs[r]]
  /\ Advance(Service, "clearFlag", loc[Service])
  /\ UNCHANGED <<leases, files, daemon, answered>>

\* ... and declares that no recovery is in progress (force_idle).
ClearFlag ==
  /\ pc[Service] = "clearFlag"
  /\ recovering' = FALSE
  /\ Advance(Service, "close", [loc[Service] EXCEPT !.ok = TRUE])
  /\ UNCHANGED <<db, files, up, crashes, stranded, answered>>

\* The outcome is journaled; nobody looks at whether that worked.
Close ==
  LET l == loc[Service] IN
  /\ pc[Service] = "close"
  /\ Log(Service, l, IF l.ok THEN {KeyMark(l.req, l.key)} ELSE {}, "reply", "reply")
  /\ UNCHANGED <<db, files, daemon, answered>>

Reply ==
  LET l == loc[Service] IN
  /\ pc[Service] = "reply"
  /\ answered' = IF l.ok THEN answered \cup {l.req} ELSE answered
  /\ Advance(Service, "idle", NoLocals)
  /\ UNCHANGED <<db, files, daemon>>

-----------------------------------------------------------------------------
(* resume_run: one thread drives one run from the epoch it is given          *)

ResumeRun(w) ==
  /\ pc[w] = "resume"
  /\ Advance(w, IF Allowed(loc[w].run) THEN "ensure" ELSE "return", loc[w])
  /\ UNCHANGED <<db, files, daemon, answered>>

\* An error before the epoch loop returns past its handler: the run stays as it
\* is and the leases with it.  The thread of a StartRun only sets a status text.
GiveUp(w) ==
  /\ stranded' = IF loc[w].job = "start" THEN stranded \cup {loc[w].run} ELSE stranded
  /\ Advance(w, "return", loc[w])

\* ensure_runtime_active_candidate: the first run seeds the active snapshot.  No
\* candidate may be found, loaded, rebased or seeded, before or after that.
EnsureCandidate(w) ==
  LET l == loc[w] IN
  /\ pc[w] = "ensure"
  /\ \/ /\ snapshot' = "seeded"
        /\ Advance(w, IF runs[l.run].target <= l.epoch THEN "zero" ELSE "acquire", l)
        /\ UNCHANGED stranded
     \/ snapshot' \in {snapshot, "seeded"} /\ GiveUp(w)
  /\ UNCHANGED <<db, journal, tmp, up, recovering, crashes, answered>>

\* Nothing to do: the run succeeds, and the leases stay where they are.
NoEpochs(w) ==
  LET r == loc[w].run IN
  /\ pc[w] = "zero"
  /\ runs' = [runs EXCEPT ![r].state = "Succeeded", ![r].completed = runs[r].target]
  /\ Advance(w, "return", loc[w])
  /\ UNCHANGED <<leases, files, daemon, answered>>

\* acquire_epoch_critical_section
AcquireSection(w) ==
  LET r == loc[w].run IN
  /\ pc[w] = "acquire"
  /\ IF AllGrantable(r)
     THEN /\ leases' = Granted(r)
          /\ Advance(w, "loop", loc[w])
          /\ UNCHANGED stranded
     ELSE GiveUp(w) /\ UNCHANGED leases
  /\ UNCHANGED <<runs, files, up, recovering, crashes, answered>>

\* The head of the epoch loop, and the look at the run inside it.
EpochLoop(w) ==
  LET l == loc[w] IN
  /\ pc[w] = "loop"
  /\ Advance(w, IF l.epoch >= runs[l.run].target THEN "complete"
                ELSE IF Allowed(l.run) THEN "renew" ELSE "abort", l)
  /\ UNCHANGED <<db, files, daemon, answered>>

\* renew_epoch_critical_section; the epoch is begun in the journal.
RenewSection(w) ==
  LET l == loc[w] IN
  /\ pc[w] = "renew"
  /\ IF AllOwned(l.run)
     THEN /\ leases' = Granted(l.run)
          /\ Log(w, [l EXCEPT !.epoch = l.epoch + 1], {}, "epoch", "abort")
     ELSE /\ Advance(w, "abort", l)
          /\ UNCHANGED leases
  /\ UNCHANGED <<runs, files, daemon, answered>>

\* run_single_epoch returns; its commit marker goes to the journal.
RunEpoch(w) ==
  LET l == loc[w] IN
  /\ pc[w] = "epoch"
  /\ \/ Log(w, l, {EpochMark(l.run, l.epoch)}, "record", "abort")
     \/ EpochMayFail /\ Advance(w, "abort", l)
  /\ UNCHANGED <<db, files, daemon, answered>>

\* The epoch is counted, whatever has become of the run meanwhile.
RecordEpoch(w) ==
  LET l == loc[w] IN
  /\ pc[w] = "record"
  /\ runs' = [runs EXCEPT ![l.run].state = "Running", ![l.run].completed = l.epoch]
  /\ Advance(w, "loop", l)
  /\ UNCHANGED <<leases, files, daemon, answered>>

\* All epochs done: the run succeeds, then that goes to the journal.
CompleteRun(w) ==
  LET r == loc[w].run IN
  /\ pc[w] = "complete"
  /\ runs' = [runs EXCEPT ![r].state = "Succeeded", ![r].completed = runs[r].target]
  /\ Log(w, loc[w], {RunMark(r)}, "release", "abort")
  /\ UNCHANGED <<leases, files, daemon, answered>>

\* release_epoch_critical_section, after success and after an error.
ReleaseSection(w) ==
  /\ pc[w] \in {"release", "abort"}
  /\ leases' = Released(loc[w].run)
  /\ Advance(w, IF pc[w] = "release" THEN "return" ELSE "pend", loc[w])
  /\ UNCHANGED <<runs, files, daemon, answered>>

\* Fault: after an error the run is left as it is.
LeaveRunning(w) ==
  /\ pc[w] = "pend"
  /\ Log(w, loc[w], {}, "return", "return")
  /\ UNCHANGED <<db, files, daemon, answered>>

\* After an error the run is left for the next recovery.
LeavePending(w) ==
  /\ pc[w] = "pend"
  /\ runs' = [runs EXCEPT ![loc[w].run].state = "RecoveryPending"]
  /\ Log(w, loc[w], {}, "return", "return")
  /\ UNCHANGED <<leases, files, daemon, answered>>

\* resume_run returns: the thread of a StartRun ends, a recovery goes on.
Return(w) ==
  /\ pc[w] = "return"
  /\ IF loc[w].job = "start"
     THEN Advance(w, "idle", NoLocals)
     ELSE Advance(w, "pick", [loc[w] EXCEPT !.run = 0, !.epoch = 0])
  /\ UNCHANGED <<db, files, daemon, answered>>

-----------------------------------------------------------------------------
(* startup_recovery: one thread takes the runs that were under way in turn   *)

\* The rows are read once, with completed_epochs.
Scan(w) ==
  /\ pc[w] = "scan"
  /\ Advance(w, "pick",
       [loc[w] EXCEPT !.todo = {[run |-> r, completed |-> runs[r].completed] :
                                  r \in {s \in Runs : Allowed(s)}}])
  /\ UNCHANGED <<db, files, daemon, answered>>

\* last_committed_epoch looks for the markers of the run.
Committed(r) == {m[3] : m \in {k \in journal : k[1] = "epoch" /\ k[2] = r}}

\* Fault: only the journal is asked ...
DoneJournal(p) == Committed(p.run) \cup {0}

\* Fault: ... or only the row.
DoneRow(p) == {p.completed}

\* What is known to be done: by the journal or by the row that was read.
Done(p) == Committed(p.run) \cup {p.completed}

\* The next run, in the order of creation, from its last safe epoch.
PickRun(w) ==
  LET l == loc[w] IN
  /\ pc[w] = "pick"
  /\ \E p \in l.todo : \E safe \in Done(p) :
       /\ \A other \in l.todo : p.run <= other.run
       /\ \A e \in Done(p) : e <= safe
       /\ Advance(w, IF safe >= runs[p.run].target THEN "settle" ELSE "mark",
                  [l EXCEPT !.run = p.run, !.epoch = safe, !.todo = l.todo \ {p}])
  /\ UNCHANGED <<db, files, daemon, answered>>

\* All its epochs were committed: the run succeeds.
SettleRun(w) ==
  LET r == loc[w].run IN
  /\ pc[w] = "settle"
  /\ runs' = [runs EXCEPT ![r].state = "Succeeded", ![r].completed = runs[r].target]
  /\ Advance(w, "marker", loc[w])
  /\ UNCHANGED <<leases, files, daemon, answered>>

\* run_commit is journaled unless it is there; an error ends the recovery.
CommitMarker(w) ==
  LET r == loc[w].run IN
  /\ pc[w] = "marker"
  /\ IF RunMark(r) \in journal
     THEN Advance(w, "return", loc[w])
     ELSE Log(w, loc[w], {RunMark(r)}, "return", "finish")
  /\ UNCHANGED <<db, files, daemon, answered>>

\* The run is pending from its safe epoch on, and is resumed.
MarkPending(w) ==
  LET l == loc[w] IN
  /\ pc[w] = "mark"
  /\ runs' = [runs EXCEPT ![l.run].state = "RecoveryPending",
                          ![l.run].completed = l.epoch]
  /\ stranded' = stranded \ {l.run}
  /\ Log(w, l, {}, "resume", "finish")
  /\ UNCHANGED <<leases, files, up, recovering, crashes, answered>>

\* The runs a recovery has not come to, and that are Running.
LeftBehind(w) == {r \in Runs : runs[r].state = "Running" /\ \E p \in loc[w].todo : p.run = r}

\* finish_recovery_running, or finish_recovery_failed after an error, which leaves
\* the runs behind it as they are.
FinishRecovery(w) ==
  /\ \/ pc[w] = "finish"
     \/ pc[w] = "pick" /\ loc[w].todo = {}
  /\ recovering' = FALSE
  /\ stranded' = stranded \cup LeftBehind(w)
  /\ Advance(w, "idle", NoLocals)
  /\ UNCHANGED <<db, files, up, crashes, answered>>

-----------------------------------------------------------------------------
(* The clock, the daemon and the specification                               *)

\* A thread relies on its leases from one renewal to the next.
InSection(w) ==
  LET in == {"loop", "renew", "epoch", "record", "complete", "release", "abort"} IN
  pc[w] \in in \/ (pc[w] \in {"read", "write", "rename"} /\ loc[w].next \in in)

\* Time passes.  With Timely no lease expires under a thread that relies on it.
Tick ==
  /\ \E name \in LeaseNames : leases[name].left > 0
  /\ Timely => \A name \in LeaseNames, w \in Workers :
       InSection(w) /\ leases[name].owner = loc[w].run => leases[name].left > 1
  /\ leases' = [name \in LeaseNames |->
                  IF leases[name].left > 0
                  THEN [leases[name] EXCEPT !.left = leases[name].left - 1]
                  ELSE leases[name]]
  /\ UNCHANGED <<runs, files, daemon, pc, loc, answered>>

\* The daemon is killed: its threads are gone, the database and the files stay.
Crash ==
  /\ up
  /\ crashes < MaxCrashes
  /\ up' = FALSE
  /\ recovering' = FALSE
  /\ crashes' = crashes + 1
  /\ stranded' = {}
  /\ pc' = [t \in Threads |-> "idle"]
  /\ loc' = [t \in Threads |-> NoLocals]
  /\ UNCHANGED <<db, files, answered>>

\* Fault: the daemon starts without a recovery.
RestartOnly(w) ==
  /\ ~up
  /\ up' = TRUE
  /\ UNCHANGED <<db, files, recovering, crashes, stranded, pc, loc, answered>>

\* apfscd: the socket is bound, a recovery is started, requests are served.
Restart(w) ==
  /\ ~up
  /\ up' = TRUE
  /\ recovering' = TRUE
  /\ Advance(w, "scan", [NoLocals EXCEPT !.job = "recover"])
  /\ UNCHANGED <<db, files, crashes, stranded, answered>>

ServiceStep ==
  \/ AppendStep(Service) \/ Replay \/ Pause \/ Unstart
  \/ \E r \in Runs : StartRun(r)
  \/ \E n \in Targets : InsertRun(n)
  \/ \E w \in Workers : SpawnRun(w) \/ Resume(w)
  \/ ClearLeases \/ ClearRuns \/ ClearFlag \/ Close \/ Reply

DriveStep(w) ==
  \/ ResumeRun(w) \/ EnsureCandidate(w) \/ NoEpochs(w) \/ AcquireSection(w)
  \/ EpochLoop(w) \/ RenewSection(w) \/ RunEpoch(w) \/ RecordEpoch(w)
  \/ CompleteRun(w) \/ ReleaseSection(w) \/ LeavePending(w) \/ Return(w)

RecoverStep(w) ==
  \/ Scan(w) \/ PickRun(w) \/ SettleRun(w) \/ CommitMarker(w) \/ MarkPending(w)
  \/ FinishRecovery(w)

WorkerStep(w) == AppendStep(w) \/ DriveStep(w) \/ RecoverStep(w)

\* A daemon on an empty root, once its recovery has found nothing to do.
Init ==
  /\ leases = [name \in LeaseNames |-> NoLease]
  /\ runs = [r \in Runs |-> [state |-> "none", completed |-> 0, target |-> 0]]
  /\ journal = {}
  /\ tmp = NoFile
  /\ snapshot = FirstSnapshot
  /\ up = TRUE
  /\ recovering = FALSE
  /\ pc = [t \in Threads |-> "idle"]
  /\ loc = [t \in Threads |-> NoLocals]
  /\ answered = {}
  /\ crashes = 0
  /\ stranded = {}

Next ==
  \/ \E q \in Requests : Receive(q)
  \/ ServiceStep
  \/ \E w \in Workers : WorkerStep(w) \/ Restart(w)
  \/ Tick
  \/ Crash

Spec == Init /\ [][Next]_vars

\* The operating system keeps running a live daemon, and somebody restarts it.
FairSpec ==
  /\ Spec
  /\ WF_vars(ServiceStep)
  /\ \A w \in Workers : WF_vars(WorkerStep(w))
  /\ WF_vars(\E w \in Workers : Restart(w))
=============================================================================
