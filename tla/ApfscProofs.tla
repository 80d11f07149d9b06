---------------------------- MODULE ApfscProofs ----------------------------
(***************************************************************************)
(* Theorems about the APFSC control plane: its types, and that the leases  *)
(* of the epoch critical section are taken, renewed and given back as one. *)
(***************************************************************************)
EXTENDS ApfscSafety, TLAPS

-----------------------------------------------------------------------------
(* Types.  A thread that is about to use its run, or its request, has one.   *)

RunPCs == {"insert", "spawn", "unstart", "resume", "ensure", "zero", "acquire",
           "loop", "renew", "epoch", "record", "complete", "settle", "marker", "mark"}

ReqPCs == {"replay", "dispatch", "insert", "spawn", "unstart", "clearRuns",
           "clearFlag", "close", "reply"}

AppendPCs == {"read", "write", "rename"}

\* The operations a thread at n with locals l may be at after its append.
Coming(n, l) == IF n \in AppendPCs THEN {l.next, l.onErr} ELSE {n}

Ready(n, l) ==
  /\ Coming(n, l) \cap RunPCs # {} => l.run \in Runs
  /\ Coming(n, l) \cap ReqPCs # {} => l.req \in Requests

ThreadsOK ==
  /\ pc \in [Threads -> PCs]
  /\ loc \in [Threads -> Locals]
  /\ \A t \in Threads : Ready(pc[t], loc[t])

StoresOK ==
  /\ leases \in [LeaseNames -> Lease]
  /\ runs \in [Runs -> Progress]
  /\ journal \in SUBSET Marks
  /\ tmp \in TmpFile
  /\ snapshot \in Snapshots
  /\ up \in BOOLEAN
  /\ recovering \in BOOLEAN
  /\ answered \in SUBSET Requests
  /\ crashes \in 0 .. MaxCrashes

TypeInv == ThreadsOK /\ StoresOK

\* The marks of the journal name a run and an epoch, or a request.
LEMMA MarkTypes ==
  /\ \A r \in Runs, e \in Nat : EpochMark(r, e) \in Marks
  /\ \A r \in Runs : RunMark(r) \in Marks
  /\ \A q \in Requests, s \in Snapshots : KeyMark(q, s) \in Marks
  BY DEF EpochMark, RunMark, KeyMark, Marks

\* What one thread does to its own operation and locals leaves the others typed.
LEMMA AdvanceOK ==
  ASSUME ThreadsOK, NEW t \in Threads, NEW n \in PCs, NEW l \in Locals,
         Ready(n, l), Advance(t, n, l)
  PROVE  ThreadsOK'
<1>1. pc' = [pc EXCEPT ![t] = n] /\ loc' = [loc EXCEPT ![t] = l]
  BY DEF Advance
<1>2. pc' \in [Threads -> PCs] /\ loc' \in [Threads -> Locals]
  BY <1>1 DEF ThreadsOK
<1>3. \A u \in Threads : Ready(pc'[u], loc'[u])
  BY <1>1 DEF ThreadsOK
<1> QED
  BY <1>2, <1>3 DEF ThreadsOK

\* An append on the way to operations the thread is ready for.
LEMMA LogOK ==
  ASSUME ThreadsOK, NEW t \in Threads, NEW l \in Locals, NEW m \in SUBSET Marks,
         NEW n \in PCs, NEW e \in PCs,
         {n, e} \cap RunPCs # {} => l.run \in Runs,
         {n, e} \cap ReqPCs # {} => l.req \in Requests,
         Log(t, l, m, n, e)
  PROVE  ThreadsOK'
<1> DEFINE k == [l EXCEPT !.marks = m, !.next = n, !.onErr = e]
<1>1. k \in Locals
  BY DEF Locals
<1>2. k.run = l.run /\ k.req = l.req /\ k.next = n /\ k.onErr = e
  BY DEF Locals
<1>3. Ready("read", k)
  BY <1>2 DEF Ready, Coming, AppendPCs
<1>4. "read" \in PCs /\ Advance(t, "read", k)
  BY DEF PCs, Log
<1> QED
  BY <1>1, <1>3, <1>4, AdvanceOK

\* Nobody moves.
LEMMA ThreadsStay ==
  ASSUME ThreadsOK, UNCHANGED <<pc, loc>>
  PROVE  ThreadsOK'
  BY DEF ThreadsOK, Ready, Coming

LEMMA LeaseTypes ==
  ASSUME RunsAssumption, leases \in [LeaseNames -> Lease], NEW r \in Owners
  PROVE  /\ Granted(r) \in [LeaseNames -> Lease]
         /\ Released(r) \in [LeaseNames -> Lease]
         /\ [name \in LeaseNames |-> NoLease] \in [LeaseNames -> Lease]
<1>1. TTL \in 0 .. TTL /\ 0 \in 0 .. TTL /\ 0 \in Owners
  BY DEF RunsAssumption, Owners
<1>2. NoLease \in Lease /\ [owner |-> r, left |-> TTL] \in Lease
  BY <1>1 DEF NoLease, Lease
<1> QED
  BY <1>2 DEF Granted, Released

LEMMA NoLocalsTyped ==
  /\ NoLocals \in Locals
  /\ NoLocals.run = 0
  /\ NoLocals.epoch = 0
  /\ Ready("idle", NoLocals)
  BY RunsAssumption
  DEF NoLocals, Locals, Owners, Snapshots, PCs, Ready, Coming, AppendPCs, RunPCs, ReqPCs

LEMMA TmpTypes ==
  /\ NoFile \in TmpFile
  /\ \A f \in TmpFile : f.marks \in SUBSET Marks
<1>1. FALSE \in BOOLEAN /\ {} \in SUBSET Marks
  OBVIOUS
<1> QED
  BY <1>1, Zenon DEF NoFile, TmpFile

LEMMA InitTyped ==
  ASSUME RunsAssumption, ClientsAssumption, Init
  PROVE  TypeInv
<1>1. ThreadsOK
  BY NoLocalsTyped DEF Init, ThreadsOK, PCs
<1>2. NoLease \in Lease
  BY RunsAssumption DEF NoLease, Lease, Owners
<1>3. StoresOK
  <2>1. leases \in [LeaseNames -> Lease]
    BY <1>2 DEF Init
  <2>2. runs \in [Runs -> Progress]
    BY DEF Init, Progress, RunStates
  <2>3. /\ journal \in SUBSET Marks
        /\ tmp \in TmpFile
        /\ snapshot \in Snapshots
        /\ answered \in SUBSET Requests
    BY TmpTypes, ClientsAssumption DEF Init, ClientsAssumption, Snapshots
  <2>4. up \in BOOLEAN /\ recovering \in BOOLEAN
    BY DEF Init
  <2>5. crashes \in 0 .. MaxCrashes
    BY RunsAssumption DEF Init, RunsAssumption
  <2> QED
    BY <2>1, <2>2, <2>3, <2>4, <2>5 DEF StoresOK
<1> QED
  BY <1>1, <1>3 DEF TypeInv

-----------------------------------------------------------------------------
(* The steps of an append                                                  *)

LEMMA AppendTyped ==
  ASSUME TypeInv, NEW t \in Threads, AppendStep(t)
  PROVE  TypeInv'
<1> DEFINE l == loc[t]
<1>1. l \in Locals /\ pc[t] \in PCs /\ Ready(pc[t], l)
  BY DEF TypeInv, ThreadsOK
<1>2. l.next \in PCs /\ l.onErr \in PCs /\ l.seen \in SUBSET Marks /\ l.marks \in SUBSET Marks
  BY <1>1 DEF Locals
<1>3. CASE ReadJournal(t)
  <2> DEFINE k == [l EXCEPT !.seen = journal]
  <2>1. k \in Locals
    BY <1>1 DEF TypeInv, StoresOK, Locals
  <2>2. k.run = l.run /\ k.req = l.req /\ k.next = l.next /\ k.onErr = l.onErr
    BY <1>1 DEF Locals
  <2>3. "write" \in PCs /\ Ready("write", k) /\ Advance(t, "write", k)
    BY <1>1, <1>3, <2>2 DEF ReadJournal, Ready, Coming, AppendPCs, PCs
  <2>4. ThreadsOK'
    BY <2>1, <2>3, AdvanceOK DEF TypeInv
  <2> QED
    BY <1>3, <2>4 DEF ReadJournal, TypeInv, StoresOK, db, files, daemon
<1>4. CASE WriteTmp(t)
  <2>1. "rename" \in PCs /\ Ready("rename", l) /\ Advance(t, "rename", l)
    BY <1>1, <1>4 DEF WriteTmp, Ready, Coming, AppendPCs, PCs
  <2>2. ThreadsOK'
    BY <1>1, <2>1, AdvanceOK DEF TypeInv
  <2>3. tmp' \in TmpFile
    BY <1>2, <1>4 DEF WriteTmp, TmpFile
  <2> QED
    BY <1>4, <2>2, <2>3 DEF WriteTmp, TypeInv, StoresOK, db, daemon
<1>5. CASE RenameTmp(t)
  <2> DEFINE k == [l EXCEPT !.marks = {}, !.seen = {}, !.next = "idle", !.onErr = "idle"]
  <2>1. k \in Locals
    BY <1>1 DEF Locals, PCs
  <2>2. k.run = l.run /\ k.req = l.req /\ k.next = "idle" /\ k.onErr = "idle"
    BY <1>1 DEF Locals
  <2>3. \A n \in {l.next, l.onErr} : Ready(n, k)
    BY <1>1, <1>5, <2>2 DEF RenameTmp, Ready, Coming, AppendPCs, RunPCs, ReqPCs
  <2>4. Advance(t, l.next, k) \/ Advance(t, l.onErr, k)
    BY <1>5 DEF RenameTmp
  <2>5. ThreadsOK'
    BY <1>2, <2>1, <2>3, <2>4, AdvanceOK DEF TypeInv
  <2>6. journal' \in SUBSET Marks /\ tmp' \in TmpFile
    BY <1>5, TmpTypes DEF RenameTmp, TypeInv, StoresOK
  <2> QED
    BY <1>5, <2>5, <2>6 DEF RenameTmp, TypeInv, StoresOK, db, daemon
<1> QED
  BY <1>3, <1>4, <1>5 DEF AppendStep

-----------------------------------------------------------------------------
(* The steps of the service                                                *)

\* What the thread is known to hold.
LEMMA Held ==
  ASSUME TypeInv, NEW t \in Threads
  PROVE  /\ loc[t] \in Locals
         /\ loc[t].run \in Owners
         /\ loc[t].epoch \in Nat
         /\ loc[t].key \in Snapshots
         /\ pc[t] \in RunPCs => loc[t].run \in Runs
         /\ pc[t] \in ReqPCs => loc[t].req \in Requests
<1>1. loc[t] \in Locals /\ pc[t] \in PCs /\ Ready(pc[t], loc[t])
  BY DEF TypeInv, ThreadsOK
<1>2. pc[t] \in RunPCs \cup ReqPCs => pc[t] \notin AppendPCs
  BY DEF RunPCs, ReqPCs, AppendPCs
<1>3. Coming(pc[t], loc[t]) = {pc[t]} \/ pc[t] \in AppendPCs
  BY DEF Coming
<1> QED
  BY <1>1, <1>2, <1>3 DEF Ready, Locals

\* Steps that leave the tables and files alone.
LEMMA StoresStay ==
  ASSUME StoresOK, UNCHANGED <<db, files, daemon, answered>>
  PROVE  StoresOK'
  BY DEF StoresOK, db, files, daemon

\* Steps that change the leases only.
LEMMA StoresLeases ==
  ASSUME StoresOK, leases' \in [LeaseNames -> Lease],
         UNCHANGED <<runs, files, up, recovering, crashes, answered>>
  PROVE  StoresOK'
  BY DEF StoresOK, files

\* Steps that change the runs only.
LEMMA StoresRuns ==
  ASSUME StoresOK, runs' \in [Runs -> Progress],
         UNCHANGED <<leases, files, up, recovering, crashes, answered>>
  PROVE  StoresOK'
  BY DEF StoresOK, files

\* Steps that change the recovery flag only.
LEMMA StoresFlag ==
  ASSUME StoresOK, recovering' \in BOOLEAN,
         UNCHANGED <<db, files, up, crashes, answered>>
  PROVE  StoresOK'
  BY DEF StoresOK, db, files

LEMMA ReceiveTyped ==
  ASSUME TypeInv, NEW q \in Requests, Receive(q)
  PROVE  TypeInv'
<1> DEFINE l == [NoLocals EXCEPT !.req = q, !.key = snapshot]
<1>1. l \in Locals /\ l.req = q /\ l.run = 0
  BY NoLocalsTyped DEF TypeInv, StoresOK, Locals
<1>2. Ready("replay", l) /\ "replay" \in PCs /\ Service \in Threads
  BY <1>1 DEF Ready, Coming, AppendPCs, RunPCs, PCs, Threads
<1> QED
  BY <1>1, <1>2, AdvanceOK, StoresStay DEF Receive, TypeInv

LEMMA AnswerTyped ==
  ASSUME TypeInv, Replay \/ Pause \/ Close \/ Reply
  PROVE  TypeInv'
<1> DEFINE l == loc[Service]
           k == [l EXCEPT !.ok = TRUE]
<1>1. Service \in Threads
  BY DEF Threads
<1>2. /\ l \in Locals /\ l.key \in Snapshots
      /\ pc[Service] \in ReqPCs => l.req \in Requests
  BY <1>1, Held
<1>3. k \in Locals /\ k.run = l.run /\ k.req = l.req
  BY <1>2 DEF Locals
<1>4. "dispatch" \in PCs /\ "reply" \in PCs /\ "close" \in PCs /\ "idle" \in PCs
  BY DEF PCs
<1>5. CASE Replay
  <2>1. l.req \in Requests
    BY <1>2, <1>5 DEF Replay, ReqPCs
  <2>2. Ready("reply", k)
    BY <1>3, <2>1 DEF Ready, Coming, AppendPCs, RunPCs
  <2>3. CASE Advance(Service, "reply", k)
    BY <1>1, <1>3, <1>4, <1>5, <2>2, <2>3, AdvanceOK, StoresStay DEF Replay, TypeInv
  <2>4. CASE Log(Service, l, {}, "dispatch", "reply")
    <3>1. {"dispatch", "reply"} \cap RunPCs = {}
      BY DEF RunPCs
    <3>2. ThreadsOK'
      BY <1>1, <1>2, <1>4, <2>1, <2>4, <3>1, LogOK DEF TypeInv
    <3> QED
      BY <1>5, <3>2, StoresStay DEF Replay, TypeInv
  <2> QED
    BY <1>5, <2>3, <2>4 DEF Replay
<1>6. CASE Pause
  <2>1. Ready("close", k) /\ Advance(Service, "close", k)
    BY <1>2, <1>3, <1>6 DEF Pause, Ready, Coming, AppendPCs, RunPCs, ReqPCs
  <2> QED
    BY <1>1, <1>3, <1>4, <1>6, <2>1, AdvanceOK, StoresStay DEF Pause, TypeInv
<1>7. CASE Close
  <2>1. l.req \in Requests
    BY <1>2, <1>7 DEF Close, ReqPCs
  <2> DEFINE m == IF l.ok THEN {KeyMark(l.req, l.key)} ELSE {}
  <2>2. m \in SUBSET Marks
    BY <1>2, <2>1, MarkTypes
  <2>3. {"reply"} \cap RunPCs = {} /\ Log(Service, l, m, "reply", "reply")
    BY <1>7 DEF RunPCs, Close
  <2>4. ThreadsOK'
    BY <1>1, <1>2, <1>4, <2>1, <2>2, <2>3, LogOK DEF TypeInv
  <2> QED
    BY <1>7, <2>4, StoresStay DEF Close, TypeInv
<1>8. CASE Reply
  <2>1. answered' \in SUBSET Requests
    BY <1>2, <1>8 DEF Reply, ReqPCs, TypeInv, StoresOK
  <2>2. ThreadsOK'
    BY <1>1, <1>4, <1>8, NoLocalsTyped, AdvanceOK DEF Reply, TypeInv
  <2> QED
    BY <1>8, <2>1, <2>2 DEF Reply, TypeInv, StoresOK, db, files, daemon
<1> QED
  BY <1>5, <1>6, <1>7, <1>8

\* A started thread gets its locals while the one that starts it goes on.
LEMMA SpawnOK ==
  ASSUME ThreadsOK, NEW t \in Threads, NEW w \in Threads,
         NEW n \in PCs, NEW l \in Locals, Ready(n, l),
         NEW m \in PCs, NEW k \in Locals, Ready(m, k),
         Spawn(t, w, n, l, m, k)
  PROVE  ThreadsOK'
<1>1. /\ pc' = [pc EXCEPT ![w] = n, ![t] = m]
      /\ loc' = [loc EXCEPT ![w] = l, ![t] = k]
  BY DEF Spawn
<1>2. pc' \in [Threads -> PCs] /\ loc' \in [Threads -> Locals]
  BY <1>1 DEF ThreadsOK
<1>3. \A u \in Threads : Ready(pc'[u], loc'[u])
  BY <1>1 DEF ThreadsOK
<1> QED
  BY <1>2, <1>3 DEF ThreadsOK

LEMMA StartTyped ==
  ASSUME RunsAssumption, TypeInv, NEW r \in Runs, StartRun(r)
  PROVE  TypeInv'
<1> DEFINE l == loc[Service]
           k == [l EXCEPT !.run = r]
<1>1. Service \in Threads /\ r \in Owners
  BY DEF Threads, Runs, Owners
<1>2. l \in Locals /\ l.req \in Requests
  BY <1>1, Held DEF StartRun, ReqPCs
<1>3. k \in Locals /\ k.run = r /\ k.req = l.req
  BY <1>1, <1>2 DEF Locals
<1>4. "insert" \in PCs /\ "close" \in PCs /\ Ready("insert", k) /\ Ready("close", l)
  BY <1>2, <1>3 DEF PCs, Ready, Coming, AppendPCs, RunPCs
<1>5. Advance(Service, "insert", k) \/ Advance(Service, "close", l)
  BY DEF StartRun
<1>6. ThreadsOK'
  BY <1>1, <1>2, <1>3, <1>4, <1>5, AdvanceOK DEF TypeInv
<1>7. leases' \in [LeaseNames -> Lease]
  BY <1>1, LeaseTypes DEF StartRun, TypeInv, StoresOK
<1> QED
  BY <1>6, <1>7, StoresLeases DEF daemon, StartRun, TypeInv

LEMMA InsertTyped ==
  ASSUME RunsAssumption, TypeInv, NEW n \in Targets, InsertRun(n)
  PROVE  TypeInv'
<1> DEFINE l == loc[Service]
           p == [state |-> "Running", completed |-> 0, target |-> n]
<1>1. Service \in Threads /\ pc[Service] = "insert"
  BY DEF Threads, InsertRun
<1>2. l \in Locals /\ l.run \in Runs /\ l.req \in Requests
  BY <1>1, Held DEF RunPCs, ReqPCs
<1>3. "spawn" \in PCs /\ "unstart" \in PCs /\ {} \in SUBSET Marks
  BY DEF PCs
<1>4. ThreadsOK'
  BY <1>1, <1>2, <1>3, LogOK DEF InsertRun, TypeInv
<1>5. p \in Progress
  BY RunsAssumption DEF RunsAssumption, Progress, RunStates
<1>6. runs' \in [Runs -> Progress]
  BY <1>5 DEF InsertRun, TypeInv, StoresOK
<1> QED
  BY <1>4, <1>6, StoresRuns DEF daemon, InsertRun, TypeInv

LEMMA SpawnTyped ==
  ASSUME RunsAssumption, TypeInv, NEW w \in Workers, SpawnRun(w) \/ Resume(w)
  PROVE  TypeInv'
<1> DEFINE l == loc[Service]
           k == [l EXCEPT !.ok = TRUE]
           s == [NoLocals EXCEPT !.job = "start", !.run = l.run]
           c == [NoLocals EXCEPT !.job = "recover"]
<1>1. Service \in Threads /\ w \in Threads
  BY DEF Threads
<1>2. /\ l \in Locals /\ l.run \in Owners
      /\ pc[Service] \in RunPCs => l.run \in Runs
      /\ pc[Service] \in ReqPCs => l.req \in Requests
  BY <1>1, Held
<1>3. l.req \in Requests /\ (SpawnRun(w) => l.run \in Runs)
  BY <1>2 DEF SpawnRun, Resume, ReqPCs, RunPCs
<1>4. k \in Locals /\ k.run = l.run /\ k.req = l.req
  BY <1>2 DEF Locals
<1>5. s \in Locals /\ s.run = l.run /\ c \in Locals /\ c.run = 0
  BY <1>2, NoLocalsTyped DEF Locals
<1>6. Ready("close", k) /\ Ready("scan", c) /\ (SpawnRun(w) => Ready("resume", s))
  BY <1>3, <1>4, <1>5 DEF Ready, Coming, AppendPCs, RunPCs, ReqPCs
<1>7. "close" \in PCs /\ "scan" \in PCs /\ "resume" \in PCs
  BY DEF PCs
<1>8. CASE SpawnRun(w)
  <2>1. ThreadsOK'
    BY <1>1, <1>4, <1>5, <1>6, <1>7, <1>8, SpawnOK DEF SpawnRun, TypeInv
  <2> QED
    BY <1>8, <2>1, StoresStay DEF SpawnRun, TypeInv
<1>9. CASE Resume(w)
  <2>1. CASE recovering
    <3>1. ThreadsOK'
      BY <1>1, <1>4, <1>6, <1>7, <1>9, <2>1, AdvanceOK DEF Resume, TypeInv
    <3>2. UNCHANGED recovering
      BY <1>9, <2>1 DEF Resume
    <3> QED
      BY <1>9, <3>1, <3>2, StoresFlag DEF Resume, TypeInv, StoresOK
  <2>2. CASE ~recovering
    <3>1. Spawn(Service, w, "scan", c, "close", k) /\ recovering' = TRUE
      BY <1>9, <2>2 DEF Resume
    <3>2. ThreadsOK'
      BY <1>1, <1>4, <1>5, <1>6, <1>7, <3>1, SpawnOK DEF TypeInv
    <3> QED
      BY <1>9, <3>1, <3>2, StoresFlag DEF Resume, TypeInv
  <2> QED
    BY <2>1, <2>2
<1> QED
  BY <1>8, <1>9

LEMMA ClearTyped ==
  ASSUME RunsAssumption, TypeInv, Unstart \/ ClearLeases \/ ClearRuns \/ ClearFlag
  PROVE  TypeInv'
<1> DEFINE l == loc[Service]
           k == [l EXCEPT !.ok = TRUE]
<1>1. Service \in Threads
  BY DEF Threads
<1>2. l \in Locals /\ l.run \in Owners /\ l.req \in Requests
  BY <1>1, Held DEF Unstart, ClearLeases, ClearRuns, ClearFlag, ReqPCs
<1>3. k \in Locals /\ k.run = l.run /\ k.req = l.req
  BY <1>2 DEF Locals
<1>4. \A n \in {"clearRuns", "clearFlag", "close"} :
        n \in PCs /\ Ready(n, l) /\ Ready(n, k)
  BY <1>2, <1>3 DEF PCs, Ready, Coming, AppendPCs, RunPCs
<1>5. ThreadsOK'
  <2>1. \/ Advance(Service, "clearRuns", l) \/ Advance(Service, "clearFlag", l)
        \/ Advance(Service, "close", l) \/ Advance(Service, "close", k)
    BY DEF Unstart, ClearLeases, ClearRuns, ClearFlag
  <2> QED
    BY <1>1, <1>2, <1>3, <1>4, <2>1, AdvanceOK DEF TypeInv
<1>6. ASSUME Unstart \/ ClearLeases PROVE StoresOK'
  <2>1. leases' \in [LeaseNames -> Lease]
    BY <1>2, <1>6, LeaseTypes DEF Unstart, ClearLeases, TypeInv, StoresOK
  <2> QED
    BY <1>6, <2>1, StoresLeases DEF daemon, Unstart, ClearLeases, TypeInv
<1>7. ASSUME ClearRuns PROVE StoresOK'
  <2>1. ASSUME NEW r \in Runs
        PROVE  runs[r] \in Progress /\ [runs[r] EXCEPT !.state = "Failed"] \in Progress
    BY DEF TypeInv, StoresOK, Progress, RunStates
  <2>2. runs' \in [Runs -> Progress]
    BY <1>7, <2>1 DEF ClearRuns
  <2> QED
    BY <1>7, <2>2, StoresRuns DEF daemon, ClearRuns, TypeInv
<1>8. ASSUME ClearFlag PROVE StoresOK'
  BY <1>8, StoresFlag DEF ClearFlag, TypeInv
<1> QED
  BY <1>5, <1>6, <1>7, <1>8 DEF TypeInv

-----------------------------------------------------------------------------
(* The steps of a thread that drives a run                                 *)

\* A step of w that keeps its locals, to an operation it is ready for.
LEMMA GoOK ==
  ASSUME TypeInv, NEW w \in Threads, NEW n \in PCs, n \notin AppendPCs,
         n \notin ReqPCs, n \in RunPCs => loc[w].run \in Runs,
         Advance(w, n, loc[w])
  PROVE  ThreadsOK'
<1>1. loc[w] \in Locals /\ Ready(n, loc[w])
  BY Held DEF Ready, Coming
<1> QED
  BY <1>1, AdvanceOK DEF TypeInv

\* The changes a thread makes to the row of its run.
LEMMA RowTypes ==
  ASSUME TypeInv, NEW r \in Runs, NEW e \in Nat, NEW s \in RunStates
  PROVE  /\ [runs EXCEPT ![r].state = s] \in [Runs -> Progress]
         /\ [runs EXCEPT ![r].state = s, ![r].completed = e] \in [Runs -> Progress]
         /\ [runs EXCEPT ![r].state = s, ![r].completed = runs[r].target]
              \in [Runs -> Progress]
<1>1. runs \in [Runs -> Progress]
  BY DEF TypeInv, StoresOK
<1>2. runs[r].target \in Nat /\ runs[r].completed \in Nat
  BY <1>1 DEF Progress
<1> QED
  BY <1>1, <1>2 DEF Progress

LEMMA EnterTyped ==
  ASSUME RunsAssumption, TypeInv, NEW w \in Workers,
         ResumeRun(w) \/ EnsureCandidate(w) \/ NoEpochs(w) \/ AcquireSection(w) \/ EpochLoop(w)
  PROVE  TypeInv'
<1> DEFINE l == loc[w]
<1>1. w \in Threads
  BY DEF Threads
<1>2. pc[w] \in {"resume", "ensure", "zero", "acquire", "loop"}
  BY DEF ResumeRun, EnsureCandidate, NoEpochs, AcquireSection, EpochLoop
<1>3. l.run \in Runs /\ l.run \in Owners
  BY <1>1, <1>2, Held DEF RunPCs
<1>4. \A n \in {"ensure", "zero", "acquire", "loop", "return", "complete", "renew", "abort"} :
        n \in PCs /\ n \notin AppendPCs /\ n \notin ReqPCs
  BY DEF PCs, AppendPCs, ReqPCs
<1>5. \E n \in {"ensure", "zero", "acquire", "loop", "return", "complete", "renew", "abort"} :
        Advance(w, n, l)
  BY DEF ResumeRun, EnsureCandidate, NoEpochs, AcquireSection, EpochLoop, GiveUp
<1>6. ThreadsOK'
  BY <1>1, <1>3, <1>4, <1>5, GoOK
<1>7. CASE ResumeRun(w) \/ EpochLoop(w)
  BY <1>6, <1>7, StoresStay DEF ResumeRun, EpochLoop, TypeInv
<1>8. CASE EnsureCandidate(w)
  <2>1. snapshot' \in Snapshots
    BY <1>8 DEF EnsureCandidate, Snapshots, TypeInv, StoresOK
  <2>2. UNCHANGED <<leases, runs, journal, tmp, up, recovering, crashes, answered>>
    BY <1>8 DEF EnsureCandidate, db
  <2>3. StoresOK'
    BY <2>1, <2>2 DEF TypeInv, StoresOK
  <2> QED
    BY <1>6, <2>3 DEF TypeInv
<1>9. CASE NoEpochs(w)
  <2>1. runs' \in [Runs -> Progress]
    BY <1>3, <1>9, RowTypes DEF NoEpochs, RunStates
  <2> QED
    BY <1>6, <1>9, <2>1, StoresRuns DEF daemon, NoEpochs, TypeInv
<1>10. CASE AcquireSection(w)
  <2>1. leases' \in [LeaseNames -> Lease]
    BY <1>3, <1>10, LeaseTypes DEF AcquireSection, TypeInv, StoresOK
  <2> QED
    BY <1>6, <1>10, <2>1, StoresLeases DEF daemon, AcquireSection, TypeInv
<1> QED
  BY <1>7, <1>8, <1>9, <1>10

LEMMA EpochTyped ==
  ASSUME RunsAssumption, TypeInv, NEW w \in Workers,
         RenewSection(w) \/ RunEpoch(w) \/ RecordEpoch(w) \/ CompleteRun(w)
  PROVE  TypeInv'
<1> DEFINE l == loc[w]
           k == [l EXCEPT !.epoch = l.epoch + 1]
<1>1. w \in Threads
  BY DEF Threads
<1>2. pc[w] \in {"renew", "epoch", "record", "complete"}
  BY DEF RenewSection, RunEpoch, RecordEpoch, CompleteRun
<1>3. l \in Locals /\ l.run \in Runs /\ l.run \in Owners /\ l.epoch \in Nat
  BY <1>1, <1>2, Held DEF RunPCs
<1>4. k \in Locals /\ k.run = l.run
  BY <1>3 DEF Locals
<1>5. \A n \in {"epoch", "record", "release", "abort", "loop"} :
        n \in PCs /\ n \notin AppendPCs /\ n \notin ReqPCs
  BY DEF PCs, AppendPCs, ReqPCs
<1>6. CASE RenewSection(w)
  <2>1. ASSUME Log(w, k, {}, "epoch", "abort") PROVE ThreadsOK'
    BY <1>1, <1>3, <1>4, <1>5, <2>1, LogOK DEF TypeInv
  <2>2. ASSUME Advance(w, "abort", l) PROVE ThreadsOK'
    BY <1>1, <1>3, <1>5, <2>2, GoOK
  <2>3. ThreadsOK'
    BY <1>6, <2>1, <2>2 DEF RenewSection
  <2>4. leases' \in [LeaseNames -> Lease]
    BY <1>3, <1>6, LeaseTypes DEF RenewSection, TypeInv, StoresOK
  <2> QED
    BY <1>6, <2>3, <2>4, StoresLeases DEF daemon, RenewSection, TypeInv
<1>7. CASE RunEpoch(w)
  <2> DEFINE m == {EpochMark(l.run, l.epoch)}
  <2>1. m \in SUBSET Marks
    BY <1>3, MarkTypes
  <2>2. ASSUME Log(w, l, m, "record", "abort") PROVE ThreadsOK'
    BY <1>1, <1>3, <1>5, <2>1, <2>2, LogOK DEF TypeInv
  <2>3. ASSUME Advance(w, "abort", l) PROVE ThreadsOK'
    BY <1>1, <1>3, <1>5, <2>3, GoOK
  <2>4. ThreadsOK'
    BY <1>7, <2>2, <2>3 DEF RunEpoch
  <2> QED
    BY <1>7, <2>4, StoresStay DEF RunEpoch, TypeInv
<1>8. CASE RecordEpoch(w)
  <2>1. ThreadsOK'
    BY <1>1, <1>3, <1>5, <1>8, GoOK DEF RecordEpoch
  <2>2. runs' \in [Runs -> Progress]
    BY <1>3, <1>8, RowTypes DEF RecordEpoch, RunStates
  <2> QED
    BY <1>8, <2>1, <2>2, StoresRuns DEF daemon, RecordEpoch, TypeInv
<1>9. CASE CompleteRun(w)
  <2>1. {RunMark(l.run)} \in SUBSET Marks
    BY <1>3, MarkTypes
  <2>2. ThreadsOK'
    BY <1>1, <1>3, <1>5, <1>9, <2>1, LogOK DEF CompleteRun, TypeInv
  <2>3. runs' \in [Runs -> Progress]
    BY <1>3, <1>9, RowTypes DEF CompleteRun, RunStates
  <2> QED
    BY <1>9, <2>2, <2>3, StoresRuns DEF daemon, CompleteRun, TypeInv
<1> QED
  BY <1>6, <1>7, <1>8, <1>9

LEMMA LeaveTyped ==
  ASSUME RunsAssumption, TypeInv, NEW w \in Workers,
         ReleaseSection(w) \/ LeavePending(w) \/ Return(w)
  PROVE  TypeInv'
<1> DEFINE l == loc[w]
           k == [l EXCEPT !.run = 0, !.epoch = 0]
<1>1. w \in Threads
  BY DEF Threads
<1>2. l \in Locals /\ l.run \in Owners
  BY <1>1, Held
<1>3. \A n \in {"return", "pend", "pick", "idle"} :
        n \in PCs /\ n \notin AppendPCs /\ n \notin ReqPCs /\ n \notin RunPCs
  BY DEF PCs, AppendPCs, ReqPCs, RunPCs
<1>4. CASE ReleaseSection(w)
  <2>1. ThreadsOK'
    BY <1>1, <1>3, <1>4, GoOK DEF ReleaseSection
  <2>2. leases' \in [LeaseNames -> Lease]
    BY <1>2, <1>4, LeaseTypes DEF ReleaseSection, TypeInv, StoresOK
  <2> QED
    BY <1>4, <2>1, <2>2, StoresLeases DEF daemon, ReleaseSection, TypeInv
<1>5. CASE LeavePending(w)
  <2>1. ThreadsOK'
    BY <1>1, <1>2, <1>3, <1>5, LogOK DEF LeavePending, TypeInv
  <2>2. "RecoveryPending" \in RunStates
    BY DEF RunStates
  <2>3. runs' \in [Runs -> Progress]
    BY <1>5, <2>2 DEF LeavePending, TypeInv, StoresOK, Progress
  <2> QED
    BY <1>5, <2>1, <2>3, StoresRuns DEF daemon, LeavePending, TypeInv
<1>6. CASE Return(w)
  <2>1. 0 \in Owners /\ 0 \in Nat
    BY DEF RunsAssumption, Owners
  <2>5. k \in Locals
    BY <1>2, <2>1 DEF Locals
  <2>2. Ready("pick", k)
    BY <1>3 DEF Ready, Coming
  <2>3. Advance(w, "idle", NoLocals) \/ Advance(w, "pick", k)
    BY <1>6 DEF Return
  <2>4. ThreadsOK'
    BY <1>1, <1>3, <2>2, <2>3, <2>5, NoLocalsTyped, AdvanceOK DEF TypeInv
  <2> QED
    BY <1>6, <2>4, StoresStay DEF Return, TypeInv
<1> QED
  BY <1>4, <1>5, <1>6

-----------------------------------------------------------------------------
(* The steps of a recovery                                                 *)

LEMMA PickTyped ==
  ASSUME RunsAssumption, TypeInv, NEW w \in Workers, Scan(w) \/ PickRun(w)
  PROVE  TypeInv'
<1> DEFINE l == loc[w]
<1>1. w \in Threads
  BY DEF Threads
<1>2. l \in Locals /\ l.todo \in SUBSET Pending
  BY <1>1, Held DEF Locals
<1>3. \A n \in {"pick", "settle", "mark"} :
        n \in PCs /\ n \notin AppendPCs /\ n \notin ReqPCs
  BY DEF PCs, AppendPCs, ReqPCs
<1>4. CASE Scan(w)
  <2> DEFINE todo == {[run |-> r, completed |-> runs[r].completed] :
                        r \in {s \in Runs : Allowed(s)}}
             k == [l EXCEPT !.todo = todo]
  <2>1. \A r \in Runs : runs[r].completed \in Nat
    BY DEF TypeInv, StoresOK, Progress
  <2>2. todo \in SUBSET Pending
    BY <2>1 DEF Pending
  <2> HIDE DEF todo
  <2>3. k \in Locals
    BY <1>2, <2>2 DEF Locals
  <2>4. Ready("pick", k)
    BY <1>3 DEF Ready, Coming, RunPCs
  <2>5. Advance(w, "pick", k)
    BY <1>4 DEF Scan, todo
  <2>6. ThreadsOK'
    BY <1>1, <1>3, <2>3, <2>4, <2>5, AdvanceOK DEF TypeInv
  <2> QED
    BY <1>4, <2>6, StoresStay DEF Scan, TypeInv
<1>5. CASE PickRun(w)
  <2>1. PICK p \in l.todo : \E safe \in Done(p) :
          Advance(w, IF safe >= runs[p.run].target THEN "settle" ELSE "mark",
                  [l EXCEPT !.run = p.run, !.epoch = safe, !.todo = l.todo \ {p}])
    BY <1>5 DEF PickRun
  <2>0. PICK safe \in Done(p) :
          Advance(w, IF safe >= runs[p.run].target THEN "settle" ELSE "mark",
                  [l EXCEPT !.run = p.run, !.epoch = safe, !.todo = l.todo \ {p}])
    BY <2>1
  <2> DEFINE k == [l EXCEPT !.run = p.run, !.epoch = safe, !.todo = l.todo \ {p}]
  <2>2. p \in Pending /\ p.run \in Runs /\ p.run \in Owners /\ p.completed \in Nat
    BY <1>2, <2>1 DEF Pending, Runs, Owners
  <2>3. \A m \in Marks : m[1] = "epoch" => m[3] \in Nat
    BY DEF Marks
  <2>4. safe \in Nat
    BY <2>0, <2>2, <2>3 DEF Done, Committed, TypeInv, StoresOK
  <2>5. k \in Locals /\ k.run = p.run
    BY <1>2, <2>2, <2>4 DEF Locals
  <2>6. \A n \in {"settle", "mark"} : Ready(n, k)
    BY <1>3, <2>2, <2>5 DEF Ready, Coming
  <2>7. \E n \in {"settle", "mark"} : Advance(w, n, k)
    BY <2>0
  <2>8. ThreadsOK'
    BY <1>1, <1>3, <2>5, <2>6, <2>7, AdvanceOK DEF TypeInv
  <2> QED
    BY <1>5, <2>8, StoresStay DEF PickRun, TypeInv
<1> QED
  BY <1>4, <1>5

LEMMA SettleTyped ==
  ASSUME RunsAssumption, TypeInv, NEW w \in Workers,
         SettleRun(w) \/ CommitMarker(w) \/ MarkPending(w) \/ FinishRecovery(w)
  PROVE  TypeInv'
<1> DEFINE l == loc[w]
<1>1. w \in Threads
  BY DEF Threads
<1>2. /\ l \in Locals /\ l.epoch \in Nat
      /\ pc[w] \in RunPCs => l.run \in Runs
  BY <1>1, Held
<1>3. \A n \in {"marker", "return", "finish", "resume", "idle"} :
        n \in PCs /\ n \notin AppendPCs /\ n \notin ReqPCs
  BY DEF PCs, AppendPCs, ReqPCs
<1>4. CASE SettleRun(w)
  <2>1. l.run \in Runs
    BY <1>2, <1>4 DEF SettleRun, RunPCs
  <2>2. ThreadsOK'
    BY <1>1, <1>3, <1>4, <2>1, GoOK DEF SettleRun
  <2>3. runs' \in [Runs -> Progress]
    BY <1>4, <2>1, RowTypes DEF SettleRun, RunStates
  <2> QED
    BY <1>4, <2>2, <2>3, StoresRuns DEF daemon, SettleRun, TypeInv
<1>5. CASE CommitMarker(w)
  <2>1. l.run \in Runs
    BY <1>2, <1>5 DEF CommitMarker, RunPCs
  <2>2. {RunMark(l.run)} \in SUBSET Marks
    BY <2>1, MarkTypes
  <2>3. ASSUME Advance(w, "return", l) PROVE ThreadsOK'
    BY <1>1, <1>3, <2>1, <2>3, GoOK
  <2>4. ASSUME Log(w, l, {RunMark(l.run)}, "return", "finish") PROVE ThreadsOK'
    BY <1>1, <1>2, <1>3, <2>1, <2>2, <2>4, LogOK DEF TypeInv
  <2>5. ThreadsOK'
    BY <1>5, <2>3, <2>4 DEF CommitMarker
  <2>6. UNCHANGED <<db, files, daemon, answered>>
    BY <1>5 DEF CommitMarker
  <2>7. StoresOK'
    BY <2>6, StoresStay DEF TypeInv
  <2> QED
    BY <2>5, <2>7 DEF TypeInv
<1>6. CASE MarkPending(w)
  <2>1. l.run \in Runs
    BY <1>2, <1>6 DEF MarkPending, RunPCs
  <2>2. ThreadsOK'
    BY <1>1, <1>2, <1>3, <1>6, <2>1, LogOK DEF MarkPending, TypeInv
  <2>3. runs' \in [Runs -> Progress]
    BY <1>2, <1>6, <2>1, RowTypes DEF MarkPending, RunStates
  <2> QED
    BY <1>6, <2>2, <2>3, StoresRuns DEF daemon, MarkPending, TypeInv
<1>7. CASE FinishRecovery(w)
  <2>1. ThreadsOK'
    BY <1>1, <1>3, <1>7, NoLocalsTyped, AdvanceOK DEF FinishRecovery, TypeInv
  <2> QED
    BY <1>7, <2>1, StoresFlag DEF FinishRecovery, TypeInv
<1> QED
  BY <1>4, <1>5, <1>6, <1>7

-----------------------------------------------------------------------------
(* The clock, the daemon, and the theorems                                 *)

LEMMA TickTyped ==
  ASSUME RunsAssumption, TypeInv, Tick
  PROVE  TypeInv'
<1>1. ASSUME NEW name \in LeaseNames, leases[name].left > 0
      PROVE  [leases[name] EXCEPT !.left = leases[name].left - 1] \in Lease
  <2>1. leases[name] \in Lease
    BY DEF TypeInv, StoresOK
  <2>2. leases[name].left - 1 \in 0 .. TTL
    BY <1>1, <2>1 DEF Lease, RunsAssumption
  <2> QED
    BY <2>1, <2>2 DEF Lease
<1>2. leases' \in [LeaseNames -> Lease]
  BY <1>1 DEF Tick, TypeInv, StoresOK
<1>3. ThreadsOK'
  BY ThreadsStay DEF Tick, TypeInv
<1> QED
  BY <1>2, <1>3, StoresLeases DEF daemon, Tick, TypeInv

LEMMA RestartTyped ==
  ASSUME TypeInv, NEW w \in Workers, Restart(w)
  PROVE  TypeInv'
<1> DEFINE c == [NoLocals EXCEPT !.job = "recover"]
<1>1. c \in Locals
  BY NoLocalsTyped DEF Locals
<1>2. Ready("scan", c) /\ "scan" \in PCs /\ w \in Threads
  BY DEF Ready, Coming, AppendPCs, RunPCs, ReqPCs, PCs, Threads
<1>3. ThreadsOK'
  BY <1>1, <1>2, AdvanceOK DEF Restart, TypeInv
<1>4. up' \in BOOLEAN /\ recovering' \in BOOLEAN
  BY DEF Restart
<1> QED
  BY <1>3, <1>4 DEF Restart, TypeInv, StoresOK, db, files

LEMMA CrashTyped ==
  ASSUME RunsAssumption, TypeInv, Crash
  PROVE  TypeInv'
<1>1. ThreadsOK'
  BY NoLocalsTyped DEF Crash, ThreadsOK, PCs
<1>2. crashes' \in 0 .. MaxCrashes
  BY DEF Crash, TypeInv, StoresOK, RunsAssumption
<1>3. up' \in BOOLEAN /\ recovering' \in BOOLEAN
  BY DEF Crash
<1> QED
  BY <1>1, <1>2, <1>3 DEF Crash, TypeInv, StoresOK, db, files

LEMMA NextTyped ==
  ASSUME RunsAssumption, TypeInv, [Next]_vars
  PROVE  TypeInv'
<1>1. CASE \E q \in Requests : Receive(q)
  BY <1>1, ReceiveTyped
<1>2. CASE ServiceStep
  <2>1. Service \in Threads
    BY DEF Threads
  <2> QED
    BY <1>2, <2>1, AppendTyped, AnswerTyped, StartTyped, InsertTyped, SpawnTyped,
       ClearTyped DEF ServiceStep
<1>3. ASSUME NEW w \in Workers, WorkerStep(w)
      PROVE  TypeInv'
  <2>1. w \in Threads
    BY DEF Threads
  <2>2. CASE AppendStep(w)
    BY <2>1, <2>2, AppendTyped
  <2>3. CASE DriveStep(w)
    BY <2>3, EnterTyped, EpochTyped, LeaveTyped DEF DriveStep
  <2>4. CASE RecoverStep(w)
    BY <2>4, PickTyped, SettleTyped DEF RecoverStep
  <2> QED
    BY <1>3, <2>2, <2>3, <2>4 DEF WorkerStep
<1>4. CASE \E w \in Workers : Restart(w)
  BY <1>4, RestartTyped
<1>5. CASE Tick
  BY <1>5, TickTyped
<1>6. CASE Crash
  BY <1>6, CrashTyped
<1>7. CASE UNCHANGED vars
  <2>1. ThreadsOK'
    BY <1>7, ThreadsStay DEF vars, TypeInv
  <2>2. StoresOK'
    BY <1>7 DEF vars, db, files, daemon, TypeInv, StoresOK
  <2> QED
    BY <2>1, <2>2 DEF TypeInv
<1> QED
  BY <1>1, <1>2, <1>3, <1>4, <1>5, <1>6, <1>7 DEF Next

\* A thread gives up, or takes up again, no run but its own and those it has to do.
LEMMA StrandedWorker ==
  ASSUME NEW w \in Workers, WorkerStep(w)
  PROVE  \/ stranded' = stranded
         \/ (EnsureCandidate(w) \/ AcquireSection(w)) /\ loc[w].job = "start"
              /\ stranded' = stranded \cup {loc[w].run}
         \/ MarkPending(w) /\ stranded' = stranded \ {loc[w].run}
         \/ FinishRecovery(w) /\ stranded' = stranded \cup LeftBehind(w)
<1>1. CASE AppendStep(w)
  BY <1>1 DEF AppendStep, ReadJournal, WriteTmp, RenameTmp, daemon
<1>2. CASE EnsureCandidate(w) \/ AcquireSection(w)
  BY <1>2 DEF EnsureCandidate, AcquireSection, GiveUp
<1>3. CASE MarkPending(w)
  BY <1>3 DEF MarkPending
<1>4. CASE \/ ResumeRun(w) \/ NoEpochs(w) \/ EpochLoop(w) \/ RenewSection(w) \/ RunEpoch(w)
           \/ RecordEpoch(w) \/ CompleteRun(w) \/ ReleaseSection(w) \/ LeavePending(w)
           \/ Return(w)
  BY <1>4 DEF ResumeRun, NoEpochs, EpochLoop, RenewSection, RunEpoch, RecordEpoch,
     CompleteRun, ReleaseSection, LeavePending, Return, daemon
<1>5. CASE Scan(w) \/ PickRun(w) \/ SettleRun(w) \/ CommitMarker(w) \/ FinishRecovery(w)
  BY <1>5 DEF Scan, PickRun, SettleRun, CommitMarker, FinishRecovery, daemon
<1> QED
  BY <1>1, <1>2, <1>3, <1>4, <1>5 DEF WorkerStep, DriveStep, RecoverStep

LEMMA StrandedOther ==
  ASSUME [Next]_vars, \A w \in Workers : ~WorkerStep(w)
  PROVE  \/ stranded' = stranded
         \/ Unstart /\ stranded' = stranded \cup {loc[Service].run}
         \/ Crash /\ stranded' = {}
<1>1. CASE \/ AppendStep(Service) \/ Replay \/ Pause \/ ClearLeases \/ ClearRuns
           \/ ClearFlag \/ Close \/ Reply
  BY <1>1 DEF AppendStep, ReadJournal, WriteTmp, RenameTmp, Replay, Pause, ClearLeases,
     ClearRuns, ClearFlag, Close, Reply, daemon
<1>2. CASE \/ \E r \in Runs : StartRun(r)
           \/ \E n \in Targets : InsertRun(n)
           \/ \E w \in Workers : SpawnRun(w) \/ Resume(w) \/ Restart(w)
  BY <1>2 DEF StartRun, InsertRun, SpawnRun, Resume, Restart, daemon
<1>3. CASE Unstart \/ Crash
  BY <1>3 DEF Unstart, Crash
<1>4. CASE (\E q \in Requests : Receive(q)) \/ Tick \/ UNCHANGED vars
  BY <1>4 DEF Receive, Tick, vars, daemon
<1> QED
  BY <1>1, <1>2, <1>3, <1>4 DEF Next, ServiceStep

LEMMA StrandedTyped ==
  ASSUME TypeInv, stranded \subseteq Runs, [Next]_vars
  PROVE  stranded' \subseteq Runs
<1>1. ASSUME NEW w \in Workers, WorkerStep(w) PROVE stranded' \subseteq Runs
  <2>1. EnsureCandidate(w) \/ AcquireSection(w) => loc[w].run \in Runs
    BY Held DEF EnsureCandidate, AcquireSection, Threads, RunPCs
  <2>2. LeftBehind(w) \subseteq Runs
    BY DEF LeftBehind
  <2> QED
    BY <1>1, <2>1, <2>2, StrandedWorker
<1>2. CASE \A w \in Workers : ~WorkerStep(w)
  <2>1. Unstart => loc[Service].run \in Runs
    BY Held DEF Unstart, Threads, RunPCs
  <2> QED
    BY <1>2, <2>1, StrandedOther
<1> QED
  BY <1>1, <1>2

\* The tables, files and threads keep their types: a thread that drives a run
\* has one, and the journal names runs, epochs and requests that exist.
THEOREM ControlTyped == Spec => []TypeOK
<1>1. Init => TypeInv
  BY InitTyped, RunsAssumption, ClientsAssumption
<1>2. TypeInv /\ [Next]_vars => TypeInv'
  BY NextTyped, RunsAssumption
<1>3. Init => stranded \subseteq Runs
  BY DEF Init
<1>4. TypeInv /\ stranded \subseteq Runs /\ [Next]_vars => (stranded \subseteq Runs)'
  BY StrandedTyped
<1>5. TypeInv /\ stranded \subseteq Runs => TypeOK
  BY DEF TypeInv, ThreadsOK, StoresOK, TypeOK
<1> QED
  BY <1>1, <1>2, <1>3, <1>4, <1>5, PTL DEF Spec

\* The leases of the epoch critical section have one owner and one expiry at
\* every moment, whatever races, fails or dies: each transaction of leases.rs
\* treats the three alike, and so does ForceClearRecovery.
THEOREM LeasesGoTogether == Spec => []LeasesTogether
<1>1. Init => LeasesTogether
  BY DEF Init, LeasesTogether
<1>2. ASSUME TypeInv, LeasesTogether, [Next]_vars
      PROVE  LeasesTogether'
  <2>1. leases \in [LeaseNames -> Lease] /\ DOMAIN leases = LeaseNames
    BY <1>2 DEF TypeInv, StoresOK
  <2>2. ASSUME UNCHANGED leases PROVE LeasesTogether'
    BY <1>2, <2>2 DEF LeasesTogether
  <2>3. ASSUME NEW r, leases' = Granted(r) PROVE LeasesTogether'
    BY <2>3 DEF LeasesTogether, Granted
  <2>4. ASSUME NEW r, leases' = Released(r) PROVE LeasesTogether'
    BY <1>2, <2>4 DEF LeasesTogether, Released
  <2>5. CASE ClearLeases
    BY <2>5 DEF ClearLeases, LeasesTogether
  <2>6. CASE Tick
    BY <1>2, <2>6 DEF Tick, LeasesTogether
  <2>7. CASE ServiceStep
    <3>1. CASE AppendStep(Service) \/ Replay \/ Pause \/ ClearRuns \/ ClearFlag \/ Close \/ Reply
      BY <3>1, <2>2 DEF AppendStep, ReadJournal, WriteTmp, RenameTmp, Replay, Pause,
         ClearRuns, ClearFlag, Close, Reply, db
    <3>2. CASE Unstart
      BY <3>2, <2>4 DEF Unstart
    <3>3. CASE \E r \in Runs : StartRun(r)
      BY <3>3, <2>2, <2>3 DEF StartRun
    <3>4. CASE \E n \in Targets : InsertRun(n)
      BY <3>4, <2>2 DEF InsertRun
    <3>5. CASE \E w \in Workers : SpawnRun(w) \/ Resume(w)
      BY <3>5, <2>2 DEF SpawnRun, Resume, db
    <3> QED
      BY <2>5, <2>7, <3>1, <3>2, <3>3, <3>4, <3>5 DEF ServiceStep
  <2>8. ASSUME NEW w \in Workers, WorkerStep(w)
        PROVE  LeasesTogether'
    <3>1. CASE AppendStep(w)
      BY <3>1, <2>2 DEF AppendStep, ReadJournal, WriteTmp, RenameTmp, db
    <3>2. CASE RecoverStep(w)
      BY <3>2, <2>2 DEF RecoverStep, Scan, PickRun, SettleRun, CommitMarker, MarkPending,
         FinishRecovery, db
    <3>3. CASE AcquireSection(w) \/ RenewSection(w)
      BY <3>3, <2>2, <2>3 DEF AcquireSection, RenewSection
    <3>4. CASE ReleaseSection(w)
      BY <3>4, <2>4 DEF ReleaseSection
    <3>5. CASE \/ ResumeRun(w) \/ EnsureCandidate(w) \/ NoEpochs(w) \/ EpochLoop(w)
               \/ RunEpoch(w) \/ RecordEpoch(w) \/ CompleteRun(w) \/ LeavePending(w)
               \/ Return(w)
      BY <3>5, <2>2 DEF ResumeRun, EnsureCandidate, NoEpochs, EpochLoop, RunEpoch,
         RecordEpoch, CompleteRun, LeavePending, Return, db
    <3> QED
      BY <2>8, <3>1, <3>2, <3>3, <3>4, <3>5 DEF WorkerStep, DriveStep
  <2>9. CASE \/ \E q \in Requests : Receive(q)
             \/ \E w \in Workers : Restart(w)
             \/ Crash
             \/ UNCHANGED vars
    BY <2>9, <2>2 DEF Receive, Restart, Crash, vars, db
  <2> QED
    BY <1>2, <2>6, <2>7, <2>8, <2>9 DEF Next
<1>3. Init => TypeInv
  BY InitTyped, RunsAssumption, ClientsAssumption
<1>4. TypeInv /\ [Next]_vars => TypeInv'
  BY NextTyped, RunsAssumption
<1> QED
  BY <1>1, <1>2, <1>3, <1>4, PTL DEF Spec
=============================================================================
