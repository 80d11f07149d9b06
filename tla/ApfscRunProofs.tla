--------------------------- MODULE ApfscRunProofs ---------------------------
(***************************************************************************)
(* Theorems about the runs of the APFSC control plane: an operator's       *)
(* override is final, epochs are executed by one thread at a time and      *)
(* never again once they are counted, and no run is lost.                  *)
(***************************************************************************)
EXTENDS ApfscProofs

-----------------------------------------------------------------------------
(* What a step does to the threads and to the rows                         *)

\* The operations thread t is at, or comes to after the append it is in.
To(t) == Coming(pc[t], loc[t])

Unmoved(t) == \A u \in Threads \ {t} : pc'[u] = pc[u] /\ loc'[u] = loc[u]

\* The thread still has its run, its request and its list.
Kept(t) ==
  /\ loc'[t].run = loc[t].run
  /\ loc'[t].epoch = loc[t].epoch
  /\ loc'[t].todo = loc[t].todo
  /\ loc'[t].job = loc[t].job
  /\ loc'[t].req = loc[t].req

Goes(t, n)       == pc'[t] = n /\ To(t)' = {n} /\ Kept(t) /\ Unmoved(t)
Logs(t, m, n, e) == pc'[t] = "read" /\ loc'[t].marks = m /\ To(t)' = {n, e}
                      /\ loc'[t].next = n /\ Kept(t) /\ Unmoved(t)

\* Row r gets a state and a count, the other rows stay.
RowIs(r, s, c) ==
  \A q \in Runs : IF q = r
                  THEN runs'[q].state = s /\ runs'[q].completed = c
                         /\ runs'[q].target = runs[q].target
                  ELSE runs'[q] = runs[q]

LEMMA Advanced ==
  ASSUME TypeInv, NEW t \in Threads
  PROVE  \A n, l : Advance(t, n, l) =>
           pc'[t] = n /\ loc'[t] = l /\ Unmoved(t) /\ (n \notin AppendPCs => To(t)' = {n})
  BY DEF Advance, TypeInv, ThreadsOK, Unmoved, To, Coming

LEMMA Gone ==
  ASSUME TypeInv, NEW t \in Threads
  PROVE  \A n : n \notin AppendPCs /\ Advance(t, n, loc[t]) => Goes(t, n)
  BY Advanced DEF Goes, Kept

LEMMA Logged ==
  ASSUME TypeInv, NEW t \in Threads, NEW l \in Locals, NEW m, NEW n, NEW e, Log(t, l, m, n, e)
  PROVE  /\ pc'[t] = "read" /\ To(t)' = {n, e} /\ loc'[t].marks = m /\ Unmoved(t)
         /\ loc'[t].run = l.run /\ loc'[t].epoch = l.epoch /\ loc'[t].todo = l.todo
         /\ loc'[t].job = l.job /\ loc'[t].req = l.req /\ loc'[t].next = n
<1>. DEFINE k == [l EXCEPT !.marks = m, !.next = n, !.onErr = e]
<1>1. Advance(t, "read", k)
  BY DEF Log
<1>2. /\ k.run = l.run /\ k.epoch = l.epoch /\ k.todo = l.todo /\ k.job = l.job
      /\ k.req = l.req /\ k.marks = m /\ k.next = n /\ k.onErr = e
  BY DEF Locals
<1>. HIDE DEF k
<1>3. pc'[t] = "read" /\ loc'[t] = k /\ Unmoved(t)
  BY <1>1, Advanced
<1>. QED
  BY <1>2, <1>3 DEF To, Coming, AppendPCs

LEMMA LoggedOwn ==
  ASSUME TypeInv, NEW t \in Threads, NEW m, NEW n, NEW e, Log(t, loc[t], m, n, e)
  PROVE  Logs(t, m, n, e)
  BY Held, Logged DEF Logs, Kept

LEMMA RowSet ==
  ASSUME TypeInv, NEW r \in Runs, NEW s, NEW c,
         runs' = [runs EXCEPT ![r].state = s, ![r].completed = c]
  PROVE  RowIs(r, s, c)
  BY DEF TypeInv, StoresOK, Progress, RowIs

-----------------------------------------------------------------------------
(* What each operation does                                                *)

LEMMA EnterEffect ==
  ASSUME TypeInv, NEW w \in Workers
  PROVE  LET r == loc[w].run IN
         /\ ResumeRun(w) =>
              /\ pc[w] = "resume" /\ UNCHANGED <<leases, runs>>
              /\ Goes(w, IF Allowed(r) THEN "ensure" ELSE "return")
         /\ EnsureCandidate(w) =>
              /\ pc[w] = "ensure" /\ UNCHANGED <<leases, runs>>
              /\ \/ /\ stranded' = stranded
                    /\ Goes(w, IF runs[r].target <= loc[w].epoch THEN "zero" ELSE "acquire")
                 \/ Goes(w, "return") /\ (loc[w].job = "start" => r \in stranded')
         /\ NoEpochs(w) =>
              /\ pc[w] = "zero" /\ leases' = leases /\ Goes(w, "return")
              /\ r \in Runs /\ RowIs(r, "Succeeded", runs[r].target)
         /\ AcquireSection(w) =>
              /\ pc[w] = "acquire" /\ runs' = runs
              /\ IF AllGrantable(r)
                 THEN leases' = Granted(r) /\ Goes(w, "loop") /\ stranded' = stranded
                 ELSE /\ leases' = leases /\ Goes(w, "return")
                      /\ loc[w].job = "start" => r \in stranded'
<1>0. w \in Threads /\ (pc[w] \in RunPCs => loc[w].run \in Runs)
  BY Held DEF Threads
<1>1. \A n \in {"ensure", "return", "zero", "acquire", "loop"} : n \notin AppendPCs
  BY DEF AppendPCs
<1>2. CASE ResumeRun(w)
  BY <1>0, <1>1, <1>2, Gone
     DEF ResumeRun, EnsureCandidate, NoEpochs, AcquireSection, db
<1>3. ASSUME EnsureCandidate(w)
      PROVE  /\ pc[w] = "ensure" /\ UNCHANGED <<leases, runs>>
             /\ \/ /\ stranded' = stranded
                   /\ Goes(w, IF runs[loc[w].run].target <= loc[w].epoch THEN "zero"
                              ELSE "acquire")
                \/ /\ Goes(w, "return")
                   /\ loc[w].job = "start" => loc[w].run \in stranded'
  BY <1>0, <1>1, <1>3, Gone DEF EnsureCandidate, GiveUp, db
<1>4. CASE NoEpochs(w)
  BY <1>0, <1>1, <1>4, Gone, RowSet
     DEF ResumeRun, EnsureCandidate, NoEpochs, AcquireSection, RunPCs
<1>5. CASE AcquireSection(w)
  BY <1>0, <1>1, <1>5, Gone
     DEF ResumeRun, EnsureCandidate, NoEpochs, AcquireSection, GiveUp
<1>. QED
  BY <1>2, <1>3, <1>4, <1>5

LEMMA EpochEffect ==
  ASSUME TypeInv, NEW w \in Workers
  PROVE  LET l == loc[w] r == loc[w].run IN
         /\ EpochLoop(w) =>
              /\ pc[w] = "loop" /\ UNCHANGED <<leases, runs>>
              /\ Goes(w, IF l.epoch >= runs[r].target THEN "complete"
                         ELSE IF Allowed(r) THEN "renew" ELSE "abort")
         /\ RenewSection(w) =>
              /\ pc[w] = "renew" /\ runs' = runs
              /\ \/ /\ AllOwned(r) /\ leases' = Granted(r)
                    /\ pc'[w] = "read" /\ To(w)' = {"epoch", "abort"} /\ Unmoved(w)
                    /\ loc'[w].marks = {} /\ loc'[w].epoch = l.epoch + 1
                    /\ loc'[w].run = r /\ loc'[w].todo = l.todo /\ loc'[w].job = l.job
                 \/ ~AllOwned(r) /\ leases' = leases /\ Goes(w, "abort")
         /\ RunEpoch(w) =>
              /\ pc[w] = "epoch" /\ UNCHANGED <<leases, runs>>
              /\ \/ Logs(w, {EpochMark(r, l.epoch)}, "record", "abort")
                 \/ Goes(w, "abort")
         /\ RecordEpoch(w) =>
              /\ pc[w] = "record" /\ leases' = leases /\ Goes(w, "loop")
              /\ r \in Runs /\ RowIs(r, "Running", l.epoch)
         /\ CompleteRun(w) =>
              /\ pc[w] = "complete" /\ leases' = leases
              /\ Logs(w, {RunMark(r)}, "release", "abort")
              /\ r \in Runs /\ RowIs(r, "Succeeded", runs[r].target)
<1>0. w \in Threads /\ (pc[w] \in RunPCs => loc[w].run \in Runs) /\ loc[w] \in Locals
  BY Held DEF Threads
<1>1. \A n \in {"complete", "renew", "abort", "loop"} : n \notin AppendPCs
  BY DEF AppendPCs
<1>2. EpochLoop(w) =>
        /\ pc[w] = "loop" /\ UNCHANGED <<leases, runs>>
        /\ Goes(w, IF loc[w].epoch >= runs[loc[w].run].target THEN "complete"
                   ELSE IF Allowed(loc[w].run) THEN "renew" ELSE "abort")
  BY <1>0, <1>1, Gone DEF EpochLoop, db
<1>3. ASSUME RenewSection(w)
      PROVE  /\ pc[w] = "renew" /\ runs' = runs
             /\ \/ /\ AllOwned(loc[w].run) /\ leases' = Granted(loc[w].run)
                   /\ pc'[w] = "read" /\ To(w)' = {"epoch", "abort"} /\ Unmoved(w)
                   /\ loc'[w].marks = {} /\ loc'[w].epoch = loc[w].epoch + 1
                   /\ loc'[w].run = loc[w].run /\ loc'[w].todo = loc[w].todo
                   /\ loc'[w].job = loc[w].job
                \/ ~AllOwned(loc[w].run) /\ leases' = leases /\ Goes(w, "abort")
  <2>. DEFINE k == [loc[w] EXCEPT !.epoch = loc[w].epoch + 1]
  <2>1. /\ k \in Locals /\ k.epoch = loc[w].epoch + 1 /\ k.run = loc[w].run
        /\ k.todo = loc[w].todo /\ k.job = loc[w].job
    BY <1>0 DEF Locals
  <2>2. \/ AllOwned(loc[w].run) /\ leases' = Granted(loc[w].run)
             /\ Log(w, k, {}, "epoch", "abort")
        \/ ~AllOwned(loc[w].run) /\ leases' = leases /\ Advance(w, "abort", loc[w])
    BY <1>3 DEF RenewSection
  <2>. HIDE DEF k
  <2>3. QED
    BY <1>0, <1>1, <1>3, <2>1, <2>2, Gone, Logged DEF RenewSection
<1>4. ASSUME RunEpoch(w)
      PROVE  /\ pc[w] = "epoch" /\ UNCHANGED <<leases, runs>>
             /\ \/ Logs(w, {EpochMark(loc[w].run, loc[w].epoch)}, "record", "abort")
                \/ Goes(w, "abort")
  BY <1>0, <1>1, <1>4, Gone, LoggedOwn DEF RunEpoch, db
<1>5. ASSUME RecordEpoch(w)
      PROVE  /\ pc[w] = "record" /\ leases' = leases /\ Goes(w, "loop")
             /\ loc[w].run \in Runs /\ RowIs(loc[w].run, "Running", loc[w].epoch)
  BY <1>0, <1>1, <1>5, Gone, RowSet DEF RecordEpoch, RunPCs
<1>6. ASSUME CompleteRun(w)
      PROVE  /\ pc[w] = "complete" /\ leases' = leases
             /\ Logs(w, {RunMark(loc[w].run)}, "release", "abort")
             /\ loc[w].run \in Runs
             /\ RowIs(loc[w].run, "Succeeded", runs[loc[w].run].target)
  BY <1>0, <1>6, LoggedOwn, RowSet DEF CompleteRun, RunPCs
<1>. QED
  BY <1>2, <1>3, <1>4, <1>5, <1>6

LEMMA LeaveEffect ==
  ASSUME TypeInv, NEW w \in Workers
  PROVE  LET l == loc[w] r == loc[w].run IN
         /\ ReleaseSection(w) =>
              /\ pc[w] \in {"release", "abort"} /\ runs' = runs /\ leases' = Released(r)
              /\ Goes(w, IF pc[w] = "release" THEN "return" ELSE "pend")
         /\ LeavePending(w) =>
              /\ pc[w] = "pend" /\ leases' = leases /\ Logs(w, {}, "return", "return")
              /\ RowIs(r, "RecoveryPending", runs[r].completed)
         /\ Return(w) =>
              /\ pc[w] = "return" /\ UNCHANGED <<leases, runs>> /\ Unmoved(w)
              /\ IF l.job = "start"
                 THEN pc'[w] = "idle" /\ loc'[w] = NoLocals
                 ELSE /\ pc'[w] = "pick" /\ To(w)' = {"pick"}
                      /\ loc'[w].run = 0 /\ loc'[w].epoch = 0
                      /\ loc'[w].todo = l.todo /\ loc'[w].job = l.job
<1>0. w \in Threads /\ loc[w] \in Locals
  BY Held DEF Threads
<1>1. \A n \in {"return", "pend", "pick"} : n \notin AppendPCs
  BY DEF AppendPCs
<1>2. ASSUME ReleaseSection(w)
      PROVE  /\ pc[w] \in {"release", "abort"} /\ runs' = runs
             /\ leases' = Released(loc[w].run)
             /\ Goes(w, IF pc[w] = "release" THEN "return" ELSE "pend")
  BY <1>0, <1>1, <1>2, Gone DEF ReleaseSection
<1>3. ASSUME LeavePending(w)
      PROVE  /\ pc[w] = "pend" /\ leases' = leases /\ Logs(w, {}, "return", "return")
             /\ RowIs(loc[w].run, "RecoveryPending", runs[loc[w].run].completed)
  <2>1. RowIs(loc[w].run, "RecoveryPending", runs[loc[w].run].completed)
    BY <1>3 DEF LeavePending, RowIs, TypeInv, StoresOK, Progress
  <2>2. QED
    BY <1>0, <1>3, <2>1, LoggedOwn DEF LeavePending
<1>4. ASSUME Return(w)
      PROVE  /\ pc[w] = "return" /\ UNCHANGED <<leases, runs>> /\ Unmoved(w)
             /\ IF loc[w].job = "start"
                THEN pc'[w] = "idle" /\ loc'[w] = NoLocals
                ELSE /\ pc'[w] = "pick" /\ To(w)' = {"pick"}
                     /\ loc'[w].run = 0 /\ loc'[w].epoch = 0
                     /\ loc'[w].todo = loc[w].todo /\ loc'[w].job = loc[w].job
  <2>. DEFINE k == [loc[w] EXCEPT !.run = 0, !.epoch = 0]
  <2>1. k.run = 0 /\ k.epoch = 0 /\ k.todo = loc[w].todo /\ k.job = loc[w].job
    BY <1>0 DEF Locals
  <2>2. IF loc[w].job = "start" THEN Advance(w, "idle", NoLocals) ELSE Advance(w, "pick", k)
    BY <1>4 DEF Return
  <2>. HIDE DEF k
  <2>3. QED
    BY <1>0, <1>1, <1>4, <2>1, <2>2, Advanced DEF Return, db
<1>. QED
  BY <1>2, <1>3, <1>4

LEMMA RecoverEffect ==
  ASSUME TypeInv, NEW w \in Workers
  PROVE  LET l == loc[w] r == loc[w].run IN
         /\ Scan(w) =>
              /\ pc[w] = "scan" /\ UNCHANGED <<leases, runs>> /\ Unmoved(w)
              /\ pc'[w] = "pick" /\ To(w)' = {"pick"}
              /\ loc'[w].run = r /\ loc'[w].epoch = l.epoch /\ loc'[w].job = l.job
              /\ loc'[w].todo = {[run |-> s, completed |-> runs[s].completed] :
                                   s \in {q \in Runs : Allowed(q)}}
         /\ PickRun(w) =>
              /\ pc[w] = "pick" /\ UNCHANGED <<leases, runs>> /\ Unmoved(w)
              /\ \E p \in l.todo : \E safe \in Nat :
                   LET n == IF safe >= runs[p.run].target THEN "settle" ELSE "mark" IN
                   /\ p \in Pending
                   /\ safe >= p.completed
                   /\ \A e : EpochMark(p.run, e) \in journal => e <= safe
                   /\ pc'[w] = n /\ To(w)' = {n}
                   /\ loc'[w].run = p.run /\ loc'[w].epoch = safe
                   /\ loc'[w].todo = l.todo \ {p} /\ loc'[w].job = l.job
         /\ SettleRun(w) =>
              /\ pc[w] = "settle" /\ leases' = leases /\ Goes(w, "marker")
              /\ r \in Runs /\ RowIs(r, "Succeeded", runs[r].target)
         /\ CommitMarker(w) =>
              /\ pc[w] = "marker" /\ UNCHANGED <<leases, runs>>
              /\ Goes(w, "return") \/ Logs(w, {RunMark(r)}, "return", "finish")
         /\ MarkPending(w) =>
              /\ pc[w] = "mark" /\ leases' = leases /\ Logs(w, {}, "resume", "finish")
              /\ r \in Runs /\ RowIs(r, "RecoveryPending", l.epoch)
         /\ FinishRecovery(w) =>
              /\ pc[w] = "finish" \/ (pc[w] = "pick" /\ l.todo = {})
              /\ UNCHANGED <<leases, runs>> /\ Unmoved(w)
              /\ pc'[w] = "idle" /\ loc'[w] = NoLocals
<1>0. /\ w \in Threads /\ loc[w] \in Locals /\ (pc[w] \in RunPCs => loc[w].run \in Runs)
      /\ loc[w].todo \in SUBSET Pending
  BY Held DEF Threads, Locals
<1>1. \A n \in {"pick", "settle", "mark", "marker", "return", "resume", "finish"} :
        n \notin AppendPCs
  BY DEF AppendPCs
<1>2. ASSUME Scan(w)
      PROVE  /\ pc[w] = "scan" /\ UNCHANGED <<leases, runs>> /\ Unmoved(w)
             /\ pc'[w] = "pick" /\ To(w)' = {"pick"}
             /\ loc'[w].run = loc[w].run /\ loc'[w].epoch = loc[w].epoch
             /\ loc'[w].job = loc[w].job
             /\ loc'[w].todo = {[run |-> s, completed |-> runs[s].completed] :
                                  s \in {q \in Runs : Allowed(q)}}
  <2>. DEFINE found == {[run |-> s, completed |-> runs[s].completed] :
                          s \in {q \in Runs : Allowed(q)}}
              k == [loc[w] EXCEPT !.todo = found]
  <2>1. Advance(w, "pick", k)
    BY <1>2 DEF Scan
  <2>. HIDE DEF found
  <2>2. /\ k.run = loc[w].run /\ k.epoch = loc[w].epoch /\ k.job = loc[w].job
        /\ k.todo = found
    BY <1>0 DEF Locals
  <2>. HIDE DEF k
  <2>3. /\ pc'[w] = "pick" /\ To(w)' = {"pick"} /\ Unmoved(w) /\ loc'[w] = k
    BY <1>0, <1>1, <2>1, Advanced
  <2>4. QED
    BY <1>2, <2>2, <2>3 DEF Scan, db, found
<1>3. ASSUME PickRun(w)
      PROVE  /\ pc[w] = "pick" /\ UNCHANGED <<leases, runs>> /\ Unmoved(w)
             /\ \E p \in loc[w].todo : \E safe \in Nat :
                  LET n == IF safe >= runs[p.run].target THEN "settle" ELSE "mark" IN
                  /\ p \in Pending
                  /\ safe >= p.completed
                  /\ \A e : EpochMark(p.run, e) \in journal => e <= safe
                  /\ pc'[w] = n /\ To(w)' = {n}
                  /\ loc'[w].run = p.run /\ loc'[w].epoch = safe
                  /\ loc'[w].todo = loc[w].todo \ {p} /\ loc'[w].job = loc[w].job
  <2>1. PICK p \in loc[w].todo : \E safe \in Done(p) :
          /\ \A e \in Done(p) : e <= safe
          /\ Advance(w, IF safe >= runs[p.run].target THEN "settle" ELSE "mark",
                     [loc[w] EXCEPT !.run = p.run, !.epoch = safe, !.todo = loc[w].todo \ {p}])
    BY <1>3 DEF PickRun
  <2>2. PICK safe \in Done(p) :
          /\ \A e \in Done(p) : e <= safe
          /\ Advance(w, IF safe >= runs[p.run].target THEN "settle" ELSE "mark",
                     [loc[w] EXCEPT !.run = p.run, !.epoch = safe, !.todo = loc[w].todo \ {p}])
    BY <2>1
  <2>3. p \in Pending /\ p.completed \in Nat
    BY <1>0 DEF Pending
  <2>4. \A m \in Marks : m[1] = "epoch" => m[3] \in Nat
    BY DEF Marks
  <2>5. ASSUME NEW e, EpochMark(p.run, e) \in journal PROVE e \in Done(p)
    <3>1. PICK m \in journal : m = EpochMark(p.run, e)
      BY <2>5
    <3>2. m[1] = "epoch" /\ m[2] = p.run /\ m[3] = e
      BY <3>1 DEF EpochMark
    <3>3. QED
      BY <3>2 DEF Done, Committed
  <2>6. safe \in Nat
    BY <2>2, <2>3, <2>4 DEF Done, Committed, TypeInv, StoresOK
  <2>7. safe >= p.completed /\ \A e : EpochMark(p.run, e) \in journal => e <= safe
    BY <2>2, <2>5 DEF Done
  <2>. DEFINE k == [loc[w] EXCEPT !.run = p.run, !.epoch = safe, !.todo = loc[w].todo \ {p}]
              n == IF safe >= runs[p.run].target THEN "settle" ELSE "mark"
  <2>8. /\ k.run = p.run /\ k.epoch = safe /\ k.todo = loc[w].todo \ {p}
        /\ k.job = loc[w].job
    BY <1>0 DEF Locals
  <2>9. Advance(w, n, k) /\ n \notin AppendPCs
    BY <1>1, <2>2
  <2>10. pc[w] = "pick" /\ UNCHANGED <<leases, runs>>
    BY <1>3 DEF PickRun, db
  <2>. HIDE DEF k, n
  <2>11. pc'[w] = n /\ To(w)' = {n} /\ Unmoved(w) /\ loc'[w] = k
    BY <1>0, <2>9, Advanced
  <2>12. QED
    BY <2>3, <2>6, <2>7, <2>8, <2>10, <2>11 DEF n
<1>4. ASSUME SettleRun(w)
      PROVE  /\ pc[w] = "settle" /\ leases' = leases /\ Goes(w, "marker")
             /\ loc[w].run \in Runs
             /\ RowIs(loc[w].run, "Succeeded", runs[loc[w].run].target)
  BY <1>0, <1>1, <1>4, Gone, RowSet DEF SettleRun, RunPCs
<1>5. ASSUME CommitMarker(w)
      PROVE  /\ pc[w] = "marker" /\ UNCHANGED <<leases, runs>>
             /\ Goes(w, "return") \/ Logs(w, {RunMark(loc[w].run)}, "return", "finish")
  BY <1>0, <1>1, <1>5, Gone, LoggedOwn DEF CommitMarker, db
<1>6. ASSUME MarkPending(w)
      PROVE  /\ pc[w] = "mark" /\ leases' = leases /\ Logs(w, {}, "resume", "finish")
             /\ loc[w].run \in Runs /\ RowIs(loc[w].run, "RecoveryPending", loc[w].epoch)
  BY <1>0, <1>6, LoggedOwn, RowSet DEF MarkPending, RunPCs
<1>7. ASSUME FinishRecovery(w)
      PROVE  /\ pc[w] = "finish" \/ (pc[w] = "pick" /\ loc[w].todo = {})
             /\ UNCHANGED <<leases, runs>> /\ Unmoved(w)
             /\ pc'[w] = "idle" /\ loc'[w] = NoLocals
  BY <1>0, <1>7, Advanced DEF FinishRecovery, db
<1>. QED
  BY <1>2, <1>3, <1>4, <1>5, <1>6, <1>7

\* Only an append touches the journal, only the daemon's life its being up.
LEMMA WorkerFiles ==
  ASSUME NEW w \in Workers, DriveStep(w) \/ RecoverStep(w)
  PROVE  UNCHANGED <<journal, tmp, up>>
  BY DEF DriveStep, RecoverStep, ResumeRun, EnsureCandidate, NoEpochs, AcquireSection,
         EpochLoop, RenewSection, RunEpoch, RecordEpoch, CompleteRun, ReleaseSection,
         LeavePending, Return, Scan, PickRun, SettleRun, CommitMarker, MarkPending,
         FinishRecovery, files, daemon

LEMMA AppendEffect ==
  ASSUME TypeInv, NEW t \in Threads
  PROVE  LET l == loc[t] IN
         /\ ReadJournal(t) =>
              /\ pc[t] = "read" /\ pc'[t] = "write" /\ UNCHANGED <<journal, tmp>>
              /\ To(t)' = To(t) /\ loc'[t].seen = journal /\ loc'[t].marks = l.marks
              /\ loc'[t].next = l.next
         /\ WriteTmp(t) =>
              /\ pc[t] = "write" /\ pc'[t] = "rename" /\ journal' = journal
              /\ To(t)' = To(t) /\ tmp'.there /\ tmp'.marks = l.seen \cup l.marks
              /\ loc'[t].next = l.next
         /\ RenameTmp(t) =>
              /\ pc[t] = "rename"
              /\ IF tmp.there
                 THEN journal' = tmp.marks /\ ~tmp'.there /\ pc'[t] = l.next
                 ELSE UNCHANGED <<journal, tmp>> /\ pc'[t] = l.onErr
              /\ To(t) = {l.next, l.onErr}
              /\ pc'[t] \notin AppendPCs => To(t)' = {pc'[t]}
         /\ AppendStep(t) => Unmoved(t) /\ Kept(t) /\ UNCHANGED <<leases, runs, up>>
<1>0. loc[t] \in Locals
  BY Held
<1>1. ASSUME ReadJournal(t)
      PROVE  /\ pc[t] = "read" /\ pc'[t] = "write" /\ UNCHANGED <<journal, tmp>>
             /\ To(t)' = To(t) /\ loc'[t].seen = journal /\ loc'[t].marks = loc[t].marks
             /\ loc'[t].next = loc[t].next
             /\ Unmoved(t) /\ Kept(t) /\ UNCHANGED <<leases, runs, up>>
  <2>. DEFINE k == [loc[t] EXCEPT !.seen = journal]
  <2>1. /\ k.run = loc[t].run /\ k.epoch = loc[t].epoch /\ k.todo = loc[t].todo
        /\ k.job = loc[t].job /\ k.req = loc[t].req /\ k.seen = journal
        /\ k.marks = loc[t].marks /\ k.next = loc[t].next /\ k.onErr = loc[t].onErr
    BY <1>0 DEF Locals
  <2>2. Advance(t, "write", k) /\ pc[t] = "read"
    BY <1>1 DEF ReadJournal
  <2>. HIDE DEF k
  <2>3. pc'[t] = "write" /\ loc'[t] = k /\ Unmoved(t)
    BY <2>2, Advanced
  <2>4. UNCHANGED <<journal, tmp, leases, runs, up>>
    BY <1>1 DEF ReadJournal, db, files, daemon
  <2>5. To(t)' = To(t)
    BY <2>1, <2>2, <2>3 DEF To, Coming, AppendPCs
  <2>6. QED
    BY <2>1, <2>2, <2>3, <2>4, <2>5 DEF Kept
<1>2. ASSUME WriteTmp(t)
      PROVE  /\ pc[t] = "write" /\ pc'[t] = "rename" /\ journal' = journal
             /\ To(t)' = To(t) /\ tmp'.there /\ tmp'.marks = loc[t].seen \cup loc[t].marks
             /\ loc'[t].next = loc[t].next
             /\ Unmoved(t) /\ Kept(t) /\ UNCHANGED <<leases, runs, up>>
  <2>1. pc[t] = "write" /\ pc'[t] = "rename" /\ loc'[t] = loc[t] /\ Unmoved(t)
    BY <1>2, Advanced DEF WriteTmp
  <2>2. /\ UNCHANGED <<journal, leases, runs, up>>
        /\ tmp'.there /\ tmp'.marks = loc[t].seen \cup loc[t].marks
    BY <1>2 DEF WriteTmp, db, daemon
  <2>3. To(t)' = To(t)
    BY <2>1 DEF To, Coming, AppendPCs
  <2>4. QED
    BY <2>1, <2>2, <2>3 DEF Kept
<1>3. ASSUME RenameTmp(t)
      PROVE  /\ pc[t] = "rename"
             /\ IF tmp.there
                THEN journal' = tmp.marks /\ ~tmp'.there /\ pc'[t] = loc[t].next
                ELSE UNCHANGED <<journal, tmp>> /\ pc'[t] = loc[t].onErr
             /\ To(t) = {loc[t].next, loc[t].onErr}
             /\ pc'[t] \notin AppendPCs => To(t)' = {pc'[t]}
             /\ Unmoved(t) /\ Kept(t) /\ UNCHANGED <<leases, runs, up>>
  <2>. DEFINE k == [loc[t] EXCEPT !.marks = {}, !.seen = {}, !.next = "idle", !.onErr = "idle"]
  <2>1. /\ k.run = loc[t].run /\ k.epoch = loc[t].epoch /\ k.todo = loc[t].todo
        /\ k.job = loc[t].job /\ k.req = loc[t].req
    BY <1>0 DEF Locals
  <2>2. PICK n \in {loc[t].next, loc[t].onErr} :
          Advance(t, n, k) /\ n = IF tmp.there THEN loc[t].next ELSE loc[t].onErr
    BY <1>3 DEF RenameTmp
  <2>. HIDE DEF k
  <2>3. pc'[t] = n /\ loc'[t] = k /\ Unmoved(t) /\ (n \notin AppendPCs => To(t)' = {n})
    BY <2>2, Advanced
  <2>4. /\ pc[t] = "rename" /\ UNCHANGED <<leases, runs, up>>
        /\ IF tmp.there THEN journal' = tmp.marks /\ ~tmp'.there
                        ELSE UNCHANGED <<journal, tmp>>
    BY <1>3 DEF RenameTmp, db, daemon, NoFile
  <2>5. To(t) = {loc[t].next, loc[t].onErr}
    BY <2>4 DEF To, Coming, AppendPCs
  <2>6. QED
    BY <2>1, <2>2, <2>3, <2>4, <2>5 DEF Kept
<1>. QED
  BY <1>1, <1>2, <1>3 DEF AppendStep

LEMMA NoLocalsFields ==
  /\ NoLocals.run = 0 /\ NoLocals.epoch = 0 /\ NoLocals.todo = {} /\ NoLocals.job = "none"
  /\ NoLocals.req = NoReq
  BY DEF NoLocals

LEMMA ReceiveEffect ==
  ASSUME TypeInv, NEW q \in Requests, Receive(q)
  PROVE  /\ up /\ pc[Service] = "idle" /\ (Kind[q] \in Overlap \/ Quiet)
         /\ UNCHANGED <<leases, runs, journal, tmp, up>> /\ Unmoved(Service)
         /\ pc'[Service] = "replay" /\ To(Service)' = {"replay"}
         /\ loc'[Service].run = 0 /\ loc'[Service].req = q
<1>. DEFINE k == [NoLocals EXCEPT !.req = q, !.key = snapshot]
<1>1. k.run = 0 /\ k.req = q
  BY DEF NoLocals
<1>2. Advance(Service, "replay", k) /\ "replay" \notin AppendPCs /\ Service \in Threads
  BY DEF Receive, AppendPCs, Threads
<1>. HIDE DEF k
<1>3. /\ pc'[Service] = "replay" /\ To(Service)' = {"replay"} /\ Unmoved(Service)
      /\ loc'[Service] = k
  BY <1>2, Advanced
<1>4. QED
  BY <1>1, <1>3 DEF Receive, db, files, daemon

\* The answers of the service change no table.
LEMMA AnswerEffect ==
  ASSUME TypeInv
  PROVE  LET l == loc[Service] IN
         /\ Replay => /\ pc[Service] = "replay"
                      /\ Goes(Service, "reply") \/ Logs(Service, {}, "dispatch", "reply")
         /\ Pause => pc[Service] = "dispatch" /\ Goes(Service, "close")
         /\ ClearFlag => pc[Service] = "clearFlag" /\ Goes(Service, "close")
         /\ Close => /\ pc[Service] = "close"
                     /\ \E m : /\ \A k \in m : k[1] = "request"
                               /\ Logs(Service, m, "reply", "reply")
         /\ Reply => /\ pc[Service] = "reply" /\ pc'[Service] = "idle"
                     /\ loc'[Service] = NoLocals /\ Unmoved(Service)
         /\ Replay \/ Pause \/ ClearFlag \/ Close \/ Reply =>
              UNCHANGED <<leases, runs, journal, tmp, up>>
<1>0. Service \in Threads /\ loc[Service] \in Locals
  BY Held DEF Threads
<1>1. \A n \in {"reply", "close"} : n \notin AppendPCs
  BY DEF AppendPCs
<1>. DEFINE k == [loc[Service] EXCEPT !.ok = TRUE]
<1>2. /\ k.run = loc[Service].run /\ k.epoch = loc[Service].epoch
      /\ k.todo = loc[Service].todo /\ k.job = loc[Service].job /\ k.req = loc[Service].req
  BY <1>0 DEF Locals
<1>3. \A n \in {"reply", "close"} : Advance(Service, n, k) => Goes(Service, n)
  <2>. HIDE DEF k
  <2>1. QED
    BY <1>0, <1>1, <1>2, Advanced DEF Goes, Kept
<1>4. Replay => /\ pc[Service] = "replay"
                /\ Goes(Service, "reply") \/ Logs(Service, {}, "dispatch", "reply")
  BY <1>0, <1>3, LoggedOwn DEF Replay
<1>5. Pause => pc[Service] = "dispatch" /\ Goes(Service, "close")
  BY <1>3 DEF Pause
<1>6. ClearFlag => pc[Service] = "clearFlag" /\ Goes(Service, "close")
  BY <1>3 DEF ClearFlag
<1>7. ASSUME Close
      PROVE  /\ pc[Service] = "close"
             /\ \E m : /\ \A j \in m : j[1] = "request"
                       /\ Logs(Service, m, "reply", "reply")
  <2>. DEFINE m == IF loc[Service].ok THEN {KeyMark(loc[Service].req, loc[Service].key)} ELSE {}
  <2>1. \A j \in m : j[1] = "request"
    BY DEF KeyMark
  <2>2. pc[Service] = "close" /\ Log(Service, loc[Service], m, "reply", "reply")
    BY <1>7 DEF Close
  <2>. HIDE DEF m
  <2>3. QED
    BY <1>0, <2>1, <2>2, LoggedOwn
<1>8. Reply => /\ pc[Service] = "reply" /\ pc'[Service] = "idle"
               /\ loc'[Service] = NoLocals /\ Unmoved(Service)
  BY <1>0, Advanced DEF Reply
<1>9. Replay \/ Pause \/ ClearFlag \/ Close \/ Reply =>
        UNCHANGED <<leases, runs, journal, tmp, up>>
  BY DEF Replay, Pause, ClearFlag, Close, Reply, db, files, daemon
<1>. QED
  BY <1>4, <1>5, <1>6, <1>7, <1>8, <1>9

LEMMA StartEffect ==
  ASSUME TypeInv
  PROVE  LET l == loc[Service] IN
         /\ \A r \in Runs : StartRun(r) =>
              /\ pc[Service] = "dispatch" /\ Kind[l.req] = "start" /\ NewRun(r)
              /\ runs' = runs
              /\ IF AllGrantable(r)
                 THEN /\ leases' = Granted(r) /\ pc'[Service] = "insert"
                      /\ To(Service)' = {"insert"} /\ Unmoved(Service)
                      /\ loc'[Service].run = r /\ loc'[Service].req = l.req
                 ELSE leases' = leases /\ Goes(Service, "close")
         /\ \A n \in Targets : InsertRun(n) =>
              /\ pc[Service] = "insert" /\ leases' = leases /\ l.run \in Runs
              /\ Logs(Service, {}, "spawn", "unstart")
              /\ \A q \in Runs : IF q = l.run
                                 THEN /\ runs'[q].state = "Running"
                                      /\ runs'[q].completed = 0
                                      /\ runs'[q].target = n
                                 ELSE runs'[q] = runs[q]
         /\ Unstart => /\ pc[Service] = "unstart" /\ runs' = runs
                       /\ leases' = Released(l.run) /\ Goes(Service, "close")
         /\ (\E r \in Runs : StartRun(r)) \/ (\E n \in Targets : InsertRun(n)) \/ Unstart =>
              UNCHANGED <<journal, tmp, up>>
<1>0. Service \in Threads /\ loc[Service] \in Locals
  BY Held DEF Threads
<1>1. \A n \in {"insert", "close"} : n \notin AppendPCs
  BY DEF AppendPCs
<1>2. ASSUME NEW r \in Runs, StartRun(r)
      PROVE  /\ pc[Service] = "dispatch" /\ Kind[loc[Service].req] = "start" /\ NewRun(r)
             /\ runs' = runs
             /\ IF AllGrantable(r)
                THEN /\ leases' = Granted(r) /\ pc'[Service] = "insert"
                     /\ To(Service)' = {"insert"} /\ Unmoved(Service)
                     /\ loc'[Service].run = r /\ loc'[Service].req = loc[Service].req
                ELSE leases' = leases /\ Goes(Service, "close")
  <2>. DEFINE k == [loc[Service] EXCEPT !.run = r]
  <2>1. k.run = r /\ k.req = loc[Service].req
    BY <1>0 DEF Locals
  <2>2. IF AllGrantable(r)
        THEN leases' = Granted(r) /\ Advance(Service, "insert", k)
        ELSE leases' = leases /\ Advance(Service, "close", loc[Service])
    BY <1>2 DEF StartRun
  <2>. HIDE DEF k
  <2>3. QED
    BY <1>0, <1>1, <1>2, <2>1, <2>2, Advanced, Gone DEF StartRun
<1>3. ASSUME NEW n \in Targets, InsertRun(n)
      PROVE  /\ pc[Service] = "insert" /\ leases' = leases /\ loc[Service].run \in Runs
             /\ Logs(Service, {}, "spawn", "unstart")
             /\ \A q \in Runs : IF q = loc[Service].run
                                THEN /\ runs'[q].state = "Running"
                                     /\ runs'[q].completed = 0
                                     /\ runs'[q].target = n
                                ELSE runs'[q] = runs[q]
  <2>1. pc[Service] = "insert" /\ loc[Service].run \in Runs
    BY <1>0, <1>3, Held DEF InsertRun, RunPCs
  <2>2. Logs(Service, {}, "spawn", "unstart")
    BY <1>0, <1>3, LoggedOwn DEF InsertRun
  <2>3. QED
    BY <1>3, <2>1, <2>2 DEF InsertRun, TypeInv, StoresOK
<1>4. ASSUME Unstart
      PROVE  /\ pc[Service] = "unstart" /\ runs' = runs
             /\ leases' = Released(loc[Service].run) /\ Goes(Service, "close")
  BY <1>0, <1>1, <1>4, Gone DEF Unstart
<1>5. (\E r \in Runs : StartRun(r)) \/ (\E n \in Targets : InsertRun(n)) \/ Unstart =>
        UNCHANGED <<journal, tmp, up>>
  BY DEF StartRun, InsertRun, Unstart, files, daemon
<1>. QED
  BY <1>2, <1>3, <1>4, <1>5

LEMMA ClearEffect ==
  ASSUME TypeInv
  PROVE  /\ ClearLeases =>
              /\ pc[Service] = "dispatch" /\ Kind[loc[Service].req] = "clear"
              /\ runs' = runs /\ Goes(Service, "clearRuns")
         /\ ClearRuns =>
              /\ pc[Service] = "clearRuns" /\ leases' = leases /\ Goes(Service, "clearFlag")
              /\ \A r \in Runs : /\ runs'[r].state = IF Allowed(r) THEN "Failed"
                                                     ELSE runs[r].state
                                 /\ runs'[r].completed = runs[r].completed
                                 /\ runs'[r].target = runs[r].target
         /\ ClearLeases \/ ClearRuns => UNCHANGED <<journal, tmp, up>>
<1>0. Service \in Threads
  BY DEF Threads
<1>1. \A n \in {"clearRuns", "clearFlag"} : n \notin AppendPCs
  BY DEF AppendPCs
<1>2. ClearLeases =>
        /\ pc[Service] = "dispatch" /\ Kind[loc[Service].req] = "clear"
        /\ runs' = runs /\ Goes(Service, "clearRuns")
  BY <1>0, <1>1, Gone DEF ClearLeases
<1>3. ASSUME ClearRuns
      PROVE  /\ pc[Service] = "clearRuns" /\ leases' = leases /\ Goes(Service, "clearFlag")
             /\ \A r \in Runs : /\ runs'[r].state = IF Allowed(r) THEN "Failed"
                                                    ELSE runs[r].state
                                /\ runs'[r].completed = runs[r].completed
                                /\ runs'[r].target = runs[r].target
  BY <1>0, <1>1, <1>3, Gone DEF ClearRuns, TypeInv, StoresOK, Progress
<1>4. ClearLeases \/ ClearRuns => UNCHANGED <<journal, tmp, up>>
  BY DEF ClearLeases, ClearRuns, files, daemon
<1>. QED
  BY <1>2, <1>3, <1>4

\* A thread is started by the service, or by the start of the daemon.
LEMMA SpawnEffect ==
  ASSUME TypeInv, NEW w \in Workers
  PROVE  LET l == loc[Service] s == loc'[w] IN
         /\ SpawnRun(w) =>
              /\ pc[Service] = "spawn" /\ l.run \in Runs
              /\ pc[w] = "idle" /\ pc'[w] = "resume" /\ To(w)' = {"resume"}
              /\ s.job = "start" /\ s.run = l.run /\ s.epoch = 0 /\ s.todo = {}
              /\ pc'[Service] = "close" /\ To(Service)' = {"close"} /\ Kept(Service)
              /\ \A u \in Threads \ {Service, w} : pc'[u] = pc[u] /\ loc'[u] = loc[u]
         /\ Resume(w) =>
              /\ pc[Service] = "dispatch" /\ Kind[l.req] = "resume"
              /\ \/ Goes(Service, "close")
                 \/ /\ pc[w] = "idle" /\ pc'[w] = "scan" /\ To(w)' = {"scan"}
                    /\ s.job = "recover" /\ s.run = 0 /\ s.epoch = 0 /\ s.todo = {}
                    /\ pc'[Service] = "close" /\ To(Service)' = {"close"} /\ Kept(Service)
                    /\ \A u \in Threads \ {Service, w} : pc'[u] = pc[u] /\ loc'[u] = loc[u]
         /\ SpawnRun(w) \/ Resume(w) => UNCHANGED <<leases, runs, journal, tmp, up>>
         /\ Restart(w) =>
              /\ ~up /\ up' /\ UNCHANGED <<leases, runs, journal, tmp>> /\ Unmoved(w)
              /\ pc'[w] = "scan" /\ To(w)' = {"scan"}
              /\ s.job = "recover" /\ s.run = 0 /\ s.epoch = 0 /\ s.todo = {}
<1>0. /\ Service \in Threads /\ w \in Threads /\ w # Service /\ loc[Service] \in Locals
      /\ pc[Service] \in RunPCs => loc[Service].run \in Runs
  BY ClientsAssumption, Held DEF ClientsAssumption, Threads
<1>1. \A n \in {"resume", "scan", "close"} : n \notin AppendPCs
  BY DEF AppendPCs
<1>. DEFINE k == [loc[Service] EXCEPT !.ok = TRUE]
            s == [NoLocals EXCEPT !.job = "start", !.run = loc[Service].run]
            c == [NoLocals EXCEPT !.job = "recover"]
<1>2. /\ k.run = loc[Service].run /\ k.epoch = loc[Service].epoch
      /\ k.todo = loc[Service].todo /\ k.job = loc[Service].job /\ k.req = loc[Service].req
  BY <1>0 DEF Locals
<1>3. /\ s.job = "start" /\ s.run = loc[Service].run /\ s.epoch = 0 /\ s.todo = {}
      /\ c.job = "recover" /\ c.run = 0 /\ c.epoch = 0 /\ c.todo = {}
  BY DEF NoLocals
<1>4. ASSUME SpawnRun(w) PROVE pc[Service] = "spawn" /\ Spawn(Service, w, "resume", s, "close", k)
  BY <1>4 DEF SpawnRun
<1>5. ASSUME Resume(w)
      PROVE  /\ pc[Service] = "dispatch" /\ Kind[loc[Service].req] = "resume"
             /\ Advance(Service, "close", k) \/ Spawn(Service, w, "scan", c, "close", k)
  BY <1>5 DEF Resume
<1>6. ASSUME Restart(w)
      PROVE  /\ ~up /\ up' /\ UNCHANGED <<leases, runs, journal, tmp>>
             /\ Advance(w, "scan", c)
  BY <1>6 DEF Restart, db, files
<1>. HIDE DEF k, s, c
<1>7. ASSUME NEW n, n \notin AppendPCs, NEW j, Spawn(Service, w, n, j, "close", k)
      PROVE  /\ pc[w] = "idle" /\ pc'[w] = n /\ To(w)' = {n} /\ loc'[w] = j
             /\ pc'[Service] = "close" /\ To(Service)' = {"close"} /\ Kept(Service)
             /\ \A u \in Threads \ {Service, w} : pc'[u] = pc[u] /\ loc'[u] = loc[u]
  <2>1. /\ pc[w] = "idle" /\ pc'[w] = n /\ pc'[Service] = "close"
        /\ loc'[w] = j /\ loc'[Service] = k
        /\ \A u \in Threads \ {Service, w} : pc'[u] = pc[u] /\ loc'[u] = loc[u]
    BY <1>0, <1>7 DEF Spawn, TypeInv, ThreadsOK
  <2>2. QED
    BY <1>1, <1>2, <1>7, <2>1 DEF To, Coming, Kept
<1>8. ASSUME SpawnRun(w) \/ Resume(w) PROVE UNCHANGED <<leases, runs, journal, tmp, up>>
  <2>1. CASE SpawnRun(w)
    BY <2>1 DEF SpawnRun, db, files, daemon
  <2>2. CASE Resume(w)
    BY <2>2 DEF Resume, db, files
  <2>3. QED
    BY <1>8, <2>1, <2>2
<1>9. Advance(Service, "close", k) => Goes(Service, "close")
  BY <1>0, <1>1, <1>2, Advanced DEF Goes, Kept
<1>10. Advance(w, "scan", c) =>
         pc'[w] = "scan" /\ To(w)' = {"scan"} /\ loc'[w] = c /\ Unmoved(w)
  BY <1>0, <1>1, Advanced
<1>11. SpawnRun(w) => loc[Service].run \in Runs
  BY <1>0, <1>4 DEF RunPCs
<1>12. SpawnRun(w) =>
         /\ pc[w] = "idle" /\ pc'[w] = "resume" /\ To(w)' = {"resume"} /\ loc'[w] = s
         /\ pc'[Service] = "close" /\ To(Service)' = {"close"} /\ Kept(Service)
         /\ \A u \in Threads \ {Service, w} : pc'[u] = pc[u] /\ loc'[u] = loc[u]
  BY <1>1, <1>4, <1>7
<1>13. Spawn(Service, w, "scan", c, "close", k) =>
         /\ pc[w] = "idle" /\ pc'[w] = "scan" /\ To(w)' = {"scan"} /\ loc'[w] = c
         /\ pc'[Service] = "close" /\ To(Service)' = {"close"} /\ Kept(Service)
         /\ \A u \in Threads \ {Service, w} : pc'[u] = pc[u] /\ loc'[u] = loc[u]
  BY <1>1, <1>7
<1>. QED
  BY <1>3, <1>4, <1>5, <1>6, <1>8, <1>9, <1>10, <1>11, <1>12, <1>13

LEMMA CrashEffect ==
  ASSUME Crash
  PROVE  /\ up /\ ~up' /\ UNCHANGED <<leases, runs, journal, tmp>> /\ crashes < MaxCrashes
         /\ \A t \in Threads : pc'[t] = "idle" /\ loc'[t] = NoLocals /\ To(t)' = {"idle"}
<1>1. \A t \in Threads : pc'[t] = "idle" /\ loc'[t] = NoLocals
  BY DEF Crash
<1>2. QED
  BY <1>1 DEF Crash, db, files, To, Coming, AppendPCs

LEMMA TickEffect ==
  ASSUME TypeInv, Tick
  PROVE  /\ UNCHANGED <<runs, journal, tmp, up, pc, loc>>
         /\ \A name \in LeaseNames : leases'[name].owner = leases[name].owner
         /\ \A t : To(t)' = To(t)
<1>1. UNCHANGED <<runs, journal, tmp, up, pc, loc>>
  BY DEF Tick, files, daemon
<1>2. ASSUME NEW name \in LeaseNames PROVE leases'[name].owner = leases[name].owner
  BY DEF Tick, TypeInv, StoresOK, Lease
<1>3. QED
  BY <1>1, <1>2 DEF To

-----------------------------------------------------------------------------
(* Idle threads                                                            *)

\* Nothing runs while the daemon is down.
DownIdle == ~up => \A t \in Threads : pc[t] = "idle"

\* An idle thread knows nothing; an append leads to an operation.
BaseInv ==
  /\ DownIdle
  /\ \A t \in Threads : pc[t] = "idle" => loc[t] = NoLocals
  /\ \A t \in Threads : pc[t] # "idle" => To(t) \cap (AppendPCs \cup {"idle"}) = {}

\* Thread t moves while the daemon is up.
LEMMA BaseFrame ==
  ASSUME BaseInv, NEW t \in Threads, Unmoved(t), up' = up, up,
         pc'[t] = "idle" => loc'[t] = NoLocals,
         pc'[t] # "idle" => To(t)' \cap (AppendPCs \cup {"idle"}) = {}
  PROVE  BaseInv'
  BY DEF BaseInv, DownIdle, Unmoved, To

\* What moves is not idle, so the daemon is up.
LEMMA MovesUp ==
  ASSUME BaseInv, NEW t \in Threads, pc[t] # "idle"
  PROVE  up
  BY DEF BaseInv, DownIdle

LEMMA BaseAppend ==
  ASSUME TypeInv, BaseInv, NEW t \in Threads, AppendStep(t)
  PROVE  /\ BaseInv' /\ up
         /\ To(t)' \subseteq To(t)
         /\ ~RenameTmp(t) => To(t)' = To(t) /\ pc'[t] \in AppendPCs
         /\ RenameTmp(t) => To(t)' = {pc'[t]} /\ pc'[t] \notin AppendPCs
         /\ pc[t] # "idle" /\ pc'[t] # "idle" /\ pc[t] \in AppendPCs
<1>1. pc[t] # "idle" /\ Unmoved(t) /\ Kept(t) /\ up' = up /\ pc[t] \in AppendPCs
  BY AppendEffect DEF AppendStep, AppendPCs
<1>2. /\ ~RenameTmp(t) => To(t)' = To(t) /\ pc'[t] \in AppendPCs
      /\ RenameTmp(t) => pc'[t] \in To(t)
  BY AppendEffect DEF AppendStep, AppendPCs
<1>3. /\ To(t)' \subseteq To(t)
      /\ RenameTmp(t) => To(t)' = {pc'[t]} /\ pc'[t] \notin AppendPCs
      /\ pc'[t] # "idle"
  BY <1>1, <1>2, AppendEffect DEF BaseInv, AppendPCs
<1>4. up
  BY <1>1, MovesUp
<1>5. QED
  BY <1>1, <1>2, <1>3, <1>4, BaseFrame DEF BaseInv

\* A thread that goes on, or appends a row on the way to operations.
LEMMA BaseGoes ==
  ASSUME BaseInv, NEW t \in Threads, pc[t] # "idle", up' = up,
         \/ \E n : n \notin AppendPCs \cup {"idle"} /\ Goes(t, n)
         \/ \E m : \E n, e : {n, e} \cap (AppendPCs \cup {"idle"}) = {} /\ Logs(t, m, n, e)
  PROVE  BaseInv'
  BY MovesUp, BaseFrame DEF Goes, Logs

LEMMA BaseWorker ==
  ASSUME TypeInv, BaseInv, NEW w \in Workers, DriveStep(w) \/ RecoverStep(w)
  PROVE  BaseInv' /\ up /\ pc[w] # "idle" /\ pc[w] \notin AppendPCs /\ Unmoved(w)
<1>0. w \in Threads /\ up' = up
  BY WorkerFiles DEF Threads
<1>1. CASE ResumeRun(w) \/ EnsureCandidate(w) \/ NoEpochs(w) \/ AcquireSection(w)
  <2>1. /\ pc[w] \notin AppendPCs \cup {"idle"}
        /\ \E n \in {"ensure", "return", "zero", "acquire", "loop"} : Goes(w, n)
    BY <1>1, EnterEffect DEF AppendPCs
  <2>2. QED
    BY <1>0, <2>1, BaseGoes, MovesUp DEF AppendPCs, Goes
<1>2. CASE EpochLoop(w) \/ RunEpoch(w) \/ RecordEpoch(w) \/ CompleteRun(w)
  <2>1. /\ pc[w] \notin AppendPCs \cup {"idle"}
        /\ \/ \E n \in {"complete", "renew", "abort", "loop"} : Goes(w, n)
           \/ \E m : \E n \in {"record", "release"} : Logs(w, m, n, "abort")
    BY <1>2, EpochEffect DEF AppendPCs
  <2>2. Unmoved(w) /\ up
    BY <1>0, <2>1, MovesUp DEF Goes, Logs
  <2>3. CASE \E n \in {"complete", "renew", "abort", "loop"} : Goes(w, n)
    BY <1>0, <2>1, <2>2, <2>3, BaseGoes DEF AppendPCs
  <2>4. CASE \E m : \E n \in {"record", "release"} : Logs(w, m, n, "abort")
    BY <1>0, <2>1, <2>2, <2>4, BaseGoes DEF AppendPCs
  <2>5. QED
    BY <2>1, <2>2, <2>3, <2>4
<1>3. CASE RenewSection(w)
  <2>1. /\ pc[w] \notin AppendPCs \cup {"idle"} /\ Unmoved(w)
        /\ pc'[w] # "idle" /\ To(w)' \cap (AppendPCs \cup {"idle"}) = {}
    BY <1>3, EpochEffect DEF AppendPCs, Goes
  <2>2. QED
    BY <1>0, <2>1, BaseFrame, MovesUp
<1>4. CASE ReleaseSection(w) \/ LeavePending(w)
  <2>1. /\ pc[w] \notin AppendPCs \cup {"idle"}
        /\ \/ \E n \in {"return", "pend"} : Goes(w, n)
           \/ Logs(w, {}, "return", "return")
    BY <1>4, LeaveEffect DEF AppendPCs
  <2>2. QED
    BY <1>0, <2>1, BaseGoes, MovesUp DEF AppendPCs, Goes, Logs
<1>5. CASE Return(w)
  <2>1. /\ pc[w] \notin AppendPCs \cup {"idle"} /\ Unmoved(w)
        /\ pc'[w] = "idle" => loc'[w] = NoLocals
        /\ pc'[w] # "idle" => To(w)' \cap (AppendPCs \cup {"idle"}) = {}
    BY <1>5, LeaveEffect DEF AppendPCs
  <2>2. QED
    BY <1>0, <2>1, BaseFrame, MovesUp
<1>6. CASE Scan(w) \/ PickRun(w) \/ FinishRecovery(w)
  <2>1. /\ pc[w] \notin AppendPCs \cup {"idle"} /\ Unmoved(w)
        /\ pc'[w] = "idle" => loc'[w] = NoLocals
        /\ pc'[w] # "idle" => To(w)' \cap (AppendPCs \cup {"idle"}) = {}
    <3>1. CASE Scan(w)
      BY <3>1, RecoverEffect DEF AppendPCs
    <3>2. CASE PickRun(w)
      BY <3>2, RecoverEffect DEF AppendPCs
    <3>3. CASE FinishRecovery(w)
      BY <3>3, RecoverEffect DEF AppendPCs
    <3>4. QED
      BY <1>6, <3>1, <3>2, <3>3
  <2>2. QED
    BY <1>0, <2>1, BaseFrame, MovesUp
<1>7. CASE SettleRun(w) \/ CommitMarker(w) \/ MarkPending(w)
  <2>1. /\ pc[w] \notin AppendPCs \cup {"idle"}
        /\ \/ \E n \in {"marker", "return"} : Goes(w, n)
           \/ \E m : \E n \in {"return", "resume"} : Logs(w, m, n, "finish")
    BY <1>7, RecoverEffect DEF AppendPCs
  <2>2. QED
    BY <1>0, <2>1, BaseGoes, MovesUp DEF AppendPCs, Goes, Logs
<1>8. QED
  BY <1>1, <1>2, <1>3, <1>4, <1>5, <1>6, <1>7 DEF DriveStep, RecoverStep

\* The steps of the service that start no thread.
ServiceAlone ==
  \/ Replay \/ Pause \/ Unstart \/ ClearLeases \/ ClearRuns \/ ClearFlag \/ Close \/ Reply
  \/ \E r \in Runs : StartRun(r)
  \/ \E n \in Targets : InsertRun(n)

LEMMA BaseService ==
  ASSUME TypeInv, BaseInv, ServiceAlone
  PROVE  BaseInv' /\ pc[Service] # "idle" /\ Unmoved(Service) /\ up' = up /\ up
<1>0. Service \in Threads
  BY DEF Threads
<1>1. up' = up /\ pc[Service] # "idle" /\ Unmoved(Service)
  BY AnswerEffect, StartEffect, ClearEffect DEF ServiceAlone, Goes, Logs
<1>2. pc'[Service] = "idle" => loc'[Service] = NoLocals
  BY AnswerEffect, StartEffect, ClearEffect DEF ServiceAlone, Goes, Logs
<1>3. pc'[Service] # "idle" => To(Service)' \cap (AppendPCs \cup {"idle"}) = {}
  BY AnswerEffect, StartEffect, ClearEffect DEF ServiceAlone, Goes, Logs, AppendPCs
<1>4. QED
  BY <1>0, <1>1, <1>2, <1>3, BaseFrame, MovesUp

LEMMA BaseNext ==
  ASSUME TypeInv, BaseInv, [Next]_vars
  PROVE  BaseInv'
<1>0. Service \in Threads /\ \A w \in Workers : w \in Threads /\ w # Service
  BY ClientsAssumption DEF Threads, ClientsAssumption
<1>1. ASSUME NEW q \in Requests, Receive(q) PROVE BaseInv'
  BY <1>0, <1>1, ReceiveEffect, BaseFrame DEF AppendPCs
<1>2. ASSUME NEW t \in Threads, AppendStep(t) PROVE BaseInv'
  BY <1>2, BaseAppend
<1>3. CASE ServiceAlone
  BY <1>3, BaseService
<1>4. ASSUME NEW w \in Workers, SpawnRun(w) \/ Resume(w) PROVE BaseInv'
  <2>1. CASE Goes(Service, "close") /\ Resume(w)
    BY <1>0, <2>1, SpawnEffect, BaseGoes DEF AppendPCs
  <2>2. CASE ~(Goes(Service, "close") /\ Resume(w))
    <3>1. /\ pc[Service] # "idle" /\ up' = up
          /\ pc'[w] \in {"resume", "scan"} /\ To(w)' = {pc'[w]}
          /\ pc'[Service] = "close" /\ To(Service)' = {"close"}
          /\ \A u \in Threads \ {Service, w} : pc'[u] = pc[u] /\ loc'[u] = loc[u]
      BY <1>4, <2>2, SpawnEffect
    <3>2. up
      BY <1>0, <3>1, MovesUp
    <3>3. \A u \in Threads : /\ pc'[u] = "idle" => loc'[u] = NoLocals
                             /\ pc'[u] # "idle" =>
                                  To(u)' \cap (AppendPCs \cup {"idle"}) = {}
      BY <1>0, <3>1 DEF BaseInv, To, AppendPCs
    <3>4. QED
      BY <3>1, <3>2, <3>3 DEF BaseInv, DownIdle
  <2>3. QED
    BY <2>1, <2>2
<1>5. ASSUME NEW w \in Workers, DriveStep(w) \/ RecoverStep(w) PROVE BaseInv'
  BY <1>5, BaseWorker
<1>6. ASSUME NEW w \in Workers, Restart(w) PROVE BaseInv'
  BY <1>0, <1>6, SpawnEffect DEF BaseInv, DownIdle, Unmoved, To, AppendPCs
<1>7. CASE Tick
  BY <1>7, TickEffect DEF BaseInv, DownIdle
<1>8. CASE Crash
  BY <1>8, CrashEffect DEF BaseInv, DownIdle
<1>9. CASE UNCHANGED vars
  BY <1>9 DEF vars, daemon, BaseInv, DownIdle, To
<1>10. QED
  BY <1>0, <1>1, <1>2, <1>3, <1>4, <1>5, <1>6, <1>7, <1>8, <1>9
     DEF Next, ServiceStep, WorkerStep, ServiceAlone

LEMMA BaseInit == Init => BaseInv
<1>. SUFFICES ASSUME Init PROVE BaseInv
  OBVIOUS
<1>1. up /\ \A t \in Threads : pc[t] = "idle" /\ loc[t] = NoLocals
  BY DEF Init
<1>2. QED
  BY <1>1 DEF BaseInv, DownIdle

-----------------------------------------------------------------------------
(* An override is final                                                    *)

Live(r) == runs[r].state \notin {"none", "Failed"}

\* The run a thread has, and those its recovery will come to, are not failed.
DrivesLive(w) ==
  /\ loc[w].run \in Runs => Live(loc[w].run)
  /\ \A p \in loc[w].todo : Live(p.run)

\* The operations on the way to a new thread, and those of an override.
Starting == {"insert", "spawn", "unstart"}
Clearing == {"clearRuns", "clearFlag"}

\* Requests to clear are answered while no thread works.
ServiceOK ==
  LET l == loc[Service] IN
  /\ To(Service) \cap Starting # {} => Kind[l.req] = "start"
  /\ To(Service) \cap Clearing # {} => Kind[l.req] = "clear"
  /\ "insert" \in To(Service) => runs[l.run].state = "none"
  /\ To(Service) \cap {"spawn", "unstart"} # {} => l.run \in Runs /\ Live(l.run)
  /\ pc[Service] # "idle" /\ Kind[l.req] = "clear" => Quiet

OverrideInv == ServiceOK /\ \A w \in Workers : DrivesLive(w)

\* The rows of runs that nobody has failed or started stay that way.
RowsLive ==
  \A r \in Runs : /\ Live(r) => Live(r)'
                  /\ runs[r].state \in {"none", "Failed"} => runs'[r].state = runs[r].state

\* A worker changes the row of its own run only, and never to Failed.
LEMMA WorkerRow ==
  ASSUME TypeInv, NEW w \in Workers, WorkerStep(w)
  PROVE  \/ runs' = runs
         \/ \E s \in {"Succeeded", "Running", "RecoveryPending"} :
              \E c : RowIs(loc[w].run, s, c)
<1>1. CASE AppendStep(w)
  BY <1>1, AppendEffect DEF Threads
<1>2. CASE ResumeRun(w) \/ EnsureCandidate(w) \/ NoEpochs(w) \/ AcquireSection(w)
  BY <1>2, EnterEffect
<1>3. CASE EpochLoop(w) \/ RenewSection(w) \/ RunEpoch(w) \/ RecordEpoch(w) \/ CompleteRun(w)
  BY <1>3, EpochEffect
<1>4. CASE ReleaseSection(w) \/ LeavePending(w) \/ Return(w)
  BY <1>4, LeaveEffect
<1>5. CASE RecoverStep(w)
  BY <1>5, RecoverEffect DEF RecoverStep
<1>6. QED
  BY <1>1, <1>2, <1>3, <1>4, <1>5 DEF WorkerStep, DriveStep

LEMMA WorkerRows ==
  ASSUME TypeInv, OverrideInv, NEW w \in Workers, WorkerStep(w)
  PROVE  RowsLive
<1>1. loc[w].run \in Runs => Live(loc[w].run)
  BY DEF OverrideInv, DrivesLive
<1>2. QED
  BY <1>1, WorkerRow DEF RowsLive, Live, RowIs

\* A step of one worker; it works, so the service is not clearing.
LEMMA OverrideFrame ==
  ASSUME OverrideInv, TypeInv, NEW w \in Workers, Unmoved(w), pc[w] # "idle",
         RowsLive, DrivesLive(w)'
  PROVE  OverrideInv'
<1>0. Service \in Threads \ {w} /\ \A v \in Workers : v \in Threads
  BY ClientsAssumption DEF Threads, ClientsAssumption
<1>1. ASSUME NEW v \in Workers, v # w PROVE DrivesLive(v)'
  <2>1. loc'[v] = loc[v] /\ DrivesLive(v) /\ loc[v].todo \in SUBSET Pending
    BY <1>0, <1>1, Held DEF Unmoved, OverrideInv, Locals
  <2>2. QED
    BY <2>1 DEF DrivesLive, RowsLive, Pending
<1>2. ServiceOK'
  <2>1. /\ pc'[Service] = pc[Service] /\ loc'[Service] = loc[Service]
        /\ To(Service)' = To(Service)
    BY <1>0 DEF Unmoved, To
  <2>2. "insert" \in To(Service) => loc[Service].run \in Runs
    BY <1>0 DEF TypeInv, ThreadsOK, Ready, To, RunPCs
  <2>3. ~Quiet
    BY DEF Quiet
  <2>4. QED
    BY <2>1, <2>2, <2>3 DEF OverrideInv, ServiceOK, RowsLive
<1>3. QED
  BY <1>1, <1>2 DEF OverrideInv

LEMMA OverrideWorker ==
  ASSUME TypeInv, BaseInv, OverrideInv, NEW w \in Workers, WorkerStep(w)
  PROVE  OverrideInv'
<1>0. w \in Threads /\ RowsLive /\ DrivesLive(w) /\ loc[w].todo \in SUBSET Pending
  BY WorkerRows, Held DEF Threads, OverrideInv, Locals
<1>1. pc[w] # "idle" /\ Unmoved(w)
  BY <1>0, BaseWorker, BaseAppend, AppendEffect DEF WorkerStep
<1>2. DrivesLive(w)'
  <2>1. CASE Kept(w)
    BY <1>0, <2>1 DEF DrivesLive, Kept, RowsLive, Pending
  <2>2. CASE RenewSection(w) \/ Return(w) \/ FinishRecovery(w)
    <3>1. /\ loc'[w].run \in {loc[w].run, 0}
          /\ loc'[w].todo \in {loc[w].todo, {}}
      BY <2>2, EpochEffect, LeaveEffect, RecoverEffect, NoLocalsFields DEF Goes, Kept
    <3>2. 0 \notin Runs
      BY DEF Runs
    <3>3. QED
      BY <1>0, <3>1, <3>2 DEF DrivesLive, RowsLive, Pending
  <2>3. CASE Scan(w)
    <3>1. /\ loc'[w].run = loc[w].run /\ runs' = runs
          /\ \A p \in loc'[w].todo : Allowed(p.run)
      <4>1. /\ loc'[w].run = loc[w].run /\ runs' = runs
            /\ loc'[w].todo = {[run |-> r, completed |-> runs[r].completed] :
                                  r \in {q \in Runs : Allowed(q)}}
        BY <2>3, RecoverEffect
      <4>2. QED
        BY <4>1
    <3>2. QED
      BY <1>0, <3>1 DEF DrivesLive, Live, Allowed
  <2>4. CASE PickRun(w)
    <3>1. /\ runs' = runs /\ \E p \in loc[w].todo : loc'[w].run = p.run
          /\ loc'[w].todo \subseteq loc[w].todo
      BY <2>4, RecoverEffect
    <3>2. QED
      BY <1>0, <3>1 DEF DrivesLive, Live
  <2>5. CASE AppendStep(w)
    BY <1>0, <2>1, <2>5, AppendEffect
  <2>6. CASE ResumeRun(w) \/ EnsureCandidate(w) \/ NoEpochs(w) \/ AcquireSection(w)
    BY <2>1, <2>6, EnterEffect DEF Goes
  <2>7. CASE EpochLoop(w) \/ RunEpoch(w) \/ RecordEpoch(w) \/ CompleteRun(w)
    BY <2>1, <2>7, EpochEffect DEF Goes, Logs
  <2>8. CASE ReleaseSection(w) \/ LeavePending(w)
    BY <2>1, <2>8, LeaveEffect DEF Goes, Logs
  <2>9. CASE SettleRun(w) \/ CommitMarker(w) \/ MarkPending(w)
    BY <2>1, <2>9, RecoverEffect DEF Goes, Logs
  <2>10. QED
    BY <2>2, <2>3, <2>4, <2>5, <2>6, <2>7, <2>8, <2>9
       DEF WorkerStep, DriveStep, RecoverStep
<1>3. QED
  BY <1>0, <1>1, <1>2, OverrideFrame

\* A step of the service that starts no thread and fails no run.
LEMMA OverrideService ==
  ASSUME OverrideInv, TypeInv, Unmoved(Service), ServiceOK',
         \A r \in Runs : Live(r) => Live(r)'
  PROVE  OverrideInv'
<1>1. ASSUME NEW v \in Workers PROVE DrivesLive(v)'
  <2>1. loc'[v] = loc[v] /\ DrivesLive(v) /\ loc[v].todo \in SUBSET Pending
    BY ClientsAssumption, Held
       DEF Unmoved, OverrideInv, Locals, Threads, ClientsAssumption
  <2>2. QED
    BY <2>1 DEF DrivesLive, Pending
<1>2. QED
  BY <1>1 DEF OverrideInv

\* No thread starts or ends while the service moves by itself.
LEMMA QuietStays ==
  ASSUME Unmoved(Service)
  PROVE  Quiet' = Quiet
  BY ClientsAssumption DEF Unmoved, Quiet, Threads, ClientsAssumption

LEMMA OverrideAnswers ==
  ASSUME TypeInv, BaseInv, OverrideInv, AppendStep(Service) \/ ServiceAlone
  PROVE  OverrideInv'
<1>0. Service \in Threads
  BY DEF Threads
<1>1. Unmoved(Service) /\ Quiet' = Quiet /\ pc[Service] # "idle"
  BY <1>0, BaseService, AppendEffect, BaseAppend, QuietStays
<1>2. ASSUME runs' = runs, ServiceOK' PROVE OverrideInv'
  BY <1>1, <1>2, OverrideService DEF Live
<1>3. CASE AppendStep(Service)
  <2>1. /\ To(Service)' \subseteq To(Service) /\ Kept(Service) /\ runs' = runs
    BY <1>0, <1>3, BaseAppend, AppendEffect
  <2>2. ServiceOK'
    BY <1>1, <2>1 DEF ServiceOK, OverrideInv, Kept, Live
  <2>3. QED
    BY <1>2, <2>1, <2>2
<1>4. CASE Replay \/ Pause \/ ClearFlag \/ Close \/ Reply
  <2>1. /\ runs' = runs
        /\ \/ Kept(Service) /\ To(Service)' \in {{"reply"}, {"close"}, {"dispatch", "reply"}}
           \/ pc'[Service] = "idle" /\ To(Service)' = {"idle"}
    BY <1>4, AnswerEffect DEF Goes, Logs, To, Coming, AppendPCs
  <2>2. ServiceOK'
    BY <1>1, <2>1 DEF ServiceOK, OverrideInv, Kept, Starting, Clearing
  <2>3. QED
    BY <1>2, <2>1, <2>2
<1>5. CASE Unstart
  <2>1. runs' = runs /\ Kept(Service) /\ To(Service)' = {"close"} /\ pc'[Service] = "close"
    BY <1>5, StartEffect DEF Goes
  <2>2. ServiceOK'
    BY <1>1, <2>1 DEF ServiceOK, OverrideInv, Kept, Starting, Clearing
  <2>3. QED
    BY <1>2, <2>1, <2>2
<1>6. ASSUME NEW r \in Runs, StartRun(r)
      PROVE  OverrideInv'
  <2>1. /\ runs' = runs /\ loc'[Service].req = loc[Service].req
        /\ Kind[loc[Service].req] = "start"
        /\ To(Service)' = {pc'[Service]} /\ pc'[Service] \in {"insert", "close"}
        /\ pc'[Service] = "insert" => loc'[Service].run = r /\ runs[r].state = "none"
    BY <1>6, StartEffect DEF Goes, Kept, NewRun
  <2>2. ServiceOK'
    BY <2>1 DEF ServiceOK, Starting, Clearing
  <2>3. QED
    BY <1>2, <2>1, <2>2
<1>7. ASSUME NEW n \in Targets, InsertRun(n)
      PROVE  OverrideInv'
  <2>1. /\ pc[Service] = "insert" /\ loc[Service].run \in Runs
        /\ pc'[Service] = "read" /\ To(Service)' = {"spawn", "unstart"} /\ Kept(Service)
        /\ runs'[loc[Service].run].state = "Running"
        /\ \A q \in Runs \ {loc[Service].run} : runs'[q] = runs[q]
    BY <1>7, StartEffect DEF Logs
  <2>2. Kind[loc[Service].req] = "start"
    BY <2>1 DEF OverrideInv, ServiceOK, To, Coming, AppendPCs, Starting
  <2>3. \A r \in Runs : Live(r) => Live(r)'
    BY <2>1 DEF Live
  <2>4. ServiceOK'
    BY <2>1, <2>2 DEF ServiceOK, Live, Kept, Starting, Clearing
  <2>5. QED
    BY <1>1, <2>3, <2>4, OverrideService
<1>8. CASE ClearLeases \/ ClearRuns
  <2>1. Kind[loc[Service].req] = "clear"
    BY <1>8, ClearEffect DEF OverrideInv, ServiceOK, To, Coming, AppendPCs, Clearing
  <2>2. Quiet
    BY <1>1, <2>1 DEF OverrideInv, ServiceOK
  <2>3. Kept(Service) /\ pc'[Service] \in Clearing /\ To(Service)' = {pc'[Service]}
    BY <1>8, ClearEffect DEF Goes, Clearing
  <2>4. ServiceOK'
    BY <1>1, <2>1, <2>2, <2>3 DEF ServiceOK, Kept, Starting, Clearing
  <2>5. ASSUME NEW v \in Workers PROVE DrivesLive(v)'
    <3>1. loc'[v] = NoLocals
      BY <1>1, <2>2, ClientsAssumption
         DEF Quiet, BaseInv, Unmoved, Threads, ClientsAssumption
    <3>2. 0 \notin Runs
      BY DEF Runs
    <3>3. QED
      BY <3>1, <3>2, NoLocalsFields DEF DrivesLive
  <2>6. QED
    BY <2>4, <2>5 DEF OverrideInv
<1>9. QED
  BY <1>3, <1>4, <1>5, <1>6, <1>7, <1>8 DEF ServiceAlone

LEMMA OverrideNext ==
  ASSUME "clear" \notin Overlap, TypeInv, BaseInv, OverrideInv, [Next]_vars
  PROVE  OverrideInv'
<1>0. Service \in Threads /\ \A w \in Workers : w \in Threads /\ w # Service
  BY ClientsAssumption DEF Threads, ClientsAssumption
<1>1. ASSUME NEW q \in Requests, Receive(q) PROVE OverrideInv'
  <2>1. /\ Unmoved(Service) /\ runs' = runs /\ To(Service)' = {"replay"}
        /\ loc'[Service].req = q
        /\ Kind[q] \in Overlap \/ Quiet
    BY <1>1, ReceiveEffect
  <2>2. Kind[q] = "clear" => Quiet'
    BY <2>1, QuietStays
  <2>3. ServiceOK'
    BY <2>1, <2>2 DEF ServiceOK, Starting, Clearing
  <2>4. QED
    BY <2>1, <2>3, OverrideService DEF Live
<1>2. CASE AppendStep(Service) \/ ServiceAlone
  BY <1>2, OverrideAnswers
<1>3. ASSUME NEW w \in Workers, WorkerStep(w) PROVE OverrideInv'
  BY <1>3, OverrideWorker
<1>4. ASSUME NEW w \in Workers, SpawnRun(w) PROVE OverrideInv'
  <2>1. /\ pc[Service] = "spawn" /\ runs' = runs /\ loc[Service].run \in Runs
        /\ loc'[w].run = loc[Service].run /\ loc'[w].todo = {}
        /\ To(Service)' = {"close"} /\ Kept(Service) /\ pc'[Service] = "close"
        /\ \A u \in Threads \ {Service, w} : pc'[u] = pc[u] /\ loc'[u] = loc[u]
    BY <1>4, SpawnEffect
  <2>2. "spawn" \in To(Service)
    BY <2>1 DEF To, Coming, AppendPCs
  <2>3. Live(loc[Service].run) /\ Kind[loc[Service].req] = "start"
    BY <2>2 DEF OverrideInv, ServiceOK, Starting
  <2>4. ServiceOK'
    BY <2>1, <2>3 DEF ServiceOK, Kept, Starting, Clearing
  <2>5. ASSUME NEW v \in Workers PROVE DrivesLive(v)'
    BY <1>0, <2>1, <2>3 DEF OverrideInv, DrivesLive, Live
  <2>6. QED
    BY <2>4, <2>5 DEF OverrideInv
<1>5. ASSUME NEW w \in Workers, Resume(w) PROVE OverrideInv'
  <2>1. /\ pc[Service] = "dispatch" /\ Kind[loc[Service].req] = "resume" /\ runs' = runs
        /\ To(Service)' = {"close"} /\ Kept(Service)
        /\ \A v \in Workers : loc'[v] = loc[v] \/ (loc'[v].run = 0 /\ loc'[v].todo = {})
    BY <1>0, <1>5, SpawnEffect DEF Goes, Unmoved
  <2>2. ServiceOK'
    BY <2>1 DEF ServiceOK, Kept, Starting, Clearing
  <2>3. 0 \notin Runs
    BY DEF Runs
  <2>4. ASSUME NEW v \in Workers PROVE DrivesLive(v)'
    BY <2>1, <2>3 DEF OverrideInv, DrivesLive, Live
  <2>5. QED
    BY <2>2, <2>4 DEF OverrideInv
<1>6. ASSUME NEW w \in Workers, Restart(w) PROVE OverrideInv'
  <2>1. /\ ~up /\ runs' = runs /\ Unmoved(w) /\ loc'[w].run = 0 /\ loc'[w].todo = {}
    BY <1>6, SpawnEffect
  <2>2. pc[Service] = "idle" /\ pc'[Service] = "idle" /\ loc'[Service] = loc[Service]
    BY <1>0, <2>1 DEF BaseInv, DownIdle, Unmoved
  <2>3. ServiceOK'
    BY <2>2 DEF ServiceOK, To, Coming, AppendPCs, Starting, Clearing
  <2>4. 0 \notin Runs
    BY DEF Runs
  <2>5. ASSUME NEW v \in Workers PROVE DrivesLive(v)'
    BY <1>0, <2>1, <2>4 DEF OverrideInv, DrivesLive, Live, Unmoved
  <2>6. QED
    BY <2>3, <2>5 DEF OverrideInv
<1>7. CASE Tick \/ UNCHANGED vars
  <2>1. runs' = runs /\ pc' = pc /\ loc' = loc
    BY <1>7, TickEffect DEF vars, db
  <2>2. QED
    BY <2>1 DEF OverrideInv, ServiceOK, DrivesLive, Live, To, Quiet
<1>8. CASE Crash
  <2>1. 0 \notin Runs
    BY DEF Runs
  <2>2. ServiceOK'
    BY <1>0, <1>8, CrashEffect DEF ServiceOK, Starting, Clearing
  <2>3. ASSUME NEW v \in Workers PROVE DrivesLive(v)'
    BY <1>0, <1>8, <2>1, CrashEffect, NoLocalsFields DEF DrivesLive
  <2>4. QED
    BY <2>2, <2>3 DEF OverrideInv
<1>9. QED
  BY <1>1, <1>2, <1>3, <1>4, <1>5, <1>6, <1>7, <1>8 DEF Next, ServiceStep, ServiceAlone

LEMMA OverrideInit == Init => OverrideInv
<1>. SUFFICES ASSUME Init PROVE OverrideInv
  OBVIOUS
<1>1. \A t \in Threads : pc[t] = "idle" /\ loc[t] = NoLocals /\ To(t) = {"idle"}
  BY DEF Init, To, Coming, AppendPCs
<1>2. 0 \notin Runs
  BY DEF Runs
<1>3. ServiceOK
  BY <1>1 DEF ServiceOK, Starting, Clearing, Threads
<1>4. ASSUME NEW w \in Workers PROVE DrivesLive(w)
  BY <1>1, <1>2, NoLocalsFields DEF DrivesLive, Threads
<1>5. QED
  BY <1>3, <1>4 DEF OverrideInv

LEMMA TypesAlways == Spec => [](TypeInv /\ BaseInv)
<1>1. Init => TypeInv
  BY InitTyped, RunsAssumption, ClientsAssumption
<1>2. TypeInv /\ [Next]_vars => TypeInv'
  BY NextTyped, RunsAssumption
<1>3. TypeInv /\ BaseInv /\ [Next]_vars => BaseInv'
  BY BaseNext
<1>. QED
  BY <1>1, <1>2, <1>3, BaseInit, PTL DEF Spec

\* A run that an operator has failed with ForceClearRecovery stays failed, for
\* any number of runs and threads, whatever else overlaps or dies, if the
\* command is given while no background thread works: every row that
\* startup_recovery or resume_run writes is then one they found alive.
THEOREM OverridesAreFinal ==
  ASSUME "clear" \notin Overlap
  PROVE  Spec => OverrideStays
<1>1. TypeInv /\ BaseInv /\ OverrideInv /\ [Next]_vars => OverrideInv'
  BY OverrideNext
<1>2. ASSUME TypeInv, BaseInv, OverrideInv, [Next]_vars,
             NEW r \in Runs, runs[r].state = "Failed"
      PROVE  runs'[r].state = "Failed"
  <2>1. ASSUME NEW w \in Workers, WorkerStep(w) PROVE runs'[r].state = "Failed"
    BY <1>2, <2>1, WorkerRows DEF RowsLive
  <2>2. CASE ServiceAlone
    <3>1. ASSUME NEW n \in Targets, InsertRun(n) PROVE runs'[r].state = "Failed"
      <4>1. /\ pc[Service] = "insert"
            /\ \A q \in Runs : q # loc[Service].run => runs'[q] = runs[q]
        BY <1>2, <3>1, StartEffect
      <4>2. runs[loc[Service].run].state = "none"
        BY <1>2, <4>1 DEF OverrideInv, ServiceOK, To, Coming, AppendPCs
      <4>3. QED
        BY <1>2, <4>1, <4>2
    <3>2. CASE ClearRuns
      BY <1>2, <3>2, ClearEffect DEF Allowed
    <3>3. CASE Replay \/ Pause \/ Unstart \/ ClearLeases \/ ClearFlag \/ Close \/ Reply
      BY <1>2, <3>3, AnswerEffect, StartEffect, ClearEffect
    <3>4. CASE \E q \in Runs : StartRun(q)
      BY <1>2, <3>4, StartEffect
    <3>5. QED
      BY <2>2, <3>1, <3>2, <3>3, <3>4 DEF ServiceAlone
  <2>3. CASE AppendStep(Service)
    BY <1>2, <2>3, AppendEffect DEF Threads
  <2>4. CASE \/ \E q \in Requests : Receive(q)
             \/ \E w \in Workers : SpawnRun(w) \/ Resume(w) \/ Restart(w)
             \/ Tick \/ Crash \/ UNCHANGED vars
    BY <1>2, <2>4, ReceiveEffect, SpawnEffect, TickEffect, CrashEffect DEF vars, db
  <2>5. QED
    BY <1>2, <2>1, <2>2, <2>3, <2>4 DEF Next, ServiceStep, ServiceAlone
<1>3. TypeInv /\ BaseInv /\ OverrideInv /\ [Next]_vars =>
        [\A r \in Runs : runs[r].state = "Failed" => runs'[r].state = "Failed"]_vars
  BY <1>2
<1>. QED
  BY <1>1, <1>3, OverrideInit, TypesAlways, PTL DEF Spec, OverrideStays

-----------------------------------------------------------------------------
(* Epochs exclude each other                                               *)

\* Clients send no command while a background thread works.
ClientsWait == Overlap = {}

\* What the service does before it leaves the rest to a thread.
Before == {"replay", "dispatch", "insert", "spawn", "unstart", "clearRuns", "clearFlag"}

\* When clients wait there is one thread beside the service, and none until the
\* service has started it.
AloneInv ==
  /\ \A v, w \in Workers : pc[v] # "idle" /\ pc[w] # "idle" => v = w
  /\ To(Service) \cap Before # {} => Quiet

LEMMA ServiceTo ==
  ASSUME TypeInv, BaseInv
  PROVE  /\ ServiceAlone /\ To(Service)' \cap Before # {} => To(Service) \cap Before # {}
         /\ \A w \in Workers : SpawnRun(w) \/ Resume(w) => To(Service) \cap Before # {}
<1>1. \A n : pc[Service] = n /\ n \in Before => To(Service) = {n}
  BY DEF To, Coming, AppendPCs, Before
<1>. DEFINE FromBefore == To(Service)' \cap Before # {} => To(Service) \cap Before # {}
<1>2. ASSUME ServiceAlone PROVE FromBefore
  <2>1. ASSUME Replay \/ Pause \/ ClearFlag \/ Close PROVE FromBefore
    BY <1>1, <2>1, AnswerEffect DEF Goes, Logs, Before
  <2>2. ASSUME Reply PROVE FromBefore
    <3>1. To(Service)' = {"idle"}
      BY <2>2, AnswerEffect DEF To, Coming, AppendPCs
    <3>2. QED
      BY <3>1 DEF Before
  <2>3. ASSUME Unstart PROVE FromBefore
    BY <1>1, <2>3, StartEffect DEF Goes, Before
  <2>4. ASSUME NEW r \in Runs, StartRun(r) PROVE FromBefore
    BY <1>1, <2>4, StartEffect DEF Goes, Before
  <2>5. ASSUME NEW n \in Targets, InsertRun(n) PROVE FromBefore
    BY <1>1, <2>5, StartEffect DEF Logs, Before
  <2>6. ASSUME ClearLeases \/ ClearRuns PROVE FromBefore
    BY <1>1, <2>6, ClearEffect DEF Goes, Before
  <2>7. QED
    BY <1>2, <2>1, <2>2, <2>3, <2>4, <2>5, <2>6 DEF ServiceAlone
<1>6. ASSUME NEW w \in Workers, SpawnRun(w) \/ Resume(w) PROVE To(Service) \cap Before # {}
  BY <1>1, <1>6, SpawnEffect DEF Before
<1>7. QED
  BY <1>2, <1>6

\* A step of the service that starts no thread, on the way it was.
LEMMA AloneService ==
  ASSUME AloneInv, Unmoved(Service),
         To(Service)' \cap Before # {} => Quiet
  PROVE  AloneInv'
<1>1. Quiet' = Quiet /\ \A w \in Workers : pc'[w] = pc[w]
  BY QuietStays, ClientsAssumption DEF Unmoved, Threads, ClientsAssumption
<1>2. QED
  BY <1>1 DEF AloneInv

LEMMA AloneNext ==
  ASSUME ClientsWait, TypeInv, BaseInv, AloneInv, [Next]_vars
  PROVE  AloneInv'
<1>0. Service \in Threads /\ \A w \in Workers : w \in Threads /\ w # Service
  BY ClientsAssumption DEF Threads, ClientsAssumption
<1>1. ASSUME NEW q \in Requests, Receive(q) PROVE AloneInv'
  BY <1>1, ReceiveEffect, AloneService DEF ClientsWait
<1>2. CASE AppendStep(Service)
  BY <1>0, <1>2, BaseAppend, AppendEffect, AloneService DEF AloneInv
<1>3. CASE ServiceAlone
  BY <1>3, BaseService, ServiceTo, AloneService DEF AloneInv
<1>4. ASSUME NEW w \in Workers, WorkerStep(w) PROVE AloneInv'
  <2>1. pc[w] # "idle" /\ Unmoved(w)
    BY <1>0, <1>4, BaseWorker, BaseAppend, AppendEffect DEF WorkerStep
  <2>2. To(Service)' = To(Service)
    BY <1>0, <2>1 DEF Unmoved, To
  <2>3. QED
    BY <1>0, <2>1, <2>2 DEF AloneInv, Quiet, Unmoved
<1>5. ASSUME NEW w \in Workers, SpawnRun(w) \/ Resume(w) PROVE AloneInv'
  <2>1. Quiet
    BY <1>5, ServiceTo DEF AloneInv
  <2>2. /\ To(Service)' = {"close"}
        /\ \A v \in Workers \ {w} : pc'[v] = pc[v]
    BY <1>0, <1>5, SpawnEffect DEF Goes, Unmoved
  <2>3. QED
    BY <2>1, <2>2 DEF AloneInv, Quiet, Before
<1>6. ASSUME NEW w \in Workers, Restart(w) PROVE AloneInv'
  <2>1. ~up /\ Unmoved(w)
    BY <1>6, SpawnEffect
  <2>2. \A t \in Threads : pc[t] = "idle"
    BY <2>1 DEF BaseInv, DownIdle
  <2>3. To(Service)' = {"idle"} /\ \A v \in Workers \ {w} : pc'[v] = "idle"
    BY <1>0, <2>1, <2>2 DEF Unmoved, To, Coming, AppendPCs
  <2>4. QED
    BY <2>3 DEF AloneInv, Before
<1>7. CASE Tick \/ UNCHANGED vars
  <2>1. pc' = pc /\ loc' = loc
    BY <1>7, TickEffect DEF vars
  <2>2. QED
    BY <2>1 DEF AloneInv, To, Quiet
<1>8. CASE Crash
  BY <1>0, <1>8, CrashEffect DEF AloneInv, Quiet
<1>9. QED
  BY <1>1, <1>2, <1>3, <1>4, <1>5, <1>6, <1>7, <1>8 DEF Next, ServiceStep, ServiceAlone

LEMMA AloneInit == Init => AloneInv
<1>. SUFFICES ASSUME Init PROVE AloneInv
  OBVIOUS
<1>1. \A w \in Workers : pc[w] = "idle"
  BY DEF Init, Threads
<1>2. QED
  BY <1>1 DEF AloneInv, Quiet

LEMMA AloneAlways == ASSUME ClientsWait PROVE Spec => []AloneInv
<1>1. TypeInv /\ BaseInv /\ AloneInv /\ [Next]_vars => AloneInv'
  BY AloneNext
<1>. QED
  BY <1>1, AloneInit, TypesAlways, PTL DEF Spec

\* No recovery ever runs: the daemon is not killed and nobody asks for one.
NoRecovery == MaxCrashes = 0 /\ \A q \in Requests : Kind[q] # "resume"

\* Clients wait; or the commands beside working threads are not overrides, the
\* leases are renewed in time, and nothing picks a run up again.
OneDriver == ClientsWait \/ (NoRecovery /\ Timely /\ "clear" \notin Overlap)

\* The operations from taking the leases to giving them back, and a recovery's.
Section    == {"loop", "renew", "epoch", "record", "complete", "release", "abort"}
Recovering == {"scan", "pick", "settle", "marker", "mark", "finish"}

\* The thread is that of a StartRun.
Started(w) ==
  pc[w] # "idle" =>
    loc[w].job = "start" /\ loc[w].run \in Runs /\ To(w) \cap Recovering = {}

\* A thread in the section has its leases, and they have not expired.
Holds(w) ==
  To(w) \cap Section # {} =>
    /\ To(w) \subseteq Section
    /\ AllOwned(loc[w].run)
    /\ \A name \in LeaseNames : leases[name].left > 0

\* Where runs are only started, every thread has a run of its own.
Apart ==
  /\ \A v, w \in Workers : pc[v] # "idle" /\ pc[w] # "idle" /\ v # w =>
       loc[v].run # loc[w].run
  /\ \A w \in Workers : pc[w] # "idle" /\ To(Service) \cap Starting # {} =>
       loc[w].run # loc[Service].run

SectionInv == up /\ Apart /\ \A w \in Workers : Started(w) /\ Holds(w)

LEMMA LeaseFacts ==
  ASSUME TypeInv, NEW r \in Runs, NEW s \in Runs, r # s
  PROVE  /\ AllOwned(r) /\ AllOwned(s) => FALSE
         /\ AllOwned(s) /\ (\A name \in LeaseNames : leases[name].left > 0) => ~AllGrantable(r)
         /\ leases' = Released(r) /\ AllOwned(s) => UNCHANGED leases
         /\ leases' = Granted(r) =>
              AllOwned(r)' /\ \A name \in LeaseNames : leases'[name].left > 0
<1>1. "judge" \in LeaseNames /\ r # 0 /\ s # 0
  BY DEF LeaseNames, Runs
<1>2. AllOwned(r) /\ AllOwned(s) => FALSE
  BY <1>1 DEF AllOwned
<1>3. AllOwned(s) /\ (\A name \in LeaseNames : leases[name].left > 0) => ~AllGrantable(r)
  BY <1>1 DEF AllOwned, AllGrantable, Grantable
<1>4. ASSUME leases' = Released(r), AllOwned(s) PROVE UNCHANGED leases
  <2>1. \A name \in LeaseNames : leases[name].owner # r
    BY <1>4 DEF AllOwned
  <2>2. leases' = [name \in LeaseNames |-> leases[name]]
    BY <1>4, <2>1 DEF Released
  <2>3. QED
    BY <2>2 DEF TypeInv, StoresOK
<1>5. leases' = Granted(r) =>
        AllOwned(r)' /\ \A name \in LeaseNames : leases'[name].left > 0
  BY RunsAssumption DEF Granted, AllOwned, RunsAssumption
<1>. QED
  BY <1>2, <1>3, <1>4, <1>5

\* What a thread of a StartRun does to its place and to the leases.
LEMMA StartedStep ==
  ASSUME TypeInv, BaseInv, NEW w \in Workers, Started(w), Holds(w), WorkerStep(w)
  PROVE  LET r == loc[w].run IN
         /\ pc[w] # "idle" /\ Unmoved(w) /\ up' = up
         /\ \/ pc'[w] = "idle"
            \/ loc'[w].run = r /\ loc'[w].job = loc[w].job /\ To(w)' \cap Recovering = {}
         /\ \/ /\ leases' = leases
               /\ To(w)' \cap Section # {} =>
                    To(w)' \subseteq Section /\ To(w) \cap Section # {}
            \/ AllGrantable(r) /\ leases' = Granted(r) /\ To(w)' \subseteq Section
            \/ AllOwned(r) /\ leases' = Granted(r) /\ To(w)' \subseteq Section
            \/ leases' = Released(r) /\ To(w)' \cap Section = {}
<1>0. w \in Threads
  BY DEF Threads
<1>1. pc[w] # "idle" /\ Unmoved(w) /\ up' = up
  BY <1>0, BaseWorker, BaseAppend, AppendEffect, WorkerFiles DEF WorkerStep
<1>2. \A n : pc[w] = n /\ n \notin AppendPCs => To(w) = {n}
  BY DEF To, Coming
<1>3. ~RecoverStep(w)
  <2>1. RecoverStep(w) => pc[w] \in Recovering
    BY RecoverEffect DEF RecoverStep, Recovering
  <2>2. QED
    BY <1>1, <1>2, <2>1 DEF Started, Recovering, AppendPCs
<1>4. CASE AppendStep(w)
  <2>1. leases' = leases /\ To(w)' \subseteq To(w) /\ Kept(w)
    BY <1>0, <1>4, AppendEffect, BaseAppend
  <2>2. QED
    BY <1>1, <2>1 DEF Kept, Started, Holds
<1>5. CASE ResumeRun(w) \/ EnsureCandidate(w) \/ NoEpochs(w) \/ AcquireSection(w)
  BY <1>1, <1>5, EnterEffect DEF Goes, Kept, Section, Recovering
<1>6. CASE RenewSection(w)
  <2>1. To(w) = {"renew"}
    BY <1>2, <1>6, EpochEffect DEF AppendPCs
  <2>2. CASE /\ AllOwned(loc[w].run) /\ leases' = Granted(loc[w].run)
             /\ To(w)' = {"epoch", "abort"}
             /\ loc'[w].run = loc[w].run /\ loc'[w].job = loc[w].job
    BY <1>1, <2>2 DEF Section, Recovering
  <2>3. CASE leases' = leases /\ Goes(w, "abort")
    BY <1>1, <2>1, <2>3 DEF Goes, Kept, Section, Recovering
  <2>4. QED
    BY <1>6, <2>2, <2>3, EpochEffect
<1>7. CASE EpochLoop(w) \/ RunEpoch(w) \/ RecordEpoch(w) \/ CompleteRun(w)
  BY <1>1, <1>2, <1>7, EpochEffect DEF Goes, Logs, Kept, Section, Recovering, AppendPCs
<1>8. CASE ReleaseSection(w) \/ LeavePending(w)
  BY <1>1, <1>8, LeaveEffect DEF Goes, Logs, Kept, Section, Recovering
<1>9. CASE Return(w)
  <2>1. pc'[w] = "idle" /\ leases' = leases
    BY <1>1, <1>9, LeaveEffect DEF Started
  <2>2. To(w)' = {"idle"}
    BY <2>1 DEF To, Coming, AppendPCs
  <2>3. QED
    BY <1>1, <2>1, <2>2 DEF Section
<1>10. QED
  BY <1>3, <1>4, <1>5, <1>6, <1>7, <1>8, <1>9 DEF WorkerStep, DriveStep

LEMMA SectionWorker ==
  ASSUME TypeInv, BaseInv, SectionInv, NEW w \in Workers, WorkerStep(w)
  PROVE  SectionInv'
<1>. DEFINE r == loc[w].run
<1>0. /\ w \in Threads /\ Service \in Threads \ {w}
      /\ \A v \in Workers : v \in Threads /\ Started(v) /\ Holds(v)
  BY ClientsAssumption DEF Threads, SectionInv, ClientsAssumption
<1>1. /\ pc[w] # "idle" /\ Unmoved(w) /\ up' = up
      /\ \/ pc'[w] = "idle"
         \/ loc'[w].run = r /\ loc'[w].job = loc[w].job /\ To(w)' \cap Recovering = {}
  BY <1>0, StartedStep
<1>2. \/ /\ leases' = leases
         /\ To(w)' \cap Section # {} => To(w)' \subseteq Section /\ To(w) \cap Section # {}
      \/ AllGrantable(r) /\ leases' = Granted(r) /\ To(w)' \subseteq Section
      \/ AllOwned(r) /\ leases' = Granted(r) /\ To(w)' \subseteq Section
      \/ leases' = Released(r) /\ To(w)' \cap Section = {}
  BY <1>0, StartedStep
<1>3. r \in Runs
  BY <1>0, <1>1 DEF Started
<1>4. \A u \in Threads \ {w} : pc'[u] = pc[u] /\ loc'[u] = loc[u] /\ To(u)' = To(u)
  BY <1>1 DEF Unmoved, To
<1>5. To(w)' = {"idle"} \/ loc'[w].run = r
  BY <1>1 DEF To, Coming, AppendPCs
<1>6. Apart'
  BY <1>0, <1>1, <1>4 DEF SectionInv, Apart
<1>7. Started(w)'
  BY <1>0, <1>1 DEF Started
<1>8. Holds(w)'
  <2>1. CASE leases' = Granted(r) /\ To(w)' \subseteq Section
    <3>1. \A name \in LeaseNames : leases'[name].owner = r /\ leases'[name].left > 0
      BY <2>1, RunsAssumption DEF Granted, RunsAssumption
    <3>2. QED
      BY <1>5, <2>1, <3>1 DEF Holds, AllOwned, Section
  <2>2. CASE /\ leases' = leases
             /\ To(w)' \cap Section # {} =>
                  To(w)' \subseteq Section /\ To(w) \cap Section # {}
    BY <1>0, <1>5, <2>2 DEF Holds, AllOwned, Section
  <2>3. CASE To(w)' \cap Section = {}
    BY <2>3 DEF Holds
  <2>4. QED
    BY <1>2, <2>1, <2>2, <2>3
<1>9. ASSUME NEW v \in Workers, v # w PROVE Started(v)' /\ Holds(v)'
  <2>1. pc'[v] = pc[v] /\ loc'[v] = loc[v] /\ To(v)' = To(v)
    BY <1>0, <1>4, <1>9
  <2>2. CASE To(v) \cap Section = {}
    BY <1>0, <2>1, <2>2 DEF Started, Holds
  <2>3. CASE To(v) \cap Section # {}
    <3>1. pc[v] # "idle"
      BY <2>3 DEF To, Coming, AppendPCs, Section
    <3>2. loc[v].run \in Runs /\ loc[v].run # r
      BY <1>0, <1>1, <1>9, <3>1 DEF Started, SectionInv, Apart
    <3>3. AllOwned(loc[v].run) /\ \A name \in LeaseNames : leases[name].left > 0
      BY <1>0, <2>3 DEF Holds
    <3>4. ~AllOwned(r) /\ ~AllGrantable(r)
      BY <1>3, <3>2, <3>3, LeaseFacts
    <3>5. leases' = leases
      BY <1>2, <1>3, <3>2, <3>3, <3>4, LeaseFacts
    <3>6. QED
      BY <1>0, <2>1, <3>5 DEF Started, Holds, AllOwned
  <2>4. QED
    BY <2>2, <2>3
<1>10. QED
  BY <1>1, <1>6, <1>7, <1>8, <1>9 DEF SectionInv

\* A step of the service: the leases stay for those who hold them, and a run it
\* is starting is nobody's.
LEMMA SectionService ==
  ASSUME SectionInv, Unmoved(Service), up' = up,
         \A w \in Workers : To(w) \cap Section # {} => UNCHANGED leases,
         To(Service)' \cap Starting # {} =>
           \A w \in Workers : pc[w] # "idle" => loc[w].run # loc'[Service].run
  PROVE  SectionInv'
<1>1. \A w \in Workers : pc'[w] = pc[w] /\ loc'[w] = loc[w] /\ To(w)' = To(w)
  BY ClientsAssumption DEF Unmoved, To, Threads, ClientsAssumption
<1>2. Apart'
  BY <1>1 DEF SectionInv, Apart
<1>3. ASSUME NEW w \in Workers PROVE Started(w)' /\ Holds(w)'
  <2>1. Started(w)'
    BY <1>1 DEF SectionInv, Started
  <2>2. CASE To(w) \cap Section # {}
    <3>1. UNCHANGED leases
      BY <2>2
    <3>2. QED
      BY <1>1, <2>1, <3>1 DEF SectionInv, Holds, AllOwned
  <2>3. CASE To(w) \cap Section = {}
    BY <1>1, <2>1, <2>3 DEF Holds
  <2>4. QED
    BY <2>2, <2>3
<1>4. QED
  BY <1>2, <1>3 DEF SectionInv

LEMMA SectionAnswers ==
  ASSUME TypeInv, BaseInv, OverrideInv, SectionInv, AppendStep(Service) \/ ServiceAlone
  PROVE  SectionInv'
<1>. DEFINE s == loc[Service].run
<1>0. Service \in Threads /\ \A w \in Workers : w \in Threads /\ Started(w) /\ Holds(w)
  BY DEF Threads, SectionInv
<1>1. Unmoved(Service) /\ up' = up
  BY <1>0, AppendEffect, BaseService
<1>2. \A n : pc[Service] = n /\ n \notin AppendPCs => To(Service) = {n}
  BY DEF To, Coming
<1>3. ASSUME NEW w \in Workers, To(w) \cap Section # {}
      PROVE  /\ pc[w] # "idle" /\ loc[w].run \in Runs
             /\ AllOwned(loc[w].run) /\ \A name \in LeaseNames : leases[name].left > 0
  <2>1. pc[w] # "idle"
    BY <1>3 DEF To, Coming, AppendPCs, Section
  <2>2. QED
    BY <1>0, <1>3, <2>1 DEF Started, Holds
<1>. DEFINE Same == leases' = leases \/ \A w \in Workers : To(w) \cap Section = {}
            On   == To(Service)' \cap Starting # {} =>
                      To(Service) \cap Starting # {} /\ loc'[Service].run = s
<1>4. ASSUME Same, On PROVE SectionInv'
  BY <1>1, <1>4, SectionService DEF SectionInv, Apart
<1>5. CASE AppendStep(Service)
  BY <1>0, <1>4, <1>5, AppendEffect, BaseAppend DEF Kept
<1>6. CASE Replay \/ Pause \/ ClearFlag \/ Close
  BY <1>4, <1>6, AnswerEffect DEF Goes, Logs, Starting
<1>7. CASE Reply
  <2>1. To(Service)' = {"idle"} /\ leases' = leases
    BY <1>7, AnswerEffect DEF To, Coming, AppendPCs
  <2>2. QED
    BY <1>4, <2>1 DEF Starting
<1>8. ASSUME NEW r \in Runs, StartRun(r) PROVE SectionInv'
  <2>1. CASE ~AllGrantable(r)
    BY <1>4, <1>8, <2>1, StartEffect DEF Goes, Starting
  <2>2. CASE AllGrantable(r)
    <3>1. loc'[Service].run = r /\ runs[r].state = "none"
      BY <1>8, <2>2, StartEffect DEF NewRun
    <3>2. ASSUME NEW w \in Workers, pc[w] # "idle" PROVE loc[w].run \in Runs \ {r}
      BY <1>0, <3>1, <3>2 DEF Started, OverrideInv, DrivesLive, Live
    <3>3. ASSUME NEW w \in Workers, To(w) \cap Section # {} PROVE FALSE
      BY <1>3, <2>2, <3>2, <3>3, LeaseFacts
    <3>4. QED
      BY <1>1, <3>1, <3>2, <3>3, SectionService
  <2>3. QED
    BY <2>1, <2>2
<1>9. ASSUME NEW n \in Targets, InsertRun(n) PROVE SectionInv'
  <2>1. leases' = leases /\ pc[Service] = "insert" /\ loc'[Service].run = s
    BY <1>9, StartEffect DEF Logs, Kept
  <2>2. To(Service) \cap Starting # {}
    BY <1>2, <2>1 DEF Starting, AppendPCs
  <2>3. QED
    BY <1>4, <2>1, <2>2
<1>10. CASE Unstart
  <2>1. /\ pc[Service] = "unstart" /\ leases' = Released(s) /\ To(Service)' = {"close"}
    BY <1>10, StartEffect DEF Goes
  <2>2. To(Service) \cap Starting # {} /\ "unstart" \in To(Service)
    BY <1>2, <2>1 DEF Starting, AppendPCs
  <2>3. s \in Runs
    BY <2>2 DEF OverrideInv, ServiceOK
  <2>4. ASSUME NEW w \in Workers, To(w) \cap Section # {} PROVE UNCHANGED leases
    <3>1. loc[w].run # s
      BY <1>3, <2>2, <2>4 DEF SectionInv, Apart
    <3>2. QED
      BY <1>3, <2>1, <2>3, <2>4, <3>1, LeaseFacts
  <2>5. QED
    BY <1>1, <2>1, <2>4, SectionService DEF Starting
<1>11. CASE ClearLeases
  <2>1. /\ pc[Service] = "dispatch" /\ Kind[loc[Service].req] = "clear"
        /\ To(Service)' = {"clearRuns"}
    BY <1>11, ClearEffect DEF Goes
  <2>2. Quiet
    BY <2>1 DEF OverrideInv, ServiceOK
  <2>3. \A w \in Workers : To(w) \cap Section = {}
    BY <1>3, <2>2 DEF Quiet
  <2>4. QED
    BY <1>4, <2>1, <2>3 DEF Starting
<1>12. CASE ClearRuns
  BY <1>4, <1>12, ClearEffect DEF Goes, Starting
<1>13. QED
  BY <1>5, <1>6, <1>7, <1>8, <1>9, <1>10, <1>11, <1>12 DEF ServiceAlone

LEMMA SectionNext ==
  ASSUME NoRecovery, Timely, TypeInv, BaseInv, OverrideInv, SectionInv, [Next]_vars
  PROVE  SectionInv'
<1>0. /\ Service \in Threads /\ up
      /\ \A w \in Workers : w \in Threads /\ w # Service /\ Started(w) /\ Holds(w)
  BY ClientsAssumption DEF Threads, ClientsAssumption, SectionInv
<1>1. ASSUME NEW q \in Requests, Receive(q) PROVE SectionInv'
  BY <1>1, ReceiveEffect, SectionService DEF Starting
<1>2. CASE AppendStep(Service) \/ ServiceAlone
  BY <1>2, SectionAnswers
<1>3. ASSUME NEW w \in Workers, WorkerStep(w) PROVE SectionInv'
  BY <1>3, SectionWorker
<1>4. ASSUME NEW w \in Workers, SpawnRun(w) PROVE SectionInv'
  <2>1. /\ pc[Service] = "spawn" /\ loc[Service].run \in Runs /\ pc[w] = "idle"
        /\ leases' = leases /\ up' = up
        /\ loc'[w].job = "start" /\ loc'[w].run = loc[Service].run
        /\ To(w)' = {"resume"} /\ To(Service)' = {"close"}
        /\ \A v \in Workers \ {w} : pc'[v] = pc[v] /\ loc'[v] = loc[v]
    BY <1>0, <1>4, SpawnEffect
  <2>2. \A v \in Workers \ {w} : To(v)' = To(v)
    BY <2>1 DEF To
  <2>3. To(Service) \cap Starting # {}
    BY <2>1 DEF To, Coming, AppendPCs, Starting
  <2>4. Apart'
    BY <2>1, <2>3 DEF SectionInv, Apart, Starting
  <2>5. Started(w)' /\ Holds(w)'
    BY <2>1 DEF Started, Holds, Recovering, Section
  <2>6. ASSUME NEW v \in Workers \ {w} PROVE Started(v)' /\ Holds(v)'
    BY <1>0, <2>1, <2>2, <2>6 DEF Started, Holds, AllOwned
  <2>7. QED
    BY <1>0, <2>1, <2>4, <2>5, <2>6 DEF SectionInv
<1>5. ASSUME NEW w \in Workers, Resume(w) PROVE FALSE
  <2>1. pc[Service] = "dispatch" /\ Kind[loc[Service].req] = "resume"
    BY <1>5, SpawnEffect
  <2>2. loc[Service].req \in Requests
    BY <1>0, <2>1 DEF TypeInv, ThreadsOK, Ready, Coming, AppendPCs, ReqPCs
  <2>3. QED
    BY <2>1, <2>2 DEF NoRecovery
<1>6. ASSUME NEW w \in Workers, Restart(w) PROVE FALSE
  BY <1>0, <1>6, SpawnEffect
<1>7. CASE Tick
  <2>1. /\ UNCHANGED <<up, pc, loc>> /\ \A t : To(t)' = To(t)
        /\ \A name \in LeaseNames : leases'[name].owner = leases[name].owner
    BY <1>7, TickEffect
  <2>2. ASSUME NEW w \in Workers PROVE Holds(w)'
    <3>1. CASE To(w) \cap Section = {}
      BY <2>1, <3>1 DEF Holds
    <3>2. CASE To(w) \cap Section # {}
      <4>1. /\ AllOwned(loc[w].run) /\ To(w) \subseteq Section
        BY <1>0, <3>2 DEF Holds
      <4>2. InSection(w)
        BY <3>2, <4>1 DEF InSection, To, Coming, AppendPCs, Section
      <4>3. \A name \in LeaseNames : leases[name].left > 1
        BY <1>7, <4>1, <4>2 DEF Tick, AllOwned
      <4>4. \A name \in LeaseNames : leases'[name].left = leases[name].left - 1
        BY <1>7, <4>3 DEF Tick, TypeInv, StoresOK, Lease
      <4>5. \A name \in LeaseNames : leases[name].left \in Int
        BY DEF TypeInv, StoresOK, Lease
      <4>6. \A name \in LeaseNames : leases'[name].left > 0
        BY <4>3, <4>4, <4>5
      <4>7. QED
        BY <2>1, <4>1, <4>6 DEF Holds, AllOwned
    <3>3. QED
      BY <3>1, <3>2
  <2>3. \A w \in Workers : Started(w)'
    BY <1>0, <2>1 DEF Started
  <2>4. Apart'
    BY <2>1 DEF SectionInv, Apart
  <2>5. QED
    BY <1>0, <2>1, <2>2, <2>3, <2>4 DEF SectionInv
<1>8. CASE Crash
  BY <1>8, CrashEffect DEF NoRecovery, TypeInv, StoresOK
<1>9. CASE UNCHANGED vars
  BY <1>9 DEF vars, db, daemon, SectionInv, Apart, Started, Holds, To, AllOwned
<1>10. QED
  BY <1>1, <1>2, <1>3, <1>4, <1>5, <1>6, <1>7, <1>8, <1>9
     DEF Next, ServiceStep, ServiceAlone

LEMMA SectionInit == Init => SectionInv
<1>. SUFFICES ASSUME Init PROVE SectionInv
  OBVIOUS
<1>1. up /\ \A t \in Threads : pc[t] = "idle" /\ To(t) = {"idle"}
  BY DEF Init, To, Coming, AppendPCs
<1>2. QED
  BY <1>1 DEF SectionInv, Apart, Started, Holds, Section, Threads

LEMMA OverrideAlways == ASSUME "clear" \notin Overlap PROVE Spec => []OverrideInv
<1>1. TypeInv /\ BaseInv /\ OverrideInv /\ [Next]_vars => OverrideInv'
  BY OverrideNext
<1>. QED
  BY <1>1, OverrideInit, TypesAlways, PTL DEF Spec

\* No two threads are inside run_single_epoch, for any number of runs, threads
\* and epochs, in either of two ways of working: nothing is sent while a thread
\* works, whatever dies, expires or is picked up again; or runs are started at
\* will, and then it is the leases that keep their threads apart.
THEOREM EpochsExclude ==
  ASSUME OneDriver
  PROVE  Spec => []ExclusiveEpochs
<1>1. CASE ClientsWait
  <2>1. AloneInv => ExclusiveEpochs
    BY DEF AloneInv, ExclusiveEpochs, Executing
  <2>2. QED
    BY <1>1, <2>1, AloneAlways, PTL
<1>2. CASE NoRecovery /\ Timely /\ "clear" \notin Overlap
  <2>1. TypeInv /\ BaseInv /\ OverrideInv /\ SectionInv /\ [Next]_vars => SectionInv'
    BY <1>2, SectionNext
  <2>2. ASSUME SectionInv, NEW v \in Workers, NEW w \in Workers,
               Executing(v), Executing(w)
        PROVE  v = w
    <3>1. /\ pc[v] # "idle" /\ To(v) \cap Section # {}
          /\ pc[w] # "idle" /\ To(w) \cap Section # {}
      BY <2>2 DEF Executing, To, Coming, AppendPCs, Section
    <3>2. AllOwned(loc[v].run) /\ AllOwned(loc[w].run)
      BY <2>2, <3>1 DEF SectionInv, Holds
    <3>3. "judge" \in LeaseNames
      BY DEF LeaseNames
    <3>4. loc[v].run = loc[w].run
      BY <3>2, <3>3 DEF AllOwned
    <3>5. QED
      BY <2>2, <3>1, <3>4 DEF SectionInv, Apart
  <2>3. SectionInv => ExclusiveEpochs
    BY <2>2 DEF ExclusiveEpochs
  <2>4. QED
    BY <1>2, <2>1, <2>3, SectionInit, OverrideAlways, TypesAlways, PTL DEF Spec
<1>. QED
  BY <1>1, <1>2 DEF OneDriver

-----------------------------------------------------------------------------
(* A run that is Running is driven, or has been given up                   *)

\* A thread enters its run, or is done with it.
Entering == {"resume", "ensure", "zero", "acquire"}
Leaving  == {"release", "return", "marker", "finish"}

\* The service is about to start a thread for the run, or a thread has it.
Minded(r) ==
  \/ loc[Service].run = r /\ "spawn" \in To(Service)
  \/ \E w \in Workers : Drives(w, r)

\* The service starts a run alone: the leases are the run's, and its row gets
\* into the journal.
StartOK ==
  LET l == loc[Service] IN
  /\ To(Service) \cap {"insert", "spawn"} # {} => AllOwned(l.run)
  /\ To(Service) \cap {"spawn", "unstart"} # {} =>
       \/ pc[Service] = "spawn"
       \/ /\ pc[Service] \in AppendPCs /\ l.next = "spawn"
          /\ pc[Service] = "rename" => tmp.there

\* A run that is Running and has not been given up.
Going(r) == runs[r].state = "Running" /\ r \notin stranded

\* A recovery that comes to runs left Running by a dead daemon has the journal
\* for itself, so that no error ends it.
Undisturbed(w) ==
  /\ pc[Service] = "idle"
  /\ pc[w] = "rename" => tmp.there
  /\ pc[w] # "finish"

Job(w) ==
  LET l == loc[w] IN
  /\ pc[w] \in {"scan", "pick"} => l.run = 0
  /\ pc[w] # "idle" => l.job \in {"start", "recover"}
  /\ To(w) \cap Recovering # {} => l.job = "recover"
  /\ l.job = "start" => l.todo = {}
  /\ \A p, q \in l.todo : p.run = q.run => p = q
  /\ \A p \in l.todo : p.run # l.run
  /\ pc[w] \in AppendPCs => l.next # "finish" /\ To(w) \cap {"scan", "pick"} = {}

\* Who leaves a run leaves it in another state than Running, or gives it up; who
\* enters one finds it its own, or pending.
Doorway(w) ==
  LET l == loc[w] IN
  /\ To(w) \cap Leaving # {} /\ l.run \in Runs => ~Going(l.run)
  /\ To(w) \cap Entering # {} =>
       IF l.job = "start" THEN AllOwned(l.run) ELSE runs[l.run].state = "RecoveryPending"

Ahead(w) ==
  /\ \A p \in loc[w].todo : Going(p.run) => Undisturbed(w)
  /\ pc[w] = "scan" /\ (\E r \in Runs : Going(r)) => Undisturbed(w)

OrphanInv ==
  /\ \A r \in Runs : Going(r) /\ up => Minded(r)
  /\ StartOK
  /\ \A w \in Workers : Job(w) /\ Doorway(w) /\ Ahead(w)

LEMMA IdleWorker ==
  ASSUME NEW w \in Workers, pc[w] = "idle", loc[w] = NoLocals
  PROVE  /\ Job(w) /\ Doorway(w) /\ Ahead(w)
         /\ \A r \in Runs : ~Drives(w, r)
<1>1. To(w) = {"idle"}
  BY DEF To, Coming, AppendPCs
<1>2. loc[w].run \notin Runs
  BY NoLocalsFields DEF Runs
<1>3. Job(w)
  BY <1>1, NoLocalsFields DEF Job, Recovering, AppendPCs
<1>4. Doorway(w) /\ Ahead(w)
  BY <1>1, NoLocalsFields DEF Doorway, Ahead, Leaving, Entering
<1>5. QED
  BY <1>2, <1>3, <1>4, NoLocalsFields DEF Drives

LEMMA IdleThere ==
  ASSUME NEW w \in Workers, pc'[w] = "idle", loc'[w] = NoLocals
  PROVE  /\ Job(w)' /\ Doorway(w)' /\ Ahead(w)'
         /\ \A r \in Runs : ~Drives(w, r)'
<1>1. To(w)' = {"idle"}
  BY DEF To, Coming, AppendPCs
<1>2. loc'[w].run \notin Runs
  BY NoLocalsFields DEF Runs
<1>3. Job(w)'
  BY <1>1, NoLocalsFields DEF Job, Recovering, AppendPCs
<1>4. Doorway(w)' /\ Ahead(w)'
  BY <1>1, NoLocalsFields DEF Doorway, Ahead, Leaving, Entering
<1>5. QED
  BY <1>2, <1>3, <1>4, NoLocalsFields DEF Drives

\* A thread goes on to an operation, or to the append of a row.
LEMMA JobGoes ==
  ASSUME NEW w \in Workers, pc[w] # "idle", Job(w), Kept(w),
         To(w)' \cap Recovering # {} => loc[w].job = "recover",
         \/ pc'[w] \notin AppendPCs \cup {"scan", "pick"}
         \/ /\ pc'[w] = "read" /\ loc'[w].next # "finish"
            /\ To(w)' \cap {"scan", "pick"} = {}
  PROVE  Job(w)'
  BY DEF Job, Kept, AppendPCs

LEMMA JobWorker ==
  ASSUME TypeInv, BaseInv, NEW w \in Workers, Job(w), WorkerStep(w)
  PROVE  Job(w)'
<1>0. w \in Threads
  BY DEF Threads
<1>1. pc[w] # "idle"
  BY <1>0, BaseWorker, BaseAppend DEF WorkerStep
<1>2. \A n : pc[w] = n /\ n \notin AppendPCs => To(w) = {n}
  BY DEF To, Coming
<1>3. CASE AppendStep(w)
  <2>1. /\ Kept(w) /\ To(w)' \subseteq To(w) /\ pc[w] \in AppendPCs
        /\ pc'[w] \in AppendPCs \/ To(w)' = {pc'[w]}
    BY <1>0, <1>3, AppendEffect, BaseAppend
  <2>2. pc'[w] \in AppendPCs => loc'[w].next = loc[w].next
    BY <1>0, <1>3, AppendEffect, BaseAppend DEF AppendStep
  <2>3. pc'[w] \notin {"scan", "pick"}
    BY <2>1 DEF Job, AppendPCs
  <2>4. QED
    BY <1>1, <2>1, <2>2, <2>3 DEF Job, Kept
<1>4. CASE ResumeRun(w) \/ EnsureCandidate(w) \/ NoEpochs(w) \/ AcquireSection(w)
  BY <1>1, <1>4, EnterEffect, JobGoes DEF Goes, Recovering, AppendPCs
<1>5. CASE RenewSection(w)
  <2>1. /\ loc'[w].job = loc[w].job /\ loc'[w].run = loc[w].run /\ loc'[w].todo = loc[w].todo
        /\ \/ pc'[w] = "abort" /\ To(w)' = {"abort"}
           \/ pc'[w] = "read" /\ To(w)' = {"epoch", "abort"}
    BY <1>5, EpochEffect DEF Goes, Kept
  <2>2. pc'[w] = "read" => loc'[w].next \in {"epoch", "abort"}
    BY <2>1 DEF To, Coming, AppendPCs
  <2>3. QED
    BY <1>1, <2>1, <2>2 DEF Job, Recovering, AppendPCs
<1>6. CASE EpochLoop(w) \/ RunEpoch(w) \/ RecordEpoch(w) \/ CompleteRun(w)
  BY <1>1, <1>6, EpochEffect, JobGoes DEF Goes, Logs, Recovering, AppendPCs
<1>7. CASE ReleaseSection(w) \/ LeavePending(w)
  BY <1>1, <1>7, LeaveEffect, JobGoes DEF Goes, Logs, Recovering, AppendPCs
<1>8. CASE Return(w)
  <2>1. IF loc[w].job = "start"
        THEN pc'[w] = "idle" /\ loc'[w] = NoLocals
        ELSE /\ pc'[w] = "pick" /\ To(w)' = {"pick"} /\ loc'[w].run = 0
             /\ loc'[w].todo = loc[w].todo /\ loc'[w].job = loc[w].job
    BY <1>8, LeaveEffect
  <2>2. CASE loc[w].job = "start"
    BY <2>1, <2>2, IdleThere
  <2>3. CASE loc[w].job # "start"
    <3>1. \A p \in loc[w].todo : p.run # 0
      BY <1>0, Held DEF Locals, Pending, Runs
    <3>2. QED
      BY <1>1, <2>1, <2>3, <3>1 DEF Job, AppendPCs
  <2>4. QED
    BY <2>2, <2>3
<1>9. CASE RecoverStep(w)
  <2>1. loc[w].job = "recover"
    <3>1. pc[w] \in Recovering
      BY <1>9, RecoverEffect DEF RecoverStep, Recovering
    <3>2. QED
      BY <1>2, <3>1 DEF Job, Recovering, AppendPCs
  <2>2. CASE Scan(w)
    <3>1. /\ pc[w] = "scan" /\ pc'[w] = "pick" /\ To(w)' = {"pick"}
          /\ loc'[w].run = loc[w].run /\ loc'[w].job = loc[w].job
          /\ loc'[w].todo = {[run |-> s, completed |-> runs[s].completed] :
                                s \in {q \in Runs : Allowed(q)}}
      BY <2>2, RecoverEffect
    <3>2. /\ \A p, q \in loc'[w].todo : p.run = q.run => p = q
          /\ \A p \in loc'[w].todo : p.run \in Runs
      BY <3>1
    <3>3. loc'[w].run = 0 /\ 0 \notin Runs
      BY <3>1 DEF Job, Runs
    <3>4. QED
      BY <2>1, <3>1, <3>2, <3>3 DEF Job, AppendPCs
  <2>3. CASE PickRun(w)
    <3>1. PICK p \in loc[w].todo :
            /\ pc'[w] \in {"settle", "mark"} /\ loc'[w].run = p.run
            /\ loc'[w].todo = loc[w].todo \ {p} /\ loc'[w].job = loc[w].job
      BY <2>3, RecoverEffect
    <3>2. QED
      BY <1>1, <2>1, <3>1 DEF Job, AppendPCs
  <2>4. CASE FinishRecovery(w)
    BY <2>4, RecoverEffect, IdleThere
  <2>5. CASE SettleRun(w) \/ CommitMarker(w) \/ MarkPending(w)
    BY <1>1, <2>1, <2>5, RecoverEffect, JobGoes DEF Goes, Logs, AppendPCs
  <2>6. QED
    BY <1>9, <2>2, <2>3, <2>4, <2>5 DEF RecoverStep
<1>10. QED
  BY <1>3, <1>4, <1>5, <1>6, <1>7, <1>8, <1>9 DEF WorkerStep, DriveStep

LEMMA WorkerKeeps ==
  ASSUME TypeInv, NEW w \in Workers, WorkerStep(w),
         ~(Scan(w) \/ PickRun(w) \/ Return(w) \/ FinishRecovery(w))
  PROVE  /\ loc'[w].run = loc[w].run /\ loc'[w].todo = loc[w].todo
         /\ pc[w] \notin {"idle", "scan"}
<1>0. w \in Threads
  BY DEF Threads
<1>1. CASE AppendStep(w)
  BY <1>0, <1>1, AppendEffect DEF AppendStep, AppendPCs, Kept
<1>2. CASE ResumeRun(w) \/ EnsureCandidate(w) \/ NoEpochs(w) \/ AcquireSection(w)
  BY <1>2, EnterEffect DEF Goes, Kept
<1>3. CASE EpochLoop(w) \/ RenewSection(w) \/ RunEpoch(w) \/ RecordEpoch(w) \/ CompleteRun(w)
  BY <1>3, EpochEffect DEF Goes, Logs, Kept
<1>4. CASE ReleaseSection(w) \/ LeavePending(w)
  BY <1>4, LeaveEffect DEF Goes, Logs, Kept
<1>5. CASE SettleRun(w) \/ CommitMarker(w) \/ MarkPending(w)
  BY <1>5, RecoverEffect DEF Goes, Logs, Kept
<1>6. QED
  BY <1>1, <1>2, <1>3, <1>4, <1>5 DEF WorkerStep, DriveStep, RecoverStep

LEMMA AppendStays ==
  ASSUME NEW t \in Threads, AppendStep(t)
  PROVE  stranded' = stranded
  BY DEF AppendStep, ReadJournal, WriteTmp, RenameTmp, daemon

LEMMA DoorwayWorker ==
  ASSUME TypeInv, BaseInv, NEW w \in Workers, Job(w), Doorway(w), WorkerStep(w)
  PROVE  Doorway(w)'
<1>0. w \in Threads /\ (pc[w] \in RunPCs => loc[w].run \in Runs)
  BY Held DEF Threads
<1>1. \A n : pc[w] = n /\ n \notin AppendPCs => To(w) = {n}
  BY DEF To, Coming
<1>2. ASSUME Kept(w), UNCHANGED <<leases, runs>>, stranded' = stranded,
             To(w)' \cap Leaving # {} => To(w) \cap Leaving # {},
             To(w)' \cap Entering # {} => To(w) \cap Entering # {}
      PROVE  Doorway(w)'
  BY <1>2 DEF Kept, Doorway, Going, AllOwned
<1>3. ASSUME To(w)' \cap (Leaving \cup Entering) = {} PROVE Doorway(w)'
  BY <1>3 DEF Doorway
<1>21. ASSUME NEW n \in {"ensure", "acquire"}, pc[w] = n, runs' = runs, Goes(w, "return"),
             loc[w].job = "start" => loc[w].run \in stranded'
      PROVE  Doorway(w)'
  <2>1. n \in To(w)
    BY <1>1, <1>21 DEF AppendPCs
  <2>2. loc[w].job = "start" \/ runs[loc[w].run].state = "RecoveryPending"
    BY <2>1 DEF Doorway, Entering
  <2>3. QED
    BY <1>21, <2>2 DEF Goes, Kept, Doorway, Going, Entering
<1>4. CASE AppendStep(w)
  BY <1>0, <1>2, <1>4, AppendEffect, BaseAppend, AppendStays
<1>5. CASE ResumeRun(w)
  <2>1. stranded' = stranded
    BY <1>5 DEF ResumeRun, daemon
  <2>2. CASE Goes(w, "ensure")
    BY <1>1, <1>2, <1>5, <2>1, <2>2, EnterEffect DEF Goes, Leaving, Entering, AppendPCs
  <2>3. CASE Goes(w, "return") /\ ~Allowed(loc[w].run)
    BY <1>5, <2>3, EnterEffect DEF Goes, Kept, Doorway, Going, Allowed, Entering
  <2>4. QED
    BY <1>5, <2>2, <2>3, EnterEffect
<1>6. CASE EnsureCandidate(w)
  <2>1. pc[w] = "ensure" /\ UNCHANGED <<leases, runs>>
    BY <1>6, EnterEffect
  <2>2. CASE stranded' = stranded /\ (Goes(w, "zero") \/ Goes(w, "acquire"))
    BY <1>1, <1>2, <2>1, <2>2 DEF Goes, Leaving, Entering, AppendPCs
  <2>3. CASE Goes(w, "return") /\ (loc[w].job = "start" => loc[w].run \in stranded')
    BY <1>21, <2>1, <2>3
  <2>4. QED
    BY <1>6, <2>2, <2>3, EnterEffect
<1>7. CASE NoEpochs(w)
  BY <1>7, EnterEffect DEF Goes, Kept, RowIs, Doorway, Going, Entering
<1>8. CASE AcquireSection(w)
  <2>1. CASE AllGrantable(loc[w].run)
    BY <1>3, <1>8, <2>1, EnterEffect DEF Goes, Leaving, Entering
  <2>2. CASE ~AllGrantable(loc[w].run)
    BY <1>8, <1>21, <2>2, EnterEffect
  <2>3. QED
    BY <2>1, <2>2
<1>9. CASE EpochLoop(w) \/ RenewSection(w) \/ RunEpoch(w) \/ RecordEpoch(w)
  BY <1>3, <1>9, EpochEffect DEF Goes, Logs, Leaving, Entering
<1>10. CASE CompleteRun(w)
  BY <1>10, EpochEffect DEF Logs, Kept, RowIs, Doorway, Going, Entering
<1>11. CASE ReleaseSection(w)
  <2>0. stranded' = stranded
    BY <1>11 DEF ReleaseSection, daemon
  <2>1. CASE pc[w] = "release"
    BY <1>1, <1>11, <2>0, <2>1, LeaveEffect
       DEF Goes, Kept, Doorway, Going, Leaving, Entering, AppendPCs
  <2>2. CASE pc[w] # "release"
    BY <1>3, <1>11, <2>2, LeaveEffect DEF Goes, Leaving, Entering
  <2>3. QED
    BY <2>1, <2>2
<1>12. CASE LeavePending(w)
  BY <1>12, LeaveEffect DEF Logs, Kept, RowIs, Doorway, Going, Entering
<1>13. CASE Return(w)
  BY <1>3, <1>13, LeaveEffect, IdleThere DEF Leaving, Entering
<1>14. CASE Scan(w)
  BY <1>3, <1>14, RecoverEffect DEF Leaving, Entering
<1>15. CASE PickRun(w)
  <2>1. To(w)' \in {{"settle"}, {"mark"}}
    BY <1>15, RecoverEffect
  <2>2. QED
    BY <1>3, <2>1 DEF Leaving, Entering
<1>16. CASE FinishRecovery(w)
  BY <1>16, RecoverEffect, IdleThere
<1>17. CASE SettleRun(w)
  BY <1>17, RecoverEffect DEF Goes, Kept, RowIs, Doorway, Going, Entering
<1>18. CASE CommitMarker(w)
  <2>1. stranded' = stranded
    BY <1>18 DEF CommitMarker, daemon
  <2>2. QED
    BY <1>1, <1>2, <1>18, <2>1, RecoverEffect DEF Goes, Logs, Leaving, Entering, AppendPCs
<1>19. CASE MarkPending(w)
  <2>1. loc[w].job = "recover"
    BY <1>1, <1>19, RecoverEffect DEF Job, Recovering, AppendPCs
  <2>2. QED
    BY <1>19, <2>1, RecoverEffect DEF Logs, Kept, RowIs, Doorway, Going
<1>20. QED
  BY <1>4, <1>5, <1>6, <1>7, <1>8, <1>9, <1>10, <1>11, <1>12, <1>13, <1>14, <1>15, <1>16,
     <1>17, <1>18, <1>19 DEF WorkerStep, DriveStep, RecoverStep

\* An undisturbed recovery goes on undisturbed: its rows get into the journal.
LEMMA UndisturbedStep ==
  ASSUME TypeInv, BaseInv, NEW w \in Workers, Job(w), WorkerStep(w), Undisturbed(w)
  PROVE  Undisturbed(w)'
<1>0. w \in Threads /\ Service \in Threads \ {w}
  BY ClientsAssumption DEF Threads, ClientsAssumption
<1>1. CASE AppendStep(w)
  <2>1. pc'[Service] = "idle"
    BY <1>0, <1>1, AppendEffect DEF Unmoved, Undisturbed
  <2>2. pc'[w] = "rename" => tmp'.there
    BY <1>0, <1>1, AppendEffect, BaseAppend DEF AppendStep, AppendPCs
  <2>3. pc'[w] # "finish"
    BY <1>0, <1>1, AppendEffect, BaseAppend DEF AppendStep, AppendPCs, Undisturbed, Job
  <2>4. QED
    BY <2>1, <2>2, <2>3 DEF Undisturbed
<1>2. CASE DriveStep(w) \/ RecoverStep(w)
  <2>1. pc'[Service] = "idle"
    BY <1>0, <1>2, BaseWorker DEF Unmoved, Undisturbed
  <2>2. pc'[w] \notin {"rename", "finish"}
    <3>1. CASE ResumeRun(w) \/ EnsureCandidate(w) \/ NoEpochs(w) \/ AcquireSection(w)
      BY <3>1, EnterEffect DEF Goes
    <3>2. CASE \/ EpochLoop(w) \/ RenewSection(w) \/ RunEpoch(w) \/ RecordEpoch(w)
               \/ CompleteRun(w)
      BY <3>2, EpochEffect DEF Goes, Logs
    <3>3. CASE ReleaseSection(w) \/ LeavePending(w) \/ Return(w)
      BY <3>3, LeaveEffect DEF Goes, Logs
    <3>4. CASE Scan(w) \/ FinishRecovery(w)
      BY <3>4, RecoverEffect
    <3>5. CASE PickRun(w)
      BY <3>5, RecoverEffect
    <3>6. CASE SettleRun(w) \/ CommitMarker(w) \/ MarkPending(w)
      BY <3>6, RecoverEffect DEF Goes, Logs
    <3>7. QED
      BY <1>2, <3>1, <3>2, <3>3, <3>4, <3>5, <3>6 DEF DriveStep, RecoverStep
  <2>3. QED
    BY <2>1, <2>2 DEF Undisturbed
<1>3. QED
  BY <1>1, <1>2 DEF WorkerStep

\* Operations of a worker that come with another run or another list.
Turns(w) == Scan(w) \/ PickRun(w) \/ Return(w) \/ FinishRecovery(w)

LEMMA TurnEffect ==
  ASSUME TypeInv, NEW w \in Workers, Turns(w)
  PROVE  /\ UNCHANGED <<leases, runs, journal, tmp, up>>
         /\ pc'[w] # "scan"
         /\ pc[w] \in {"scan", "pick", "return", "finish"}
         /\ Scan(w) \/ loc'[w].todo \subseteq loc[w].todo
<1>1. UNCHANGED <<leases, runs>>
  BY LeaveEffect, RecoverEffect DEF Turns
<1>2. UNCHANGED <<journal, tmp, up>>
  BY WorkerFiles
     DEF Turns, DriveStep, RecoverStep, Scan, PickRun, Return, FinishRecovery, daemon
<1>3. CASE Scan(w)
  BY <1>1, <1>2, <1>3, RecoverEffect
<1>4. CASE PickRun(w)
  BY <1>1, <1>2, <1>4, RecoverEffect
<1>5. CASE Return(w)
  BY <1>1, <1>2, <1>5, LeaveEffect, NoLocalsFields
<1>6. CASE FinishRecovery(w)
  BY <1>1, <1>2, <1>6, RecoverEffect, NoLocalsFields
<1>7. QED
  BY <1>3, <1>4, <1>5, <1>6 DEF Turns

\* A recovery that is not disturbed leaves no run behind.
LEMMA TurnStrands ==
  ASSUME NEW w \in Workers, Ahead(w), Turns(w)
  PROVE  stranded' = stranded
<1>1. CASE Scan(w) \/ PickRun(w) \/ Return(w)
  BY <1>1 DEF Scan, PickRun, Return, daemon
<1>2. CASE FinishRecovery(w)
  <2>1. pc[w] = "finish" \/ loc[w].todo = {}
    BY <1>2 DEF FinishRecovery
  <2>2. ASSUME NEW r \in LeftBehind(w) PROVE r \in stranded
    <3>1. PICK p \in loc[w].todo : p.run = r /\ runs[r].state = "Running"
      BY <2>2 DEF LeftBehind
    <3>2. QED
      BY <2>1, <3>1 DEF Ahead, Going, Undisturbed
  <2>3. stranded' = stranded \cup LeftBehind(w)
    BY <1>2 DEF FinishRecovery
  <2>4. QED
    BY <2>2, <2>3
<1>3. QED
  BY <1>1, <1>2 DEF Turns

\* A recovery scans once.
LEMMA ScansOnce ==
  ASSUME TypeInv, BaseInv, NEW w \in Workers, Job(w), WorkerStep(w)
  PROVE  pc'[w] # "scan"
<1>1. CASE AppendStep(w)
  BY <1>1, BaseAppend DEF Job, AppendPCs, Threads
<1>2. CASE ResumeRun(w) \/ EnsureCandidate(w) \/ NoEpochs(w) \/ AcquireSection(w)
  BY <1>2, EnterEffect DEF Goes
<1>3. CASE \/ EpochLoop(w) \/ RenewSection(w) \/ RunEpoch(w) \/ RecordEpoch(w)
           \/ CompleteRun(w)
  BY <1>3, EpochEffect DEF Goes, Logs
<1>4. CASE ReleaseSection(w) \/ LeavePending(w)
  BY <1>4, LeaveEffect DEF Goes, Logs
<1>5. CASE SettleRun(w) \/ CommitMarker(w) \/ MarkPending(w)
  BY <1>5, RecoverEffect DEF Goes, Logs
<1>6. QED
  BY <1>1, <1>2, <1>3, <1>4, <1>5, TurnEffect
     DEF WorkerStep, DriveStep, RecoverStep, Turns

LEMMA AheadWorker ==
  ASSUME TypeInv, BaseInv, NEW w \in Workers, Job(w), Ahead(w), WorkerStep(w)
  PROVE  Ahead(w)'
<1>0. w \in Threads /\ loc[w].todo \in SUBSET Pending
  BY Held DEF Threads, Locals
<1>1. Job(w)' /\ (Undisturbed(w) => Undisturbed(w)')
  BY JobWorker, UndisturbedStep
<1>2. pc'[w] # "scan"
  BY ScansOnce
<1>3. ASSUME NEW p \in loc'[w].todo, Going(p.run)'
      PROVE  Undisturbed(w)
  <2>1. CASE Scan(w)
    <3>1. /\ pc[w] = "scan" /\ runs' = runs
          /\ loc'[w].todo = {[run |-> s, completed |-> runs[s].completed] :
                                s \in {q \in Runs : Allowed(q)}}
      BY <2>1, RecoverEffect
    <3>2. p.run \in Runs
      BY <1>3, <3>1
    <3>3. stranded' = stranded
      BY <2>1, TurnStrands DEF Turns
    <3>4. QED
      BY <1>3, <3>1, <3>2, <3>3 DEF Ahead, Going
  <2>2. CASE Turns(w) /\ ~Scan(w)
    BY <1>3, <2>2, TurnEffect, TurnStrands DEF Ahead, Going
  <2>3. CASE ~Turns(w)
    <3>1. p \in loc[w].todo
      BY <1>3, <2>3, WorkerKeeps DEF Turns
    <3>2. p.run \in Runs /\ p.run # loc[w].run
      BY <1>0, <3>1 DEF Job, Pending
    <3>3. runs'[p.run] = runs[p.run]
      BY <3>2, WorkerRow DEF RowIs
    <3>4. p.run \in stranded => p.run \in stranded'
      BY <2>3, <3>2, StrandedWorker DEF Turns
    <3>5. QED
      BY <1>3, <3>1, <3>3, <3>4 DEF Ahead, Going
  <2>4. QED
    BY <2>1, <2>2, <2>3
<1>4. QED
  BY <1>1, <1>2, <1>3 DEF Ahead

LEMMA OrphanWorker ==
  ASSUME TypeInv, BaseInv, AloneInv, OrphanInv, NEW w \in Workers, WorkerStep(w)
  PROVE  OrphanInv'
<1>0. /\ w \in Threads /\ Service \in Threads \ {w} /\ \A v \in Workers : v \in Threads
      /\ Job(w) /\ Doorway(w) /\ Ahead(w)
  BY ClientsAssumption DEF Threads, ClientsAssumption, OrphanInv
<1>1. pc[w] # "idle" /\ Unmoved(w) /\ up
  BY <1>0, BaseWorker, BaseAppend, AppendEffect DEF WorkerStep
<1>2. To(Service) \cap Before = {} /\ To(Service)' = To(Service)
  BY <1>0, <1>1 DEF AloneInv, Quiet, Unmoved, To
<1>3. StartOK'
  BY <1>2 DEF StartOK, Before
<1>4. ASSUME NEW v \in Workers, v # w
      PROVE  /\ Job(v)' /\ Doorway(v)' /\ Ahead(v)'
             /\ \A r \in Runs : ~Drives(v, r)
  <2>1. pc[v] = "idle" /\ loc[v] = NoLocals
    BY <1>0, <1>1, <1>4 DEF AloneInv, BaseInv
  <2>2. pc'[v] = "idle" /\ loc'[v] = NoLocals
    BY <1>0, <1>1, <1>4, <2>1 DEF Unmoved
  <2>3. QED
    BY <2>1, <2>2, IdleThere, IdleWorker
<1>5. ASSUME NEW r \in Runs, Going(r) PROVE Drives(w, r)
  BY <1>1, <1>2, <1>4, <1>5 DEF OrphanInv, Minded, Before
<1>6. ASSUME NEW r \in Runs, Going(r)' PROVE Drives(w, r)'
  <2>1. CASE ~Turns(w)
    <3>1. /\ loc'[w].run = loc[w].run /\ loc'[w].todo = loc[w].todo /\ pc[w] # "scan"
      BY <2>1, WorkerKeeps DEF Turns
    <3>2. CASE loc[w].run = r
      BY <3>1, <3>2 DEF Drives
    <3>3. CASE loc[w].run # r
      <4>1. runs'[r] = runs[r]
        BY <3>3, WorkerRow DEF RowIs
      <4>2. r \in stranded => r \in stranded'
        BY <2>1, <3>3, StrandedWorker DEF Turns
      <4>3. Drives(w, r)
        BY <1>5, <1>6, <4>1, <4>2 DEF Going
      <4>4. QED
        BY <3>1, <3>3, <4>3 DEF Drives
    <3>4. QED
      BY <3>2, <3>3
  <2>2. CASE Turns(w)
    <3>0. Going(r) /\ runs[r].state = "Running" /\ r # 0
      BY <1>0, <1>6, <2>2, TurnEffect, TurnStrands DEF Runs, Going
    <3>1. Drives(w, r)
      BY <1>5, <3>0
    <3>2. \A n : pc[w] = n /\ n \notin AppendPCs => To(w) = {n}
      BY DEF To, Coming
    <3>3. CASE Scan(w)
      <4>1. /\ loc'[w].todo = {[run |-> s, completed |-> runs[s].completed] :
                                  s \in {q \in Runs : Allowed(q)}}
        BY <3>3, RecoverEffect
      <4>2. [run |-> r, completed |-> runs[r].completed] \in loc'[w].todo
        BY <3>0, <4>1 DEF Allowed
      <4>3. QED
        BY <4>2 DEF Drives
    <3>4. CASE PickRun(w)
      <4>1. PICK p \in loc[w].todo :
              /\ pc[w] = "pick" /\ loc'[w].run = p.run
              /\ loc'[w].todo = loc[w].todo \ {p}
        BY <3>4, RecoverEffect
      <4>2. \E q \in loc[w].todo : q.run = r
        BY <1>0, <3>0, <3>1, <4>1 DEF Drives, Job
      <4>3. QED
        BY <4>1, <4>2 DEF Drives
    <3>5. CASE Return(w)
      <4>1. /\ pc[w] = "return"
            /\ loc[w].job = "start" \/ loc'[w].todo = loc[w].todo
        BY <3>5, LeaveEffect
      <4>2. loc[w].run # r
        BY <1>0, <3>0, <3>2, <4>1 DEF Doorway, Leaving, AppendPCs
      <4>3. PICK p \in loc[w].todo : p.run = r
        BY <3>1, <4>1, <4>2 DEF Drives
      <4>4. loc'[w].todo = loc[w].todo
        BY <1>0, <4>1, <4>3 DEF Job
      <4>5. QED
        BY <4>3, <4>4 DEF Drives
    <3>6. CASE FinishRecovery(w)
      <4>1. pc[w] = "finish" \/ (pc[w] = "pick" /\ loc[w].todo = {})
        BY <3>6, RecoverEffect
      <4>2. loc[w].run # r
        BY <1>0, <3>0, <3>2, <4>1 DEF Doorway, Leaving, AppendPCs, Job
      <4>3. PICK p \in loc[w].todo : p.run = r
        BY <3>1, <4>1, <4>2 DEF Drives
      <4>4. FALSE
        BY <1>0, <3>0, <4>1, <4>3 DEF Ahead, Undisturbed
      <4>5. QED
        BY <4>4
    <3>7. QED
      BY <2>2, <3>3, <3>4, <3>5, <3>6 DEF Turns
  <2>3. QED
    BY <2>1, <2>2
<1>7. Job(w)' /\ Doorway(w)' /\ Ahead(w)'
  BY <1>0, JobWorker, DoorwayWorker, AheadWorker
<1>8. \A r \in Runs : Going(r)' => Minded(r)'
  BY <1>6 DEF Minded
<1>9. QED
  BY <1>3, <1>4, <1>7, <1>8 DEF OrphanInv

LEMMA AnswerStays ==
  ASSUME Replay \/ Pause \/ ClearFlag \/ Close \/ Reply
  PROVE  stranded' = stranded
  BY DEF Replay, Pause, ClearFlag, Close, Reply, daemon

\* The service works beside a thread: it answers, and touches no table.
LEMMA Busy ==
  ASSUME TypeInv, BaseInv, AloneInv, ~Quiet, AppendStep(Service) \/ ServiceAlone
  PROVE  /\ UNCHANGED <<leases, runs, stranded>>
         /\ To(Service) \cap Before = {} /\ To(Service)' \cap Before = {}
<1>0. Service \in Threads
  BY DEF Threads
<1>1. To(Service) \cap Before = {} /\ To(Service)' \cap Before = {}
  BY <1>0, ServiceTo, BaseAppend DEF AloneInv
<1>2. CASE AppendStep(Service)
  BY <1>0, <1>1, <1>2, AppendEffect, AppendStays
<1>3. CASE Replay \/ Pause \/ ClearFlag \/ Close \/ Reply
  BY <1>1, <1>3, AnswerEffect, AnswerStays
<1>4. pc[Service] \notin Before
  BY <1>1 DEF To, Coming, AppendPCs, Before
<1>5. QED
  BY <1>1, <1>2, <1>3, <1>4, StartEffect, ClearEffect DEF ServiceAlone, Before

LEMMA OrphanBusy ==
  ASSUME TypeInv, BaseInv, AloneInv, OrphanInv, ~Quiet, AppendStep(Service) \/ ServiceAlone
  PROVE  OrphanInv'
<1>0. Service \in Threads
  BY DEF Threads
<1>1. Unmoved(Service) /\ pc[Service] # "idle" /\ up' = up
  BY <1>0, BaseService, AppendEffect, BaseAppend
<1>2. \A w \in Workers : pc'[w] = pc[w] /\ loc'[w] = loc[w] /\ To(w)' = To(w)
  BY <1>1, ClientsAssumption DEF Unmoved, To, Threads, ClientsAssumption
<1>3. /\ UNCHANGED <<leases, runs, stranded>>
      /\ To(Service) \cap Before = {} /\ To(Service)' \cap Before = {}
  BY Busy
<1>4. StartOK'
  BY <1>3 DEF StartOK, Before
<1>5. ASSUME NEW w \in Workers PROVE Job(w)' /\ Doorway(w)' /\ Ahead(w)'
  <2>1. Job(w) /\ Doorway(w) /\ Ahead(w)
    BY DEF OrphanInv
  <2>2. Job(w)'
    BY <1>2, <2>1 DEF Job
  <2>3. Doorway(w)'
    BY <1>2, <1>3, <2>1 DEF Doorway, Going, AllOwned
  <2>4. Ahead(w)'
    BY <1>1, <1>2, <1>3, <2>1 DEF Ahead, Going, Undisturbed
  <2>5. QED
    BY <2>2, <2>3, <2>4
<1>6. ASSUME NEW r \in Runs, Going(r)', up' PROVE Minded(r)'
  <2>1. PICK w \in Workers : Drives(w, r)
    BY <1>1, <1>3, <1>6 DEF OrphanInv, Going, Minded, Before
  <2>2. Drives(w, r)'
    BY <1>2, <2>1 DEF Drives
  <2>3. QED
    BY <2>2 DEF Minded
<1>7. QED
  BY <1>4, <1>5, <1>6 DEF OrphanInv

\* Without a thread at work, a Running run is the one that is being started.
LEMMA AtRest ==
  ASSUME BaseInv, OrphanInv, Quiet, up, NEW r \in Runs, Going(r)
  PROVE  loc[Service].run = r /\ "spawn" \in To(Service)
<1>1. ASSUME NEW w \in Workers PROVE ~Drives(w, r)
  BY IdleWorker DEF Quiet, BaseInv, Threads
<1>2. QED
  BY <1>1 DEF OrphanInv, Minded

\* The service moves, no thread works.
LEMMA OrphanRest ==
  ASSUME BaseInv, Quiet, Unmoved(Service), StartOK',
         \A r \in Runs : Going(r)' /\ up' =>
           loc'[Service].run = r /\ "spawn" \in To(Service)'
  PROVE  OrphanInv'
<1>1. ASSUME NEW w \in Workers PROVE Job(w)' /\ Doorway(w)' /\ Ahead(w)'
  <2>1. pc'[w] = "idle" /\ loc'[w] = NoLocals
    BY ClientsAssumption DEF Unmoved, Threads, Quiet, BaseInv, ClientsAssumption
  <2>2. QED
    BY <2>1, IdleThere
<1>2. QED
  BY <1>1 DEF OrphanInv, Minded

LEMMA OrphanQuiet ==
  ASSUME TypeInv, BaseInv, OrphanInv, Quiet, AppendStep(Service) \/ ServiceAlone
  PROVE  OrphanInv'
<1>. DEFINE OneRuns == \A r \in Runs : Going(r)' /\ up' =>
                          loc'[Service].run = r /\ "spawn" \in To(Service)'
<1>0. Service \in Threads
  BY DEF Threads
<1>1. Unmoved(Service) /\ up' = up /\ up
  BY <1>0, BaseService, AppendEffect, BaseAppend
<1>2. \A n : pc[Service] = n /\ n \notin AppendPCs => To(Service) = {n}
  BY DEF To, Coming
<1>3. ASSUME NEW r \in Runs, Going(r) PROVE loc[Service].run = r /\ "spawn" \in To(Service)
  BY <1>1, <1>3, AtRest
<1>4. ASSUME StartOK', OneRuns PROVE OrphanInv'
  BY <1>1, <1>4, OrphanRest
<1>5. ASSUME runs' = runs, stranded' = stranded, "spawn" \notin To(Service) PROVE OneRuns
  BY <1>3, <1>5 DEF Going
<1>6. ASSUME To(Service)' \cap Starting = {} PROVE StartOK'
  BY <1>6 DEF StartOK, Starting
<1>7. CASE AppendStep(Service)
  <2>1. /\ UNCHANGED <<leases, runs>> /\ Kept(Service) /\ To(Service)' \subseteq To(Service)
        /\ pc[Service] \in AppendPCs /\ stranded' = stranded
    BY <1>0, <1>7, AppendEffect, BaseAppend, AppendStays
  <2>2. StartOK
    BY DEF OrphanInv
  <2>3. CASE To(Service) \cap {"spawn", "unstart"} = {}
    <3>1. OneRuns
      BY <1>3, <2>1, <2>3 DEF Going
    <3>2. StartOK'
      BY <2>1, <2>2, <2>3 DEF StartOK, Kept, AllOwned
    <3>3. QED
      BY <1>4, <3>1, <3>2
  <2>4. CASE To(Service) \cap {"spawn", "unstart"} # {}
    <3>1. loc[Service].next = "spawn" /\ (pc[Service] = "rename" => tmp.there)
      BY <2>1, <2>2, <2>4 DEF StartOK, AppendPCs
    <3>2. \/ pc'[Service] = "spawn" /\ To(Service)' = {"spawn"}
          \/ /\ pc'[Service] \in AppendPCs /\ loc'[Service].next = "spawn"
             /\ To(Service)' = To(Service) /\ (pc'[Service] = "rename" => tmp'.there)
      BY <1>0, <1>7, <3>1, AppendEffect, BaseAppend DEF AppendStep, AppendPCs
    <3>3. "spawn" \in To(Service) /\ "spawn" \in To(Service)'
      BY <2>1, <3>1, <3>2 DEF To, Coming
    <3>4. AllOwned(loc[Service].run)
      BY <2>2, <3>3 DEF StartOK
    <3>5. StartOK'
      BY <2>1, <3>2, <3>4 DEF StartOK, Kept, AllOwned
    <3>6. OneRuns
      BY <1>3, <2>1, <3>3 DEF Kept, Going
    <3>7. QED
      BY <1>4, <3>5, <3>6
  <2>5. QED
    BY <2>3, <2>4
<1>8. CASE Replay \/ Pause \/ ClearFlag \/ Close \/ Reply
  <2>1. runs' = runs /\ pc[Service] \in {"replay", "dispatch", "clearFlag", "close", "reply"}
    BY <1>8, AnswerEffect
  <2>2. To(Service)' \in {{"reply"}, {"close"}, {"dispatch", "reply"}, {"idle"}}
    BY <1>8, AnswerEffect DEF Goes, Logs, To, Coming, AppendPCs
  <2>3. "spawn" \notin To(Service) /\ To(Service)' \cap Starting = {}
    BY <1>2, <2>1, <2>2 DEF AppendPCs, Starting
  <2>4. QED
    BY <1>4, <1>5, <1>6, <1>8, <2>1, <2>3, AnswerStays
<1>9. ASSUME NEW r \in Runs, StartRun(r) PROVE OrphanInv'
  <2>1. runs' = runs /\ pc[Service] = "dispatch" /\ stranded' = stranded
    BY <1>9, StartEffect DEF StartRun, daemon
  <2>2. OneRuns
    BY <1>2, <1>5, <2>1 DEF AppendPCs
  <2>3. CASE AllGrantable(r)
    <3>1. leases' = Granted(r) /\ To(Service)' = {"insert"} /\ loc'[Service].run = r
      BY <1>9, <2>3, StartEffect
    <3>2. \A name \in LeaseNames : leases'[name].owner = r
      BY <3>1 DEF Granted
    <3>3. StartOK'
      BY <3>1, <3>2 DEF StartOK, AllOwned
    <3>4. QED
      BY <1>4, <2>2, <3>3
  <2>4. CASE ~AllGrantable(r)
    BY <1>4, <1>6, <1>9, <2>2, <2>4, StartEffect DEF Goes, Starting
  <2>5. QED
    BY <2>3, <2>4
<1>10. ASSUME NEW n \in Targets, InsertRun(n) PROVE OrphanInv'
  <2>1. /\ pc[Service] = "insert" /\ leases' = leases /\ loc'[Service].run = loc[Service].run
        /\ pc'[Service] = "read" /\ To(Service)' = {"spawn", "unstart"}
        /\ loc'[Service].next = "spawn"
        /\ \A q \in Runs : q # loc[Service].run => runs'[q] = runs[q]
        /\ stranded' = stranded
    BY <1>10, StartEffect DEF Logs, Kept, InsertRun, daemon
  <2>2. To(Service) = {"insert"}
    BY <1>2, <2>1 DEF AppendPCs
  <2>3. AllOwned(loc[Service].run)
    BY <2>2 DEF OrphanInv, StartOK
  <2>4. StartOK'
    BY <2>1, <2>3 DEF StartOK, AllOwned, AppendPCs
  <2>5. OneRuns
    BY <1>3, <2>1, <2>2 DEF Going
  <2>6. QED
    BY <1>4, <2>4, <2>5
<1>11. CASE Unstart
  <2>1. pc[Service] = "unstart"
    BY <1>11, StartEffect
  <2>2. QED
    BY <1>2, <2>1 DEF OrphanInv, StartOK, AppendPCs
<1>12. CASE ClearLeases \/ ClearRuns
  <2>1. /\ pc[Service] \in {"dispatch", "clearRuns"}
        /\ To(Service)' \in {{"clearRuns"}, {"clearFlag"}}
        /\ \A r \in Runs : Going(r)' => Going(r)
    BY <1>12, ClearEffect DEF Goes, Going, ClearLeases, ClearRuns, daemon
  <2>2. "spawn" \notin To(Service) /\ To(Service)' \cap Starting = {}
    BY <1>2, <2>1 DEF AppendPCs, Starting
  <2>3. QED
    BY <1>3, <1>4, <1>6, <2>1, <2>2
<1>13. QED
  BY <1>7, <1>8, <1>9, <1>10, <1>11, <1>12 DEF ServiceAlone

\* A thread is started.
LEMMA OrphanSpawn ==
  ASSUME TypeInv, BaseInv, AloneInv, OrphanInv, NEW w \in Workers, SpawnRun(w) \/ Resume(w)
  PROVE  OrphanInv'
<1>0. Service \in Threads /\ \A v \in Workers : v \in Threads /\ v # Service
  BY ClientsAssumption DEF Threads, ClientsAssumption
<1>1. /\ pc[Service] \in {"spawn", "dispatch"} /\ UNCHANGED <<leases, runs, up, stranded>>
      /\ To(Service)' = {"close"} /\ Kept(Service)
  BY <1>0, SpawnEffect DEF Goes, SpawnRun, Resume, daemon
<1>2. Quiet /\ To(Service) = {pc[Service]}
  BY <1>1, ServiceTo DEF AloneInv, To, Coming, AppendPCs
<1>3. up
  BY <1>0, <1>1, MovesUp
<1>4. StartOK'
  BY <1>1 DEF StartOK
<1>5. \A v \in Workers \ {w} : pc'[v] = "idle" /\ loc'[v] = NoLocals
  BY <1>0, <1>2, SpawnEffect DEF Quiet, BaseInv, Goes, Unmoved
<1>6. \A v \in Workers \ {w} : Job(v)' /\ Doorway(v)' /\ Ahead(v)'
  BY <1>5, IdleThere
<1>7. CASE SpawnRun(w)
  <2>1. /\ pc[Service] = "spawn" /\ pc'[w] = "resume" /\ To(w)' = {"resume"}
        /\ loc'[w].job = "start" /\ loc'[w].run = loc[Service].run /\ loc'[w].todo = {}
    BY <1>7, SpawnEffect
  <2>2. AllOwned(loc[Service].run)
    BY <1>2, <2>1 DEF OrphanInv, StartOK
  <2>3. Job(w)' /\ Doorway(w)' /\ Ahead(w)'
    BY <1>1, <2>1, <2>2 DEF Job, Doorway, Ahead, Recovering, Leaving, AppendPCs, AllOwned
  <2>4. ASSUME NEW r \in Runs, Going(r)' PROVE Minded(r)'
    <3>1. loc[Service].run = r
      BY <1>1, <1>2, <1>3, <2>4, AtRest DEF Going
    <3>2. Drives(w, r)'
      BY <2>1, <3>1 DEF Drives
    <3>3. QED
      BY <3>2 DEF Minded
  <2>5. QED
    BY <1>4, <1>6, <2>3, <2>4 DEF OrphanInv
<1>8. CASE Resume(w)
  <2>1. pc[Service] = "dispatch"
    BY <1>8, SpawnEffect
  <2>2. \A r \in Runs : ~Going(r)'
    BY <1>1, <1>2, <1>3, <2>1, AtRest DEF Going
  <2>3. Job(w)' /\ Doorway(w)' /\ Ahead(w)'
    <3>1. CASE Goes(Service, "close")
      <4>1. pc'[w] = "idle" /\ loc'[w] = NoLocals
        BY <1>0, <1>2, <3>1 DEF Goes, Unmoved, Quiet, BaseInv
      <4>2. QED
        BY <4>1, IdleThere
    <3>2. CASE /\ pc'[w] = "scan" /\ To(w)' = {"scan"} /\ loc'[w].job = "recover"
               /\ loc'[w].run = 0 /\ loc'[w].todo = {}
      BY <2>2, <3>2 DEF Job, Doorway, Ahead, Leaving, Entering, AppendPCs
    <3>3. QED
      BY <1>8, <3>1, <3>2, SpawnEffect
  <2>4. QED
    BY <1>4, <1>6, <2>2, <2>3 DEF OrphanInv
<1>9. QED
  BY <1>7, <1>8

LEMMA OrphanNext ==
  ASSUME ClientsWait, TypeInv, BaseInv, AloneInv, OrphanInv, [Next]_vars
  PROVE  OrphanInv'
<1>0. Service \in Threads /\ \A w \in Workers : w \in Threads /\ w # Service
  BY ClientsAssumption DEF Threads, ClientsAssumption
<1>1. ASSUME NEW q \in Requests, Receive(q) PROVE OrphanInv'
  <2>1. /\ up /\ Quiet /\ pc[Service] = "idle" /\ Unmoved(Service) /\ runs' = runs
        /\ To(Service)' = {"replay"} /\ stranded' = stranded
    BY <1>1, ReceiveEffect DEF ClientsWait, Receive, daemon
  <2>2. StartOK'
    BY <2>1 DEF StartOK
  <2>3. \A r \in Runs : ~Going(r)
    BY <2>1, AtRest DEF To, Coming, AppendPCs
  <2>4. QED
    BY <2>1, <2>2, <2>3, OrphanRest DEF Going
<1>2. CASE AppendStep(Service) \/ ServiceAlone
  BY <1>2, OrphanQuiet, OrphanBusy
<1>3. ASSUME NEW w \in Workers, WorkerStep(w) PROVE OrphanInv'
  BY <1>3, OrphanWorker
<1>4. ASSUME NEW w \in Workers, SpawnRun(w) \/ Resume(w) PROVE OrphanInv'
  BY <1>4, OrphanSpawn
<1>5. ASSUME NEW w \in Workers, Restart(w) PROVE OrphanInv'
  <2>1. /\ ~up /\ Unmoved(w) /\ pc'[w] = "scan" /\ To(w)' = {"scan"}
        /\ loc'[w].job = "recover" /\ loc'[w].run = 0 /\ loc'[w].todo = {}
    BY <1>5, SpawnEffect
  <2>2. \A t \in Threads \ {w} : pc'[t] = "idle" /\ loc'[t] = NoLocals
    BY <2>1 DEF BaseInv, DownIdle, Unmoved
  <2>3. \A v \in Workers \ {w} : Job(v)' /\ Doorway(v)' /\ Ahead(v)'
    BY <1>0, <2>2, IdleThere
  <2>4. Job(w)' /\ Doorway(w)' /\ Ahead(w)'
    BY <1>0, <2>1, <2>2
       DEF Job, Doorway, Ahead, Undisturbed, Leaving, Entering, AppendPCs
  <2>5. StartOK'
    BY <1>0, <2>2 DEF StartOK, To, Coming, AppendPCs
  <2>6. \A r \in Runs : Minded(r)'
    BY <2>1 DEF Minded, Drives
  <2>7. QED
    BY <2>3, <2>4, <2>5, <2>6 DEF OrphanInv
<1>6. CASE Tick
  <2>1. /\ UNCHANGED <<runs, tmp, up, stranded, pc, loc>> /\ \A t : To(t)' = To(t)
        /\ \A name \in LeaseNames : leases'[name].owner = leases[name].owner
    BY <1>6, TickEffect DEF Tick, daemon
  <2>2. \A r : AllOwned(r)' = AllOwned(r)
    BY <2>1 DEF AllOwned
  <2>3. \A r \in Runs : Minded(r)' = Minded(r)
    BY <2>1 DEF Minded, Drives
  <2>4. StartOK'
    BY <2>1 DEF OrphanInv, StartOK, AllOwned
  <2>5. ASSUME NEW w \in Workers PROVE Job(w)' /\ Doorway(w)' /\ Ahead(w)'
    <3>1. Job(w) /\ Doorway(w) /\ Ahead(w)
      BY DEF OrphanInv
    <3>2. QED
      BY <2>1, <3>1 DEF Job, Doorway, Ahead, Going, Undisturbed, AllOwned
  <2>6. QED
    BY <2>1, <2>3, <2>4, <2>5 DEF OrphanInv, Going
<1>7. CASE Crash
  <2>1. ~up' /\ \A t \in Threads : pc'[t] = "idle" /\ loc'[t] = NoLocals /\ To(t)' = {"idle"}
    BY <1>7, CrashEffect
  <2>2. \A w \in Workers : Job(w)' /\ Doorway(w)' /\ Ahead(w)'
    BY <1>0, <2>1, IdleThere
  <2>3. StartOK'
    BY <1>0, <2>1 DEF StartOK
  <2>4. QED
    BY <2>1, <2>2, <2>3 DEF OrphanInv
<1>8. CASE UNCHANGED vars
  <2>1. UNCHANGED <<leases, runs, tmp, up, stranded, pc, loc>>
    BY <1>8 DEF vars, db, files, daemon
  <2>2. QED
    BY <2>1 DEF OrphanInv, Going, Minded, Drives, StartOK, Job, Doorway, Ahead, Undisturbed,
                AllOwned, To
<1>9. QED
  BY <1>1, <1>2, <1>3, <1>4, <1>5, <1>6, <1>7, <1>8 DEF Next, ServiceStep, ServiceAlone

LEMMA OrphanInit == Init => OrphanInv
<1>. SUFFICES ASSUME Init PROVE OrphanInv
  OBVIOUS
<1>1. /\ \A t \in Threads : pc[t] = "idle" /\ loc[t] = NoLocals /\ To(t) = {"idle"}
      /\ \A r \in Runs : runs[r].state = "none"
  BY DEF Init, To, Coming, AppendPCs
<1>2. StartOK
  BY <1>1 DEF StartOK, Threads
<1>3. \A w \in Workers : Job(w) /\ Doorway(w) /\ Ahead(w)
  BY <1>1, IdleWorker DEF Threads
<1>4. QED
  BY <1>1, <1>2, <1>3 DEF OrphanInv, Going

LEMMA OrphanAlways == ASSUME ClientsWait PROVE Spec => []OrphanInv
<1>1. TypeInv /\ BaseInv /\ AloneInv /\ OrphanInv /\ [Next]_vars => OrphanInv'
  BY OrphanNext
<1>. QED
  BY <1>1, OrphanInit, AloneAlways, TypesAlways, PTL DEF Spec

-----------------------------------------------------------------------------
(* An epoch that counts is not executed again                              *)

\* The mark is, or is about to be, in the journal: in the row a thread appends,
\* in the journal as a thread has read it, or in the file it is to rename.
Somewhere(m) ==
  \/ m \in journal
  \/ \E t \in Threads : \/ pc[t] \in {"read", "write"} /\ m \in loc[t].marks
                        \/ pc[t] = "write" /\ m \in loc[t].seen
                        \/ pc[t] = "rename" /\ tmp.there /\ m \in tmp.marks

\* No append under way adds the mark to the journal or drops it.
Steady(m) ==
  \A t \in Threads :
    /\ pc[t] \in {"read", "write"} => m \notin loc[t].marks
    /\ pc[t] = "write" => (m \in loc[t].seen <=> m \in journal)
    /\ pc[t] = "rename" /\ tmp.there => (m \in tmp.marks <=> m \in journal)

Settled(r)  == \A e \in Nat : Steady(EpochMark(r, e))
Unmarked(r) == \A e \in Nat : ~Somewhere(EpochMark(r, e))

\* A row counts no more than its target, and that of no run counts nothing.
RowsOK ==
  \A r \in Runs : /\ runs[r].completed <= runs[r].target
                  /\ runs[r].state = "none" => runs[r].completed = 0 /\ Unmarked(r)

\* A run that is being started is as new to the row as to the journal.
NewOK ==
  To(Service) \cap {"insert", "spawn"} # {} =>
    runs[loc[Service].run].completed = 0 /\ Unmarked(loc[Service].run)

\* The marks of the thread's run go up to the epoch it is at, which is not
\* marked while it is begun.
MarksOK(w) ==
  \A e \in Nat : Somewhere(EpochMark(loc[w].run, e)) =>
    e <= loc[w].epoch /\ ("epoch" \in To(w) => e < loc[w].epoch)

CountOK(w) ==
  LET l == loc[w] p == runs[loc[w].run] IN
  /\ p.completed <= l.epoch
  /\ "epoch" \in To(w) => p.completed < l.epoch
  /\ "renew" \in To(w) => l.epoch < p.target
  /\ To(w) \cap {"epoch", "record", "mark"} # {} => l.epoch <= p.target
  /\ To(w) \cap {"complete", "zero", "settle"} # {} => l.epoch >= p.target

\* What a recovery has read of the runs it will come to is still so.
TodoOK(w) ==
  /\ \A p \in loc[w].todo : p.completed = runs[p.run].completed /\ Settled(p.run)
  /\ pc[w] = "scan" => \A r \in Runs : Settled(r)

EpochInv ==
  /\ RowsOK /\ NewOK
  /\ \A w \in Workers : TodoOK(w) /\ (loc[w].run \in Runs => MarksOK(w) /\ CountOK(w))

\* An append takes its row and the journal as it was into the journal.
LEMMA AppendMarks ==
  ASSUME TypeInv, BaseInv, NEW t \in Threads, AppendStep(t), NEW m
  PROVE  /\ Somewhere(m)' => Somewhere(m)
         /\ Steady(m) => Steady(m)'
<1>1. \A u \in Threads \ {t} : pc'[u] = pc[u] /\ loc'[u] = loc[u]
  BY AppendEffect DEF Unmoved
<1>2. CASE ReadJournal(t)
  <2>1. /\ pc[t] = "read" /\ pc'[t] = "write" /\ UNCHANGED <<journal, tmp>>
        /\ loc'[t].seen = journal /\ loc'[t].marks = loc[t].marks
    BY <1>2, AppendEffect
  <2>2. Somewhere(m)' => Somewhere(m)
    BY <1>1, <2>1 DEF Somewhere
  <2>3. Steady(m) => Steady(m)'
    BY <1>1, <2>1 DEF Steady
  <2>4. QED
    BY <2>2, <2>3
<1>3. CASE WriteTmp(t)
  <2>1. /\ pc[t] = "write" /\ pc'[t] = "rename" /\ journal' = journal
        /\ tmp'.there /\ tmp'.marks = loc[t].seen \cup loc[t].marks
    BY <1>3, AppendEffect
  <2>2. Somewhere(m)' => Somewhere(m)
    BY <1>1, <2>1 DEF Somewhere
  <2>3. Steady(m) => Steady(m)'
    BY <1>1, <2>1 DEF Steady
  <2>4. QED
    BY <2>2, <2>3
<1>4. CASE RenameTmp(t)
  <2>1. /\ pc[t] = "rename" /\ pc'[t] \notin {"read", "write", "rename"}
        /\ IF tmp.there THEN journal' = tmp.marks /\ ~tmp'.there
                        ELSE UNCHANGED <<journal, tmp>>
    BY <1>4, AppendEffect, BaseAppend DEF AppendPCs
  <2>2. Somewhere(m)' => Somewhere(m)
    BY <1>1, <2>1 DEF Somewhere
  <2>3. Steady(m) => Steady(m)'
    BY <1>1, <2>1 DEF Steady
  <2>4. QED
    BY <2>2, <2>3
<1>5. QED
  BY <1>2, <1>3, <1>4 DEF AppendStep

\* Every other step leaves the files alone, and may begin an append.
LEMMA OtherMarks ==
  ASSUME UNCHANGED <<journal, tmp>>, NEW m,
         \A t \in Threads : \/ pc'[t] = pc[t] /\ loc'[t] = loc[t]
                            \/ pc'[t] \notin AppendPCs
                            \/ pc'[t] = "read" /\ m \notin loc'[t].marks
  PROVE  /\ Somewhere(m)' => Somewhere(m)
         /\ Steady(m) => Steady(m)'
<1>1. Somewhere(m)' => Somewhere(m)
  BY DEF Somewhere, AppendPCs
<1>2. Steady(m) => Steady(m)'
  BY DEF Steady, AppendPCs
<1>3. QED
  BY <1>1, <1>2

\* A worker begins no append of an epoch mark but that of the epoch it has run.
LEMMA WorkerMarks ==
  ASSUME TypeInv, BaseInv, NEW w \in Workers, WorkerStep(w), NEW r, NEW e,
         ~(RunEpoch(w) /\ r = loc[w].run /\ e = loc[w].epoch)
  PROVE  /\ Somewhere(EpochMark(r, e))' => Somewhere(EpochMark(r, e))
         /\ Steady(EpochMark(r, e)) => Steady(EpochMark(r, e))'
<1>. DEFINE m == EpochMark(r, e)
<1>0. w \in Threads
  BY DEF Threads
<1>1. CASE AppendStep(w)
  BY <1>0, <1>1, AppendMarks
<1>2. CASE DriveStep(w) \/ RecoverStep(w)
  <2>1. UNCHANGED <<journal, tmp>> /\ Unmoved(w)
    BY <1>2, WorkerFiles, BaseWorker
  <2>2. m # RunMark(loc[w].run) /\ (RunEpoch(w) => m # EpochMark(loc[w].run, loc[w].epoch))
    BY DEF EpochMark, RunMark
  <2>3. pc'[w] \notin AppendPCs \/ (pc'[w] = "read" /\ m \notin loc'[w].marks)
    <3>. HIDE DEF m
    <3>1. CASE ResumeRun(w) \/ EnsureCandidate(w) \/ NoEpochs(w) \/ AcquireSection(w)
      BY <3>1, EnterEffect DEF Goes, AppendPCs
    <3>2. CASE \/ EpochLoop(w) \/ RenewSection(w) \/ RunEpoch(w) \/ RecordEpoch(w)
               \/ CompleteRun(w)
      BY <2>2, <3>2, EpochEffect DEF Goes, Logs, AppendPCs
    <3>3. CASE ReleaseSection(w) \/ LeavePending(w) \/ Return(w)
      BY <3>3, LeaveEffect DEF Goes, Logs, AppendPCs
    <3>4. CASE Scan(w) \/ FinishRecovery(w)
      BY <3>4, RecoverEffect DEF AppendPCs
    <3>5. CASE PickRun(w)
      BY <3>5, RecoverEffect DEF AppendPCs
    <3>6. CASE SettleRun(w) \/ CommitMarker(w) \/ MarkPending(w)
      BY <2>2, <3>6, RecoverEffect DEF Goes, Logs, AppendPCs
    <3>7. QED
      BY <1>2, <3>1, <3>2, <3>3, <3>4, <3>5, <3>6 DEF DriveStep, RecoverStep
  <2>4. QED
    BY <2>1, <2>3, OtherMarks DEF Unmoved
<1>3. QED
  BY <1>1, <1>2 DEF WorkerStep

\* The rows of the service carry no epoch marks, nor do new or killed threads.
LEMMA ServiceMarks ==
  ASSUME TypeInv, BaseInv, [Next]_vars, \A w \in Workers : ~WorkerStep(w),
         NEW m, m[1] = "epoch"
  PROVE  /\ Somewhere(m)' => Somewhere(m)
         /\ Steady(m) => Steady(m)'
<1>. DEFINE Same == /\ Somewhere(m)' => Somewhere(m)
                    /\ Steady(m) => Steady(m)'
<1>0. /\ Service \in Threads /\ \A w \in Workers : w \in Threads /\ w # Service
      /\ m[1] # "request"
  BY ClientsAssumption DEF Threads, ClientsAssumption
<1>1. ASSUME UNCHANGED <<journal, tmp>>,
             \A t \in Threads : \/ pc'[t] = pc[t] /\ loc'[t] = loc[t]
                                \/ pc'[t] \notin AppendPCs
                                \/ pc'[t] = "read" /\ m \notin loc'[t].marks
      PROVE  Same
  BY <1>1, OtherMarks
<1>2. CASE AppendStep(Service)
  BY <1>0, <1>2, AppendMarks
<1>3. CASE ServiceAlone
  <2>1. Unmoved(Service) /\ UNCHANGED <<journal, tmp>>
    BY <1>3, BaseService, AnswerEffect, StartEffect, ClearEffect DEF ServiceAlone
  <2>2. pc'[Service] \notin AppendPCs \/ (pc'[Service] = "read" /\ m \notin loc'[Service].marks)
    <3>1. CASE Replay \/ Pause \/ ClearFlag \/ Reply
      BY <3>1, AnswerEffect DEF Goes, Logs, AppendPCs
    <3>2. CASE Close
      BY <1>0, <3>2, AnswerEffect DEF Logs
    <3>3. CASE Unstart \/ (\E q \in Runs : StartRun(q)) \/ (\E n \in Targets : InsertRun(n))
      BY <3>3, StartEffect DEF Goes, Logs, AppendPCs
    <3>4. CASE ClearLeases \/ ClearRuns
      BY <3>4, ClearEffect DEF Goes, AppendPCs
    <3>5. QED
      BY <1>3, <3>1, <3>2, <3>3, <3>4 DEF ServiceAlone
  <2>3. QED
    BY <1>1, <2>1, <2>2 DEF Unmoved
<1>4. ASSUME NEW q \in Requests, Receive(q) PROVE Same
  BY <1>1, <1>4, ReceiveEffect DEF Unmoved, AppendPCs
<1>5. ASSUME NEW w \in Workers, SpawnRun(w) \/ Resume(w) PROVE Same
  <2>1. /\ UNCHANGED <<journal, tmp>>
        /\ \A t \in Threads : \/ pc'[t] = pc[t] /\ loc'[t] = loc[t]
                              \/ pc'[t] \in {"close", "resume", "scan"}
    BY <1>0, <1>5, SpawnEffect DEF Goes, Unmoved
  <2>2. QED
    BY <1>1, <2>1 DEF AppendPCs
<1>6. ASSUME NEW w \in Workers, Restart(w) PROVE Same
  BY <1>0, <1>1, <1>6, SpawnEffect DEF Unmoved, AppendPCs
<1>7. CASE Tick \/ UNCHANGED vars
  <2>1. UNCHANGED <<journal, tmp, pc, loc>>
    BY <1>7, TickEffect DEF vars, files
  <2>2. QED
    BY <1>1, <2>1
<1>8. CASE Crash
  BY <1>1, <1>8, CrashEffect DEF AppendPCs
<1>9. QED
  BY <1>2, <1>3, <1>4, <1>5, <1>6, <1>7, <1>8 DEF Next, ServiceStep, ServiceAlone

LEMMA RowTyped ==
  ASSUME TypeInv, NEW r \in Runs
  PROVE  runs[r].completed \in Nat /\ runs[r].target \in Nat
  BY DEF TypeInv, StoresOK, Progress

\* What the thread counts it has done, and only then.
LEMMA CountWorker ==
  ASSUME TypeInv, BaseInv, RowsOK, NEW w \in Workers, Job(w), TodoOK(w),
         loc[w].run \in Runs => CountOK(w), WorkerStep(w)
  PROVE  /\ loc'[w].run \in Runs => CountOK(w)'
         /\ \A r \in Runs : /\ runs[r].completed <= runs'[r].completed
                            /\ runs'[r].completed <= runs'[r].target
<1>. DEFINE R == loc[w].run
            Rows == \A r \in Runs : /\ runs[r].completed <= runs'[r].completed
                                    /\ runs'[r].completed <= runs'[r].target
            Counted == (loc'[w].run \in Runs => CountOK(w)') /\ Rows
<1>0. /\ w \in Threads /\ loc[w].epoch \in Nat /\ (pc[w] \in RunPCs => R \in Runs)
      /\ loc[w].todo \in SUBSET Pending
  BY Held DEF Threads, Locals
<1>1. \A n : pc[w] = n /\ n \notin AppendPCs => To(w) = {n}
  BY DEF To, Coming
<1>2. \A r \in Runs : /\ runs[r].completed \in Nat /\ runs[r].target \in Nat
                      /\ runs[r].completed <= runs[r].target
  BY RowTyped DEF RowsOK
<1>3. runs' = runs => Rows
  BY <1>2
<1>4. ASSUME R \in Runs, NEW s, NEW c \in Nat, RowIs(R, s, c),
             runs[R].completed <= c, c <= runs[R].target
      PROVE  /\ Rows /\ runs'[R].completed = c /\ runs'[R].target = runs[R].target
  BY <1>2, <1>4 DEF RowIs
<1>5. CASE AppendStep(w)
  <2>1. Kept(w) /\ runs' = runs /\ To(w)' \subseteq To(w)
    BY <1>0, <1>5, AppendEffect, BaseAppend
  <2>2. QED
    BY <1>3, <2>1 DEF Kept, CountOK
<1>6. CASE ResumeRun(w) \/ AcquireSection(w)
  <2>1. /\ Kept(w) /\ runs' = runs
        /\ To(w)' \in {{"ensure"}, {"return"}, {"loop"}}
    BY <1>6, EnterEffect DEF Goes
  <2>2. QED
    BY <1>3, <2>1 DEF Kept, CountOK
<1>7. CASE EnsureCandidate(w)
  <2>1. /\ Kept(w) /\ runs' = runs /\ R \in Runs
        /\ To(w)' \in {{"zero"}, {"acquire"}, {"return"}}
        /\ To(w)' = {"zero"} => runs[R].target <= loc[w].epoch
    BY <1>0, <1>7, EnterEffect DEF Goes, RunPCs
  <2>2. QED
    BY <1>0, <1>2, <1>3, <2>1 DEF Kept, CountOK
<1>8. CASE NoEpochs(w) \/ CompleteRun(w) \/ SettleRun(w)
  <2>1. /\ Kept(w) /\ R \in Runs /\ RowIs(R, "Succeeded", runs[R].target)
        /\ pc[w] \in {"zero", "complete", "settle"}
        /\ To(w)' \in {{"return"}, {"release", "abort"}, {"marker"}}
    BY <1>8, EnterEffect, EpochEffect, RecoverEffect DEF Goes, Logs
  <2>2. /\ Rows /\ runs'[R].completed = runs[R].target /\ runs'[R].target = runs[R].target
    BY <1>2, <1>4, <2>1
  <2>3. loc[w].epoch >= runs[R].target
    BY <1>1, <2>1 DEF CountOK, AppendPCs
  <2>4. QED
    BY <1>0, <1>2, <2>1, <2>2, <2>3 DEF Kept, CountOK
<1>9. CASE EpochLoop(w)
  <2>1. /\ Kept(w) /\ runs' = runs /\ R \in Runs
        /\ To(w)' \in {{"complete"}, {"renew"}, {"abort"}}
        /\ To(w)' = {"complete"} <=> loc[w].epoch >= runs[R].target
    BY <1>0, <1>9, EpochEffect DEF Goes, RunPCs
  <2>2. QED
    BY <1>0, <1>2, <1>3, <2>1 DEF Kept, CountOK
<1>10. CASE RenewSection(w)
  <2>1. /\ runs' = runs /\ R \in Runs /\ loc'[w].run = R /\ To(w) = {"renew"}
        /\ \/ loc'[w].epoch = loc[w].epoch + 1 /\ To(w)' = {"epoch", "abort"}
           \/ loc'[w].epoch = loc[w].epoch /\ To(w)' = {"abort"}
    BY <1>0, <1>1, <1>10, EpochEffect DEF Goes, Kept, RunPCs, AppendPCs
  <2>2. runs[R].completed <= loc[w].epoch /\ loc[w].epoch < runs[R].target
    BY <2>1 DEF CountOK
  <2>3. QED
    BY <1>0, <1>2, <1>3, <2>1, <2>2 DEF CountOK
<1>11. CASE RunEpoch(w)
  <2>1. /\ Kept(w) /\ runs' = runs /\ R \in Runs /\ To(w) = {"epoch"}
        /\ To(w)' \in {{"record", "abort"}, {"abort"}}
    BY <1>0, <1>1, <1>11, EpochEffect DEF Goes, Logs, RunPCs, AppendPCs
  <2>2. QED
    BY <1>0, <1>3, <2>1 DEF Kept, CountOK
<1>12. CASE RecordEpoch(w) \/ MarkPending(w)
  <2>1. /\ Kept(w) /\ R \in Runs /\ pc[w] \in {"record", "mark"}
        /\ \E s : RowIs(R, s, loc[w].epoch)
        /\ To(w)' \in {{"loop"}, {"resume", "finish"}}
    BY <1>12, EpochEffect, RecoverEffect DEF Goes, Logs
  <2>2. runs[R].completed <= loc[w].epoch /\ loc[w].epoch <= runs[R].target
    BY <1>1, <2>1 DEF CountOK, AppendPCs
  <2>3. Rows /\ runs'[R].completed = loc[w].epoch /\ runs'[R].target = runs[R].target
    BY <1>0, <1>4, <2>1, <2>2
  <2>4. QED
    BY <1>0, <2>1, <2>3 DEF Kept, CountOK
<1>13. CASE ReleaseSection(w) \/ CommitMarker(w)
  <2>1. /\ Kept(w) /\ runs' = runs
        /\ To(w)' \in {{"return"}, {"pend"}, {"return", "finish"}}
    BY <1>13, LeaveEffect, RecoverEffect DEF Goes, Logs
  <2>2. QED
    BY <1>3, <2>1 DEF Kept, CountOK
<1>14. CASE LeavePending(w)
  <2>1. Kept(w) /\ To(w)' = {"return"} /\ RowIs(R, "RecoveryPending", runs[R].completed)
    BY <1>14, LeaveEffect DEF Logs
  <2>2. Rows /\ (R \in Runs => runs'[R].completed = runs[R].completed
                                 /\ runs'[R].target = runs[R].target)
    BY <1>2, <2>1 DEF RowIs
  <2>3. QED
    BY <2>1, <2>2 DEF Kept, CountOK
<1>15. CASE Scan(w) \/ Return(w) \/ FinishRecovery(w)
  <2>1. runs' = runs /\ loc'[w].run = 0
    BY <1>15, LeaveEffect, RecoverEffect, NoLocalsFields DEF Job
  <2>2. 0 \notin Runs
    BY DEF Runs
  <2>3. QED
    BY <1>3, <2>1, <2>2
<1>16. CASE PickRun(w)
  <2>1. PICK p \in loc[w].todo : \E safe \in Nat :
          /\ safe >= p.completed /\ loc'[w].run = p.run /\ loc'[w].epoch = safe
          /\ runs' = runs
          /\ To(w)' = IF safe >= runs[p.run].target THEN {"settle"} ELSE {"mark"}
    BY <1>16, RecoverEffect
  <2>2. p.run \in Runs /\ p.completed = runs[p.run].completed
    BY <1>0 DEF TodoOK, Pending
  <2>3. QED
    BY <1>2, <1>3, <2>1, <2>2 DEF CountOK
<1>17. QED
  BY <1>5, <1>6, <1>7, <1>8, <1>9, <1>10, <1>11, <1>12, <1>13, <1>14, <1>15, <1>16
     DEF WorkerStep, DriveStep, RecoverStep

\* The marks of the thread's run stay below the epoch it begins.
LEMMA MarksWorker ==
  ASSUME TypeInv, BaseInv, NEW w \in Workers, Job(w), TodoOK(w),
         loc[w].run \in Runs => MarksOK(w), WorkerStep(w)
  PROVE  loc'[w].run \in Runs => MarksOK(w)'
<1>0. w \in Threads /\ loc[w].epoch \in Nat /\ loc[w].todo \in SUBSET Pending
  BY Held DEF Threads, Locals
<1>1. ASSUME ~RunEpoch(w), NEW r, NEW e, Somewhere(EpochMark(r, e))'
      PROVE  Somewhere(EpochMark(r, e))
  BY <1>1, WorkerMarks
<1>2. CASE Turns(w)
  <2>1. CASE ~PickRun(w)
    <3>1. loc'[w].run = 0
      BY <1>2, <2>1, LeaveEffect, RecoverEffect, NoLocalsFields DEF Turns, Job
    <3>2. QED
      BY <3>1 DEF Runs
  <2>2. CASE PickRun(w)
    <3>1. PICK p \in loc[w].todo : \E safe \in Nat :
            /\ \A e : EpochMark(p.run, e) \in journal => e <= safe
            /\ loc'[w].run = p.run /\ loc'[w].epoch = safe
            /\ To(w)' = IF safe >= runs[p.run].target THEN {"settle"} ELSE {"mark"}
      BY <2>2, RecoverEffect
    <3>2. ~RunEpoch(w)
      BY <2>2, RecoverEffect, EpochEffect
    <3>3. ASSUME NEW e \in Nat, Somewhere(EpochMark(p.run, e))' PROVE e <= loc'[w].epoch
      <4>1. Somewhere(EpochMark(p.run, e)) /\ Steady(EpochMark(p.run, e))
        BY <1>1, <3>2, <3>3 DEF TodoOK, Settled
      <4>2. EpochMark(p.run, e) \in journal
        BY <4>1 DEF Somewhere, Steady
      <4>3. QED
        BY <3>1, <4>2
    <3>4. QED
      BY <3>1, <3>3 DEF MarksOK
  <2>3. QED
    BY <2>1, <2>2
<1>3. CASE ~Turns(w)
  <2>1. loc'[w].run = loc[w].run
    BY <1>3, WorkerKeeps DEF Turns
  <2>2. CASE RunEpoch(w)
    <3>1. loc'[w].epoch = loc[w].epoch /\ "epoch" \notin To(w)'
      BY <2>2, EpochEffect DEF Goes, Logs, Kept
    <3>2. ASSUME NEW r, NEW e \in Nat, e # loc[w].epoch, Somewhere(EpochMark(r, e))'
          PROVE  Somewhere(EpochMark(r, e))
      BY <3>2, WorkerMarks
    <3>3. QED
      BY <1>0, <2>1, <3>1, <3>2 DEF MarksOK
  <2>3. CASE RenewSection(w)
    <3>1. /\ ~RunEpoch(w)
          /\ \/ loc'[w].epoch = loc[w].epoch + 1
             \/ loc'[w].epoch = loc[w].epoch /\ To(w)' = {"abort"}
      BY <2>3, EpochEffect DEF Goes, Kept
    <3>2. QED
      BY <1>0, <1>1, <2>1, <3>1 DEF MarksOK
  <2>4. CASE ~RunEpoch(w) /\ ~RenewSection(w)
    <3>1. loc'[w].epoch = loc[w].epoch /\ ("epoch" \in To(w)' => "epoch" \in To(w))
      <4>1. CASE AppendStep(w)
        BY <1>0, <4>1, AppendEffect, BaseAppend DEF Kept
      <4>2. CASE ResumeRun(w) \/ EnsureCandidate(w) \/ NoEpochs(w) \/ AcquireSection(w)
        BY <4>2, EnterEffect DEF Goes, Kept
      <4>3. CASE EpochLoop(w) \/ RecordEpoch(w) \/ CompleteRun(w)
        BY <4>3, EpochEffect DEF Goes, Logs, Kept
      <4>4. CASE ReleaseSection(w) \/ LeavePending(w)
        BY <4>4, LeaveEffect DEF Goes, Logs, Kept
      <4>5. CASE SettleRun(w) \/ CommitMarker(w) \/ MarkPending(w)
        BY <4>5, RecoverEffect DEF Goes, Logs, Kept
      <4>6. QED
        BY <1>3, <2>4, <4>1, <4>2, <4>3, <4>4, <4>5
           DEF WorkerStep, DriveStep, RecoverStep, Turns
    <3>2. QED
      BY <1>1, <2>1, <2>4, <3>1 DEF MarksOK
  <2>5. QED
    BY <2>2, <2>3, <2>4
<1>4. QED
  BY <1>2, <1>3

\* What a recovery has read stays true of the runs it has yet to come to.
LEMMA TodoWorker ==
  ASSUME TypeInv, BaseInv, NEW w \in Workers, Job(w), TodoOK(w), WorkerStep(w)
  PROVE  TodoOK(w)'
<1>0. w \in Threads /\ loc[w].todo \in SUBSET Pending /\ pc'[w] # "scan"
  BY Held, ScansOnce DEF Threads, Locals
<1>1. ASSUME NEW r, Settled(r), r # loc[w].run \/ ~RunEpoch(w) PROVE Settled(r)'
  BY <1>1, WorkerMarks DEF Settled
<1>2. CASE Turns(w)
  <2>1. runs' = runs /\ ~RunEpoch(w)
    BY <1>2, TurnEffect, EpochEffect
  <2>2. ASSUME NEW p \in loc'[w].todo
        PROVE  p.completed = runs[p.run].completed /\ Settled(p.run)
    <3>1. CASE Scan(w)
      <4>1. /\ pc[w] = "scan"
            /\ loc'[w].todo = {[run |-> s, completed |-> runs[s].completed] :
                                  s \in {q \in Runs : Allowed(q)}}
        BY <3>1, RecoverEffect
      <4>2. PICK s \in Runs : p = [run |-> s, completed |-> runs[s].completed]
        BY <2>2, <4>1
      <4>3. QED
        BY <4>1, <4>2 DEF TodoOK
    <3>2. CASE ~Scan(w)
      BY <1>2, <2>2, <3>2, TurnEffect DEF TodoOK
    <3>3. QED
      BY <3>1, <3>2
  <2>3. QED
    BY <1>0, <1>1, <2>1, <2>2 DEF TodoOK
<1>3. CASE ~Turns(w)
  <2>1. loc'[w].todo = loc[w].todo
    BY <1>3, WorkerKeeps DEF Turns
  <2>2. ASSUME NEW p \in loc[w].todo
        PROVE  p.completed = runs'[p.run].completed /\ Settled(p.run)'
    <3>1. p.run \in Runs /\ p.run # loc[w].run
      BY <1>0, <2>2 DEF Job, Pending
    <3>2. runs'[p.run] = runs[p.run]
      BY <3>1, WorkerRow DEF RowIs
    <3>3. QED
      BY <1>1, <2>2, <3>1, <3>2 DEF TodoOK
  <2>3. QED
    BY <1>0, <2>1, <2>2 DEF TodoOK
<1>4. QED
  BY <1>2, <1>3

LEMMA IdleCounts ==
  ASSUME NEW w \in Workers, pc'[w] = "idle", loc'[w] = NoLocals
  PROVE  TodoOK(w)' /\ loc'[w].run \notin Runs
<1>1. loc'[w].run \notin Runs
  BY NoLocalsFields DEF Runs
<1>2. QED
  BY <1>1, NoLocalsFields DEF TodoOK

LEMMA EpochWorker ==
  ASSUME TypeInv, BaseInv, AloneInv, OverrideInv, OrphanInv, EpochInv,
         NEW w \in Workers, WorkerStep(w)
  PROVE  EpochInv'
<1>0. /\ w \in Threads /\ Service \in Threads \ {w} /\ \A v \in Workers : v \in Threads
      /\ Job(w) /\ RowsOK /\ TodoOK(w) /\ (loc[w].run \in Runs => MarksOK(w) /\ CountOK(w))
  BY ClientsAssumption DEF Threads, ClientsAssumption, OrphanInv, EpochInv
<1>1. pc[w] # "idle" /\ Unmoved(w)
  BY <1>0, BaseWorker, BaseAppend, AppendEffect DEF WorkerStep
<1>2. ASSUME NEW v \in Workers, v # w PROVE TodoOK(v)' /\ loc'[v].run \notin Runs
  <2>1. pc'[v] = "idle" /\ loc'[v] = NoLocals
    BY <1>0, <1>1, <1>2 DEF AloneInv, BaseInv, Unmoved
  <2>2. QED
    BY <2>1, IdleCounts
<1>3. /\ TodoOK(w)'
      /\ loc'[w].run \in Runs => MarksOK(w)' /\ CountOK(w)'
      /\ \A r \in Runs : runs'[r].completed <= runs'[r].target
  BY <1>0, TodoWorker, MarksWorker, CountWorker
<1>4. NewOK'
  <2>1. To(Service)' = To(Service) /\ To(Service) \cap Before = {}
    BY <1>0, <1>1 DEF AloneInv, Quiet, Unmoved, To
  <2>2. QED
    BY <2>1 DEF NewOK, Before
<1>5. ASSUME NEW r \in Runs, runs'[r].state = "none"
      PROVE  runs'[r].completed = 0 /\ Unmarked(r)'
  <2>1. runs[r].state = "none"
    BY <1>5, WorkerRows DEF RowsLive, Live
  <2>2. r # loc[w].run
    BY <2>1 DEF OverrideInv, DrivesLive, Live
  <2>3. runs'[r] = runs[r]
    BY <2>2, WorkerRow DEF RowIs
  <2>4. Unmarked(r)'
    BY <1>0, <2>1, <2>2, WorkerMarks DEF RowsOK, Unmarked
  <2>5. QED
    BY <1>0, <2>1, <2>3, <2>4 DEF RowsOK
<1>6. QED
  BY <1>2, <1>3, <1>4, <1>5 DEF EpochInv, RowsOK

\* The marks of runs stay as they are when no worker moves.
LEMMA RunMarks ==
  ASSUME TypeInv, BaseInv, [Next]_vars, \A w \in Workers : ~WorkerStep(w), NEW r
  PROVE  /\ Settled(r) => Settled(r)'
         /\ Unmarked(r) => Unmarked(r)'
         /\ \A e \in Nat : Somewhere(EpochMark(r, e))' => Somewhere(EpochMark(r, e))
<1>1. ASSUME NEW e
      PROVE  /\ Somewhere(EpochMark(r, e))' => Somewhere(EpochMark(r, e))
             /\ Steady(EpochMark(r, e)) => Steady(EpochMark(r, e))'
  <2>1. EpochMark(r, e)[1] = "epoch"
    BY DEF EpochMark
  <2>2. QED
    BY <2>1, ServiceMarks
<1>2. QED
  BY <1>1 DEF Settled, Unmarked

\* A worker that does not move keeps what it has counted.
LEMMA StillCounts ==
  ASSUME TypeInv, BaseInv, [Next]_vars, \A v \in Workers : ~WorkerStep(v),
         NEW w \in Workers, pc'[w] = pc[w], loc'[w] = loc[w], runs' = runs,
         TodoOK(w), loc[w].run \in Runs => MarksOK(w) /\ CountOK(w)
  PROVE  TodoOK(w)' /\ (loc'[w].run \in Runs => MarksOK(w)' /\ CountOK(w)')
<1>1. To(w)' = To(w)
  BY DEF To
<1>2. TodoOK(w)'
  BY RunMarks DEF TodoOK
<1>3. ASSUME loc[w].run \in Runs PROVE CountOK(w)'
  BY <1>1, <1>3 DEF CountOK
<1>4. ASSUME loc[w].run \in Runs PROVE MarksOK(w)'
  <2>1. ASSUME NEW r, NEW e \in Nat, Somewhere(EpochMark(r, e))'
        PROVE  Somewhere(EpochMark(r, e))
    BY <2>1, RunMarks
  <2>2. QED
    BY <1>1, <1>4, <2>1 DEF MarksOK
<1>5. QED
  BY <1>2, <1>3, <1>4

LEMMA RowsStay ==
  ASSUME TypeInv, BaseInv, RowsOK, [Next]_vars, \A w \in Workers : ~WorkerStep(w),
         runs' = runs
  PROVE  RowsOK'
  BY RunMarks DEF RowsOK

LEMMA EpochService ==
  ASSUME TypeInv, BaseInv, AloneInv, EpochInv, [Next]_vars, \A w \in Workers : ~WorkerStep(w),
         AppendStep(Service) \/ ServiceAlone
  PROVE  EpochInv'
<1>. DEFINE S == loc[Service].run
<1>0. /\ Service \in Threads /\ RowsOK /\ NewOK
      /\ \A w \in Workers : TodoOK(w) /\ (loc[w].run \in Runs => MarksOK(w) /\ CountOK(w))
  BY DEF Threads, EpochInv
<1>1. Unmoved(Service)
  BY <1>0, BaseService, AppendEffect
<1>2. \A w \in Workers : pc'[w] = pc[w] /\ loc'[w] = loc[w]
  BY <1>1, ClientsAssumption DEF Unmoved, Threads, ClientsAssumption
<1>3. ASSUME NEW w \in Workers
      PROVE  TodoOK(w)' /\ (loc'[w].run \in Runs => MarksOK(w)' /\ CountOK(w)')
  <2>1. CASE Quiet
    <3>1. pc'[w] = "idle" /\ loc'[w] = NoLocals
      BY <1>2, <2>1 DEF Quiet, BaseInv, Threads
    <3>2. QED
      BY <3>1, IdleCounts
  <2>2. CASE ~Quiet
    BY <1>0, <1>2, <2>2, Busy, StillCounts
  <2>3. QED
    BY <2>1, <2>2
<1>4. \A n : pc[Service] = n /\ n \notin AppendPCs => To(Service) = {n}
  BY DEF To, Coming
<1>5. ASSUME RowsOK', To(Service)' \cap {"insert", "spawn"} = {} PROVE EpochInv'
  BY <1>3, <1>5 DEF EpochInv, NewOK
<1>6. CASE AppendStep(Service)
  <2>1. Kept(Service) /\ runs' = runs /\ To(Service)' \subseteq To(Service)
    BY <1>0, <1>6, AppendEffect, BaseAppend
  <2>2. RowsOK'
    BY <1>0, <2>1, RowsStay
  <2>3. \A r : Unmarked(r) => Unmarked(r)'
    BY RunMarks
  <2>4. NewOK'
    BY <1>0, <2>1, <2>3 DEF NewOK, Kept
  <2>5. QED
    BY <1>3, <2>2, <2>4 DEF EpochInv
<1>7. CASE Replay \/ Pause \/ ClearFlag \/ Close \/ Reply \/ Unstart
  <2>1. /\ runs' = runs
        /\ To(Service)' \in {{"reply"}, {"close"}, {"dispatch", "reply"}, {"idle"}}
    BY <1>7, AnswerEffect, StartEffect DEF Goes, Logs, To, Coming, AppendPCs
  <2>2. QED
    BY <1>0, <1>5, <2>1, RowsStay
<1>8. ASSUME NEW r \in Runs, StartRun(r) PROVE EpochInv'
  <2>1. runs' = runs /\ runs[r].state = "none"
    BY <1>8, StartEffect DEF NewRun
  <2>2. RowsOK'
    BY <1>0, <2>1, RowsStay
  <2>3. runs'[r].completed = 0 /\ Unmarked(r)'
    BY <1>0, <2>1, RunMarks DEF RowsOK
  <2>4. CASE AllGrantable(r)
    <3>1. loc'[Service].run = r
      BY <1>8, <2>4, StartEffect
    <3>2. NewOK'
      BY <2>3, <3>1 DEF NewOK
    <3>3. QED
      BY <1>3, <2>2, <3>2 DEF EpochInv
  <2>5. CASE ~AllGrantable(r)
    <3>1. To(Service)' = {"close"}
      BY <1>8, <2>5, StartEffect DEF Goes
    <3>2. QED
      BY <1>5, <2>2, <3>1
  <2>6. QED
    BY <2>4, <2>5
<1>9. ASSUME NEW n \in Targets, InsertRun(n) PROVE EpochInv'
  <2>1. /\ pc[Service] = "insert" /\ S \in Runs /\ loc'[Service].run = S
        /\ runs'[S].state = "Running" /\ runs'[S].completed = 0 /\ runs'[S].target = n
        /\ \A q \in Runs \ {S} : runs'[q] = runs[q]
    BY <1>9, StartEffect DEF Logs, Kept
  <2>2. n \in Nat
    BY RunsAssumption DEF RunsAssumption
  <2>3. RowsOK'
    BY <1>0, <2>1, <2>2, RunMarks DEF RowsOK
  <2>4. Unmarked(S)
    BY <1>0, <1>4, <2>1 DEF NewOK, AppendPCs
  <2>5. \A r : Unmarked(r) => Unmarked(r)'
    BY RunMarks
  <2>6. NewOK'
    BY <2>1, <2>4, <2>5 DEF NewOK
  <2>7. QED
    BY <1>3, <2>3, <2>6 DEF EpochInv
<1>10. CASE ClearLeases
  BY <1>0, <1>5, <1>10, ClearEffect, RowsStay DEF Goes
<1>11. CASE ClearRuns
  <2>1. /\ \A r \in Runs : /\ runs'[r].completed = runs[r].completed
                           /\ runs'[r].target = runs[r].target
                           /\ runs'[r].state = "none" => runs[r].state = "none"
        /\ To(Service)' = {"clearFlag"}
    BY <1>11, ClearEffect DEF Goes
  <2>2. RowsOK'
    BY <1>0, <2>1, RunMarks DEF RowsOK
  <2>3. QED
    BY <1>5, <2>1, <2>2
<1>12. QED
  BY <1>6, <1>7, <1>8, <1>9, <1>10, <1>11 DEF ServiceAlone

\* A thread is started, by the service or by the start of the daemon.
LEMMA EpochSpawn ==
  ASSUME TypeInv, BaseInv, AloneInv, EpochInv, [Next]_vars, \A v \in Workers : ~WorkerStep(v),
         NEW w \in Workers, SpawnRun(w) \/ Resume(w) \/ Restart(w)
  PROVE  EpochInv'
<1>0. /\ Service \in Threads /\ \A v \in Workers : v \in Threads /\ v # Service
      /\ RowsOK /\ NewOK
  BY ClientsAssumption DEF Threads, ClientsAssumption, EpochInv
<1>1. runs' = runs /\ \A v \in Workers : pc[v] = "idle" /\ loc[v] = NoLocals
  <2>1. CASE SpawnRun(w) \/ Resume(w)
    BY <1>0, <2>1, SpawnEffect, ServiceTo DEF AloneInv, Quiet, BaseInv
  <2>2. CASE Restart(w)
    BY <1>0, <2>2, SpawnEffect DEF BaseInv, DownIdle
  <2>3. QED
    BY <2>1, <2>2
<1>2. RowsOK'
  BY <1>0, <1>1, RowsStay
<1>3. ASSUME NEW v \in Workers, v # w PROVE TodoOK(v)' /\ loc'[v].run \notin Runs
  <2>1. pc'[v] = "idle" /\ loc'[v] = NoLocals
    BY <1>0, <1>1, <1>3, SpawnEffect DEF Goes, Unmoved
  <2>2. QED
    BY <2>1, IdleCounts
<1>4. NewOK' /\ \A t \in Threads : pc'[t] \notin AppendPCs
  <2>1. /\ To(Service)' \in {{"close"}, {"idle"}}
        /\ pc'[Service] \in {"close", "idle"} /\ pc'[w] \in {"idle", "resume", "scan"}
        /\ \A v \in Workers \ {w} : pc'[v] = "idle"
    <3>1. CASE SpawnRun(w) \/ Resume(w)
      BY <1>0, <1>1, <3>1, SpawnEffect DEF Goes, Unmoved
    <3>2. CASE Restart(w)
      <4>1. pc[Service] = "idle" /\ Unmoved(w) /\ pc'[w] = "scan"
        BY <1>0, <3>2, SpawnEffect DEF BaseInv, DownIdle
      <4>2. pc'[Service] = "idle" /\ To(Service)' = {"idle"}
        BY <1>0, <4>1 DEF Unmoved, To, Coming, AppendPCs
      <4>3. QED
        BY <1>0, <1>1, <4>1, <4>2 DEF Unmoved
    <3>3. QED
      BY <3>1, <3>2
  <2>2. \A t \in Threads : pc'[t] \notin AppendPCs
    BY <2>1 DEF Threads, AppendPCs
  <2>3. QED
    BY <2>1, <2>2 DEF NewOK
<1>5. \A r \in Runs : Settled(r)'
  BY <1>4 DEF Settled, Steady, AppendPCs
<1>6. TodoOK(w)' /\ (loc'[w].run \in Runs => MarksOK(w)' /\ CountOK(w)')
  <2>1. CASE SpawnRun(w)
    <3>1. /\ pc[Service] = "spawn" /\ pc'[w] = "resume" /\ To(w)' = {"resume"}
          /\ loc'[w].run = loc[Service].run /\ loc'[w].epoch = 0 /\ loc'[w].todo = {}
      BY <2>1, SpawnEffect
    <3>2. runs[loc[Service].run].completed = 0 /\ Unmarked(loc[Service].run)
      BY <1>0, <3>1 DEF NewOK, To, Coming, AppendPCs
    <3>3. \A r : Unmarked(r) => Unmarked(r)'
      BY RunMarks
    <3>4. Unmarked(loc[Service].run)'
      BY <2>1, <3>2, <3>3, SpawnEffect DEF Kept
    <3>5. \A e \in Nat : ~Somewhere(EpochMark(loc[w].run, e))'
      BY <2>1, <3>1, <3>4, SpawnEffect DEF Kept, Unmarked
    <3>6. MarksOK(w)'
      BY <3>5 DEF MarksOK
    <3>7. QED
      BY <1>1, <3>1, <3>2, <3>6 DEF TodoOK, CountOK
  <2>2. CASE pc'[w] = "scan" /\ loc'[w].run = 0 /\ loc'[w].todo = {}
    BY <1>5, <2>2 DEF TodoOK, Runs
  <2>3. CASE pc'[w] = "idle" /\ loc'[w] = NoLocals
    BY <2>3, IdleCounts
  <2>4. QED
    BY <1>0, <1>1, <2>1, <2>2, <2>3, SpawnEffect DEF Goes, Unmoved
<1>7. QED
  BY <1>2, <1>3, <1>4, <1>6 DEF EpochInv

LEMMA EpochNext ==
  ASSUME ClientsWait, TypeInv, BaseInv, AloneInv, OverrideInv, OrphanInv, EpochInv, [Next]_vars
  PROVE  EpochInv'
<1>0. /\ Service \in Threads /\ RowsOK /\ NewOK /\ \A w \in Workers : w \in Threads
      /\ \A w \in Workers : TodoOK(w) /\ (loc[w].run \in Runs => MarksOK(w) /\ CountOK(w))
  BY DEF Threads, EpochInv
<1>1. CASE \E w \in Workers : WorkerStep(w)
  BY <1>1, EpochWorker
<1>2. CASE \A w \in Workers : ~WorkerStep(w)
  <2>1. ASSUME runs' = runs, \A w \in Workers : pc'[w] = pc[w] /\ loc'[w] = loc[w]
        PROVE  /\ RowsOK'
               /\ \A w \in Workers :
                    TodoOK(w)' /\ (loc'[w].run \in Runs => MarksOK(w)' /\ CountOK(w)')
    BY <1>0, <1>2, <2>1, RowsStay, StillCounts
  <2>2. ASSUME NEW q \in Requests, Receive(q) PROVE EpochInv'
    <3>1. runs' = runs /\ \A w \in Workers : pc'[w] = pc[w] /\ loc'[w] = loc[w]
      BY <1>0, <2>2, ReceiveEffect, ClientsAssumption DEF Unmoved, ClientsAssumption
    <3>2. NewOK'
      BY <2>2, ReceiveEffect DEF NewOK
    <3>3. QED
      BY <2>1, <3>1, <3>2 DEF EpochInv
  <2>3. CASE AppendStep(Service) \/ ServiceAlone
    BY <1>2, <2>3, EpochService
  <2>4. ASSUME NEW w \in Workers, SpawnRun(w) \/ Resume(w) \/ Restart(w) PROVE EpochInv'
    BY <1>2, <2>4, EpochSpawn
  <2>5. CASE Tick \/ UNCHANGED vars
    <3>1. runs' = runs /\ pc' = pc /\ loc' = loc
      BY <2>5, TickEffect DEF vars, db
    <3>2. \A r : Unmarked(r) => Unmarked(r)'
      BY <1>2, RunMarks
    <3>3. NewOK'
      BY <1>0, <3>1, <3>2 DEF NewOK, To
    <3>4. QED
      BY <2>1, <3>1, <3>3 DEF EpochInv
  <2>6. CASE Crash
    <3>1. /\ runs' = runs
          /\ \A t \in Threads : pc'[t] = "idle" /\ loc'[t] = NoLocals /\ To(t)' = {"idle"}
      BY <2>6, CrashEffect
    <3>2. RowsOK'
      BY <1>0, <1>2, <3>1, RowsStay
    <3>3. NewOK'
      BY <1>0, <3>1 DEF NewOK
    <3>4. QED
      BY <1>0, <3>1, <3>2, <3>3, IdleCounts DEF EpochInv
  <2>7. QED
    BY <1>2, <2>2, <2>3, <2>4, <2>5, <2>6 DEF Next, ServiceStep, ServiceAlone
<1>3. QED
  BY <1>1, <1>2

LEMMA EpochInit == Init => EpochInv
<1>. SUFFICES ASSUME Init PROVE EpochInv
  OBVIOUS
<1>1. \A t \in Threads : pc[t] = "idle" /\ loc[t] = NoLocals /\ To(t) = {"idle"}
  BY DEF Init, To, Coming, AppendPCs
<1>2. \A m : ~Somewhere(m)
  BY <1>1 DEF Init, Somewhere
<1>3. RowsOK
  BY <1>2 DEF Init, RowsOK, Unmarked
<1>4. NewOK
  BY <1>1 DEF NewOK, Threads
<1>5. ASSUME NEW w \in Workers PROVE TodoOK(w) /\ loc[w].run \notin Runs
  BY <1>1, NoLocalsFields DEF TodoOK, Threads, Runs
<1>6. QED
  BY <1>3, <1>4, <1>5 DEF EpochInv

LEMMA EpochAlways ==
  ASSUME ClientsWait
  PROVE  Spec => [](TypeInv /\ BaseInv /\ AloneInv /\ OrphanInv /\ EpochInv)
<1>1. "clear" \notin Overlap
  BY DEF ClientsWait
<1>2. /\ TypeInv /\ BaseInv /\ AloneInv /\ OverrideInv /\ OrphanInv /\ EpochInv
      /\ [Next]_vars
      => EpochInv'
  BY EpochNext
<1>. QED
  BY <1>1, <1>2, EpochInit, AloneAlways, OrphanAlways, OverrideAlways, TypesAlways,
     PTL DEF Spec

\* completed_epochs of a run never goes down, over errors, crashes and
\* recoveries, for any number of runs and epochs, if clients wait: a recovery
\* takes up the row it has read, and the row has not moved since.
THEOREM CountsNeverDrop ==
  ASSUME ClientsWait
  PROVE  Spec => CompletedNeverDrops
<1>1. ASSUME TypeInv, BaseInv, OrphanInv, EpochInv, [Next]_vars, NEW r \in Runs
      PROVE  runs'[r].completed >= runs[r].completed
  <2>0. /\ runs[r].completed \in Nat /\ RowsOK /\ NewOK
        /\ runs' = runs => runs'[r].completed >= runs[r].completed
    BY <1>1, RowTyped DEF EpochInv
  <2>1. ASSUME NEW w \in Workers, WorkerStep(w)
        PROVE  runs'[r].completed >= runs[r].completed
    <3>1. /\ Job(w) /\ RowsOK /\ TodoOK(w) /\ (loc[w].run \in Runs => CountOK(w))
      BY <1>1 DEF OrphanInv, EpochInv
    <3>2. runs[r].completed <= runs'[r].completed
      BY <1>1, <2>1, <3>1, CountWorker
    <3>3. runs'[r].completed \in Nat
      BY <1>1, NextTyped, RowTyped, RunsAssumption DEF TypeInv, StoresOK, Progress
    <3>4. QED
      BY <2>0, <3>2, <3>3
  <2>2. ASSUME NEW n \in Targets, InsertRun(n)
        PROVE  runs'[r].completed >= runs[r].completed
    <3>1. /\ pc[Service] = "insert" /\ loc[Service].run \in Runs
          /\ runs'[loc[Service].run].completed = 0
          /\ \A q \in Runs \ {loc[Service].run} : runs'[q] = runs[q]
      BY <1>1, <2>2, StartEffect
    <3>2. To(Service) = {"insert"}
      BY <3>1 DEF To, Coming, AppendPCs
    <3>3. runs[loc[Service].run].completed = 0
      BY <2>0, <3>2 DEF NewOK
    <3>4. QED
      BY <2>0, <3>1, <3>3
  <2>3. CASE ClearRuns
    BY <1>1, <2>0, <2>3, ClearEffect
  <2>4. CASE AppendStep(Service)
    BY <1>1, <2>0, <2>4, AppendEffect DEF Threads
  <2>5. CASE Replay \/ Pause \/ Unstart \/ ClearLeases \/ ClearFlag \/ Close \/ Reply
    BY <1>1, <2>0, <2>5, AnswerEffect, StartEffect, ClearEffect
  <2>6. CASE \E q \in Runs : StartRun(q)
    BY <1>1, <2>0, <2>6, StartEffect
  <2>7. CASE \/ \E q \in Requests : Receive(q)
             \/ \E w \in Workers : SpawnRun(w) \/ Resume(w) \/ Restart(w)
             \/ Tick \/ Crash \/ UNCHANGED vars
    BY <1>1, <2>0, <2>7, ReceiveEffect, SpawnEffect, TickEffect, CrashEffect DEF vars, db
  <2>8. QED
    BY <1>1, <2>1, <2>2, <2>3, <2>4, <2>5, <2>6, <2>7 DEF Next, ServiceStep
<1>2. TypeInv /\ BaseInv /\ AloneInv /\ OrphanInv /\ EpochInv /\ [Next]_vars =>
        [\A r \in Runs : runs'[r].completed >= runs[r].completed]_vars
  BY <1>1
<1>. QED
  BY <1>2, EpochAlways, PTL DEF Spec, CompletedNeverDrops

\* An epoch is begun by the rename that puts its row into the journal.
LEMMA BeginsEpoch ==
  ASSUME TypeInv, BaseInv, [Next]_vars, NEW w \in Workers, ~Executing(w), Executing(w)'
  PROVE  RenameTmp(w)
<1>0. /\ w \in Threads /\ w # Service /\ Service \in Threads
      /\ pc[w] # "epoch" /\ pc'[w] = "epoch"
  BY ClientsAssumption DEF ClientsAssumption, Threads, Executing
<1>1. ASSUME NEW v \in Workers, WorkerStep(v) PROVE RenameTmp(w)
  <2>1. v = w
    <3>1. v \in Threads /\ Unmoved(v)
      BY <1>1, BaseWorker, AppendEffect DEF WorkerStep, Threads
    <3>2. QED
      BY <1>0, <3>1 DEF Unmoved
  <2>2. AppendStep(w) => RenameTmp(w)
    BY <1>0, BaseAppend DEF AppendPCs
  <2>3. ~(ResumeRun(w) \/ EnsureCandidate(w) \/ NoEpochs(w) \/ AcquireSection(w))
    BY <1>0, EnterEffect DEF Goes
  <2>4. ~(EpochLoop(w) \/ RenewSection(w) \/ RunEpoch(w) \/ RecordEpoch(w) \/ CompleteRun(w))
    BY <1>0, EpochEffect DEF Goes, Logs
  <2>5. ~(ReleaseSection(w) \/ LeavePending(w) \/ Return(w))
    BY <1>0, LeaveEffect DEF Goes, Logs
  <2>6. ~RecoverStep(w)
    BY <1>0, RecoverEffect DEF RecoverStep, Goes, Logs
  <2>7. QED
    BY <1>1, <2>1, <2>2, <2>3, <2>4, <2>5, <2>6 DEF WorkerStep, DriveStep
<1>2. ASSUME Unmoved(Service) PROVE FALSE
  BY <1>0, <1>2 DEF Unmoved
<1>3. ~AppendStep(Service) /\ ~ServiceAlone
  BY <1>0, <1>2, AppendEffect, BaseService
<1>4. ASSUME NEW q \in Requests, Receive(q) PROVE FALSE
  BY <1>2, <1>4, ReceiveEffect
<1>5. ASSUME NEW v \in Workers, SpawnRun(v) \/ Resume(v) PROVE FALSE
  BY <1>0, <1>5, SpawnEffect DEF Goes, Unmoved
<1>6. ASSUME NEW v \in Workers, Restart(v) PROVE FALSE
  BY <1>0, <1>6, SpawnEffect DEF Unmoved
<1>7. ~Tick /\ ~Crash /\ ~(UNCHANGED vars)
  BY <1>0, TickEffect, CrashEffect DEF vars
<1>8. QED
  BY <1>1, <1>3, <1>4, <1>5, <1>6, <1>7 DEF Next, ServiceStep, ServiceAlone

\* An epoch that its run has counted, or the journal has as committed, is never
\* executed again, over errors, crashes and recoveries, for any number of runs
\* and epochs, if clients wait: a recovery resumes a run after the last epoch
\* that either of the two knows of.
THEOREM EpochsAreOnce ==
  ASSUME ClientsWait
  PROVE  Spec => NoEpochTwice
<1>1. ASSUME TypeInv, BaseInv, EpochInv, [Next]_vars,
             NEW w \in Workers, ~Executing(w), Executing(w)'
      PROVE  /\ loc'[w].epoch > runs[loc'[w].run].completed
             /\ EpochMark(loc'[w].run, loc'[w].epoch) \notin journal
  <2>0. w \in Threads /\ loc[w].epoch \in Nat
    BY <1>1, Held DEF Threads
  <2>1. RenameTmp(w)
    BY <1>1, BeginsEpoch
  <2>2. /\ loc'[w].run = loc[w].run /\ loc'[w].epoch = loc[w].epoch
        /\ "epoch" \in To(w)
    BY <1>1, <2>0, <2>1, AppendEffect, BaseAppend DEF AppendStep, Kept, Executing
  <2>3. loc[w].run \in Runs
    BY <1>1, <2>0, <2>2 DEF TypeInv, ThreadsOK, Ready, To, RunPCs
  <2>4. MarksOK(w) /\ CountOK(w)
    BY <1>1, <2>3 DEF EpochInv
  <2>5. runs[loc[w].run].completed < loc[w].epoch
    BY <2>2, <2>4 DEF CountOK
  <2>6. runs[loc[w].run].completed \in Nat
    BY <1>1, <2>3, RowTyped
  <2>7. ~Somewhere(EpochMark(loc[w].run, loc[w].epoch))
    BY <2>0, <2>2, <2>4 DEF MarksOK
  <2>8. EpochMark(loc[w].run, loc[w].epoch) \notin journal
    BY <2>7 DEF Somewhere
  <2>9. QED
    BY <2>0, <2>2, <2>5, <2>6, <2>8
<1>2. TypeInv /\ BaseInv /\ AloneInv /\ OrphanInv /\ EpochInv /\ [Next]_vars =>
        [\A w \in Workers : ~Executing(w) /\ Executing(w)' =>
           LET r == loc'[w].run
               e == loc'[w].epoch IN
           /\ e > runs[r].completed
           /\ EpochMark(r, e) \notin journal]_vars
  BY <1>1
<1>. QED
  BY <1>2, EpochAlways, PTL DEF Spec, NoEpochTwice
-----------------------------------------------------------------------------
(* A run that has been given up has counted nothing                        *)

\* From here a thread can come to count an epoch of its run.
Counting == Entering \cup {"loop", "renew", "epoch", "record"}

FreshIn(w) ==
  LET l == loc[w] IN
  /\ To(w) \cap Counting # {} => l.run \notin stranded
  /\ To(w) \cap Entering # {} /\ l.job = "start" => runs[l.run].completed = 0

StrandedOK ==
  \A r \in Runs : r \in stranded =>
    /\ runs[r].state # "none"
    /\ runs[r].state = "Running" => runs[r].completed = 0

FreshStart == To(Service) \cap {"insert", "spawn"} # {} => loc[Service].run \notin stranded

FreshInv == StrandedOK /\ FreshStart /\ \A w \in Workers : FreshIn(w)

LEMMA IdleFresh ==
  ASSUME NEW w \in Workers, pc'[w] = "idle"
  PROVE  FreshIn(w)'
<1>1. To(w)' = {"idle"}
  BY DEF To, Coming, AppendPCs
<1>2. QED
  BY <1>1 DEF FreshIn, Counting, Entering

LEMMA FreshInWorker ==
  ASSUME TypeInv, BaseInv, NEW w \in Workers, Job(w), FreshIn(w), WorkerStep(w)
  PROVE  FreshIn(w)'
<1>0. w \in Threads /\ (pc[w] \in RunPCs => loc[w].run \in Runs)
  BY Held DEF Threads
<1>1. \A n : pc[w] = n /\ n \notin AppendPCs => To(w) = {n}
  BY DEF To, Coming
<1>2. ASSUME To(w)' \cap Counting = {} PROVE FreshIn(w)'
  BY <1>2 DEF FreshIn, Counting
<1>3. ASSUME stranded' = stranded, loc'[w].run = loc[w].run, To(w)' \cap Entering = {},
             To(w)' \cap Counting # {} => To(w) \cap Counting # {}
      PROVE  FreshIn(w)'
  BY <1>3 DEF FreshIn
<1>4. ASSUME stranded' = stranded, runs' = runs, Kept(w),
             To(w)' \cap Entering # {} => To(w) \cap Entering # {},
             To(w)' \cap Counting # {} => To(w) \cap Counting # {}
      PROVE  FreshIn(w)'
  BY <1>4 DEF FreshIn, Kept
<1>5. CASE AppendStep(w)
  BY <1>0, <1>4, <1>5, AppendEffect, BaseAppend, AppendStays
<1>6. CASE ResumeRun(w)
  <2>1. stranded' = stranded
    BY <1>6 DEF ResumeRun, daemon
  <2>2. QED
    BY <1>1, <1>2, <1>4, <1>6, <2>1, EnterEffect DEF Goes, Counting, Entering, AppendPCs
<1>7. CASE EnsureCandidate(w)
  <2>1. pc[w] = "ensure" /\ UNCHANGED <<leases, runs>>
    BY <1>7, EnterEffect
  <2>2. CASE stranded' = stranded /\ (Goes(w, "zero") \/ Goes(w, "acquire"))
    BY <1>1, <1>4, <2>1, <2>2 DEF Goes, Counting, Entering, AppendPCs
  <2>3. CASE Goes(w, "return")
    BY <1>2, <2>3 DEF Goes, Counting, Entering
  <2>4. QED
    BY <1>7, <2>2, <2>3, EnterEffect
<1>8. CASE AcquireSection(w)
  <2>1. CASE AllGrantable(loc[w].run)
    BY <1>1, <1>3, <1>8, <2>1, EnterEffect DEF Goes, Kept, Counting, Entering, AppendPCs
  <2>2. CASE ~AllGrantable(loc[w].run)
    BY <1>2, <1>8, <2>2, EnterEffect DEF Goes, Counting, Entering
  <2>3. QED
    BY <2>1, <2>2
<1>9. CASE EpochLoop(w) \/ RecordEpoch(w)
  <2>1. stranded' = stranded
    BY <1>9 DEF EpochLoop, RecordEpoch, daemon
  <2>2. /\ pc[w] \in {"loop", "record"} /\ loc'[w].run = loc[w].run
        /\ To(w)' \in {{"complete"}, {"renew"}, {"abort"}, {"loop"}}
    BY <1>9, EpochEffect DEF Goes, Kept
  <2>3. QED
    BY <1>1, <1>3, <2>1, <2>2 DEF Counting, Entering, AppendPCs
<1>10. CASE RenewSection(w) \/ RunEpoch(w)
  <2>1. stranded' = stranded
    BY <1>10 DEF RenewSection, RunEpoch, daemon
  <2>2. /\ pc[w] \in {"renew", "epoch"} /\ loc'[w].run = loc[w].run
        /\ To(w)' \in {{"epoch", "abort"}, {"abort"}, {"record", "abort"}}
    BY <1>10, EpochEffect DEF Goes, Logs, Kept
  <2>3. QED
    BY <1>1, <1>3, <2>1, <2>2 DEF Counting, Entering, AppendPCs
<1>11. CASE NoEpochs(w) \/ CompleteRun(w)
  BY <1>2, <1>11, EnterEffect, EpochEffect DEF Goes, Logs, Counting, Entering
<1>12. CASE ReleaseSection(w) \/ LeavePending(w)
  BY <1>2, <1>12, LeaveEffect DEF Goes, Logs, Counting, Entering
<1>13. CASE Return(w) \/ FinishRecovery(w)
  BY <1>2, <1>13, IdleFresh, LeaveEffect, RecoverEffect DEF Counting, Entering
<1>14. CASE Scan(w) \/ PickRun(w)
  <2>1. To(w)' \in {{"pick"}, {"settle"}, {"mark"}}
    BY <1>14, RecoverEffect
  <2>2. QED
    BY <1>2, <2>1 DEF Counting, Entering
<1>15. CASE SettleRun(w) \/ CommitMarker(w)
  BY <1>2, <1>15, RecoverEffect DEF Goes, Logs, Counting, Entering
<1>16. CASE MarkPending(w)
  <2>1. loc[w].job = "recover" /\ Kept(w)
    BY <1>1, <1>16, RecoverEffect DEF Job, Logs, Recovering, AppendPCs
  <2>2. loc[w].run \notin stranded'
    BY <1>16 DEF MarkPending
  <2>3. QED
    BY <2>1, <2>2 DEF FreshIn, Kept
<1>17. QED
  BY <1>5, <1>6, <1>7, <1>8, <1>9, <1>10, <1>11, <1>12, <1>13, <1>14, <1>15, <1>16
     DEF WorkerStep, DriveStep, RecoverStep

\* Nobody sets a run Running but the thread that has counted an epoch of it.
LEMMA OtherRows ==
  ASSUME TypeInv, NEW w \in Workers, WorkerStep(w), ~RecordEpoch(w)
  PROVE  \/ runs' = runs
         \/ \E s \in {"Succeeded", "RecoveryPending"} : \E c : RowIs(loc[w].run, s, c)
<1>1. CASE AppendStep(w)
  BY <1>1, AppendEffect DEF Threads
<1>2. CASE ResumeRun(w) \/ EnsureCandidate(w) \/ NoEpochs(w) \/ AcquireSection(w)
  BY <1>2, EnterEffect
<1>3. CASE EpochLoop(w) \/ RenewSection(w) \/ RunEpoch(w) \/ CompleteRun(w)
  BY <1>3, EpochEffect
<1>4. CASE ReleaseSection(w) \/ LeavePending(w) \/ Return(w)
  BY <1>4, LeaveEffect
<1>5. CASE RecoverStep(w)
  BY <1>5, RecoverEffect DEF RecoverStep
<1>6. QED
  BY <1>1, <1>2, <1>3, <1>4, <1>5 DEF WorkerStep, DriveStep

\* A thread gives its run up before it has counted an epoch, and counts no epoch
\* of a run that has been given up.
LEMMA StrandedByWorker ==
  ASSUME TypeInv, BaseInv, OverrideInv, StrandedOK, NEW w \in Workers, FreshIn(w), Ahead(w),
         WorkerStep(w)
  PROVE  StrandedOK'
<1>0. /\ RowsLive
      /\ \A n : pc[w] = n /\ n \notin AppendPCs => To(w) = {n}
  BY WorkerRows DEF To, Coming
<1>1. SUFFICES ASSUME NEW r \in Runs, r \in stranded'
               PROVE  /\ runs'[r].state # "none"
                      /\ runs'[r].state = "Running" => runs'[r].completed = 0
  BY DEF StrandedOK
<1>3. CASE r \notin stranded
  <2>1. /\ EnsureCandidate(w) \/ AcquireSection(w)
        /\ loc[w].job = "start" /\ r = loc[w].run
    BY <1>1, <1>3, StrandedWorker, TurnStrands DEF Turns
  <2>2. pc[w] \in {"ensure", "acquire"} /\ runs' = runs
    BY <2>1, EnterEffect
  <2>3. runs[r].completed = 0
    BY <1>0, <2>1, <2>2 DEF FreshIn, Entering, AppendPCs
  <2>4. Live(r)
    BY <2>1 DEF OverrideInv, DrivesLive
  <2>5. QED
    BY <2>2, <2>3, <2>4 DEF Live
<1>4. CASE r \in stranded
  <2>1. runs[r].state # "none" /\ (runs[r].state = "Running" => runs[r].completed = 0)
    BY <1>4 DEF StrandedOK
  <2>2. runs'[r].state # "none"
    BY <1>0, <2>1 DEF RowsLive, Live
  <2>3. CASE RecordEpoch(w)
    <3>1. pc[w] = "record" /\ RowIs(loc[w].run, "Running", loc[w].epoch)
      BY <2>3, EpochEffect
    <3>2. loc[w].run \notin stranded
      BY <1>0, <3>1 DEF FreshIn, Counting, AppendPCs
    <3>3. runs'[r] = runs[r]
      BY <1>4, <3>1, <3>2 DEF RowIs
    <3>4. QED
      BY <2>1, <3>3
  <2>4. CASE ~RecordEpoch(w)
    <3>1. \/ runs' = runs
          \/ \E s \in {"Succeeded", "RecoveryPending"} : \E c : RowIs(loc[w].run, s, c)
      BY <2>4, OtherRows
    <3>2. QED
      BY <2>1, <2>2, <3>1 DEF RowIs
  <2>5. QED
    BY <2>3, <2>4
<1>5. QED
  BY <1>3, <1>4

LEMMA FreshWorker ==
  ASSUME TypeInv, BaseInv, AloneInv, OverrideInv, OrphanInv, FreshInv,
         NEW w \in Workers, WorkerStep(w)
  PROVE  FreshInv'
<1>0. /\ w \in Threads /\ Service \in Threads \ {w} /\ \A v \in Workers : v \in Threads
      /\ Job(w) /\ Ahead(w) /\ FreshIn(w) /\ StrandedOK
  BY ClientsAssumption DEF Threads, ClientsAssumption, OrphanInv, FreshInv
<1>1. pc[w] # "idle" /\ Unmoved(w)
  BY <1>0, BaseWorker, BaseAppend, AppendEffect DEF WorkerStep
<1>2. ASSUME NEW v \in Workers, v # w PROVE FreshIn(v)'
  <2>1. pc'[v] = "idle"
    BY <1>0, <1>1, <1>2 DEF AloneInv, Unmoved
  <2>2. QED
    BY <2>1, IdleFresh
<1>3. FreshStart'
  <2>1. To(Service)' = To(Service) /\ To(Service) \cap Before = {}
    BY <1>0, <1>1 DEF AloneInv, Quiet, Unmoved, To
  <2>2. QED
    BY <2>1 DEF FreshStart, Before
<1>4. FreshIn(w)' /\ StrandedOK'
  BY <1>0, FreshInWorker, StrandedByWorker
<1>5. QED
  BY <1>2, <1>3, <1>4 DEF FreshInv

\* The service moves: beside a thread it touches no run, else it finds a new one.
LEMMA FreshService ==
  ASSUME TypeInv, BaseInv, AloneInv, OrphanInv, FreshInv, AppendStep(Service) \/ ServiceAlone
  PROVE  FreshInv'
<1>0. Service \in Threads /\ StrandedOK /\ FreshStart /\ \A w \in Workers : FreshIn(w)
  BY DEF Threads, FreshInv
<1>1. \A w \in Workers : pc'[w] = pc[w] /\ loc'[w] = loc[w] /\ To(w)' = To(w)
  <2>1. Unmoved(Service)
    BY <1>0, BaseService, AppendEffect
  <2>2. QED
    BY <2>1, ClientsAssumption DEF Unmoved, To, Threads, ClientsAssumption
<1>2. \A n : pc[Service] = n /\ n \notin AppendPCs => To(Service) = {n}
  BY DEF To, Coming
<1>3. ~Unstart
  <2>1. Unstart => "unstart" \in To(Service) /\ pc[Service] = "unstart"
    BY <1>2 DEF Unstart, AppendPCs
  <2>2. QED
    BY <2>1 DEF OrphanInv, StartOK, AppendPCs
<1>4. stranded' = stranded
  BY <1>0, <1>3, AppendStays, AnswerStays
     DEF ServiceAlone, StartRun, InsertRun, ClearLeases, ClearRuns, daemon
<1>5. ASSUME NEW w \in Workers PROVE FreshIn(w)'
  <2>1. CASE Quiet
    BY <1>1, <2>1, IdleFresh DEF Quiet
  <2>2. CASE ~Quiet
    <3>1. runs' = runs
      BY <2>2, Busy
    <3>2. QED
      BY <1>0, <1>1, <1>4, <3>1 DEF FreshIn
  <2>3. QED
    BY <2>1, <2>2
<1>6. StrandedOK' /\ FreshStart'
  <2>1. CASE AppendStep(Service)
    <3>1. runs' = runs /\ Kept(Service) /\ To(Service)' \subseteq To(Service)
      BY <1>0, <2>1, AppendEffect, BaseAppend
    <3>2. QED
      BY <1>0, <1>4, <3>1 DEF Kept, StrandedOK, FreshStart
  <2>2. CASE Replay \/ Pause \/ ClearFlag \/ Close \/ Reply
    <3>1. /\ runs' = runs
          /\ To(Service)' \in {{"reply"}, {"close"}, {"dispatch", "reply"}, {"idle"}}
      BY <2>2, AnswerEffect DEF Goes, Logs, To, Coming, AppendPCs
    <3>2. QED
      BY <1>0, <1>4, <3>1 DEF StrandedOK, FreshStart
  <2>3. ASSUME NEW r \in Runs, StartRun(r) PROVE StrandedOK' /\ FreshStart'
    <3>1. runs' = runs /\ runs[r].state = "none"
      BY <2>3, StartEffect DEF NewRun
    <3>2. r \notin stranded
      BY <1>0, <3>1 DEF StrandedOK
    <3>3. To(Service)' = {"close"} \/ loc'[Service].run = r
      BY <2>3, StartEffect DEF Goes
    <3>4. QED
      BY <1>0, <1>4, <3>1, <3>2, <3>3 DEF StrandedOK, FreshStart
  <2>4. ASSUME NEW n \in Targets, InsertRun(n) PROVE StrandedOK' /\ FreshStart'
    <3>1. /\ pc[Service] = "insert" /\ loc'[Service].run = loc[Service].run
          /\ \A q \in Runs : q # loc[Service].run => runs'[q] = runs[q]
      BY <2>4, StartEffect DEF Logs, Kept
    <3>2. loc[Service].run \notin stranded
      BY <1>0, <1>2, <3>1 DEF FreshStart, AppendPCs
    <3>3. QED
      BY <1>0, <1>4, <3>1, <3>2 DEF StrandedOK, FreshStart
  <2>5. CASE ClearLeases \/ ClearRuns
    <3>1. /\ To(Service)' \in {{"clearRuns"}, {"clearFlag"}}
          /\ \A r \in Runs : runs'[r] = runs[r] \/ runs'[r].state = "Failed"
      BY <2>5, ClearEffect DEF Goes, ClearRuns, Progress, TypeInv, StoresOK
    <3>2. QED
      BY <1>0, <1>4, <3>1 DEF StrandedOK, FreshStart
  <2>6. QED
    BY <1>3, <2>1, <2>2, <2>3, <2>4, <2>5 DEF ServiceAlone
<1>7. QED
  BY <1>5, <1>6 DEF FreshInv

\* A thread is started, for a new run or to recover the old ones.
LEMMA FreshSpawn ==
  ASSUME TypeInv, BaseInv, AloneInv, EpochInv, FreshInv,
         NEW w \in Workers, SpawnRun(w) \/ Resume(w) \/ Restart(w)
  PROVE  FreshInv'
<1>0. /\ Service \in Threads /\ \A v \in Workers : v \in Threads /\ v # Service
      /\ StrandedOK /\ FreshStart
  BY ClientsAssumption DEF Threads, ClientsAssumption, FreshInv
<1>1. \A v \in Workers : pc[v] = "idle"
  <2>1. CASE SpawnRun(w) \/ Resume(w)
    BY <1>0, <2>1, SpawnEffect, ServiceTo DEF AloneInv, Quiet
  <2>2. CASE Restart(w)
    BY <1>0, <2>2, SpawnEffect DEF BaseInv, DownIdle
  <2>3. QED
    BY <2>1, <2>2
<1>2. runs' = runs /\ stranded' = stranded
  BY SpawnEffect DEF SpawnRun, Resume, Restart, daemon
<1>3. StrandedOK'
  BY <1>0, <1>2 DEF StrandedOK
<1>4. ASSUME NEW v \in Workers, v # w PROVE FreshIn(v)'
  <2>1. pc'[v] = "idle"
    BY <1>0, <1>1, <1>4, SpawnEffect DEF Goes, Unmoved
  <2>2. QED
    BY <2>1, IdleFresh
<1>5. FreshStart'
  <2>1. CASE SpawnRun(w) \/ Resume(w)
    BY <1>0, <2>1, SpawnEffect DEF Goes, FreshStart
  <2>2. CASE Restart(w)
    <3>1. pc'[Service] = "idle"
      BY <1>0, <2>2, SpawnEffect DEF BaseInv, DownIdle, Unmoved
    <3>2. QED
      BY <3>1 DEF FreshStart, To, Coming, AppendPCs
  <2>3. QED
    BY <2>1, <2>2
<1>6. FreshIn(w)'
  <2>1. CASE SpawnRun(w)
    <3>1. /\ pc[Service] = "spawn" /\ To(w)' = {"resume"}
          /\ loc'[w].run = loc[Service].run
      BY <2>1, SpawnEffect
    <3>2. "spawn" \in To(Service)
      BY <3>1 DEF To, Coming, AppendPCs
    <3>3. runs[loc[Service].run].completed = 0 /\ loc[Service].run \notin stranded
      BY <1>0, <3>2 DEF EpochInv, NewOK, FreshStart
    <3>4. QED
      BY <1>2, <3>1, <3>3 DEF FreshIn
  <2>2. CASE To(w)' = {"scan"}
    BY <2>2 DEF FreshIn, Counting, Entering
  <2>3. CASE pc'[w] = "idle"
    BY <2>3, IdleFresh
  <2>4. QED
    BY <1>0, <1>1, <2>1, <2>2, <2>3, SpawnEffect DEF Goes, Unmoved
<1>7. QED
  BY <1>3, <1>4, <1>5, <1>6 DEF FreshInv

LEMMA FreshNext ==
  ASSUME ClientsWait, TypeInv, BaseInv, AloneInv, OverrideInv, OrphanInv, EpochInv, FreshInv,
         [Next]_vars
  PROVE  FreshInv'
<1>0. Service \in Threads /\ \A w \in Workers : w \in Threads /\ w # Service
  BY ClientsAssumption DEF Threads, ClientsAssumption
<1>1. ASSUME NEW w \in Workers, WorkerStep(w) PROVE FreshInv'
  BY <1>1, FreshWorker
<1>2. CASE AppendStep(Service) \/ ServiceAlone
  BY <1>2, FreshService
<1>3. ASSUME NEW w \in Workers, SpawnRun(w) \/ Resume(w) \/ Restart(w) PROVE FreshInv'
  BY <1>3, FreshSpawn
<1>4. ASSUME UNCHANGED <<runs, stranded>>,
             \A w \in Workers : pc'[w] = pc[w] /\ loc'[w] = loc[w],
             To(Service)' \cap {"insert", "spawn"} # {} =>
               To(Service)' = To(Service) /\ loc'[Service] = loc[Service]
      PROVE  FreshInv'
  <2>1. \A w \in Workers : To(w)' = To(w)
    BY <1>4 DEF To
  <2>2. QED
    BY <1>4, <2>1 DEF FreshInv, StrandedOK, FreshStart, FreshIn
<1>5. ASSUME NEW q \in Requests, Receive(q) PROVE FreshInv'
  BY <1>0, <1>4, <1>5, ReceiveEffect DEF Unmoved, Receive, daemon
<1>6. CASE Tick \/ UNCHANGED vars
  <2>1. UNCHANGED <<runs, stranded, pc, loc>>
    BY <1>6, TickEffect DEF Tick, vars, db, daemon
  <2>2. To(Service)' = To(Service)
    BY <2>1 DEF To
  <2>3. QED
    BY <1>4, <2>1, <2>2
<1>7. CASE Crash
  <2>1. /\ stranded' = {}
        /\ \A t \in Threads : pc'[t] = "idle" /\ To(t)' = {"idle"}
    BY <1>7, CrashEffect DEF Crash
  <2>2. QED
    BY <1>0, <2>1, IdleFresh DEF FreshInv, StrandedOK, FreshStart
<1>8. QED
  BY <1>1, <1>2, <1>3, <1>5, <1>6, <1>7 DEF Next, ServiceStep, ServiceAlone

LEMMA FreshInit == Init => FreshInv
<1>. SUFFICES ASSUME Init PROVE FreshInv
  OBVIOUS
<1>1. stranded = {} /\ \A t \in Threads : To(t) = {"idle"}
  BY DEF Init, To, Coming, AppendPCs
<1>2. QED
  BY <1>1 DEF FreshInv, StrandedOK, FreshStart, FreshIn, Counting, Entering, Threads

\* A run that is Running has a driver, or the service is about to start one,
\* however often the daemon is killed and started again, for any number of runs
\* and epochs, if clients wait; the one exception is a run whose own StartRun
\* gave up before the epoch loop, and that run has counted nothing.  Past that
\* point resume_run leaves a run only in another state, and startup_recovery lists
\* every run it may have to go on with before it touches the first.
THEOREM NoRunIsLost ==
  ASSUME ClientsWait
  PROVE  Spec => []NoOrphan
<1>1. "clear" \notin Overlap
  BY DEF ClientsWait
<1>2. /\ TypeInv /\ BaseInv /\ AloneInv /\ OverrideInv /\ OrphanInv /\ EpochInv /\ FreshInv
      /\ [Next]_vars
      => FreshInv'
  BY FreshNext
<1>3. OrphanInv /\ FreshInv => NoOrphan
  BY DEF OrphanInv, FreshInv, StrandedOK, Going, Minded, NoOrphan
<1>. QED
  BY <1>1, <1>2, <1>3, FreshInit, EpochAlways, OverrideAlways, PTL DEF Spec
=============================================================================
