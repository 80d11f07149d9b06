---------------------------- MODULE ApfscSafety ----------------------------
(* What the control plane promises of its runs, stated of ApfscRuns.       *)
EXTENDS ApfscRuns

-----------------------------------------------------------------------------
(* Leases *)

\* The three leases of the epoch critical section go together: whoever has the
\* activation lease has the judge lease, and for as long (leases.rs:107).
LeasesTogether == \A m, n \in LeaseNames : leases[m] = leases[n]

Executing(w) == pc[w] = "epoch"

\* No two threads are inside run_single_epoch, which works on one candidate
\* store and one set of pointers.
ExclusiveEpochs ==
  \A v, w \in Workers : Executing(v) /\ Executing(w) => v = w

-----------------------------------------------------------------------------
(* Runs *)

\* An epoch that the run has counted, or the journal has as committed, is never
\* executed again (recovery.rs:107-174).
NoEpochTwice ==
  [][\A w \in Workers : ~Executing(w) /\ Executing(w)' =>
       LET r == loc'[w].run
           e == loc'[w].epoch IN
       /\ e > runs[r].completed
       /\ EpochMark(r, e) \notin journal]_vars

\* completed_epochs of a run never goes down, over crashes and recoveries.
CompletedNeverDrops ==
  [][\A r \in Runs : runs'[r].completed >= runs[r].completed]_vars

\* A run that an operator has failed with ForceClearRecovery stays failed.
OverrideStays ==
  [][\A r \in Runs : runs[r].state = "Failed" => runs'[r].state = "Failed"]_vars

\* The thread drives the run, or is a recovery that will come to it.
Drives(w, r) ==
  \/ pc[w] = "scan"
  \/ loc[w].run = r
  \/ \E p \in loc[w].todo : p.run = r

\* A run that is Running is driven: a thread has it, the service is about to start
\* one, or the next start of the daemon finds it.  The one exception is a run
\* whose StartRun ended in an error before the epoch loop (recovery.rs:267), and it
\* has counted nothing: whatever goes wrong later, a kill included, no run that has
\* begun is left behind (recovery.rs:74-193, 255-440).
NoOrphan ==
  \A r \in Runs : runs[r].state = "Running" /\ up =>
    \/ loc[Service].run = r
    \/ \E w \in Workers : Drives(w, r)
    \/ r \in stranded /\ runs[r].completed = 0

\* A request that a client has seen succeed is not carried out a second time.
IdempotentRetry ==
  pc[Service] = "dispatch" => loc[Service].req \notin answered

\* A run that is Running comes to an end or is left for a recovery, unless it was
\* given up by a StartRun that ended in an error before the epoch loop
\* (recovery.rs:267) or by a recovery that did before it came to the run
\* (recovery.rs:110-185).
RunsLeaveRunning ==
  \A r \in Runs :
    runs[r].state = "Running" ~> (runs[r].state # "Running" \/ r \in stranded)
=============================================================================
