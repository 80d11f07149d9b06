--------------------------- MODULE MetaCoreSafety ---------------------------
(***************************************************************************)
(* What the activation engine of meta-core guarantees, and what its        *)
(* documentation says of it.  The invariants and action properties that    *)
(* hold only between commands speak of quiescent states; the README says   *)
(* under which commands, crashes and numbers of processes each one holds.  *)
(***************************************************************************)
EXTENDS MetaCoreActivation

Quiescent == \A p \in Procs : pc[p] = "idle"

\* Commands do not overlap: there is one process, or every command takes the lock.
Serialized == (\A p, q \in Procs : p = q) \/ EnabledCommands \subseteq LockedCommands

\* The process finishes its command in this step with this exit code.
Exits(p, code) == pc[p] # "idle" /\ pc'[p] = "idle" /\ result'[p] = code

\* The last entry of the ledger that names a bundle being swapped in.
LastSwap ==
  LET swaps == {i \in 1..Len(ledger) : ledger[i].body.action # "REGIME_UPGRADE"}
  IN  ledger[CHOOSE i \in swaps : \A j \in swaps : j <= i].body

-----------------------------------------------------------------------------
(* State invariants *)

\* The ledger is a valid hash chain at every moment, also in the middle of a
\* command and after a crash (ledger.py validate_chain, append_entry_crash_safe).
LedgerChainValid == ValidChain(ledger)

\* The directories of the active bundle and of the bundle a rollback would
\* restore are in the store before a pointer names them (commit_staged calls
\* store_bundle before it writes a pointer), whatever command dies where.
PointersInStore ==
  \A b \in {active, prevActive} \cap Bundles : stored[b] # "none"

\* Whatever dies where, one rollback crosses at most one generation: the bundle
\* in PREV_ACTIVE_BUNDLE is the parent or a child of the active one, or the
\* active one itself (commit_staged and rollback_active write PREV first).
RollbackIsOneGeneration ==
  (active \in Bundles /\ prevActive \in Bundles) =>
    \/ prevActive = active
    \/ prevActive = Parent[active]
    \/ active = Parent[prevActive]

\* Only bundles the kernel accepts become active, and only on top of accepted
\* ones (apply runs verify_staged and canary_staged before commit_staged).
OnlyAcceptedActive ==
  active \in Bundles => /\ active \in Valid
                        /\ Parent[active] \in Valid \cup {Null}

\* Between commands the kernel would give the active bundle its receipt again:
\* copy, receipt and parent are complete in the store and the ledger is a valid
\* chain (what audit_active checks behind ACTIVE_NEXT_BUNDLE).
ActiveAuditable ==
  (Quiescent /\ active # Absent) =>
    /\ receipts[active] = "valid"
    /\ ParentPresent(active)
    /\ KernelAccepts(active, stored[active])
    /\ ValidChain(ledger)

\* Between commands the last swap in the ledger is the one on disk: the ledger
\* "records every commit and rollback" (SOURCE_OF_TRUTH.md:2230).
LedgerRecordsPointers ==
  (Quiescent /\ ledger # <<>>) =>
    /\ LastSwap.active = active
    /\ LastSwap.prev = prevActive

-----------------------------------------------------------------------------
(* Action properties *)

\* The ledger only ever grows at its end, by one entry at a time.
LedgerAppendOnly ==
  [][\/ ledger' = ledger
     \/ /\ Len(ledger') = Len(ledger) + 1
        /\ SubSeq(ledger', 1, Len(ledger)) = ledger]_ledger

\* The active bundle is only replaced by one of its children or by the bundle a
\* rollback has just exchanged it with: a commit swaps only if the parent still
\* matches (CheckParent is two file writes before WriteActive).
SwapFollowsParent ==
  [][\/ active' = active
     \/ active = Absent /\ Parent[active'] = Null
     \/ active # Absent /\ (Parent[active'] = active \/ Parent[active] = active')]_active

\* A commit, apply, upgrade or rollback that reports success leaves pointers and
\* ledger in agreement, whatever crashed before it: ACTIVE_NEXT_BUNDLE is the
\* active bundle and the last swap in the ledger is this one.
SuccessReconciles ==
  [][\A p \in Procs :
       (cmd[p] \in {"commit", "apply", "upgrade", "rollback"} /\ Exits(p, "ok")) =>
         /\ active' = loc[p].bundle
         /\ activeNext' = active'
         /\ ledger' # <<>>
         /\ LastSwap'.active = active'
         /\ LastSwap'.prev = prevActive']_vars

\* An audit finds fault only after a crash or before the first activation: it
\* never sees the middle of somebody's swap.
AuditNoFalseAlarm ==
  [][\A p \in Procs :
       (cmd[p] = "audit" /\ \E code \in {"invalid", "error"} : Exits(p, code)) =>
         active = Absent \/ crashes > 0]_vars

-----------------------------------------------------------------------------
(* Liveness, under FairSpec *)

\* A command that has the lock, or needs none, ends, whatever the others do and
\* wherever they die, and keeps no lock (apply releases it on every path).
CommandsFinish ==
  \A p \in Procs :
    pc[p] \notin {"idle", "lock"} ~> (pc[p] = "idle" /\ lock # p)

-----------------------------------------------------------------------------
(* The engine implements the atomic history.  A swap takes effect when the    *)
(* previous pointer has been written: from then on the process carries the    *)
(* bundle to activate and the ledger entry still to be appended.              *)

Swapping(p) ==
  /\ pc[p] \in {"active", "next", "receipt", "tail", "append", "publish"}
  /\ loc[p].action # "REGIME_UPGRADE"

Strip(body) == [action |-> body.action, active |-> body.active, prev |-> body.prev]

Recorded == [i \in 1..Len(ledger) |-> Strip(ledger[i].body)]

Pending == {p \in Procs : Swapping(p)}

Carrier == loc[CHOOSE p \in Pending : TRUE]

Atomic == INSTANCE ActivationHistory WITH
  current  <- IF Pending = {} THEN active ELSE Carrier.bundle,
  previous <- prevActive,
  history  <- IF Pending = {} THEN Recorded
              ELSE Append(Recorded, [action |-> Carrier.action,
                                     active |-> Carrier.bundle,
                                     prev   |-> Carrier.old])

\* With one command at a time and no crash, every commit, rollback and regime
\* upgrade is one step of the atomic history.
ImplementsHistory == Atomic!HistorySpec
=============================================================================
