------------------------- MODULE ActivationHistory --------------------------
(***************************************************************************)
(* What meta-core promises of an activation: the active bundle, the bundle *)
(* a rollback restores and the log of activations change together.  A      *)
(* bundle is committed on top of its parent, a rollback exchanges the two  *)
(* bundles, and a regime upgrade marks the bundle it has just committed.   *)
(***************************************************************************)
EXTENDS Sequences

CONSTANTS Bundles, Parent, Null, Absent

VARIABLES
  current,  \* the active bundle, Absent before the first activation
  previous, \* the bundle a rollback restores
  history   \* what has been activated, oldest first

historyVars == <<current, previous, history>>

Record(action, bundle, old) == [action |-> action, active |-> bundle, prev |-> old]

\* A commit replaces the parent of the bundle, or nothing for a root bundle.
Commit(b) ==
  LET old == IF current = Absent THEN Null ELSE current IN
  /\ Parent[b] = old
  /\ current' = b
  /\ previous' = old
  /\ history' = Append(history, Record("COMMIT", b, old))

\* A rollback exchanges the active bundle and the one before it.
Rollback ==
  /\ current \in Bundles
  /\ previous \in Bundles
  /\ current' = previous
  /\ previous' = current
  /\ history' = Append(history, Record("ROLLBACK", previous, current))

\* A regime upgrade is recorded right after the commit it is made of.
MarkUpgrade ==
  /\ history # <<>>
  /\ history[Len(history)] = Record("COMMIT", current, previous)
  /\ history' = Append(history, Record("REGIME_UPGRADE", current, Absent))
  /\ UNCHANGED <<current, previous>>

HistoryInit ==
  /\ current \in Bundles \cup {Absent}
  /\ previous \in Bundles \cup {Absent}
  /\ history = <<>>

HistoryNext == (\E b \in Bundles : Commit(b)) \/ Rollback \/ MarkUpgrade

HistorySpec == HistoryInit /\ [][HistoryNext]_historyVars
=============================================================================
