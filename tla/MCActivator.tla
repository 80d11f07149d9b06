----------------------------- MODULE MCActivator -----------------------------
(* Instances of the omega activator over meta-core for TLC.                *)
EXTENDS OmegaActivator, TLC

CONSTANTS root, left, right, leaf, d1, d2, s3, op1, op2, k0, k1, k2

\* The bundle the daemon starts from, two bundles of different campaigns built
\* on it, and a second one of the first campaign's capability on the left one.
TreeBundles == {root, left, right, leaf}
TreeParent  == root :> Null @@ left :> root @@ right :> root @@ leaf :> left
TreeKey     == root :> k0 @@ left :> k1 @@ right :> k2 @@ leaf :> k2
TwoOps      == root :> op1 @@ left :> op1 @@ right :> op1 @@ leaf :> op2
Modules     == {left, leaf}

OneProc    == {d1}
TwoProcs   == {d1, d2}
ThreeProcs == {d1, d2, s3}
Commands   == {"apply", "rollback", "verify"}
Verifies   == {"verify"}
None       == {}
=============================================================================
