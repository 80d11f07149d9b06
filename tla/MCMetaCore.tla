----------------------------- MODULE MCMetaCore -----------------------------
(* Instances of the activation engine for TLC.                             *)
EXTENDS MetaCoreSafety, TLC

CONSTANTS root, left, right, leaf, p1, p2

\* A root bundle with two children, one of which has a child of its own.
TreeBundles == {root, left, right, leaf}
TreeParent  == root :> Null @@ left :> root @@ right :> root @@ leaf :> left

\* A root and its two children.
ForkBundles == {root, left, right}
ForkParent  == root :> Null @@ left :> root @@ right :> root

\* The bundles the kernel accepts when it does not accept all of them.
LineBundles == {root, left, leaf}

OneProc  == {p1}
TwoProcs == {p1, p2}

Everything     == AllCommands
ApplyAudit     == {"apply", "audit"}
Operations     == {"apply", "rollback", "audit"}
BothFailpoints == {"AFTER_PREV_WRITE", "AFTER_NEXT_WRITE"}
None           == {}
=============================================================================
