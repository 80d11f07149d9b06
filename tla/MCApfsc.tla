------------------------------ MODULE MCApfsc ------------------------------
(* Instances of the APFSC control plane for TLC.                           *)
EXTENDS ApfscSafety, TLC

CONSTANTS start1, start2, resume, clear, pause, w1, w2

OneWorker  == {w1}
TwoWorkers == {w1, w2}

CommandOf == start1 :> "start" @@ start2 :> "start" @@ resume :> "resume"
               @@ clear :> "clear" @@ pause :> "pause"

Starts      == {start1, start2, pause}
Operator    == {start1, resume, clear}
Start       == {start1}
StartClear  == {start1, clear}
KindOf(reqs) == [q \in reqs |-> CommandOf[q]]
StartsKind   == KindOf(Starts)
OperatorKind == KindOf(Operator)
StartKind    == KindOf(Start)
StartClearKind == KindOf(StartClear)

StartOnly  == {"start"}
StartOrClear == {"start", "clear"}
Nothing    == {}

One     == {1}
ZeroTwo == {0, 2}
WorkerSymmetry == Permutations(TwoWorkers)
=============================================================================
