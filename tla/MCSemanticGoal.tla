---------------------------- MODULE MCSemanticGoal ----------------------------
(* Instance of SemanticGoal for TLC: the second version of a photo is one   *)
(* the signature cannot tell from the first, the third has another time.    *)
EXTENDS SemanticGoal

CONSTANTS p1, p2

Sizes == [v \in Versions |-> 1]
Times == [v \in Versions |-> IF v <= 2 THEN 1 ELSE 2]
TwoWindows == {{1}, {1, 2}}

\* What ReportedReplicated needs of the versions.
ASSUME InstanceSettles == SizesSettle
=============================================================================
