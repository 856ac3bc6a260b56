--------------------------- MODULE MCAnalysisTasks ---------------------------
(* Instances of AnalysisTasks for TLC: two projects, three tasks. *)
EXTENDS AnalysisTasks, TLC

CONSTANTS p1, p2, t1, t2, t3

TasksOfTwo == t1 :> p1 @@ t2 :> p1 @@ t3 :> p2

TasksOfOne == t1 :> p1 @@ t2 :> p1

Symmetry == Permutations(Workers) \cup Permutations(Handlers)
=============================================================================
