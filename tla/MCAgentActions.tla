---------------------------- MODULE MCAgentActions ----------------------------
(* Instances of AgentActions for TLC. *)
EXTENDS AgentActions, TLC

CONSTANTS r1, r2

\* Every suggestion belongs to one run; or the second to a run of its own.
OneRun == [a \in Actions |-> r1]
TwoRuns == [a \in Actions |-> IF a = 2 THEN r2 ELSE r1]

Symmetry == Permutations(Requests)
=============================================================================
