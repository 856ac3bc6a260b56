----------------------------- MODULE MCChatTasks -----------------------------
(* Instances of ChatTasks for TLC. *)
EXTENDS ChatTasks, TLC

CONSTANTS p1, p2

Symmetry == Permutations(Posts)
=============================================================================
