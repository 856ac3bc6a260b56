---------------------------- MODULE MCTicketLinks ----------------------------
(* An instance of TicketLinks for TLC. *)
EXTENDS TicketLinks, TLC

CONSTANTS t1, t2, r1, r2, q1, q2

\* Both records are of one connection.
SameConnection == [r \in Records |-> "email"]

Symmetry == Permutations(Tickets) \cup Permutations(Records) \cup Permutations(Requests)
=============================================================================
