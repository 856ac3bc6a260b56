---------------------------- MODULE MCLiveUpdates ----------------------------
(* Instances of LiveUpdates for TLC. *)
EXTENDS LiveUpdates, TLC

CONSTANTS p, q, c1, c2, c3, home

\* Two components of one project, one of another, and the home page.
MCProjectOf == c1 :> p @@ c2 :> p @@ c3 :> q @@ home :> None
=============================================================================
