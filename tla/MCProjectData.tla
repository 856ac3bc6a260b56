---------------------------- MODULE MCProjectData ----------------------------
(* Instances of ProjectData for TLC. *)
EXTENDS ProjectData
=============================================================================
