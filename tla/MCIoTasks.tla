------------------------------ MODULE MCIoTasks ------------------------------
(* Instances of IoTasks for TLC. *)
EXTENDS IoTasks, TLC
=============================================================================
