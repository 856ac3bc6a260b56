---------------------------- MODULE TaskLifecycle ----------------------------
(***************************************************************************)
(* What a task manager of the seaqa_io process promises the client that    *)
(* submits a task and then polls for its result (seaqa_io/tasks and the    *)
(* two status endpoints of seaqa_io/server.py):                            *)
(*                                                                         *)
(*   - a task is accepted once, finished at most once, and its result is   *)
(*     handed over at most once;                                           *)
(*   - what the client hears is what the worker recorded;                  *)
(*   - "task_id not found." is never the answer while the task is waiting  *)
(*     or running: only a finished task can be missed, or one that a       *)
(*     restart of the process has forgotten.                               *)
(***************************************************************************)
CONSTANTS Tasks

VARIABLES
  status,   \* what the process knows of a task
  heard     \* the last definite answer its client got

vars == <<status, heard>>

Results  == {"ok", "failed"}
Statuses == {"none", "pending", "delivered", "lost"} \cup Results
Answers  == {"none", "waiting", "rejected", "notfound", "error"} \cup Results

TypeOK ==
  /\ status \in [Tasks -> Statuses]
  /\ heard \in [Tasks -> Answers]

Init ==
  /\ status = [t \in Tasks |-> "none"]
  /\ heard = [t \in Tasks |-> "none"]

\* The service turns the request down (full queue, busy project).
Reject(t) ==
  /\ status[t] = "none" /\ heard[t] = "none"
  /\ heard' = [heard EXCEPT ![t] = "rejected"]
  /\ UNCHANGED status

\* The task is registered; the client does not know its id yet.
Accept(t) ==
  /\ status[t] = "none" /\ heard[t] = "none"
  /\ status' = [status EXCEPT ![t] = "pending"]
  /\ UNCHANGED heard

\* The client receives the task id and starts polling.
Acknowledge(t) ==
  /\ status[t] # "none" /\ heard[t] = "none"
  /\ heard' = [heard EXCEPT ![t] = "waiting"]
  /\ UNCHANGED status

Finish(t, r) ==
  /\ status[t] = "pending"
  /\ status' = [status EXCEPT ![t] = r]
  /\ UNCHANGED heard

Deliver(t) ==
  /\ status[t] \in Results /\ heard[t] = "waiting"
  /\ heard' = [heard EXCEPT ![t] = status[t]]
  /\ status' = [status EXCEPT ![t] = "delivered"]

Miss(t) ==
  /\ status[t] \in Results \cup {"lost"} /\ heard[t] = "waiting"
  /\ heard' = [heard EXCEPT ![t] = "notfound"]
  /\ UNCHANGED status

\* The process restarts: its memory is gone, open requests break off.
Restart(broken) ==
  /\ \A t \in broken : heard[t] \in {"none", "waiting"}
  /\ heard' = [t \in Tasks |-> IF t \in broken THEN "error" ELSE heard[t]]
  /\ status' = [t \in Tasks |-> IF status[t] \in {"none", "delivered"}
                                THEN status[t] ELSE "lost"]

Next ==
  \/ \E t \in Tasks :
       \/ Reject(t) \/ Accept(t) \/ Acknowledge(t) \/ Deliver(t) \/ Miss(t)
       \/ \E r \in Results : Finish(t, r)
  \/ \E broken \in SUBSET Tasks : Restart(broken)

Spec == Init /\ [][Next]_vars
=============================================================================
