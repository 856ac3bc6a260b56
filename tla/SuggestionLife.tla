---------------------------- MODULE SuggestionLife ----------------------------
(***************************************************************************)
(* The life of the suggestions an agent makes, as the confirm and the      *)
(* auto-execute endpoints describe it (seahub/project/agent/agent.py):     *)
(* a pending suggestion is moved to executing before its side effects; its *)
(* operation is performed at most once, while it is executing; executed    *)
(* means performed; only pending and failed suggestions are cancelled; a   *)
(* suggestion goes back to pending only if nothing was done.               *)
(***************************************************************************)
CONSTANTS Actions

VARIABLES state, done

vars == <<state, done>>

Live == {"pending", "executing", "executed", "failed", "cancelled"}

Init ==
  /\ state \in [Actions -> {"unused", "pending"}]
  /\ done = [a \in Actions |-> FALSE]

Move(S, s) == /\ state' = [a \in Actions |-> IF a \in S THEN s ELSE state[a]]
              /\ UNCHANGED done

Propose(S) == (\A a \in S : state[a] = "unused") /\ Move(S, "pending")

Take(a) == state[a] = "pending" /\ Move({a}, "executing")

Perform(a) ==
  /\ state[a] = "executing" /\ ~done[a]
  /\ done' = [done EXCEPT ![a] = TRUE]
  /\ UNCHANGED state

Conclude(a) ==
  /\ state[a] = "executing"
  /\ \/ done[a] /\ Move({a}, "executed")
     \/ Move({a}, "failed")
     \/ ~done[a] /\ Move({a}, "pending")

Withdraw(S) == (\A a \in S : state[a] \in {"pending", "failed"}) /\ Move(S, "cancelled")

\* Regenerated suggestions replace the old ones of a run.
Replace(S) == (\A a \in S : state[a] \in Live) /\ Move(S, "deleted")

Next ==
  \/ \E a \in Actions : Take(a) \/ Perform(a) \/ Conclude(a)
  \/ \E S \in SUBSET Actions : Propose(S) \/ Withdraw(S) \/ Replace(S)

Spec == Init /\ [][Next]_vars
=============================================================================
