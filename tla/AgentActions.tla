----------------------------- MODULE AgentActions -----------------------------
(***************************************************************************)
(* The suggestions of agent runs and the requests that work on them:       *)
(* seahub/project/agent/agent.py (confirm, auto-execute, edit, cancel,     *)
(* cancel all, materialize) and the helpers of seahub/project/agent/       *)
(* utils.py.                                                               *)
(*                                                                         *)
(* Runs and suggestions are rows of SeaDB, which has no transactions: a    *)
(* request is a sequence of single calls, and between two of them any      *)
(* other request may make its own.  One action of this module is one call  *)
(* (or the execution of a suggestion) together with the Python around it.  *)
(***************************************************************************)
EXTENDS Naturals, FiniteSets, FiniteSetsExt

CONSTANTS
  Runs,      \* agent runs of one log item
  Actions,   \* primary keys of suggestion rows, in insertion order
  RunOf,     \* the run a suggestion belongs to
  Requests,  \* threads of the web server
  Ops,       \* the kinds of requests that are made
  PageSize,  \* rows per page of "cancel all" (100 in the code)
  QueryCap,  \* rows SeaDB returns for a query without LIMIT (100)
  Placeholders, \* what stands for the summary of a run that failed or is not finished
  CanFail,   \* calls of SeaDB may fail
  CanCrash,  \* web processes may die
  None       \* no action

ASSUME ActionsAssumption == Actions \subseteq Nat \ {0} /\ IsFiniteSet(Actions)
ASSUME RunsAssumption == Runs # {}
ASSUME RunOfAssumption == RunOf \in [Actions -> Runs]
ASSUME NoneAssumption == None \notin Actions
ASSUME BoundAssumption == PageSize \in Nat \ {0} /\ QueryCap \in Nat \ {0}
ASSUME FailAssumption == CanFail \in BOOLEAN /\ CanCrash \in BOOLEAN

VARIABLES
  status,              \* status column of a suggestion row; "unused" before, "deleted" after
  content,             \* its suggestion_content: as generated or as edited
  run_status,          \* status column of a run row
  suggestions_status,  \* suggestions_status column of a run row
  request,             \* per thread: the request it serves, see Request below
  performed,           \* the content the operation of a suggestion was performed with
  disturbed            \* a call has failed or a process died

rows == <<status, content>>
runRows == <<run_status, suggestions_status>>
outside == <<performed, disturbed>>
vars == <<status, content, run_status, suggestions_status, request, performed, disturbed>>

Live      == {"pending", "executing", "executed", "failed", "cancelled"}
Statuses  == Live \cup {"unused", "deleted"}
Contents  == {"generated", "edited"}
Summaries == {"none", "pending", "failed", "resolved"}
Stored    == Summaries \cup {""}
ASSUME PlaceholdersAssumption == Placeholders \subseteq Stored
Outcomes  == {"executed", "failed", "pending"}
Kinds     == {"confirm", "auto", "edit", "cancel", "cancelall", "materialize"}

Pcs == {"idle", "next", "read", "start", "execute", "finish", "edit", "cancel",
        "select", "cancelpage", "each", "load", "query", "insert", "delete",
        "final", "refresh", "store"}

\* What a request remembers between two calls.
Request ==
  [op : Kinds \cup {"none"}, pc : Pcs,
   act : Actions \cup {None},     \* the suggestion in hand
   seen : Contents,               \* its content as read
   outcome : Outcomes,            \* what its execution ended with
   todo : SUBSET Actions,         \* batch still to do, page to cancel, rows to delete
   cursor : Nat,                  \* "cancel all": last primary key seen, 0 for none yet
   allowed : BOOLEAN,             \* auto-execute: may the tool run, by the settings read first
   run : Runs,                    \* the run to refresh
   runs : SUBSET Runs,            \* "cancel all": the runs still to refresh
   read : Summaries,              \* refresh: the summary of the statuses read
   then : Pcs]                    \* refresh: where to go on

Idle ==
  [op |-> "none", pc |-> "idle", act |-> None, seen |-> "generated", outcome |-> "pending",
   todo |-> {}, cursor |-> 0, allowed |-> FALSE, run |-> CHOOSE r \in Runs : TRUE,
   runs |-> {}, read |-> "none", then |-> "idle"]

\* The types of the variables.
TypeOK ==
  /\ status \in [Actions -> Statuses]
  /\ content \in [Actions -> Contents]
  /\ run_status \in [Runs -> {"running", "completed", "failed"}]
  /\ suggestions_status \in [Runs -> Stored]
  /\ request \in [Requests -> Request]
  /\ performed \in [Actions -> Contents \cup {"never", "again"}]
  /\ disturbed \in BOOLEAN

-----------------------------------------------------------------------------
Rows(r) == {a \in Actions : RunOf[a] = r /\ status[a] \in Live}

StatusesOf(r) == {status[a] : a \in Rows(r)}

\* _calculate_suggestions_status
Summary(S) ==
  IF S = {} THEN "none"
  ELSE IF S \cap {"pending", "executing"} # {} THEN "pending"
  ELSE IF "failed" \in S THEN "failed"
  ELSE "resolved"

\* A query without LIMIT returns the first rows only.
Lowest(S, n) == {a \in S : Cardinality({b \in S : b < a}) < n}

\* The seaqa-ai service has created the runs and their suggestions, and summed up the
\* suggestions of those it completed.  What it stored for a run that is not finished is
\* not final, and for one that failed it "can be a placeholder" (utils.py:365).
Init ==
  /\ status \in [Actions -> {"unused", "pending"}]
  /\ \A a, b \in Actions : a < b /\ status[b] = "pending" => status[a] = "pending"
  /\ content = [a \in Actions |-> "generated"]
  /\ run_status \in [Runs -> {"running", "completed", "failed"}]
  /\ suggestions_status \in [Runs -> Stored]
  /\ \A r \in Runs : suggestions_status[r] \in
       IF run_status[r] = "completed" THEN {Summary(StatusesOf(r))} ELSE Placeholders
  /\ request = [q \in Requests |-> Idle]
  /\ performed = [a \in Actions |-> "never"]
  /\ disturbed = FALSE

At(q, op, pc) == request[q].pc = pc /\ request[q].op \in op

Goto(q, pc) == request' = [request EXCEPT ![q].pc = pc]

Done(q) == request' = [request EXCEPT ![q] = Idle]

\* The next thing is refresh_run_suggestions_status_safely of run r.
Refresh(q, r, then) ==
  request' = [request EXCEPT ![q].pc = "refresh", ![q].run = r, ![q].then = then]

\* update_rows leaves a row alone that is no longer there.
Write(S, s) ==
  status' = [a \in Actions |-> IF a \in S /\ status[a] \in Live THEN s ELSE status[a]]

-----------------------------------------------------------------------------
(* _refresh_run_suggestions_status: one query, one update.                 *)

\* The summary read is handed back; only materialize uses it again.
Resume(q) ==
  IF request[q].then = "idle" THEN Done(q)
  ELSE request' = [request EXCEPT
         ![q].pc = request[q].then,
         ![q].read = IF request[q].op = "materialize" THEN @ ELSE "none"]

RefreshRead(q) ==
  /\ request[q].pc = "refresh"
  /\ request' = [request EXCEPT ![q].pc = "store",
                   ![q].read = Summary(StatusesOf(request[q].run))]
  /\ UNCHANGED <<rows, runRows, outside>>

RefreshStore(q) ==
  /\ request[q].pc = "store"
  /\ suggestions_status' = [suggestions_status EXCEPT ![request[q].run] = request[q].read]
  /\ Resume(q)
  /\ UNCHANGED <<rows, run_status, outside>>

\* The safe variant logs the error of a failed call and goes on; materialize
\* uses the other one.
RefreshFails(q) ==
  /\ CanFail
  /\ request[q].pc \in {"refresh", "store"} /\ request[q].op # "materialize"
  /\ Resume(q)
  /\ disturbed' = TRUE
  /\ UNCHANGED <<rows, runRows, performed>>

-----------------------------------------------------------------------------
(* Confirm and auto-execute.                                               *)

Begin(q, op) ==
  /\ op \in Ops /\ request[q].pc = "idle"
  /\ UNCHANGED <<rows, runRows, outside>>

BeginConfirm(q, a) ==
  /\ Begin(q, "confirm") /\ status[a] # "unused"
  /\ request' = [request EXCEPT ![q] = [Idle EXCEPT !.op = "confirm", !.pc = "read", !.act = a]]

\* The settings are read once, before the batch.
BeginAuto(q, S, allowed) ==
  /\ Begin(q, "auto") /\ S # {} /\ \A a \in S : status[a] # "unused"
  /\ request' = [request EXCEPT ![q] =
       [Idle EXCEPT !.op = "auto", !.pc = "next", !.todo = S, !.allowed = allowed]]

NextOfBatch(q) ==
  /\ At(q, {"auto"}, "next")
  /\ IF request[q].todo = {} THEN Done(q)
     ELSE \E a \in request[q].todo :
            request' = [request EXCEPT ![q] =
              [Idle EXCEPT !.op = "auto", !.pc = "read", !.act = a,
                           !.todo = request[q].todo \ {a}, !.allowed = request[q].allowed]]
  /\ UNCHANGED <<rows, runRows, outside>>

\* Faulty variant for the checks: a failed suggestion may be taken up again.
ReadToRetry(q) ==
  LET a == request[q].act IN
  /\ At(q, {"confirm", "auto"}, "read")
  /\ IF status[a] \in {"pending", "failed"}
     THEN request' = [request EXCEPT ![q].pc = "start", ![q].seen = content[a]]
     ELSE Done(q)
  /\ UNCHANGED <<rows, runRows, outside>>

\* Only a pending suggestion is taken up; its content is read with its status.
ReadToExecute(q) ==
  LET a == request[q].act
      auto == request[q].op = "auto"
  IN
  /\ At(q, {"confirm", "auto"}, "read")
  /\ IF status[a] = "pending" /\ (auto => request[q].allowed)
     THEN request' = [request EXCEPT ![q].pc = "start", ![q].seen = content[a]]
     ELSE IF ~auto THEN Done(q)
     ELSE IF status[a] = "deleted" THEN Goto(q, "next")
     ELSE Refresh(q, RunOf[a], "next")
  /\ UNCHANGED <<rows, runRows, outside>>

\* The status is written without looking at it again.
Start(q) ==
  /\ request[q].pc = "start"
  /\ Write({request[q].act}, "executing")
  /\ Refresh(q, RunOf[request[q].act], "execute")
  /\ UNCHANGED <<content, runRows, outside>>

Perform(q) ==
  performed' = [performed EXCEPT ![request[q].act] =
                  IF @ = "never" THEN request[q].seen ELSE "again"]

\* execute_action performs the operation (a reply, a label, a ticket); or it
\* fails, before the operation or after it; or it asks for a mapping of the
\* issue type before it does anything.
Execute(q, outcome) ==
  /\ request[q].pc = "execute"
  /\ \/ outcome \in {"executed", "failed"} /\ Perform(q)
     \/ outcome \in {"failed", "pending"} /\ UNCHANGED performed
  /\ request' = [request EXCEPT ![q].pc = "finish", ![q].outcome = outcome]
  /\ UNCHANGED <<rows, runRows, disturbed>>

\* Faulty variant for the checks: a suggestion that needs a mapping is not given back.
FinishUnlessMapping(q) ==
  /\ request[q].pc = "finish"
  /\ IF request[q].outcome = "pending" THEN UNCHANGED status
     ELSE Write({request[q].act}, request[q].outcome)
  /\ Refresh(q, RunOf[request[q].act], IF request[q].op = "auto" THEN "next" ELSE "idle")
  /\ UNCHANGED <<content, runRows, outside>>

\* Faulty variant for the checks: the outcome of the execution is not looked at.
FinishAsDone(q) ==
  /\ request[q].pc = "finish"
  /\ Write({request[q].act}, "executed")
  /\ Refresh(q, RunOf[request[q].act], IF request[q].op = "auto" THEN "next" ELSE "idle")
  /\ UNCHANGED <<content, runRows, outside>>

Finish(q) ==
  /\ request[q].pc = "finish"
  /\ Write({request[q].act}, request[q].outcome)
  /\ Refresh(q, RunOf[request[q].act], IF request[q].op = "auto" THEN "next" ELSE "idle")
  /\ UNCHANGED <<content, runRows, outside>>

ExecuteSuggestions(q) ==
  \/ NextOfBatch(q) \/ ReadToExecute(q) \/ Start(q) \/ Finish(q)
  \/ \E outcome \in Outcomes : Execute(q, outcome)

-----------------------------------------------------------------------------
(* Edit and cancel one suggestion.                                         *)

BeginChange(q, op, a) ==
  /\ Begin(q, op) /\ status[a] # "unused"
  /\ request' = [request EXCEPT ![q] = [Idle EXCEPT !.op = op, !.pc = "read", !.act = a]]

\* Faulty variant for the checks: any suggestion can be edited.
ReadAny(q) ==
  /\ At(q, {"edit", "cancel"}, "read")
  /\ IF status[request[q].act] = "pending" \/ request[q].op = "edit"
     THEN Goto(q, request[q].op) ELSE Done(q)
  /\ UNCHANGED <<rows, runRows, outside>>

ReadToChange(q) ==
  /\ At(q, {"edit", "cancel"}, "read")
  /\ IF status[request[q].act] = "pending" THEN Goto(q, request[q].op) ELSE Done(q)
  /\ UNCHANGED <<rows, runRows, outside>>

Edit(q) ==
  /\ request[q].pc = "edit"
  /\ content' = [content EXCEPT ![request[q].act] =
                   IF status[request[q].act] \in Live THEN "edited" ELSE @]
  /\ Done(q)
  /\ UNCHANGED <<status, runRows, outside>>

\* Faulty variant for the checks: the summary is not refreshed.
CancelQuietly(q) ==
  /\ request[q].pc = "cancel"
  /\ Write({request[q].act}, "cancelled")
  /\ Done(q)
  /\ UNCHANGED <<content, runRows, outside>>

Cancel(q) ==
  /\ request[q].pc = "cancel"
  /\ Write({request[q].act}, "cancelled")
  /\ Refresh(q, RunOf[request[q].act], "idle")
  /\ UNCHANGED <<content, runRows, outside>>

-----------------------------------------------------------------------------
(* Cancel all suggestions of the log item that are pending or have failed,  *)
(* page by page in the order of their keys, then refresh their runs.       *)

BeginCancelAll(q) ==
  /\ Begin(q, "cancelall")
  /\ request' = [request EXCEPT ![q] = [Idle EXCEPT !.op = "cancelall", !.pc = "select"]]

SelectPage(q) ==
  LET page == Lowest({a \in Actions : a > request[q].cursor /\ status[a] \in {"pending", "failed"}},
                     PageSize)
  IN
  /\ At(q, {"cancelall"}, "select")
  /\ request' = [request EXCEPT ![q].todo = page,
                   ![q].pc = IF page = {} THEN "each" ELSE "cancelpage"]
  /\ UNCHANGED <<rows, runRows, outside>>

\* Faulty variant for the checks: a full page is taken for the last one.
CancelFirstPage(q) ==
  LET page == request[q].todo IN
  /\ At(q, {"cancelall"}, "cancelpage")
  /\ Write(page, "cancelled")
  /\ request' = [request EXCEPT
       ![q].runs = @ \cup {RunOf[a] : a \in page}, ![q].todo = {}, ![q].pc = "each"]
  /\ UNCHANGED <<content, runRows, outside>>

CancelPage(q) ==
  LET page == request[q].todo IN
  /\ At(q, {"cancelall"}, "cancelpage")
  /\ Write(page, "cancelled")
  /\ request' = [request EXCEPT
       ![q].runs = @ \cup {RunOf[a] : a \in page}, ![q].todo = {},
       ![q].cursor = Max(page),
       ![q].pc = IF Cardinality(page) < PageSize THEN "each" ELSE "select"]
  /\ UNCHANGED <<content, runRows, outside>>

\* Faulty variant for the checks: a run that was refreshed is not struck off.
RefreshForEver(q) ==
  /\ At(q, {"cancelall"}, "each")
  /\ IF request[q].runs = {} THEN Done(q)
     ELSE \E r \in request[q].runs : Refresh(q, r, "each")
  /\ UNCHANGED <<rows, runRows, outside>>

RefreshEach(q) ==
  /\ At(q, {"cancelall"}, "each")
  /\ IF request[q].runs = {} THEN Done(q)
     ELSE \E r \in request[q].runs :
            request' = [request EXCEPT ![q].pc = "refresh", ![q].run = r, ![q].then = "each",
                          ![q].runs = @ \ {r}]
  /\ UNCHANGED <<rows, runRows, outside>>

-----------------------------------------------------------------------------
(* Materialize: replace the suggestions of a run by regenerated ones.      *)

BeginMaterialize(q, r) ==
  /\ Begin(q, "materialize")
  /\ request' = [request EXCEPT ![q] =
       [Idle EXCEPT !.op = "materialize", !.pc = "load", !.run = r]]

LoadRun(q) ==
  /\ At(q, {"materialize"}, "load")
  /\ IF run_status[request[q].run] = "running" THEN Done(q) ELSE Goto(q, "query")
  /\ UNCHANGED <<rows, runRows, outside>>

\* The drafts may be refused when they are checked against what was read.
QueryOld(q) ==
  /\ At(q, {"materialize"}, "query")
  /\ \/ request' = [request EXCEPT ![q].pc = "insert",
                      ![q].todo = Lowest(Rows(request[q].run), QueryCap)]
     \/ Done(q)
  /\ UNCHANGED <<rows, runRows, outside>>

\* New rows get new keys, larger than any before.  NewKeys bounds the model: a
\* request that finds none left ends as if its drafts had been refused.
NewKeys(r) ==
  {a \in Actions : RunOf[a] = r /\ \A b \in Actions : status[b] # "unused" => b < a}

InsertNew(q) ==
  /\ At(q, {"materialize"}, "insert")
  /\ IF NewKeys(request[q].run) = {} THEN Done(q) /\ UNCHANGED status
     ELSE /\ \E new \in (SUBSET NewKeys(request[q].run)) \ {{}} :
               status' = [a \in Actions |-> IF a \in new THEN "pending" ELSE status[a]]
          /\ IF request[q].todo = {} THEN Refresh(q, request[q].run, "final")
             ELSE Goto(q, "delete")
  /\ UNCHANGED <<content, runRows, outside>>

\* Faulty variant for the checks: what the run has by now is deleted.
DeleteAll(q) ==
  /\ At(q, {"materialize"}, "delete")
  /\ Write(Rows(request[q].run), "deleted")
  /\ Refresh(q, request[q].run, "final")
  /\ UNCHANGED <<content, runRows, outside>>

\* Faulty variant for the checks: only pending suggestions are deleted.
DeletePending(q) ==
  /\ At(q, {"materialize"}, "delete")
  /\ Write({a \in request[q].todo : status[a] = "pending"}, "deleted")
  /\ Refresh(q, request[q].run, "final")
  /\ UNCHANGED <<content, runRows, outside>>

DeleteOld(q) ==
  /\ At(q, {"materialize"}, "delete")
  /\ Write(request[q].todo, "deleted")
  /\ Refresh(q, request[q].run, "final")
  /\ UNCHANGED <<content, runRows, outside>>

\* The run row once more, with the summary of the refresh.
CompleteRun(q) ==
  /\ At(q, {"materialize"}, "final")
  /\ run_status' = [run_status EXCEPT ![request[q].run] = "completed"]
  /\ suggestions_status' = [suggestions_status EXCEPT ![request[q].run] = request[q].read]
  /\ Done(q)
  /\ UNCHANGED <<rows, outside>>

Materialize(q) == LoadRun(q) \/ QueryOld(q) \/ InsertNew(q) \/ DeleteOld(q) \/ CompleteRun(q)

-----------------------------------------------------------------------------
(* Everything else that happens.                                           *)

\* A call of SeaDB raises: the request ends with an error.  The safe refresh
\* and the execution of a suggestion handle their own errors.
CallFails(q) ==
  /\ CanFail
  /\ \/ request[q].pc \in {"read", "start", "finish", "edit", "cancel", "select", "cancelpage",
                           "load", "query", "insert", "delete", "final"}
     \/ request[q].pc \in {"refresh", "store"} /\ request[q].op = "materialize"
  /\ Done(q)
  /\ disturbed' = TRUE
  /\ UNCHANGED <<rows, runRows, performed>>

Crash(q) ==
  /\ CanCrash /\ request[q].pc # "idle"
  /\ Done(q)
  /\ disturbed' = TRUE
  /\ UNCHANGED <<rows, runRows, performed>>

\* The agent service ends a run: completed, with the summary of its suggestions, or
\* failed, with whatever stands in its place.
AgentFinishes(r) ==
  /\ run_status[r] = "running"
  /\ \/ /\ run_status' = [run_status EXCEPT ![r] = "completed"]
        /\ suggestions_status' = [suggestions_status EXCEPT ![r] = Summary(StatusesOf(r))]
     \/ \E s \in Placeholders :
          /\ run_status' = [run_status EXCEPT ![r] = "failed"]
          /\ suggestions_status' = [suggestions_status EXCEPT ![r] = s]
  /\ UNCHANGED <<rows, request, outside>>

-----------------------------------------------------------------------------
Arrive(q) ==
  \/ \E a \in Actions : \/ BeginConfirm(q, a)
                        \/ \E op \in {"edit", "cancel"} : BeginChange(q, op, a)
  \/ \E S \in SUBSET Actions, allowed \in BOOLEAN : BeginAuto(q, S, allowed)
  \/ BeginCancelAll(q)
  \/ \E r \in Runs : BeginMaterialize(q, r)

Proceed(q) ==
  \/ RefreshRead(q) \/ RefreshStore(q) \/ RefreshFails(q)
  \/ ExecuteSuggestions(q)
  \/ ReadToChange(q) \/ Edit(q) \/ Cancel(q)
  \/ SelectPage(q) \/ CancelPage(q) \/ RefreshEach(q)
  \/ Materialize(q)
  \/ CallFails(q)

Next ==
  \/ \E q \in Requests : Arrive(q) \/ Proceed(q) \/ Crash(q)
  \/ \E r \in Runs : AgentFinishes(r)

Spec == Init /\ [][Next]_vars

\* A thread of the web server goes on with its request; nobody has to send one.
Fairness == \A q \in Requests : WF_vars(Proceed(q))

FairSpec == Spec /\ Fairness

-----------------------------------------------------------------------------
(* Properties of any number of concurrent requests.                        *)

Working(q) == \/ request[q].pc \in {"execute", "finish"}
              \/ (request[q].pc \in {"refresh", "store"} /\ request[q].then = "execute")

\* As long as no call has failed and no process died, a suggestion that is executing is
\* in the hands of a request that will write its outcome: however confirm,
\* auto-execute and the cancelling requests overtake each other, none is left
\* "executing" with nobody at work on it (nothing would ever take it up again).
NoStuckExecution ==
  ~disturbed =>
    \A a \in Actions : status[a] = "executing" =>
      \E q \in Requests : request[q].act = a /\ Working(q)

\* Materialize inserts before it deletes, and deletes what it saw before it
\* inserted: a run that has suggestions is never without, even if two requests
\* replace them at once or one breaks off half way.
NeverEmptied ==
  [][\A r \in Runs : Rows(r) # {} => Rows(r)' # {}]_vars

\* A materialize that comes to its end has taken every suggestion it found out of
\* the run, whatever other requests have made of them since.
Replaced ==
  [][\A q \in Requests : At(q, {"materialize"}, "final") /\ request'[q].pc = "idle" =>
         \A a \in request[q].todo : status[a] = "deleted"]_vars

\* A request that was begun comes to its end: no batch, page or refresh loop goes
\* on for ever.
RequestsEnd == \A q \in Requests : request[q].pc # "idle" ~> request[q].pc = "idle"

-----------------------------------------------------------------------------
(* Requests that come one after the other.                                 *)

Quiet == \A q \in Requests : request[q].pc = "idle"

\* suggestions_status of a completed run, which the badge trusts, sums up the statuses
\* of its suggestions when no request is at work and no call has failed: confirm, cancel,
\* "cancel all" and edit leave it right, and materialize makes it right, also for a run
\* that had failed and came with a placeholder.
SummaryFresh ==
  Quiet /\ ~disturbed =>
    \A r \in Runs : run_status[r] = "completed" => suggestions_status[r] = Summary(StatusesOf(r))

\* An operation is performed once ("only process pending actions", agent.py:443).
PerformedOnce == \A a \in Actions : performed[a] # "again"

\* What was performed is what the row shows, also after an edit.
PerformedAsShown ==
  \A a \in Actions : performed[a] \in Contents => performed[a] = content[a]

\* "Cancel all" leaves nothing to cancel, whatever the pages it works in.
CancelAllComplete ==
  [][\A q \in Requests :
       At(q, {"cancelall"}, "each") /\ request'[q].pc = "idle" /\ ~disturbed' =>
         \A a \in Actions : status[a] \notin {"pending", "failed"}]_vars

\* Faulty variant for the checks: the placeholder of a failed run is trusted.
OpenRunAsStored(r) ==
  run_status[r] = "running" \/ suggestions_status[r] \notin {"none", "resolved"}

\* The badge of the log item (_query_run_status_counts, _calculate_log_status):
\* a failed run is judged by its suggestions, a completed one by its summary.
OpenRun(r) ==
  CASE run_status[r] = "running" -> TRUE
    [] run_status[r] = "completed" -> suggestions_status[r] \notin {"none", "resolved"}
    [] run_status[r] = "failed" -> Summary(StatusesOf(r)) \in {"pending", "failed"}

LogStatus == IF \E r \in Runs : OpenRun(r) THEN "" ELSE "processed"

\* A log item is "processed" only when none of its runs has an open suggestion
\* ("'processed' once all runs finished without open suggestions", utils.py), whatever
\* stands in the row of a failed run.
ProcessedMeansDone ==
  Quiet /\ ~disturbed /\ LogStatus = "processed" =>
    \A a \in Actions : status[a] \notin {"pending", "executing", "failed"}

\* Requests that come one after the other take a suggestion through the life
\* that SuggestionLife describes, also when calls fail and processes die.
Life == INSTANCE SuggestionLife WITH
  state <- status, done <- [a \in Actions |-> performed[a] # "never"]

KeepsToLife == Life!Spec
=============================================================================
