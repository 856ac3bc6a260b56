-------------------------- MODULE AgentActionsProofs --------------------------
(***************************************************************************)
(* Proofs about the suggestions of agent runs (AgentActions.tla), for any  *)
(* runs, suggestions and concurrent requests, pages and query limits, with *)
(* calls that fail and processes that die.                                 *)
(***************************************************************************)
EXTENDS AgentActions, FiniteSetTheorems, TLAPS

-----------------------------------------------------------------------------
(* Finite sets of keys.                                                    *)

LEMMA FiniteMax ==
  ASSUME NEW S, S \subseteq Nat, IsFiniteSet(S), S # {}
  PROVE  \E x \in S : \A y \in S : x >= y
<1> DEFINE HasMax(T) == \E x \in T : \A y \in T : x >= y
           Bad == {T \in SUBSET S : T # {} /\ ~HasMax(T)}
<1>1. SUFFICES ASSUME Bad # {} PROVE FALSE
  OBVIOUS
<1>2. IsWellFoundedOn(StrictSubsetOrdering(S), FiniteSubsetsOf(S))
  BY FS_StrictSubsetOrderingWellFounded
<1>3. Bad \subseteq FiniteSubsetsOf(S)
  BY FS_FiniteSubsetsOfFinite
<1>4. PICK T \in Bad : \A U \in Bad : ~ (<<U, T>> \in StrictSubsetOrdering(S))
  <2> HIDE DEF Bad
  <2> QED BY <1>1, <1>2, <1>3, WFMin
<1>5. PICK x \in T : TRUE
  OBVIOUS
<1>6. T \ {x} \notin Bad
  BY <1>4, <1>5 DEF StrictSubsetOrdering
<1>7. CASE T = {x}
  <2>1. x \in Nat
    BY <1>5
  <2>2. HasMax(T)
    BY <1>7, <2>1
  <2> QED BY <2>2
<1>8. CASE T # {x}
  <2>1. HasMax(T \ {x})
    BY <1>5, <1>6, <1>8
  <2>2. PICK m \in T \ {x} : \A y \in T \ {x} : m >= y
    BY <2>1
  <2>3. x \in Nat /\ m \in Nat /\ T \subseteq Nat
    BY <1>5
  <2>4. CASE m >= x
    BY <2>2, <2>3, <2>4
  <2>5. CASE x >= m
    <3>1. \A y \in T : x >= y
      BY <2>2, <2>3, <2>5
    <3> QED BY <1>5, <3>1
  <2> QED BY <2>3, <2>4, <2>5
<1> QED BY <1>7, <1>8

LEMMA MaxFacts ==
  ASSUME NEW S, S \subseteq Nat, IsFiniteSet(S), S # {}
  PROVE  Max(S) \in S /\ \A y \in S : Max(S) >= y
BY FiniteMax DEF Max

-----------------------------------------------------------------------------
(* The inductive invariant for any number of requests.                     *)

Used(a, st) == st[a] # "unused"

\* A later suggestion of the same run exists, or has existed.
Superseded(a, st) == \E b \in Actions : RunOf[b] = RunOf[a] /\ b > a /\ Used(b, st)

\* The request executes the suggestion in hand and will write the outcome.
Executes(r) ==
  r.pc \in {"execute", "finish"} \/ (r.pc \in {"refresh", "store"} /\ r.then = "execute")

\* Materialize has deleted what it found.
Deletes(r) ==
  r.pc = "final" \/ (r.pc \in {"refresh", "store"} /\ r.then = "final")

\* What a request may rely on, whatever others do to the rows in the meantime.
Held(r, st) ==
  /\ r.pc \in {"read", "start", "edit", "cancel"} \/ Executes(r) => r.act \in Actions
  /\ r.pc \in {"refresh", "store"} => r.then \in {"idle", "next", "execute", "each", "final"}
  /\ r.pc = "cancelpage" => r.todo # {}
  /\ r.pc \in {"insert", "delete"} => \A a \in r.todo : RunOf[a] = r.run /\ Used(a, st)
  /\ r.pc = "delete" => \A a \in r.todo : Superseded(a, st)
  /\ Deletes(r) => \A a \in r.todo : st[a] = "deleted"

\* A suggestion is only deleted when a later one has taken its place.
Replacing(st) == \A a \in Actions : st[a] = "deleted" => Superseded(a, st)

AInv ==
  /\ TypeOK
  /\ \A q \in Requests : Held(request[q], status)
  /\ Replacing(status)
  /\ NoStuckExecution

-----------------------------------------------------------------------------
(* What the step of a request does, in the terms of the invariant.         *)

Onward ==
  \A a \in Actions : /\ Used(a, status) => Used(a, status')
                     /\ status[a] = "deleted" => status'[a] = "deleted"
                     /\ status'[a] = "deleted" => status[a] = "deleted" \/ Superseded(a, status')

\* A suggestion that is executing was so before, in other hands, or now is in these.
Attends(q) ==
  ~disturbed' => \A a \in Actions : status'[a] = "executing" =>
    \/ status[a] = "executing" /\ ~ (request[q].act = a /\ Executes(request[q]))
    \/ request'[q].act = a /\ Executes(request'[q])

Moves(q) ==
  /\ TypeOK'
  /\ \A p \in Requests \ {q} : request'[p] = request[p]
  /\ Held(request'[q], status')
  /\ Onward /\ Attends(q) /\ (disturbed => disturbed')

LEMMA MovesKeep ==
  ASSUME AInv, NEW q \in Requests, Moves(q)
  PROVE  AInv'
<1> USE DEF AInv, Moves
<1>1. \A a \in Actions : Superseded(a, status) => Superseded(a, status')
  BY DEF Onward, Superseded
<1>2. ASSUME NEW p \in Requests PROVE Held(request'[p], status')
  <2>1. CASE p = q
    BY <2>1
  <2>2. CASE p # q
    <3>1. request'[p] = request[p] /\ Held(request[p], status) /\ request[p].todo \subseteq Actions
      BY <2>2 DEF TypeOK, Request
    <3> QED BY <1>1, <3>1 DEF Held, Onward
  <2> QED BY <2>1, <2>2
<1>3. Replacing(status')
  BY <1>1 DEF Replacing, Onward
<1>4. NoStuckExecution'
  <2> SUFFICES ASSUME ~disturbed', NEW a \in Actions, status'[a] = "executing"
               PROVE  \E p \in Requests : request'[p].act = a /\ Working(p)'
    BY DEF NoStuckExecution
  <2>1. CASE request'[q].act = a /\ Executes(request'[q])
    BY <2>1 DEF Executes, Working
  <2>2. CASE status[a] = "executing" /\ ~ (request[q].act = a /\ Executes(request[q]))
    <3>1. PICK p \in Requests : request[p].act = a /\ Working(p)
      BY <2>2 DEF NoStuckExecution
    <3>2. p # q
      BY <2>2, <3>1 DEF Executes, Working
    <3> QED BY <3>1, <3>2 DEF Working
  <2> QED BY <2>1, <2>2 DEF Attends
<1> QED BY <1>2, <1>3, <1>4

-----------------------------------------------------------------------------
(* The rows and the requests after a step.                                 *)

LEMMA WriteFacts ==
  ASSUME status \in [Actions -> Statuses], NEW S, NEW s \in Statuses \ {"unused"}, Write(S, s)
  PROVE  /\ status' \in [Actions -> Statuses]
         /\ \A a \in Actions : /\ Used(a, status) <=> Used(a, status')
                               /\ status[a] = "deleted" => status'[a] = "deleted"
                               /\ status'[a] # status[a] => a \in S /\ status'[a] = s
                               /\ a \in S /\ status[a] \in Live => status'[a] = s
BY DEF Write, Used, Statuses, Live

LEMMA IdleFacts == Idle \in Request /\ Idle.pc = "idle"
BY RunsAssumption DEF Idle, Request, Pcs, Contents, Outcomes, Summaries

\* Everything of a request but where it goes is as before.
LEMMA GotoFacts ==
  ASSUME request \in [Requests -> Request], NEW q \in Requests, NEW pc \in Pcs, Goto(q, pc)
  PROVE  /\ request' \in [Requests -> Request]
         /\ \A p \in Requests \ {q} : request'[p] = request[p]
         /\ request'[q].pc = pc
         /\ request'[q].op = request[q].op /\ request'[q].act = request[q].act
         /\ request'[q].todo = request[q].todo /\ request'[q].run = request[q].run
         /\ request'[q].runs = request[q].runs
<1>1. request[q] \in Request /\ request'[q] = [request[q] EXCEPT !.pc = pc]
  BY DEF Goto
<1>2. request'[q] \in Request
  BY <1>1 DEF Request
<1> QED BY <1>1, <1>2 DEF Goto, Request

LEMMA DoneFacts ==
  ASSUME request \in [Requests -> Request], NEW q \in Requests, Done(q)
  PROVE  /\ request' \in [Requests -> Request]
         /\ \A p \in Requests \ {q} : request'[p] = request[p]
         /\ request'[q] = Idle
BY IdleFacts DEF Done

LEMMA RefreshFacts ==
  ASSUME request \in [Requests -> Request], NEW q \in Requests,
         NEW r \in Runs, NEW then \in Pcs, Refresh(q, r, then)
  PROVE  /\ request' \in [Requests -> Request]
         /\ \A p \in Requests \ {q} : request'[p] = request[p]
         /\ request'[q].pc = "refresh" /\ request'[q].then = then /\ request'[q].run = r
         /\ request'[q].op = request[q].op /\ request'[q].act = request[q].act
         /\ request'[q].todo = request[q].todo /\ request'[q].seen = request[q].seen
         /\ request'[q].runs = request[q].runs
<1>1. /\ request[q] \in Request
      /\ request'[q] = [request[q] EXCEPT !.pc = "refresh", !.run = r, !.then = then]
  BY DEF Refresh
<1>2. request'[q] \in Request
  BY <1>1 DEF Request, Pcs
<1> QED BY <1>1, <1>2 DEF Refresh, Request

\* A request that has ended holds nothing.
LEMMA IdleMoves ==
  ASSUME TypeOK, NEW q \in Requests, request' = [request EXCEPT ![q] = Idle],
         status' = status, content' = content, run_status' = run_status,
         suggestions_status' = suggestions_status, performed' = performed,
         disturbed' \in BOOLEAN, disturbed => disturbed',
         disturbed' \/ ~Executes(request[q])
  PROVE  Moves(q)
<1>1. /\ request' \in [Requests -> Request]
      /\ \A p \in Requests \ {q} : request'[p] = request[p]
      /\ request'[q] = Idle
  BY DoneFacts DEF TypeOK, Done
<1>2. TypeOK'
  BY <1>1 DEF TypeOK
<1>3. Held(request'[q], status')
  BY <1>1, IdleFacts DEF Held, Executes, Deletes
<1>4. Onward /\ Attends(q)
  BY DEF Onward, Attends
<1> QED BY <1>1, <1>2, <1>3, <1>4 DEF Moves

-----------------------------------------------------------------------------
(* The refresh of a run.                                                   *)

LEMMA SummaryType == \A S : Summary(S) \in Summaries
BY DEF Summary, Summaries

\* The request that goes on after a refresh.
LEMMA ResumeFacts ==
  ASSUME request \in [Requests -> Request], NEW q \in Requests, Resume(q)
  PROVE  /\ request' \in [Requests -> Request]
         /\ \A p \in Requests \ {q} : request'[p] = request[p]
         /\ request[q].then = "idle" => request'[q] = Idle
         /\ request[q].then # "idle" =>
              /\ request'[q].pc = request[q].then
              /\ request'[q].op = request[q].op /\ request'[q].act = request[q].act
              /\ request'[q].todo = request[q].todo /\ request'[q].run = request[q].run
              /\ request'[q].runs = request[q].runs /\ request'[q].seen = request[q].seen
              /\ request[q].op = "materialize" => request'[q].read = request[q].read
<1>1. CASE request[q].then = "idle"
  BY <1>1, DoneFacts DEF Resume
<1>2. CASE request[q].then # "idle"
  <2>1. PICK s \in Summaries :
          /\ request' = [request EXCEPT ![q].pc = request[q].then, ![q].read = s]
          /\ request[q].op = "materialize" => s = request[q].read
    <3>1. request[q].read \in Summaries /\ "none" \in Summaries
      BY DEF Request, Summaries
    <3> QED BY <1>2, <3>1 DEF Resume
  <2>2. /\ request[q] \in Request
        /\ request'[q] = [request[q] EXCEPT !.pc = request[q].then, !.read = s]
    BY <2>1
  <2>3. request'[q] \in Request
    BY <2>2 DEF Request
  <2> QED BY <1>2, <2>1, <2>2, <2>3 DEF Request
<1> QED BY <1>1, <1>2

LEMMA RefreshReadMoves ==
  ASSUME AInv, NEW q \in Requests, RefreshRead(q)
  PROVE  Moves(q)
<1> USE DEF AInv, RefreshRead
<1>1. /\ request' \in [Requests -> Request]
      /\ \A p \in Requests \ {q} : request'[p] = request[p]
      /\ request'[q].pc = "store" /\ request'[q].then = request[q].then
      /\ request'[q].act = request[q].act /\ request'[q].todo = request[q].todo
  <2>1. PICK s \in Summaries : request' = [request EXCEPT ![q].pc = "store", ![q].read = s]
    BY SummaryType
  <2>2. request[q] \in Request /\ request'[q] = [request[q] EXCEPT !.pc = "store", !.read = s]
    BY <2>1 DEF TypeOK
  <2>3. request'[q] \in Request
    BY <2>1, <2>2 DEF Request, Pcs
  <2> QED BY <2>1, <2>2, <2>3 DEF TypeOK, Request
<1>2. TypeOK'
  BY <1>1 DEF TypeOK, rows, runRows, outside
<1>3. Held(request'[q], status')
  BY <1>1 DEF Held, Executes, Deletes, rows
<1>4. Onward /\ Attends(q)
  BY <1>1 DEF Onward, Attends, Executes, rows
<1> QED BY <1>1, <1>2, <1>3, <1>4 DEF Moves, outside

\* A step that hands on what it has in hand when the refresh is over.
LEMMA ResumeMoves ==
  ASSUME AInv, NEW q \in Requests, request[q].pc \in {"refresh", "store"}, Resume(q),
         status' = status, content' = content, run_status' = run_status,
         suggestions_status' \in [Runs -> Stored], performed' = performed,
         disturbed' \in BOOLEAN, disturbed => disturbed'
  PROVE  Moves(q)
<1> USE DEF AInv
<1>1. TypeOK' /\ \A p \in Requests \ {q} : request'[p] = request[p]
  BY ResumeFacts DEF TypeOK
<1>2. CASE request[q].then = "idle"
  <2>1. request'[q] = Idle
    BY <1>2, ResumeFacts DEF TypeOK
  <2>2. Held(request'[q], status')
    BY <2>1, IdleFacts DEF Held, Executes, Deletes
  <2>3. Onward /\ Attends(q)
    BY <1>2, <2>1 DEF Onward, Attends, Executes
  <2> QED BY <1>1, <2>2, <2>3 DEF Moves
<1>3. CASE request[q].then # "idle"
  <2>1. /\ request'[q].pc = request[q].then
        /\ request'[q].act = request[q].act /\ request'[q].todo = request[q].todo
        /\ request[q].then \in {"next", "execute", "each", "final"}
    BY <1>3, ResumeFacts DEF TypeOK, Held
  <2>2. Held(request'[q], status')
    BY <1>3, <2>1 DEF Held, Executes, Deletes
  <2>3. Onward /\ Attends(q)
    BY <1>3, <2>1 DEF Onward, Attends, Executes
  <2> QED BY <1>1, <2>2, <2>3 DEF Moves
<1> QED BY <1>2, <1>3

LEMMA RefreshStoreMoves ==
  ASSUME AInv, NEW q \in Requests, RefreshStore(q)
  PROVE  Moves(q)
<1>1. suggestions_status' \in [Runs -> Stored]
  BY DEF AInv, TypeOK, Request, RefreshStore, Stored
<1> QED BY <1>1, ResumeMoves DEF AInv, TypeOK, RefreshStore, rows, outside

LEMMA RefreshFailsMoves ==
  ASSUME AInv, NEW q \in Requests, RefreshFails(q)
  PROVE  Moves(q)
BY ResumeMoves DEF AInv, TypeOK, RefreshFails, rows, runRows

-----------------------------------------------------------------------------
(* The requests that are made.                                             *)

\* A request that begins or takes up the next suggestion holds nothing yet.
LEMMA FreshMoves ==
  ASSUME TypeOK, NEW q \in Requests, NEW r \in Request,
         request' = [request EXCEPT ![q] = r],
         r.pc \in {"next", "read", "select", "load"},
         r.pc = "read" => r.act \in Actions,
         ~Executes(request[q]),
         UNCHANGED <<rows, runRows, outside>>
  PROVE  Moves(q)
<1>1. /\ request' \in [Requests -> Request]
      /\ \A p \in Requests \ {q} : request'[p] = request[p]
      /\ request'[q] = r
  BY DEF TypeOK
<1>2. TypeOK'
  BY <1>1 DEF TypeOK, rows, runRows, outside
<1>3. Held(request'[q], status')
  BY <1>1 DEF Held, Executes, Deletes
<1>4. Onward /\ Attends(q)
  BY DEF Onward, Attends, rows
<1> QED BY <1>1, <1>2, <1>3, <1>4 DEF Moves, outside

LEMMA ArriveMoves ==
  ASSUME AInv, NEW q \in Requests, Arrive(q)
  PROVE  Moves(q)
<1> USE DEF AInv
<1>1. ASSUME NEW a \in Actions, NEW op \in {"confirm", "edit", "cancel"}, Begin(q, op),
             request' = [request EXCEPT ![q] = [Idle EXCEPT !.op = op, !.pc = "read", !.act = a]]
      PROVE  Moves(q)
  <2> DEFINE r == [Idle EXCEPT !.op = op, !.pc = "read", !.act = a]
  <2>1. r \in Request /\ r.pc = "read" /\ r.act = a
    BY IdleFacts DEF Request, Kinds, Pcs
  <2> QED BY <1>1, <2>1, FreshMoves DEF Begin, Executes
<1>2. ASSUME NEW S \in SUBSET Actions, NEW allowed \in BOOLEAN, BeginAuto(q, S, allowed)
      PROVE  Moves(q)
  <2> DEFINE r == [Idle EXCEPT !.op = "auto", !.pc = "next", !.todo = S, !.allowed = allowed]
  <2>1. r \in Request /\ r.pc = "next"
    BY IdleFacts DEF Request, Kinds, Pcs
  <2> QED BY <1>2, <2>1, FreshMoves DEF BeginAuto, Begin, Executes
<1>3. ASSUME BeginCancelAll(q)
      PROVE  Moves(q)
  <2> DEFINE r == [Idle EXCEPT !.op = "cancelall", !.pc = "select"]
  <2>1. r \in Request /\ r.pc = "select"
    BY IdleFacts DEF Request, Kinds, Pcs
  <2> QED BY <1>3, <2>1, FreshMoves DEF BeginCancelAll, Begin, Executes
<1>4. ASSUME NEW run \in Runs, BeginMaterialize(q, run)
      PROVE  Moves(q)
  <2> DEFINE r == [Idle EXCEPT !.op = "materialize", !.pc = "load", !.run = run]
  <2>1. r \in Request /\ r.pc = "load"
    BY IdleFacts DEF Request, Kinds, Pcs
  <2> QED BY <1>4, <2>1, FreshMoves DEF BeginMaterialize, Begin, Executes
<1> QED BY <1>1, <1>2, <1>3, <1>4 DEF Arrive, BeginConfirm, BeginChange

-----------------------------------------------------------------------------
(* Confirm, auto-execute, edit and cancel.                                 *)

\* A step that looks at the rows and goes on to another place.
LEMMA GotoMoves ==
  ASSUME AInv, NEW q \in Requests,
         NEW pc \in {"next", "edit", "cancel", "query"}, Goto(q, pc),
         pc \in {"edit", "cancel"} => request[q].act \in Actions,
         ~Executes(request[q]),
         UNCHANGED <<rows, runRows, outside>>
  PROVE  Moves(q)
<1> USE DEF AInv
<1>1. /\ request' \in [Requests -> Request]
      /\ \A p \in Requests \ {q} : request'[p] = request[p]
      /\ request'[q].pc = pc /\ request'[q].act = request[q].act
  <2>1. pc \in Pcs /\ request \in [Requests -> Request]
    BY DEF Pcs, TypeOK
  <2> QED BY <2>1, GotoFacts
<1>2. TypeOK'
  BY <1>1 DEF TypeOK, rows, runRows, outside
<1>3. Held(request'[q], status')
  BY <1>1 DEF Held, Executes, Deletes
<1>4. Onward /\ Attends(q)
  BY DEF Onward, Attends, rows
<1> QED BY <1>1, <1>2, <1>3, <1>4 DEF Moves, outside

\* A step that may write the suggestion in hand and goes on with a refresh of its run.
LEMMA RefreshMoves ==
  ASSUME AInv, NEW q \in Requests, request[q].act \in Actions,
         NEW then \in {"idle", "next", "execute"}, Refresh(q, RunOf[request[q].act], then),
         NEW s \in Live,
         status' = status \/ Write({request[q].act}, s),
         s = "executing" => status' = status \/ then = "execute",
         Executes(request[q]) => status'[request[q].act] # "executing",
         content' = content, UNCHANGED <<runRows, outside>>
  PROVE  Moves(q)
<1> USE DEF AInv
<1>1. /\ request' \in [Requests -> Request]
      /\ \A p \in Requests \ {q} : request'[p] = request[p]
      /\ request'[q].pc = "refresh" /\ request'[q].then = then
      /\ request'[q].act = request[q].act
  <2>1. then \in Pcs /\ request \in [Requests -> Request]
    BY DEF Pcs, TypeOK
  <2>2. RunOf[request[q].act] \in Runs
    BY RunOfAssumption
  <2> QED BY <2>1, <2>2, RefreshFacts
<1>2. /\ status' \in [Actions -> Statuses]
      /\ status' = status \/ \A a \in Actions :
           /\ Used(a, status) <=> Used(a, status')
           /\ status[a] = "deleted" => status'[a] = "deleted"
           /\ status'[a] # status[a] => a = request[q].act /\ status'[a] = s
           /\ a = request[q].act /\ status[a] \in Live => status'[a] = s
  <2>1. CASE status' = status
    BY <2>1 DEF TypeOK
  <2>2. CASE Write({request[q].act}, s)
    <3>1. s \in Statuses \ {"unused"} /\ status \in [Actions -> Statuses]
      BY DEF Statuses, Live, TypeOK
    <3> QED BY <2>2, <3>1, WriteFacts
  <2> QED BY <2>1, <2>2
<1>3. TypeOK'
  BY <1>1, <1>2 DEF TypeOK, runRows, outside
<1>4. Held(request'[q], status')
  BY <1>1 DEF Held, Executes, Deletes
<1>5. Onward
  BY <1>2 DEF Onward, Used, Live
<1>6. Attends(q)
  <2>1. CASE status' = status
    BY <2>1 DEF Attends
  <2>2. CASE status' # status
    <3>1. \A a \in Actions : status'[a] = "executing" =>
            \/ a = request[q].act /\ s = "executing"
            \/ a # request[q].act /\ status[a] = "executing"
      BY <1>2, <2>2 DEF Live
    <3> QED BY <1>1, <2>2, <3>1 DEF Attends, Executes
  <2> QED BY <2>1, <2>2
<1> QED BY <1>1, <1>3, <1>4, <1>5, <1>6 DEF Moves, outside

LEMMA NextOfBatchMoves ==
  ASSUME AInv, NEW q \in Requests, NextOfBatch(q)
  PROVE  Moves(q)
<1> USE DEF AInv, NextOfBatch, At
<1>1. request[q] \in Request /\ ~Executes(request[q])
  BY DEF TypeOK, Executes
<1>2. CASE request[q].todo = {}
  BY <1>1, <1>2, IdleMoves DEF Done, rows, runRows, outside, TypeOK
<1>3. CASE request[q].todo # {}
  <2>1. PICK a \in request[q].todo :
          request' = [request EXCEPT ![q] =
            [Idle EXCEPT !.op = "auto", !.pc = "read", !.act = a,
                         !.todo = request[q].todo \ {a}, !.allowed = request[q].allowed]]
    BY <1>3
  <2> DEFINE r == [Idle EXCEPT !.op = "auto", !.pc = "read", !.act = a,
                               !.todo = request[q].todo \ {a}, !.allowed = request[q].allowed]
  <2>2. a \in Actions /\ request[q].todo \ {a} \subseteq Actions /\ request[q].allowed \in BOOLEAN
    BY <1>1 DEF Request
  <2>3. r \in Request /\ r.pc = "read" /\ r.act = a
    BY <2>2, IdleFacts DEF Request, Kinds, Pcs
  <2> QED BY <1>1, <2>1, <2>2, <2>3, FreshMoves
<1> QED BY <1>2, <1>3

LEMMA ReadToExecuteMoves ==
  ASSUME AInv, NEW q \in Requests, ReadToExecute(q)
  PROVE  Moves(q)
<1> USE DEF AInv, At
<1>1. /\ request[q] \in Request /\ request[q].act \in Actions /\ ~Executes(request[q])
      /\ UNCHANGED <<rows, runRows, outside>>
  BY DEF TypeOK, Held, Executes, ReadToExecute
<1>2. CASE Done(q)
  BY <1>1, <1>2, IdleMoves DEF Done, rows, runRows, outside, TypeOK
<1>3. CASE Goto(q, "next")
  BY <1>1, <1>3, GotoMoves
<1>4. CASE Refresh(q, RunOf[request[q].act], "next")
  BY <1>1, <1>4, RefreshMoves DEF rows, Live
<1>5. CASE request' = [request EXCEPT ![q].pc = "start", ![q].seen = content[request[q].act]]
  <2>1. request'[q] = [request[q] EXCEPT !.pc = "start", !.seen = content[request[q].act]]
    BY <1>5 DEF TypeOK
  <2>2. content[request[q].act] \in Contents
    BY <1>1 DEF TypeOK
  <2>3. request'[q] \in Request
    BY <1>1, <2>1, <2>2 DEF Request, Pcs
  <2>4. /\ request' \in [Requests -> Request]
        /\ \A p \in Requests \ {q} : request'[p] = request[p]
        /\ request'[q].pc = "start" /\ request'[q].act = request[q].act
    BY <1>1, <1>5, <2>1, <2>3 DEF TypeOK, Request
  <2>5. TypeOK'
    BY <1>1, <2>4 DEF TypeOK, rows, runRows, outside
  <2>6. Held(request'[q], status')
    BY <1>1, <2>4 DEF Held, Executes, Deletes
  <2>7. Onward /\ Attends(q)
    BY <1>1 DEF Onward, Attends, rows
  <2> QED BY <1>1, <2>4, <2>5, <2>6, <2>7 DEF Moves, outside
<1> QED BY <1>2, <1>3, <1>4, <1>5 DEF ReadToExecute

LEMMA StartMoves ==
  ASSUME AInv, NEW q \in Requests, Start(q)
  PROVE  Moves(q)
<1>1. request[q].act \in Actions /\ ~Executes(request[q])
  BY DEF AInv, Held, Executes, Start
<1> QED BY <1>1, RefreshMoves DEF Start, Live

LEMMA ExecuteMoves ==
  ASSUME AInv, NEW q \in Requests, NEW outcome \in Outcomes, Execute(q, outcome)
  PROVE  Moves(q)
<1> USE DEF AInv
<1>1. request[q] \in Request /\ request[q].act \in Actions
  BY DEF TypeOK, Held, Executes, Execute
<1>2. request'[q] = [request[q] EXCEPT !.pc = "finish", !.outcome = outcome]
  BY DEF Execute, TypeOK
<1>3. request'[q] \in Request
  BY <1>1, <1>2 DEF Request, Pcs
<1>4. /\ request' \in [Requests -> Request]
      /\ \A p \in Requests \ {q} : request'[p] = request[p]
      /\ request'[q].pc = "finish" /\ request'[q].act = request[q].act
  BY <1>1, <1>2, <1>3 DEF TypeOK, Request, Execute
<1>5. performed' \in [Actions -> Contents \cup {"never", "again"}]
  BY <1>1 DEF Execute, Perform, TypeOK, Request
<1>6. TypeOK'
  BY <1>4, <1>5 DEF TypeOK, rows, runRows, Execute
<1>7. Held(request'[q], status')
  BY <1>1, <1>4 DEF Held, Executes, Deletes
<1>8. Onward /\ Attends(q)
  BY <1>4 DEF Onward, Attends, Executes, Execute, rows
<1> QED BY <1>4, <1>6, <1>7, <1>8 DEF Moves, Execute

LEMMA FinishMoves ==
  ASSUME AInv, NEW q \in Requests, Finish(q)
  PROVE  Moves(q)
<1>1. request[q] \in Request /\ request[q].act \in Actions
  BY DEF AInv, TypeOK, Held, Executes, Finish
<1>2. request[q].outcome \in Live \ {"executing"}
  BY <1>1 DEF Request, Outcomes, Live
<1>3. status'[request[q].act] # "executing"
  BY <1>1, <1>2 DEF Finish, Write, Live
<1>4. CASE request[q].op = "auto"
  BY <1>1, <1>2, <1>3, <1>4, RefreshMoves DEF Finish
<1>5. CASE request[q].op # "auto"
  BY <1>1, <1>2, <1>3, <1>5, RefreshMoves DEF Finish
<1> QED BY <1>4, <1>5

LEMMA ReadToChangeMoves ==
  ASSUME AInv, NEW q \in Requests, ReadToChange(q)
  PROVE  Moves(q)
<1>1. /\ request[q].act \in Actions /\ ~Executes(request[q])
      /\ request[q].op \in {"edit", "cancel"}
  BY DEF AInv, Held, Executes, ReadToChange, At
<1>2. CASE Done(q)
  BY <1>1, <1>2, IdleMoves DEF AInv, ReadToChange, Done, rows, runRows, outside, TypeOK
<1>3. CASE Goto(q, request[q].op)
  BY <1>1, <1>3, GotoMoves DEF ReadToChange
<1> QED BY <1>2, <1>3 DEF ReadToChange

LEMMA EditMoves ==
  ASSUME AInv, NEW q \in Requests, Edit(q)
  PROVE  Moves(q)
<1> USE DEF AInv, Edit
<1>1. /\ request' \in [Requests -> Request]
      /\ \A p \in Requests \ {q} : request'[p] = request[p]
      /\ request'[q] = Idle
  BY DoneFacts DEF TypeOK
<1>2. content' \in [Actions -> Contents]
  BY DEF TypeOK, Contents
<1>3. TypeOK'
  BY <1>1, <1>2 DEF TypeOK, runRows, outside
<1>4. Held(request'[q], status')
  BY <1>1, IdleFacts DEF Held, Executes, Deletes
<1>5. Onward /\ Attends(q)
  BY DEF Onward, Attends, Executes
<1> QED BY <1>1, <1>3, <1>4, <1>5 DEF Moves, outside

LEMMA CancelMoves ==
  ASSUME AInv, NEW q \in Requests, Cancel(q)
  PROVE  Moves(q)
<1>1. request[q].act \in Actions /\ ~Executes(request[q])
  BY DEF AInv, Held, Executes, Cancel
<1> QED BY <1>1, RefreshMoves DEF Cancel, Live

-----------------------------------------------------------------------------
(* Cancel all.                                                             *)

\* A request goes on with rows to do.
GoWith(q, S, pc) == request' = [request EXCEPT ![q].todo = S, ![q].pc = pc]

LEMMA GoWithFacts ==
  ASSUME request \in [Requests -> Request], NEW q \in Requests,
         NEW S \in SUBSET Actions, NEW pc \in Pcs, GoWith(q, S, pc)
  PROVE  /\ request' \in [Requests -> Request]
         /\ \A p \in Requests \ {q} : request'[p] = request[p]
         /\ request'[q].pc = pc /\ request'[q].todo = S
         /\ request'[q].run = request[q].run /\ request'[q].op = request[q].op
         /\ request'[q].runs = request[q].runs
<1>1. request[q] \in Request /\ request'[q] = [request[q] EXCEPT !.todo = S, !.pc = pc]
  BY DEF GoWith
<1>2. request'[q] \in Request
  BY <1>1 DEF Request
<1> QED BY <1>1, <1>2 DEF GoWith, Request

LEMMA SelectPageMoves ==
  ASSUME AInv, NEW q \in Requests, SelectPage(q)
  PROVE  Moves(q)
<1> USE DEF AInv, At
<1> DEFINE page == Lowest({a \in Actions : a > request[q].cursor
                                             /\ status[a] \in {"pending", "failed"}}, PageSize)
           pc == IF page = {} THEN "each" ELSE "cancelpage"
<1>1. page \in SUBSET Actions /\ pc \in Pcs /\ request[q] \in Request
  BY DEF Lowest, Pcs, TypeOK
<1>2. GoWith(q, page, pc)
  BY DEF SelectPage, GoWith
<1>3. pc = "each" \/ (pc = "cancelpage" /\ page # {})
  OBVIOUS
<1> HIDE DEF page, pc
<1>5. /\ request' \in [Requests -> Request]
      /\ \A p \in Requests \ {q} : request'[p] = request[p]
      /\ request'[q].pc = pc /\ request'[q].todo = page
  <2>1. request \in [Requests -> Request]
    BY DEF TypeOK
  <2> QED BY <1>1, <1>2, <2>1, GoWithFacts
<1>6. TypeOK'
  BY <1>5 DEF TypeOK, rows, runRows, outside, SelectPage
<1>7. Held(request'[q], status')
  BY <1>3, <1>5 DEF Held, Executes, Deletes
<1>8. Onward /\ Attends(q)
  BY DEF Onward, Attends, Executes, rows, SelectPage
<1> QED BY <1>5, <1>6, <1>7, <1>8 DEF Moves, outside, SelectPage

LEMMA CancelPageMoves ==
  ASSUME AInv, NEW q \in Requests, CancelPage(q)
  PROVE  Moves(q)
<1> USE DEF AInv, At
<1> DEFINE page == request[q].todo
           runs == request[q].runs \cup {RunOf[a] : a \in page}
           pc == IF Cardinality(page) < PageSize THEN "each" ELSE "select"
<1>1. request[q] \in Request /\ page \subseteq Actions /\ page # {}
  BY DEF TypeOK, Held, CancelPage, Request
<1>2. runs \subseteq Runs /\ pc \in {"each", "select"}
  BY <1>1, RunOfAssumption DEF Request
<1>3. Max(page) \in Nat
  <2>1. page \subseteq Nat /\ IsFiniteSet(page)
    BY <1>1, ActionsAssumption, FS_Subset
  <2> QED BY <1>1, <2>1, MaxFacts
<1>4. request' = [request EXCEPT ![q].runs = runs, ![q].todo = {}, ![q].cursor = Max(page), ![q].pc = pc]
  BY DEF CancelPage
<1>5. status' \in [Actions -> Statuses]
      /\ \A a \in Actions : /\ Used(a, status) <=> Used(a, status')
                            /\ status[a] = "deleted" => status'[a] = "deleted"
                            /\ status'[a] # status[a] => status'[a] = "cancelled"
  <2>1. Write(page, "cancelled") /\ "cancelled" \in Statuses \ {"unused"}
    BY DEF CancelPage, Statuses, Live
  <2> QED BY <2>1, WriteFacts DEF TypeOK
<1> HIDE DEF page, runs, pc
<1>6. request'[q] = [request[q] EXCEPT !.runs = runs, !.todo = {}, !.cursor = Max(page), !.pc = pc]
  BY <1>4 DEF TypeOK
<1>7. request'[q] \in Request
  BY <1>1, <1>2, <1>3, <1>6 DEF Request, Pcs
<1>8. /\ request' \in [Requests -> Request]
      /\ \A p \in Requests \ {q} : request'[p] = request[p]
      /\ request'[q].pc = pc
  BY <1>1, <1>4, <1>6, <1>7 DEF TypeOK, Request
<1>9. TypeOK'
  BY <1>5, <1>8 DEF TypeOK, runRows, outside, CancelPage
<1>10. Held(request'[q], status')
  BY <1>2, <1>8 DEF Held, Executes, Deletes
<1>11. Onward /\ Attends(q)
  BY <1>5 DEF Onward, Attends, Executes, CancelPage
<1> QED BY <1>8, <1>9, <1>10, <1>11 DEF Moves, outside, CancelPage

LEMMA RefreshEachMoves ==
  ASSUME AInv, NEW q \in Requests, RefreshEach(q)
  PROVE  Moves(q)
<1> USE DEF AInv, At, RefreshEach
<1>1. request[q] \in Request /\ ~Executes(request[q])
  BY DEF TypeOK, Executes
<1>2. CASE request[q].runs = {}
  BY <1>1, <1>2, IdleMoves DEF Done, rows, runRows, outside, TypeOK
<1>3. CASE request[q].runs # {}
  <2>1. PICK r \in request[q].runs :
          request' = [request EXCEPT ![q].pc = "refresh", ![q].run = r, ![q].then = "each",
                        ![q].runs = request[q].runs \ {r}]
    BY <1>3
  <2>2. request'[q] = [request[q] EXCEPT !.pc = "refresh", !.run = r, !.then = "each",
                         !.runs = request[q].runs \ {r}]
    BY <2>1 DEF TypeOK
  <2>3. r \in Runs /\ request[q].runs \ {r} \subseteq Runs
    BY <1>1 DEF Request
  <2>4. request'[q] \in Request
    BY <1>1, <2>2, <2>3 DEF Request, Pcs
  <2>5. request'[q].pc = "refresh" /\ request'[q].then = "each"
    BY <1>1, <2>2 DEF Request
  <2>9. /\ request' \in [Requests -> Request]
        /\ \A p \in Requests \ {q} : request'[p] = request[p]
    BY <2>1, <2>4 DEF TypeOK
  <2>6. TypeOK'
    BY <2>9 DEF TypeOK, rows, runRows, outside
  <2>7. Held(request'[q], status')
    BY <2>5 DEF Held, Executes, Deletes
  <2>8. Onward /\ Attends(q)
    BY <1>1 DEF Onward, Attends, rows
  <2> QED BY <2>6, <2>7, <2>8, <2>9 DEF Moves, outside
<1> QED BY <1>2, <1>3

-----------------------------------------------------------------------------
(* Materialize.                                                            *)

LEMMA LoadRunMoves ==
  ASSUME AInv, NEW q \in Requests, LoadRun(q)
  PROVE  Moves(q)
<1>1. ~Executes(request[q])
  BY DEF Executes, LoadRun, At
<1>2. CASE Done(q)
  BY <1>1, <1>2, IdleMoves DEF AInv, LoadRun, Done, rows, runRows, outside, TypeOK
<1>3. CASE Goto(q, "query")
  BY <1>1, <1>3, GotoMoves DEF LoadRun
<1> QED BY <1>2, <1>3 DEF LoadRun

LEMMA QueryOldMoves ==
  ASSUME AInv, NEW q \in Requests, QueryOld(q)
  PROVE  Moves(q)
<1> USE DEF AInv, At
<1>1. request[q] \in Request /\ ~Executes(request[q])
  BY DEF TypeOK, Executes, QueryOld
<1>2. CASE Done(q)
  BY <1>1, <1>2, IdleMoves DEF QueryOld, Done, rows, runRows, outside, TypeOK
<1>3. CASE request' = [request EXCEPT ![q].pc = "insert",
                        ![q].todo = Lowest(Rows(request[q].run), QueryCap)]
  <2> DEFINE old == Lowest(Rows(request[q].run), QueryCap)
  <2>1. \A a \in old : a \in Actions /\ RunOf[a] = request[q].run /\ Used(a, status)
    BY DEF Lowest, Rows, Used, Live
  <2>2. GoWith(q, old, "insert")
    BY <1>3 DEF GoWith
  <2>3. old \in SUBSET Actions /\ "insert" \in Pcs /\ request \in [Requests -> Request]
    BY <2>1 DEF Pcs, TypeOK
  <2> HIDE DEF old
  <2>4. /\ request' \in [Requests -> Request]
        /\ \A p \in Requests \ {q} : request'[p] = request[p]
        /\ request'[q].pc = "insert" /\ request'[q].todo = old
        /\ request'[q].run = request[q].run
    BY <2>2, <2>3, GoWithFacts
  <2>5. TypeOK'
    BY <2>4 DEF TypeOK, rows, runRows, outside, QueryOld
  <2>6. Held(request'[q], status')
    BY <2>1, <2>4 DEF Held, Executes, Deletes, rows, QueryOld
  <2>7. Onward /\ Attends(q)
    BY <1>1 DEF Onward, Attends, rows, QueryOld
  <2> QED BY <2>4, <2>5, <2>6, <2>7 DEF Moves, outside, QueryOld
<1> QED BY <1>2, <1>3 DEF QueryOld

LEMMA InsertNewMoves ==
  ASSUME AInv, NEW q \in Requests, InsertNew(q)
  PROVE  Moves(q)
<1> USE DEF AInv, At
<1>1. request[q] \in Request /\ ~Executes(request[q]) /\ request \in [Requests -> Request]
  BY DEF TypeOK, Executes, InsertNew
<1>2. CASE NewKeys(request[q].run) = {}
  BY <1>1, <1>2, IdleMoves DEF InsertNew, Done, rows, runRows, outside, TypeOK
<1>3. CASE NewKeys(request[q].run) # {}
  <2>1. PICK new \in (SUBSET NewKeys(request[q].run)) \ {{}} :
          status' = [a \in Actions |-> IF a \in new THEN "pending" ELSE status[a]]
    BY <1>3 DEF InsertNew
  <2>2. \A a \in new : /\ a \in Actions /\ RunOf[a] = request[q].run
                       /\ \A b \in Actions : Used(b, status) => b < a
    BY DEF NewKeys, Used
  <2>3. \A a \in new : ~Used(a, status)
    <3> SUFFICES ASSUME NEW a \in new, Used(a, status) PROVE FALSE
      OBVIOUS
    <3>1. a \in Nat /\ a < a
      BY <2>2, ActionsAssumption
    <3> QED BY <3>1
  <2>4. /\ status' \in [Actions -> Statuses]
        /\ \A a \in Actions : /\ Used(a, status) => Used(a, status')
                              /\ Used(a, status) => status'[a] = status[a]
                              /\ status'[a] # status[a] => status'[a] = "pending"
    BY <2>1, <2>3 DEF TypeOK, Statuses, Live, Used
  <2>5. Onward /\ Attends(q)
    BY <1>1, <2>4 DEF Onward, Attends, Used
  <2>6. \A a \in request[q].todo : /\ a \in Actions /\ RunOf[a] = request[q].run
                                   /\ Used(a, status)
    BY <1>1 DEF Held, InsertNew, Request
  <2>7. CASE request[q].todo = {} /\ Refresh(q, request[q].run, "final")
    <3>1. /\ request' \in [Requests -> Request]
          /\ \A p \in Requests \ {q} : request'[p] = request[p]
          /\ request'[q].pc = "refresh" /\ request'[q].then = "final"
          /\ request'[q].todo = request[q].todo
      <4>1. request[q].run \in Runs /\ "final" \in Pcs
        BY <1>1 DEF Request, Pcs
      <4> QED BY <1>1, <2>7, <4>1, RefreshFacts
    <3>2. TypeOK'
      BY <2>4, <3>1 DEF TypeOK, runRows, outside, InsertNew
    <3>3. Held(request'[q], status')
      BY <2>7, <3>1 DEF Held, Executes, Deletes
    <3> QED BY <2>5, <3>1, <3>2, <3>3 DEF Moves, outside, InsertNew
  <2>8. CASE Goto(q, "delete")
    <3>1. /\ request' \in [Requests -> Request]
          /\ \A p \in Requests \ {q} : request'[p] = request[p]
          /\ request'[q].pc = "delete" /\ request'[q].run = request[q].run
          /\ request'[q].todo = request[q].todo
      <4>1. "delete" \in Pcs
        BY DEF Pcs
      <4> QED BY <1>1, <2>8, <4>1, GotoFacts
    <3>2. TypeOK'
      BY <2>4, <3>1 DEF TypeOK, runRows, outside, InsertNew
    <3>3. \A a \in request[q].todo : Superseded(a, status') /\ Used(a, status')
      <4>1. PICK b \in new : TRUE
        BY <2>1
      <4>2. b \in Actions /\ Used(b, status') /\ RunOf[b] = request[q].run
        BY <2>1, <2>2, <4>1 DEF Used
      <4>3. \A a \in request[q].todo : b > a
        BY <2>2, <2>6, <4>1, ActionsAssumption
      <4> QED BY <2>4, <2>6, <4>2, <4>3 DEF Superseded
    <3>4. Held(request'[q], status')
      BY <2>6, <3>1, <3>3 DEF Held, Executes, Deletes
    <3> QED BY <2>5, <3>1, <3>2, <3>4 DEF Moves, outside, InsertNew
  <2> QED BY <1>3, <2>7, <2>8 DEF InsertNew
<1> QED BY <1>2, <1>3

LEMMA DeleteOldMoves ==
  ASSUME AInv, NEW q \in Requests, DeleteOld(q)
  PROVE  Moves(q)
<1> USE DEF AInv, At, DeleteOld
<1>1. request[q] \in Request /\ ~Executes(request[q]) /\ request \in [Requests -> Request]
  BY DEF TypeOK, Executes
<1>2. \A a \in request[q].todo : a \in Actions /\ Used(a, status) /\ Superseded(a, status)
  BY <1>1 DEF Held, Request
<1>3. /\ status' \in [Actions -> Statuses]
      /\ \A a \in Actions : /\ Used(a, status) <=> Used(a, status')
                            /\ status[a] = "deleted" => status'[a] = "deleted"
                            /\ status'[a] # status[a] =>
                                 a \in request[q].todo /\ status'[a] = "deleted"
                            /\ a \in request[q].todo /\ status[a] \in Live => status'[a] = "deleted"
  <2>1. "deleted" \in Statuses \ {"unused"} /\ status \in [Actions -> Statuses]
    BY DEF Statuses, TypeOK
  <2> QED BY <2>1, WriteFacts
<1>4. /\ request' \in [Requests -> Request]
      /\ \A p \in Requests \ {q} : request'[p] = request[p]
      /\ request'[q].pc = "refresh" /\ request'[q].then = "final"
      /\ request'[q].todo = request[q].todo
  <2>1. request[q].run \in Runs /\ "final" \in Pcs
    BY <1>1 DEF Request, Pcs
  <2> QED BY <1>1, <2>1, RefreshFacts
<1>5. TypeOK'
  BY <1>3, <1>4 DEF TypeOK, runRows, outside
<1>6. \A a \in request[q].todo : status'[a] = "deleted"
  BY <1>2, <1>3 DEF Used, Statuses, TypeOK
<1>7. Held(request'[q], status')
  BY <1>4, <1>6 DEF Held, Executes, Deletes
<1>8. \A a \in Actions : Superseded(a, status) => Superseded(a, status')
  BY <1>3 DEF Superseded
<1>9. Onward
  BY <1>2, <1>3, <1>8 DEF Onward
<1>10. Attends(q)
  BY <1>1, <1>3 DEF Attends
<1> QED BY <1>4, <1>5, <1>7, <1>9, <1>10 DEF Moves, outside

LEMMA CompleteRunMoves ==
  ASSUME AInv, NEW q \in Requests, CompleteRun(q)
  PROVE  Moves(q)
<1> USE DEF AInv, At, CompleteRun
<1>1. /\ request' \in [Requests -> Request]
      /\ \A p \in Requests \ {q} : request'[p] = request[p]
      /\ request'[q] = Idle /\ request[q] \in Request
  BY DoneFacts DEF TypeOK
<1>2. TypeOK'
  BY <1>1 DEF TypeOK, Request, Stored, rows, outside
<1>3. Held(request'[q], status')
  BY <1>1, IdleFacts DEF Held, Executes, Deletes
<1>4. Onward /\ Attends(q)
  BY DEF Onward, Attends, Executes, rows
<1> QED BY <1>1, <1>2, <1>3, <1>4 DEF Moves, outside

-----------------------------------------------------------------------------
(* Failing calls and processes that die.                                   *)

LEMMA BreaksMoves ==
  ASSUME AInv, NEW q \in Requests, CallFails(q) \/ Crash(q)
  PROVE  Moves(q)
BY IdleMoves DEF AInv, TypeOK, CallFails, Crash, Done, rows, runRows

-----------------------------------------------------------------------------
(* The invariant is one.                                                   *)

LEMMA RequestMoves ==
  ASSUME AInv, NEW q \in Requests, Arrive(q) \/ Proceed(q) \/ Crash(q)
  PROVE  Moves(q)
<1>1. CASE Arrive(q)
  BY <1>1, ArriveMoves
<1>2. CASE RefreshRead(q) \/ RefreshStore(q) \/ RefreshFails(q)
  BY <1>2, RefreshReadMoves, RefreshStoreMoves, RefreshFailsMoves
<1>3. CASE ExecuteSuggestions(q)
  BY <1>3, NextOfBatchMoves, ReadToExecuteMoves, StartMoves, FinishMoves, ExecuteMoves
     DEF ExecuteSuggestions
<1>4. CASE ReadToChange(q) \/ Edit(q) \/ Cancel(q)
  BY <1>4, ReadToChangeMoves, EditMoves, CancelMoves
<1>5. CASE SelectPage(q) \/ CancelPage(q) \/ RefreshEach(q)
  BY <1>5, SelectPageMoves, CancelPageMoves, RefreshEachMoves
<1>6. CASE Materialize(q)
  BY <1>6, LoadRunMoves, QueryOldMoves, InsertNewMoves, DeleteOldMoves, CompleteRunMoves
     DEF Materialize
<1>7. CASE CallFails(q) \/ Crash(q)
  BY <1>7, BreaksMoves
<1> QED BY <1>1, <1>2, <1>3, <1>4, <1>5, <1>6, <1>7 DEF Proceed

LEMMA InitAInv == Init => AInv
<1> SUFFICES ASSUME Init PROVE AInv
  OBVIOUS
<1> USE DEF Init
<1>1. TypeOK
  <2>1. \A r \in Runs : Summary(StatusesOf(r)) \in Summaries
    BY SummaryType
  <2>2. status \in [Actions -> Statuses]
    BY DEF Statuses, Live
  <2> QED BY <2>1, <2>2, IdleFacts DEF TypeOK, Contents
<1>2. \A q \in Requests : Held(request[q], status)
  BY IdleFacts DEF Held, Executes, Deletes
<1>3. Replacing(status) /\ NoStuckExecution
  <2>1. \A a \in Actions : status[a] # "deleted" /\ status[a] # "executing"
    BY DEF Init
  <2> QED BY <2>1 DEF Replacing, NoStuckExecution
<1> QED BY <1>1, <1>2, <1>3 DEF AInv

LEMMA NextAInv == AInv /\ [Next]_vars => AInv'
<1> SUFFICES ASSUME AInv, [Next]_vars PROVE AInv'
  OBVIOUS
<1>1. ASSUME NEW q \in Requests, Arrive(q) \/ Proceed(q) \/ Crash(q)
      PROVE  AInv'
  BY <1>1, RequestMoves, MovesKeep
<1>2. ASSUME NEW r \in Runs, AgentFinishes(r)
      PROVE  AInv'
  <2> USE DEF AInv, AgentFinishes, rows, outside
  <2>1. TypeOK'
    <3>1. Summary(StatusesOf(r)) \in Stored
      BY SummaryType DEF Stored
    <3> QED BY <1>2, <3>1, PlaceholdersAssumption DEF TypeOK
  <2>2. NoStuckExecution'
    BY <1>2 DEF NoStuckExecution, Working
  <2> QED BY <1>2, <2>1, <2>2
<1>3. CASE UNCHANGED vars
  BY <1>3 DEF vars, AInv, TypeOK, NoStuckExecution, Working
<1> QED BY <1>1, <1>2, <1>3 DEF Next

\* Between the calls of any number of requests the rows and what the requests
\* remember of them fit together (AInv above).
THEOREM AgentInvariance == Spec => []AInv
BY InitAInv, NextAInv, PTL DEF Spec

\* The variables keep their types; the largest key of a page of "cancel all" is a
\* number although the page was read before.
THEOREM AgentTypes == Spec => []TypeOK
BY AgentInvariance, PTL DEF AInv

\* However confirm, auto-execute, edits, cancellations and regenerations overtake
\* each other: without a failed call no suggestion stays "executing" with nobody at
\* work on it.
THEOREM NoneStuck == Spec => []NoStuckExecution
BY AgentInvariance, PTL DEF AInv

-----------------------------------------------------------------------------
(* Materialize.                                                            *)

\* Of the suggestions a run has ever had the latest is in it.
LEMMA LatestLives ==
  ASSUME NEW st \in [Actions -> Statuses], Replacing(st),
         NEW c \in Actions, Used(c, st)
  PROVE  \E a \in Actions : RunOf[a] = RunOf[c] /\ st[a] \in Live
<1> DEFINE U == {a \in Actions : RunOf[a] = RunOf[c] /\ Used(a, st)}
<1>1. U \subseteq Nat /\ IsFiniteSet(U) /\ U # {}
  BY ActionsAssumption, FS_Subset
<1>2. PICK m \in U : \A a \in U : m >= a
  BY <1>1, FiniteMax
<1>3. st[m] # "deleted"
  <2> SUFFICES ASSUME st[m] = "deleted" PROVE FALSE
    OBVIOUS
  <2>1. PICK b \in Actions : RunOf[b] = RunOf[m] /\ b > m /\ Used(b, st)
    BY <1>2 DEF Replacing, Superseded
  <2>2. b \in U
    BY <1>2, <2>1
  <2> QED BY <1>1, <1>2, <2>1, <2>2
<1> QED BY <1>2, <1>3 DEF Used, Statuses

\* A run that has suggestions is never without, whatever number of requests
\* replace, cancel and execute them at once and wherever one of them breaks off.
THEOREM NeverWithout == Spec => NeverEmptied
<1>1. AInv /\ AInv' /\ [Next]_vars => [\A r \in Runs : Rows(r) # {} => Rows(r)' # {}]_vars
  <2> SUFFICES ASSUME AInv, AInv', Next, NEW r \in Runs, NEW c \in Rows(r)
               PROVE  Rows(r)' # {}
    OBVIOUS
  <2>1. c \in Actions /\ RunOf[c] = r /\ Used(c, status)
    BY DEF Rows, Used, Live
  <2>2. Used(c, status')
    <3>1. ASSUME NEW q \in Requests, Arrive(q) \/ Proceed(q) \/ Crash(q)
          PROVE  Used(c, status')
      BY <2>1, <3>1, RequestMoves DEF Moves, Onward
    <3>2. ASSUME NEW x \in Runs, AgentFinishes(x)
          PROVE  Used(c, status')
      BY <2>1, <3>2 DEF AgentFinishes, rows
    <3> QED BY <3>1, <3>2 DEF Next
  <2>3. status' \in [Actions -> Statuses] /\ Replacing(status')
    BY DEF AInv, TypeOK
  <2>4. PICK a \in Actions : RunOf[a] = RunOf[c] /\ status'[a] \in Live
    BY <2>1, <2>2, <2>3, LatestLives
  <2> QED BY <2>1, <2>4 DEF Rows
<1> QED BY <1>1, AgentInvariance, PTL DEF Spec, NeverEmptied

\* A materialize that comes to its end has taken out of the run every suggestion it
\* found there, whatever other requests have made of them since.
THEOREM AllReplaced == Spec => Replaced
<1>1. AInv => \A q \in Requests : At(q, {"materialize"}, "final") =>
                \A a \in request[q].todo : status[a] = "deleted"
  BY DEF AInv, Held, Deletes, At
<1>2. AInv /\ [Next]_vars =>
        [\A q \in Requests : At(q, {"materialize"}, "final") /\ request'[q].pc = "idle" =>
           \A a \in request[q].todo : status[a] = "deleted"]_vars
  BY <1>1
<1> QED BY <1>2, AgentInvariance, PTL DEF Spec, Replaced

-----------------------------------------------------------------------------
(* Requests that come one after the other: one thread serves them.         *)

\* What a request alone on the rows knows of the suggestions in hand.
Deals(q) ==
  LET r == request[q] IN
  /\ r.pc \in {"start", "edit", "cancel"} => status[r.act] = "pending"
  /\ Executes(r) => status[r.act] = "executing"
  /\ r.pc = "start" \/ (Executes(r) /\ r.pc # "finish") =>
       performed[r.act] = "never" /\ r.seen = content[r.act]
  /\ r.pc = "finish" => /\ r.outcome = "executed" => performed[r.act] # "never"
                        /\ r.outcome = "pending" => performed[r.act] = "never"
  /\ r.pc = "cancelpage" => \A a \in r.todo : status[a] \in {"pending", "failed"}

\* What can still be taken up was never performed, and nothing is edited afterwards.
Unspoilt ==
  \A a \in Actions : /\ status[a] \in {"unused", "pending"} => performed[a] = "never"
                     /\ performed[a] \in {"never", content[a]}

LInv == AInv /\ (\A q \in Requests : Deals(q)) /\ Unspoilt

LifeStep == [Life!Next]_(Life!vars)

Lives(q) == Deals(q)' /\ Unspoilt' /\ LifeStep

LEMMA StillLives ==
  ASSUME LInv, NEW q \in Requests, Deals(q)',
         status' = status, performed' = performed, content' = content
  PROVE  Lives(q)
BY DEF LInv, Unspoilt, Lives, LifeStep, Life!vars

LEMMA IdleLives ==
  ASSUME LInv, NEW q \in Requests, Done(q),
         status' = status, performed' = performed, content' = content
  PROVE  Lives(q)
<1>1. request'[q] = Idle
  BY DoneFacts DEF LInv, AInv, TypeOK
<1>2. Deals(q)'
  BY <1>1, IdleFacts DEF Deals, Executes
<1> QED BY <1>2, StillLives

\* A request at a place where it knows nothing of the rows.
LEMMA PlainLives ==
  ASSUME LInv, NEW q \in Requests,
         request'[q].pc \in {"next", "read", "select", "each", "load", "query", "insert",
                             "delete", "final"}
           \/ (request'[q].pc \in {"refresh", "store"} /\ request'[q].then # "execute"),
         status' = status, performed' = performed, content' = content
  PROVE  Lives(q)
<1>1. Deals(q)'
  BY DEF Deals, Executes
<1> QED BY <1>1, StillLives

\* Writing a status moves the suggestions that are still there.
LEMMA WriteLives ==
  ASSUME LInv, NEW q \in Requests, Deals(q)', NEW S \in SUBSET Actions,
         NEW s \in Statuses \ {"unused"}, Write(S, s),
         s = "pending" => \A a \in S : performed[a] = "never",
         performed' = performed, content' = content,
         Life!Move({a \in S : status[a] \in Live}, s) => Life!Next
  PROVE  Lives(q)
<1> USE DEF LInv
<1>1. Life!Move({a \in S : status[a] \in Live}, s)
  <2> DEFINE M == {a \in S : status[a] \in Live}
  <2>1. status' = [a \in Actions |-> IF a \in M THEN s ELSE status[a]]
    BY DEF Write
  <2> QED BY <2>1 DEF Life!Move
<1>2. Unspoilt'
  BY DEF Unspoilt, Write
<1> QED BY <1>1, <1>2 DEF Lives, LifeStep

LEMMA BeginsLives ==
  ASSUME LInv, NEW q \in Requests, NEW r \in Request,
         request' = [request EXCEPT ![q] = r], r.pc \in {"next", "read", "select", "load"},
         status' = status, performed' = performed, content' = content
  PROVE  Lives(q)
<1>1. request'[q] = r
  BY DEF LInv, AInv, TypeOK
<1> QED BY <1>1, PlainLives

LEMMA ArriveLives ==
  ASSUME LInv, NEW q \in Requests, Arrive(q)
  PROVE  Lives(q)
<1> USE DEF rows, outside
<1>1. ASSUME NEW a \in Actions, NEW op \in {"confirm", "edit", "cancel"}, Begin(q, op),
             request' = [request EXCEPT ![q] = [Idle EXCEPT !.op = op, !.pc = "read", !.act = a]]
      PROVE  Lives(q)
  <2> DEFINE r == [Idle EXCEPT !.op = op, !.pc = "read", !.act = a]
  <2>1. r \in Request /\ r.pc = "read"
    BY IdleFacts DEF Request, Kinds, Pcs
  <2> QED BY <1>1, <2>1, BeginsLives DEF Begin
<1>2. ASSUME NEW S \in SUBSET Actions, NEW allowed \in BOOLEAN, BeginAuto(q, S, allowed)
      PROVE  Lives(q)
  <2> DEFINE r == [Idle EXCEPT !.op = "auto", !.pc = "next", !.todo = S, !.allowed = allowed]
  <2>1. r \in Request /\ r.pc = "next"
    BY IdleFacts DEF Request, Kinds, Pcs
  <2> QED BY <1>2, <2>1, BeginsLives DEF BeginAuto, Begin
<1>3. ASSUME BeginCancelAll(q)
      PROVE  Lives(q)
  <2> DEFINE r == [Idle EXCEPT !.op = "cancelall", !.pc = "select"]
  <2>1. r \in Request /\ r.pc = "select"
    BY IdleFacts DEF Request, Kinds, Pcs
  <2> QED BY <1>3, <2>1, BeginsLives DEF BeginCancelAll, Begin
<1>4. ASSUME NEW run \in Runs, BeginMaterialize(q, run)
      PROVE  Lives(q)
  <2> DEFINE r == [Idle EXCEPT !.op = "materialize", !.pc = "load", !.run = run]
  <2>1. r \in Request /\ r.pc = "load"
    BY IdleFacts DEF Request, Kinds, Pcs
  <2> QED BY <1>4, <2>1, BeginsLives DEF BeginMaterialize, Begin
<1> QED BY <1>1, <1>2, <1>3, <1>4 DEF Arrive, BeginConfirm, BeginChange

LEMMA RefreshLives ==
  ASSUME LInv, NEW q \in Requests, RefreshRead(q) \/ RefreshStore(q) \/ RefreshFails(q)
  PROVE  Lives(q)
<1> USE DEF LInv, AInv
<1>1. request \in [Requests -> Request] /\ Held(request[q], status)
  BY DEF TypeOK
<1>2. status' = status /\ performed' = performed /\ content' = content
  BY DEF RefreshRead, RefreshStore, RefreshFails, rows, outside
<1>3. CASE RefreshRead(q)
  <2>1. PICK s : request' = [request EXCEPT ![q].pc = "store", ![q].read = s]
    BY <1>3 DEF RefreshRead
  <2>2. request[q] \in Request /\ request'[q] = [request[q] EXCEPT !.pc = "store", !.read = s]
    BY <1>1, <2>1
  <2>3. /\ request'[q].pc = "store" /\ request'[q].then = request[q].then
        /\ request'[q].act = request[q].act /\ request'[q].seen = request[q].seen
    BY <2>2 DEF Request
  <2>4. Deals(q)'
    BY <1>2, <1>3, <2>3 DEF Deals, Executes, RefreshRead
  <2> QED BY <1>2, <2>4, StillLives
<1>4. CASE RefreshStore(q) \/ RefreshFails(q)
  <2>1. Resume(q) /\ request[q].pc \in {"refresh", "store"}
    BY <1>4 DEF RefreshStore, RefreshFails
  <2>2. CASE request[q].then = "idle"
    BY <1>2, <2>1, <2>2, IdleLives DEF Resume
  <2>3. CASE request[q].then # "idle"
    <3>1. /\ request'[q].pc = request[q].then /\ request'[q].act = request[q].act
          /\ request'[q].seen = request[q].seen
          /\ request[q].then \in {"next", "execute", "each", "final"}
      BY <1>1, <2>1, <2>3, ResumeFacts DEF Held
    <3>2. Deals(q)'
      BY <1>2, <2>1, <3>1 DEF Deals, Executes
    <3> QED BY <1>2, <3>2, StillLives
  <2> QED BY <2>2, <2>3
<1> QED BY <1>3, <1>4

LEMMA ReadsLives ==
  ASSUME LInv, NEW q \in Requests, NextOfBatch(q) \/ ReadToExecute(q) \/ ReadToChange(q)
  PROVE  Lives(q)
<1> USE DEF LInv, AInv, At
<1>1. request \in [Requests -> Request] /\ request[q] \in Request /\ Held(request[q], status)
  BY DEF TypeOK
<1>2. status' = status /\ performed' = performed /\ content' = content
  BY DEF NextOfBatch, ReadToExecute, ReadToChange, rows, outside
<1>3. CASE Done(q)
  BY <1>2, <1>3, IdleLives
<1>4. ASSUME NextOfBatch(q), NEW a \in request[q].todo,
             request' = [request EXCEPT ![q] =
               [Idle EXCEPT !.op = "auto", !.pc = "read", !.act = a,
                            !.todo = request[q].todo \ {a}, !.allowed = request[q].allowed]]
      PROVE  Lives(q)
  <2> DEFINE r == [Idle EXCEPT !.op = "auto", !.pc = "read", !.act = a,
                               !.todo = request[q].todo \ {a}, !.allowed = request[q].allowed]
  <2>1. a \in Actions /\ request[q].todo \ {a} \subseteq Actions /\ request[q].allowed \in BOOLEAN
    BY <1>1 DEF Request
  <2>2. r \in Request /\ r.pc = "read"
    BY <2>1, IdleFacts DEF Request, Kinds, Pcs
  <2> QED BY <1>2, <1>4, <2>2, BeginsLives
<1>5. CASE Goto(q, "next")
  <2>1. "next" \in Pcs
    BY DEF Pcs
  <2>2. request'[q].pc = "next"
    BY <1>1, <1>5, <2>1, GotoFacts
  <2> QED BY <1>2, <2>2, PlainLives
<1>6. CASE ReadToExecute(q) /\ Refresh(q, RunOf[request[q].act], "next")
  <2>1. "next" \in Pcs /\ RunOf[request[q].act] \in Runs
    BY <1>1, <1>6, RunOfAssumption DEF Pcs, Held, ReadToExecute
  <2>2. request'[q].pc = "refresh" /\ request'[q].then = "next"
    BY <1>1, <1>6, <2>1, RefreshFacts
  <2> QED BY <1>2, <2>2, PlainLives
<1>7. CASE /\ ReadToExecute(q) /\ status[request[q].act] = "pending"
           /\ request' = [request EXCEPT ![q].pc = "start", ![q].seen = content[request[q].act]]
  <2>1. request'[q] = [request[q] EXCEPT !.pc = "start", !.seen = content[request[q].act]]
    BY <1>1, <1>7
  <2>2. /\ request'[q].pc = "start" /\ request'[q].act = request[q].act
        /\ request'[q].seen = content[request[q].act]
    BY <1>1, <2>1 DEF Request
  <2>3. request[q].act \in Actions
    BY <1>1, <1>7 DEF Held, ReadToExecute
  <2>4. Deals(q)'
    BY <1>2, <1>7, <2>2, <2>3 DEF Deals, Executes, Unspoilt
  <2> QED BY <1>2, <2>4, StillLives
<1>8. CASE ReadToChange(q) /\ status[request[q].act] = "pending" /\ Goto(q, request[q].op)
  <2>1. request[q].op \in {"edit", "cancel"} /\ request[q].op \in Pcs
    BY <1>8 DEF ReadToChange, Pcs
  <2>2. request'[q].pc = request[q].op /\ request'[q].act = request[q].act
    BY <1>1, <1>8, <2>1, GotoFacts
  <2>3. Deals(q)'
    BY <1>2, <1>8, <2>1, <2>2 DEF Deals, Executes
  <2> QED BY <1>2, <2>3, StillLives
<1> QED BY <1>3, <1>4, <1>5, <1>6, <1>7, <1>8 DEF NextOfBatch, ReadToExecute, ReadToChange

LEMMA StartLives ==
  ASSUME LInv, NEW q \in Requests, Start(q)
  PROVE  Lives(q)
<1> USE DEF LInv, AInv
<1> DEFINE a == request[q].act
<1>1. /\ a \in Actions /\ request \in [Requests -> Request]
      /\ status[a] = "pending" /\ performed[a] = "never" /\ request[q].seen = content[a]
  BY DEF TypeOK, Held, Deals, Start
<1>2. /\ request'[q].pc = "refresh" /\ request'[q].then = "execute"
      /\ request'[q].act = a /\ request'[q].seen = request[q].seen
  <2>1. "execute" \in Pcs /\ RunOf[a] \in Runs
    BY <1>1, RunOfAssumption DEF Pcs
  <2> QED BY <1>1, <2>1, RefreshFacts DEF Start
<1>3. Write({a}, "executing") /\ performed' = performed /\ content' = content
  BY DEF Start, outside
<1>4. status'[a] = "executing"
  BY <1>1, <1>3 DEF Write, Live
<1>5. Deals(q)'
  BY <1>1, <1>2, <1>3, <1>4 DEF Deals, Executes
<1>6. {b \in {a} : status[b] \in Live} = {a}
  BY <1>1 DEF Live
<1>7. Life!Move({a}, "executing") => Life!Next
  BY <1>1 DEF Life!Next, Life!Take
<1>8. {a} \in SUBSET Actions /\ "executing" \in Statuses \ {"unused"}
  BY <1>1 DEF Statuses, Live
<1> QED BY <1>3, <1>5, <1>6, <1>7, <1>8, WriteLives

LEMMA ExecuteLives ==
  ASSUME LInv, NEW q \in Requests, NEW outcome \in Outcomes, Execute(q, outcome)
  PROVE  Lives(q)
<1> USE DEF LInv, AInv
<1> DEFINE a == request[q].act
<1>1. /\ a \in Actions /\ request[q] \in Request
      /\ status[a] = "executing" /\ performed[a] = "never" /\ request[q].seen = content[a]
      /\ content[a] \in Contents
  BY DEF TypeOK, Held, Deals, Executes, Execute
<1>2. request'[q] = [request[q] EXCEPT !.pc = "finish", !.outcome = outcome]
  BY DEF Execute, TypeOK
<1>3. request'[q].pc = "finish" /\ request'[q].act = a /\ request'[q].outcome = outcome
  BY <1>1, <1>2 DEF Request
<1>4. status' = status /\ content' = content
  BY DEF Execute, rows
<1>5. CASE outcome \in {"failed", "pending"} /\ UNCHANGED performed
  <2>1. Deals(q)'
    BY <1>1, <1>3, <1>4, <1>5 DEF Deals, Executes
  <2> QED BY <1>4, <1>5, <2>1, StillLives
<1>6. CASE outcome \in {"executed", "failed"} /\ Perform(q)
  <2>1. performed' = [performed EXCEPT ![a] = content[a]]
    BY <1>1, <1>6 DEF Perform
  <2>2. performed'[a] = content[a] /\ \A b \in Actions \ {a} : performed'[b] = performed[b]
    BY <1>1, <2>1 DEF TypeOK
  <2>3. content[a] # "never"
    BY <1>1 DEF Contents
  <2>4. Deals(q)'
    BY <1>1, <1>3, <1>4, <1>6, <2>2, <2>3 DEF Deals, Executes
  <2>5. Unspoilt'
    BY <1>1, <1>4, <2>2 DEF Unspoilt
  <2>6. PICK c \in Actions : c = a
    BY <1>1
  <2>7. Life!Perform(c)
    <3>1. [b \in Actions |-> performed'[b] # "never"]
            = [[b \in Actions |-> performed[b] # "never"] EXCEPT ![c] = TRUE]
      BY <1>1, <2>2, <2>3, <2>6
    <3> QED BY <1>1, <1>4, <2>6, <3>1 DEF Life!Perform
  <2>8. LifeStep
    BY <2>7 DEF LifeStep, Life!Next
  <2> QED BY <2>4, <2>5, <2>8 DEF Lives
<1> QED BY <1>5, <1>6 DEF Execute

LEMMA FinishLives ==
  ASSUME LInv, NEW q \in Requests, Finish(q)
  PROVE  Lives(q)
<1> USE DEF LInv, AInv
<1> DEFINE a == request[q].act
           s == request[q].outcome
           then == IF request[q].op = "auto" THEN "next" ELSE "idle"
<1>1. /\ a \in Actions /\ request \in [Requests -> Request] /\ request[q] \in Request
      /\ status[a] = "executing"
      /\ s = "executed" => performed[a] # "never"
      /\ s = "pending" => performed[a] = "never"
  BY DEF TypeOK, Held, Deals, Executes, Finish
<1>2. s \in {"executed", "failed", "pending"}
  BY <1>1 DEF Request, Outcomes
<1>3. request'[q].pc = "refresh" /\ request'[q].then # "execute"
  <2>1. then \in Pcs /\ then # "execute" /\ RunOf[a] \in Runs
    BY <1>1, RunOfAssumption DEF Pcs
  <2>2. Refresh(q, RunOf[a], then)
    BY DEF Finish
  <2> HIDE DEF then, a
  <2> QED BY <1>1, <2>1, <2>2, RefreshFacts
<1>4. Write({a}, s) /\ performed' = performed /\ content' = content
  BY DEF Finish, outside
<1>5. Deals(q)'
  BY <1>3 DEF Deals, Executes
<1>6. {b \in {a} : status[b] \in Live} = {a}
  BY <1>1 DEF Live
<1>7. Life!Move({a}, s) => Life!Next
  <2>1. Life!Move({a}, s) => Life!Conclude(a)
    BY <1>1, <1>2 DEF Life!Conclude
  <2> QED BY <1>1, <2>1 DEF Life!Next
<1>8. {a} \in SUBSET Actions /\ s \in Statuses \ {"unused"}
  BY <1>1, <1>2 DEF Statuses, Live
<1> HIDE DEF a, s, then
<1> QED BY <1>1, <1>4, <1>5, <1>6, <1>7, <1>8, WriteLives

LEMMA EditLives ==
  ASSUME LInv, NEW q \in Requests, Edit(q)
  PROVE  Lives(q)
<1> USE DEF LInv, AInv
<1>1. /\ request[q].act \in Actions /\ performed[request[q].act] = "never"
      /\ request'[q] = Idle
  BY DoneFacts DEF TypeOK, Held, Deals, Unspoilt, Edit
<1>2. /\ status' = status /\ performed' = performed
      /\ \A b \in Actions \ {request[q].act} : content'[b] = content[b]
  BY DEF Edit, outside, TypeOK
<1>3. Deals(q)'
  BY <1>1, IdleFacts DEF Deals, Executes
<1>4. Unspoilt'
  BY <1>1, <1>2 DEF Unspoilt
<1>5. LifeStep
  BY <1>2 DEF LifeStep, Life!vars
<1> QED BY <1>3, <1>4, <1>5 DEF Lives

LEMMA CancelLives ==
  ASSUME LInv, NEW q \in Requests, Cancel(q)
  PROVE  Lives(q)
<1> USE DEF LInv, AInv
<1> DEFINE a == request[q].act
<1>1. a \in Actions /\ request \in [Requests -> Request] /\ status[a] = "pending"
  BY DEF TypeOK, Held, Deals, Cancel
<1>2. request'[q].pc = "refresh" /\ request'[q].then = "idle"
  <2>1. "idle" \in Pcs /\ RunOf[a] \in Runs
    BY <1>1, RunOfAssumption DEF Pcs
  <2> QED BY <1>1, <2>1, RefreshFacts DEF Cancel
<1>3. Write({a}, "cancelled") /\ performed' = performed /\ content' = content
  BY DEF Cancel, outside
<1>4. Deals(q)'
  BY <1>2 DEF Deals, Executes
<1>5. {b \in {a} : status[b] \in Live} = {a}
  BY <1>1 DEF Live
<1>6. Life!Move({a}, "cancelled") => Life!Next
  <2>1. {a} \in SUBSET Actions
    BY <1>1
  <2> QED BY <1>1, <2>1 DEF Life!Next, Life!Withdraw
<1>7. {a} \in SUBSET Actions /\ "cancelled" \in Statuses \ {"unused"}
  BY <1>1 DEF Statuses, Live
<1> QED BY <1>3, <1>4, <1>5, <1>6, <1>7, WriteLives

LEMMA CancelAllLives ==
  ASSUME LInv, NEW q \in Requests, SelectPage(q) \/ CancelPage(q) \/ RefreshEach(q)
  PROVE  Lives(q)
<1> USE DEF LInv, AInv, At
<1>1. request \in [Requests -> Request] /\ request[q] \in Request
  BY DEF TypeOK
<1>2. CASE SelectPage(q)
  <2> DEFINE page == Lowest({a \in Actions : a > request[q].cursor
                                               /\ status[a] \in {"pending", "failed"}}, PageSize)
             pc == IF page = {} THEN "each" ELSE "cancelpage"
  <2>1. GoWith(q, page, pc)
    BY <1>2 DEF SelectPage, GoWith
  <2>2. /\ page \in SUBSET Actions /\ pc \in Pcs /\ pc \in {"each", "cancelpage"}
        /\ \A a \in page : status[a] \in {"pending", "failed"}
    BY DEF Lowest, Pcs
  <2>3. status' = status /\ performed' = performed /\ content' = content
    BY <1>2 DEF SelectPage, rows, outside
  <2> HIDE DEF page, pc
  <2>4. request'[q].pc = pc /\ request'[q].todo = page
    BY <1>1, <2>1, <2>2, GoWithFacts
  <2>5. Deals(q)'
    BY <2>2, <2>3, <2>4 DEF Deals, Executes
  <2> QED BY <2>3, <2>5, StillLives
<1>3. CASE CancelPage(q)
  <2> DEFINE page == request[q].todo
  <2>1. page \in SUBSET Actions /\ \A a \in page : status[a] \in {"pending", "failed"}
    BY <1>1, <1>3 DEF Deals, CancelPage, Request
  <2>2. Write(page, "cancelled") /\ performed' = performed /\ content' = content
    BY <1>3 DEF CancelPage, outside
  <2>3. request'[q].pc \in {"each", "select"}
    <3> DEFINE runs == request[q].runs \cup {RunOf[a] : a \in page}
               cursor == Max(page)
               pc == IF Cardinality(page) < PageSize THEN "each" ELSE "select"
    <3>1. request' = [request EXCEPT ![q].runs = runs, ![q].todo = {},
                        ![q].cursor = cursor, ![q].pc = pc]
      BY <1>3 DEF CancelPage
    <3>3. pc \in {"each", "select"}
      OBVIOUS
    <3> HIDE DEF runs, cursor, pc
    <3>2. request'[q] = [request[q] EXCEPT !.runs = runs, !.todo = {}, !.cursor = cursor, !.pc = pc]
      BY <1>1, <3>1
    <3> QED BY <1>1, <3>2, <3>3 DEF Request
  <2>4. Deals(q)'
    BY <2>3 DEF Deals, Executes
  <2>5. {a \in page : status[a] \in Live} = page
    BY <2>1 DEF Live
  <2>6. Life!Move(page, "cancelled") => Life!Next
    BY <2>1 DEF Life!Next, Life!Withdraw
  <2>7. "cancelled" \in Statuses \ {"unused"}
    BY DEF Statuses, Live
  <2> HIDE DEF page
  <2> QED BY <2>1, <2>2, <2>4, <2>5, <2>6, <2>7, WriteLives
<1>4. CASE RefreshEach(q)
  <2>1. status' = status /\ performed' = performed /\ content' = content
    BY <1>4 DEF RefreshEach, rows, outside
  <2>2. CASE Done(q)
    BY <2>1, <2>2, IdleLives
  <2>3. ASSUME NEW r \in request[q].runs,
               request' = [request EXCEPT ![q].pc = "refresh", ![q].run = r, ![q].then = "each",
                             ![q].runs = request[q].runs \ {r}]
        PROVE  Lives(q)
    <3>1. request'[q] = [request[q] EXCEPT !.pc = "refresh", !.run = r, !.then = "each",
                           !.runs = request[q].runs \ {r}]
      BY <1>1, <2>3
    <3>2. request'[q].pc = "refresh" /\ request'[q].then = "each"
      BY <1>1, <3>1 DEF Request
    <3> QED BY <2>1, <3>2, PlainLives
  <2> QED BY <1>4, <2>2, <2>3 DEF RefreshEach
<1> QED BY <1>2, <1>3, <1>4

LEMMA MaterializeLives ==
  ASSUME LInv, NEW q \in Requests, Materialize(q)
  PROVE  Lives(q)
<1> USE DEF LInv, AInv, At
<1>1. request \in [Requests -> Request] /\ request[q] \in Request
  BY DEF TypeOK
<1>2. performed' = performed /\ content' = content
  BY DEF Materialize, LoadRun, QueryOld, InsertNew, DeleteOld, CompleteRun, rows, outside
<1>3. CASE Done(q) /\ status' = status
  BY <1>2, <1>3, IdleLives
<1>4. CASE LoadRun(q) /\ Goto(q, "query")
  <2>1. request'[q].pc = "query"
    <3>1. "query" \in Pcs
      BY DEF Pcs
    <3> QED BY <1>1, <1>4, <3>1, GotoFacts
  <2> QED BY <1>2, <1>4, <2>1, PlainLives DEF LoadRun, rows
<1>5. CASE /\ QueryOld(q)
           /\ request' = [request EXCEPT ![q].pc = "insert",
                            ![q].todo = Lowest(Rows(request[q].run), QueryCap)]
  <2> DEFINE old == Lowest(Rows(request[q].run), QueryCap)
  <2>1. GoWith(q, old, "insert")
    BY <1>5 DEF GoWith
  <2>2. old \in SUBSET Actions /\ "insert" \in Pcs
    BY DEF Lowest, Rows, Pcs
  <2> HIDE DEF old
  <2>3. request'[q].pc = "insert"
    BY <1>1, <2>1, <2>2, GoWithFacts
  <2> QED BY <1>2, <1>5, <2>3, PlainLives DEF QueryOld, rows
<1>6. CASE InsertNew(q) /\ NewKeys(request[q].run) # {}
  <2>1. PICK new \in (SUBSET NewKeys(request[q].run)) \ {{}} :
          status' = [a \in Actions |-> IF a \in new THEN "pending" ELSE status[a]]
    BY <1>6 DEF InsertNew
  <2>2. new \in SUBSET Actions /\ \A a \in new : status[a] = "unused"
    <3> SUFFICES ASSUME NEW a \in new PROVE a \in Actions /\ status[a] = "unused"
      OBVIOUS
    <3>1. a \in Actions /\ (status[a] # "unused" => a < a)
      BY DEF NewKeys
    <3>2. a \in Nat
      BY <3>1, ActionsAssumption
    <3> QED BY <3>1, <3>2
  <2>3. request'[q].pc = "delete" \/ (request'[q].pc = "refresh" /\ request'[q].then = "final")
    <3>1. "delete" \in Pcs /\ "final" \in Pcs /\ request[q].run \in Runs
      BY <1>1 DEF Pcs, Request
    <3>2. CASE Refresh(q, request[q].run, "final")
      BY <1>1, <3>1, <3>2, RefreshFacts
    <3>3. CASE Goto(q, "delete")
      BY <1>1, <3>1, <3>3, GotoFacts
    <3> QED BY <1>6, <3>2, <3>3 DEF InsertNew
  <2>4. Deals(q)'
    BY <2>3 DEF Deals, Executes
  <2>5. Unspoilt'
    BY <1>2, <2>1, <2>2 DEF Unspoilt
  <2>6. Life!Move(new, "pending")
    BY <1>2, <2>1 DEF Life!Move
  <2>7. Life!Next
    BY <2>2, <2>6 DEF Life!Next, Life!Propose
  <2> QED BY <2>4, <2>5, <2>7 DEF Lives, LifeStep
<1>7. CASE DeleteOld(q)
  <2> DEFINE old == request[q].todo
             there == {a \in old : status[a] \in Live}
  <2>1. old \in SUBSET Actions /\ Write(old, "deleted")
    BY <1>1, <1>7 DEF DeleteOld, Request
  <2>2. request'[q].pc = "refresh" /\ request'[q].then = "final"
    <3>1. "final" \in Pcs /\ request[q].run \in Runs
      BY <1>1 DEF Pcs, Request
    <3> QED BY <1>1, <1>7, <3>1, RefreshFacts DEF DeleteOld
  <2>3. Deals(q)'
    BY <2>2 DEF Deals, Executes
  <2>4. Life!Move(there, "deleted") => Life!Next
    <3>1. there \in SUBSET Actions /\ \A a \in there : status[a] \in Life!Live
      BY <2>1 DEF Live, Life!Live
    <3> HIDE DEF there
    <3> QED BY <3>1 DEF Life!Next, Life!Replace
  <2>5. "deleted" \in Statuses \ {"unused"}
    BY DEF Statuses
  <2> HIDE DEF old
  <2> QED BY <1>2, <2>1, <2>3, <2>4, <2>5, WriteLives
<1>8. CASE CompleteRun(q)
  BY <1>2, <1>8, IdleLives DEF CompleteRun, rows
<1> QED BY <1>3, <1>4, <1>5, <1>6, <1>7, <1>8
        DEF Materialize, LoadRun, QueryOld, InsertNew, rows

LEMMA RequestLives ==
  ASSUME LInv, NEW q \in Requests, Arrive(q) \/ Proceed(q) \/ Crash(q)
  PROVE  Lives(q)
<1>1. CASE Arrive(q)
  BY <1>1, ArriveLives
<1>2. CASE RefreshRead(q) \/ RefreshStore(q) \/ RefreshFails(q)
  BY <1>2, RefreshLives
<1>3. CASE ExecuteSuggestions(q)
  BY <1>3, ReadsLives, StartLives, FinishLives, ExecuteLives DEF ExecuteSuggestions
<1>4. CASE ReadToChange(q) \/ Edit(q) \/ Cancel(q)
  BY <1>4, ReadsLives, EditLives, CancelLives
<1>5. CASE SelectPage(q) \/ CancelPage(q) \/ RefreshEach(q)
  BY <1>5, CancelAllLives
<1>6. CASE Materialize(q)
  BY <1>6, MaterializeLives
<1>7. CASE CallFails(q) \/ Crash(q)
  BY <1>7, IdleLives DEF CallFails, Crash, rows
<1> QED BY <1>1, <1>2, <1>3, <1>4, <1>5, <1>6, <1>7 DEF Proceed

\* With one thread every step keeps the invariant and is a step of the life.
LEMMA NextLives ==
  ASSUME NEW one, Requests = {one}, LInv, [Next]_vars
  PROVE  LInv' /\ LifeStep
<1>1. AInv'
  BY NextAInv DEF LInv
<1>2. ASSUME NEW q \in Requests, Arrive(q) \/ Proceed(q) \/ Crash(q)
      PROVE  LInv' /\ LifeStep
  <2>1. Lives(q) /\ q = one
    BY <1>2, RequestLives
  <2> QED BY <1>1, <2>1 DEF LInv, Lives
<1>3. CASE UNCHANGED <<rows, request, performed>>
  <2>1. \A q \in Requests : Deals(q)'
    BY <1>3 DEF LInv, Deals, rows
  <2> QED BY <1>1, <1>3, <2>1 DEF LInv, Unspoilt, LifeStep, Life!vars, rows
<1>4. CASE \E r \in Runs : AgentFinishes(r)
  BY <1>3, <1>4 DEF AgentFinishes, outside
<1>5. CASE UNCHANGED vars
  BY <1>3, <1>5 DEF vars, rows
<1> QED BY <1>2, <1>4, <1>5 DEF Next

LEMMA InitLives == Init => LInv /\ Life!Init
<1> SUFFICES ASSUME Init PROVE LInv /\ Life!Init
  OBVIOUS
<1>1. \A q \in Requests : Deals(q)
  BY IdleFacts DEF Init, Deals, Executes
<1>2. Unspoilt /\ Life!Init
  BY DEF Init, Unspoilt, Life!Init
<1> QED BY <1>1, <1>2, InitAInv DEF LInv

\* Requests that come one after the other take every suggestion through the life
\* that SuggestionLife describes: it is performed at most once, while it is
\* executing, and what was done never goes back to pending; calls may fail and
\* processes die at any point.
THEOREM LifeKept ==
  ASSUME NEW one, Requests = {one}
  PROVE  Spec => KeepsToLife
<1>1. Init => LInv /\ Life!Init
  BY InitLives
<1>2. LInv /\ [Next]_vars => LInv' /\ [Life!Next]_(Life!vars)
  BY NextLives DEF LifeStep
<1> QED BY <1>1, <1>2, PTL DEF Spec, KeepsToLife, Life!Spec

\* One after the other, no suggestion is performed twice.
THEOREM Once ==
  ASSUME NEW one, Requests = {one}
  PROVE  Spec => []PerformedOnce
<1>1. Init => LInv
  BY InitLives
<1>2. LInv /\ [Next]_vars => LInv'
  BY NextLives
<1>3. LInv => PerformedOnce
  BY DEF LInv, AInv, TypeOK, Unspoilt, PerformedOnce, Contents
<1> QED BY <1>1, <1>2, <1>3, PTL DEF Spec

\* One after the other, the row of a suggestion that was performed shows what was
\* performed: no edit slips in between.
THEOREM AsShown ==
  ASSUME NEW one, Requests = {one}
  PROVE  Spec => []PerformedAsShown
<1>1. Init => LInv
  BY InitLives
<1>2. LInv /\ [Next]_vars => LInv'
  BY NextLives
<1>3. LInv => PerformedAsShown
  BY DEF LInv, Unspoilt, PerformedAsShown, Contents
<1> QED BY <1>1, <1>2, <1>3, PTL DEF Spec

-----------------------------------------------------------------------------
(* The summaries of the runs and the pages of "cancel all", one request    *)
(* after the other.                                                        *)

Open == {"pending", "failed"}

\* The request will still write the summary of the run.
Owes(r, run) ==
  \/ r.pc \in {"refresh", "store", "delete"} /\ r.run = run
  \/ run \in r.runs

\* Where the requests of each kind can be.
Course(r) ==
  /\ r.op = "cancelall" => \/ r.pc \in {"select", "cancelpage", "each"}
                           \/ r.pc \in {"refresh", "store"} /\ r.then = "each"
  /\ r.op # "cancelall" => /\ r.runs = {}
                           /\ r.pc \in {"refresh", "store"} => r.then # "each"
  /\ Deletes(r) \/ r.pc \in {"insert", "delete"} => r.op = "materialize"

\* The summary of a completed run is right.
Right(run) ==
  run_status[run] = "completed" => suggestions_status[run] = Summary(StatusesOf(run))

\* Every summary is right, or the request will write it; the one in hand is right.
Tallied(q) ==
  LET r == request[q] IN
  ~disturbed => /\ r.pc \in {"store", "final"} => r.read = Summary(StatusesOf(r.run))
                /\ \A run \in Runs : Right(run) \/ Owes(r, run)

\* Pages leave nothing open behind them.
Cleared(q) ==
  LET r == request[q] IN
  r.op = "cancelall" =>
    /\ r.pc = "select" => \A a \in Actions : status[a] \in Open => a > r.cursor
    /\ r.pc = "cancelpage" => \A a \in Actions \ r.todo : status[a] \in Open =>
         Cardinality(r.todo) >= PageSize /\ \A b \in r.todo : b < a
    /\ r.pc \in {"each", "refresh", "store"} => \A a \in Actions : status[a] \notin Open

FInv == AInv /\ \A q \in Requests : Course(request[q]) /\ Tallied(q) /\ Cleared(q)

Sums(q) == Course(request'[q]) /\ Tallied(q)' /\ Cleared(q)'

\* A page is a lower part of what there is, full unless it is all of it.
LEMMA LowestFacts ==
  ASSUME NEW S \in SUBSET Actions, NEW n \in Nat \ {0}
  PROVE  /\ Lowest(S, n) \subseteq S
         /\ \A a \in S \ Lowest(S, n) : /\ Cardinality(Lowest(S, n)) >= n
                                        /\ \A b \in Lowest(S, n) : b < a
<1> DEFINE Below(a) == {b \in S : b < a}
           L == Lowest(S, n)
<1>1. S \subseteq Nat /\ IsFiniteSet(S)
  BY ActionsAssumption, FS_Subset
<1>2. \A a \in S : /\ Below(a) \in SUBSET S /\ IsFiniteSet(Below(a))
                   /\ Cardinality(Below(a)) \in Nat
                   /\ a \in L <=> Cardinality(Below(a)) < n
  BY <1>1, FS_Subset, FS_CardinalityType DEF Lowest
<1>3. L \in SUBSET S
  BY DEF Lowest
<1>4. ASSUME NEW a \in S \ L, NEW b \in L PROVE b < a
  <2>1. a \in Nat /\ b \in Nat /\ b \in S /\ a # b
    BY <1>1, <1>3, <1>4
  <2>2. CASE a < b
    <3>1. Below(a) \in SUBSET Below(b)
      <4> SUFFICES ASSUME NEW c \in S, c < a PROVE c < b
        OBVIOUS
      <4> QED BY <1>1, <2>1, <2>2
    <3>2. Cardinality(Below(a)) <= Cardinality(Below(b))
      <4>1. IsFiniteSet(Below(b))
        BY <1>2, <2>1
      <4> HIDE DEF Below
      <4> QED BY <3>1, <4>1, FS_Subset
    <3> HIDE DEF Below, L
    <3> QED BY <1>2, <2>1, <3>2
  <2> QED BY <2>1, <2>2
<1>5. ASSUME NEW a \in S \ L PROVE Cardinality(L) >= n
  <2> DEFINE T == {Below(x) : x \in S \ L}
  <2>1. T \subseteq FiniteSubsetsOf(S) /\ T # {}
    <3>1. FiniteSubsetsOf(S) = SUBSET S
      BY <1>1, FS_FiniteSubsetsOfFinite
    <3>2. \A x \in S : Below(x) \in SUBSET S
      BY <1>2
    <3>3. Below(a) \in T
      BY <1>5
    <3> HIDE DEF Below
    <3> QED BY <3>1, <3>2, <3>3
  <2>2. PICK U \in T : \A V \in T : ~ (<<V, U>> \in StrictSubsetOrdering(S))
    <3>1. IsWellFoundedOn(StrictSubsetOrdering(S), FiniteSubsetsOf(S))
      BY FS_StrictSubsetOrderingWellFounded
    <3> HIDE DEF T
    <3> QED BY <2>1, <3>1, WFMin
  <2>3. PICK x \in S \ L : U = Below(x)
    BY <2>2
  <2>4. Below(x) \in SUBSET L
    <3> SUFFICES ASSUME NEW y \in Below(x), y \notin L PROVE FALSE
      OBVIOUS
    <3>1. y \in S \ L /\ y \in Nat /\ x \in Nat /\ y < x
      BY <1>1
    <3>2. Below(y) \subseteq Below(x) /\ Below(y) # Below(x)
      <4>1. \A c \in S : c \in Nat /\ (c < y => c < x)
        BY <1>1, <3>1
      <4>2. y \in Below(x) /\ y \notin Below(y)
        BY <3>1
      <4> QED BY <4>1, <4>2
    <3>3. Below(y) \in T /\ Below(y) \in SUBSET S /\ Below(x) \in SUBSET S
      BY <3>1
    <3>4. <<Below(y), Below(x)>> \in StrictSubsetOrdering(S)
      <4> HIDE DEF Below, T, L
      <4> QED BY <3>2, <3>3 DEF StrictSubsetOrdering
    <3> HIDE DEF Below, T, L
    <3> QED BY <2>2, <2>3, <3>3, <3>4
  <2>5. IsFiniteSet(L) /\ Cardinality(L) \in Nat
    BY <1>1, <1>3, FS_Subset, FS_CardinalityType
  <2>6. Cardinality(Below(x)) <= Cardinality(L)
    <3> HIDE DEF Below, L
    <3> QED BY <2>4, <2>5, FS_Subset
  <2> HIDE DEF Below, L
  <2> QED BY <1>2, <2>3, <2>5, <2>6
<1> QED BY <1>3, <1>4, <1>5

LEMMA SameStatuses ==
  ASSUME NEW run \in Runs, \A a \in Actions : RunOf[a] = run => status'[a] = status[a]
  PROVE  StatusesOf(run)' = StatusesOf(run)
<1>1. Rows(run)' = Rows(run) /\ \A a \in Rows(run) : status'[a] = status[a]
  BY DEF Rows
<1> QED BY <1>1 DEF StatusesOf

LEMMA StillRight ==
  ASSUME NEW run \in Runs, runRows' = runRows, StatusesOf(run)' = StatusesOf(run)
  PROVE  Right(run)' <=> Right(run)
BY DEF Right, runRows

\* Outside the refreshes and "cancel all" the summaries are right.
LEMMA NothingOwed ==
  ASSUME FInv, NEW q \in Requests,
         request[q].pc \notin {"refresh", "store", "delete", "select", "cancelpage", "each"}
  PROVE  /\ request[q].op # "cancelall" /\ request[q].runs = {}
         /\ \A run \in Runs : ~Owes(request[q], run)
         /\ ~disturbed => \A run \in Runs : Right(run)
<1>1. request[q].op # "cancelall" /\ request[q].runs = {}
  BY DEF FInv, Course
<1>2. \A run \in Runs : ~Owes(request[q], run)
  BY <1>1 DEF Owes
<1> QED BY <1>1, <1>2 DEF FInv, Tallied

\* A step that leaves the rows alone and still owes what it owed.
LEMMA StillSums ==
  ASSUME FInv, NEW q \in Requests, Course(request'[q]), Cleared(q)',
         status' = status, runRows' = runRows, disturbed => disturbed',
         request'[q].pc \notin {"store", "final"},
         \A run \in Runs : Owes(request[q], run) => Owes(request'[q], run)
  PROVE  Sums(q)
<1>1. \A run \in Runs : StatusesOf(run)' = StatusesOf(run)
  BY SameStatuses
<1>2. Tallied(q)'
  BY <1>1, StillRight DEF FInv, Tallied
<1> QED BY <1>2 DEF Sums

LEMMA IdleSums ==
  ASSUME FInv, NEW q \in Requests, Done(q), disturbed => disturbed',
         \/ disturbed'
         \/ /\ status' = status /\ runRows' = runRows
            /\ \A run \in Runs : ~Owes(request[q], run)
  PROVE  Sums(q)
<1>1. request'[q] = Idle
  BY DoneFacts DEF FInv, AInv, TypeOK
<1>2. Course(request'[q]) /\ Cleared(q)'
  BY <1>1 DEF Course, Cleared, Idle, Deletes
<1>3. CASE disturbed'
  BY <1>2, <1>3 DEF Sums, Tallied
<1>4. CASE /\ status' = status /\ runRows' = runRows
           /\ \A run \in Runs : ~Owes(request[q], run)
  BY <1>1, <1>2, <1>4, IdleFacts, StillSums
<1> QED BY <1>3, <1>4

\* The first step of a request or of the next suggestion of a batch.
LEMMA BeginSums ==
  ASSUME FInv, NEW q \in Requests, NEW r \in Request,
         request' = [request EXCEPT ![q] = r], r.runs = {},
         request[q].pc \in {"idle", "next"},
         \/ r.pc \in {"next", "read", "load"} /\ r.op # "cancelall"
         \/ r.pc = "select" /\ r.op = "cancelall" /\ r.cursor = 0,
         status' = status, runRows' = runRows, disturbed' = disturbed
  PROVE  Sums(q)
<1>1. request'[q] = r
  BY DEF FInv, AInv, TypeOK
<1>2. Course(request'[q])
  BY <1>1 DEF Course, Deletes
<1>3. Cleared(q)'
  <2>1. \A a \in Actions : a > 0
    BY ActionsAssumption
  <2> QED BY <1>1, <2>1 DEF Cleared
<1> QED BY <1>1, <1>2, <1>3, NothingOwed, StillSums

\* A step of a request other than "cancel all" that leaves the rows alone.
LEMMA OnSums ==
  ASSUME FInv, NEW q \in Requests,
         request[q].pc \notin {"refresh", "store", "delete", "select", "cancelpage", "each"},
         request'[q].op = request[q].op, request'[q].runs = request[q].runs,
         \/ request'[q].pc \in {"next", "start", "execute", "finish", "edit", "cancel", "query"}
         \/ request'[q].pc = "insert" /\ request[q].op = "materialize"
         \/ request'[q].pc = "refresh" /\ request'[q].then \in {"idle", "next", "execute"},
         status' = status, runRows' = runRows, disturbed' = disturbed
  PROVE  Sums(q)
<1>1. request[q].op # "cancelall" /\ request[q].runs = {}
  BY NothingOwed
<1>2. Course(request'[q]) /\ Cleared(q)'
  BY <1>1 DEF Course, Cleared, Deletes
<1> QED BY <1>2, NothingOwed, StillSums

\* A step that writes suggestions of one run and then owes its summary.
LEMMA WroteSums ==
  ASSUME FInv, NEW q \in Requests, NEW run \in Runs,
         request[q].pc \notin {"refresh", "store", "select", "cancelpage", "each"},
         request[q].pc = "delete" => request[q].run = run,
         request'[q].op = request[q].op, request'[q].runs = request[q].runs,
         request'[q].run = run,
         \/ request'[q].pc = "delete" /\ request[q].op = "materialize"
         \/ /\ request'[q].pc = "refresh"
            /\ \/ request'[q].then \in {"idle", "next", "execute"}
               \/ request'[q].then = "final" /\ request[q].op = "materialize",
         \A a \in Actions : status'[a] # status[a] => RunOf[a] = run,
         runRows' = runRows, disturbed' = disturbed
  PROVE  Sums(q)
<1>1. request[q].op # "cancelall" /\ request[q].runs = {}
  BY DEF FInv, Course
<1>2. Course(request'[q]) /\ Cleared(q)'
  BY <1>1 DEF Course, Cleared, Deletes
<1>3. Tallied(q)'
  <2> SUFFICES ASSUME ~disturbed', NEW x \in Runs, ~Owes(request'[q], x)
               PROVE  Right(x)'
    BY DEF Tallied
  <2>1. x # run
    BY DEF Owes
  <2>2. StatusesOf(x)' = StatusesOf(x)
    BY <2>1, SameStatuses
  <2>3. ~Owes(request[q], x)
    BY <1>1, <2>1 DEF Owes
  <2> QED BY <2>2, <2>3, StillRight DEF FInv, Tallied
<1> QED BY <1>2, <1>3 DEF Sums

LEMMA ArriveSums ==
  ASSUME FInv, NEW q \in Requests, Arrive(q)
  PROVE  Sums(q)
<1> USE DEF rows, runRows, outside
<1>1. ASSUME NEW a \in Actions, NEW op \in {"confirm", "edit", "cancel"}, Begin(q, op),
             request' = [request EXCEPT ![q] = [Idle EXCEPT !.op = op, !.pc = "read", !.act = a]]
      PROVE  Sums(q)
  <2> DEFINE r == [Idle EXCEPT !.op = op, !.pc = "read", !.act = a]
  <2>1. r \in Request /\ r.pc = "read" /\ r.op # "cancelall" /\ r.runs = {}
    BY IdleFacts DEF Request, Kinds, Pcs, Idle
  <2> QED BY <1>1, <2>1, BeginSums DEF Begin
<1>2. ASSUME NEW S \in SUBSET Actions, NEW allowed \in BOOLEAN, BeginAuto(q, S, allowed)
      PROVE  Sums(q)
  <2> DEFINE r == [Idle EXCEPT !.op = "auto", !.pc = "next", !.todo = S, !.allowed = allowed]
  <2>1. r \in Request /\ r.pc = "next" /\ r.op # "cancelall" /\ r.runs = {}
    BY IdleFacts DEF Request, Kinds, Pcs, Idle
  <2> QED BY <1>2, <2>1, BeginSums DEF BeginAuto, Begin
<1>3. ASSUME BeginCancelAll(q)
      PROVE  Sums(q)
  <2> DEFINE r == [Idle EXCEPT !.op = "cancelall", !.pc = "select"]
  <2>1. r \in Request /\ r.pc = "select" /\ r.op = "cancelall" /\ r.runs = {} /\ r.cursor = 0
    BY IdleFacts DEF Request, Kinds, Pcs, Idle
  <2> QED BY <1>3, <2>1, BeginSums DEF BeginCancelAll, Begin
<1>4. ASSUME NEW run \in Runs, BeginMaterialize(q, run)
      PROVE  Sums(q)
  <2> DEFINE r == [Idle EXCEPT !.op = "materialize", !.pc = "load", !.run = run]
  <2>1. r \in Request /\ r.pc = "load" /\ r.op # "cancelall" /\ r.runs = {}
    BY IdleFacts DEF Request, Kinds, Pcs, Idle
  <2> QED BY <1>4, <2>1, BeginSums DEF BeginMaterialize, Begin
<1> QED BY <1>1, <1>2, <1>3, <1>4 DEF Arrive, BeginConfirm, BeginChange

LEMMA RefreshSums ==
  ASSUME FInv, NEW q \in Requests, RefreshRead(q) \/ RefreshStore(q) \/ RefreshFails(q)
  PROVE  Sums(q)
<1> USE DEF FInv, AInv
<1>1. /\ request \in [Requests -> Request] /\ request[q] \in Request
      /\ Held(request[q], status) /\ Course(request[q]) /\ request[q].run \in Runs
  BY DEF TypeOK, Request
<1>2. status' = status /\ \A run \in Runs : StatusesOf(run)' = StatusesOf(run)
  <2>1. status' = status
    BY DEF RefreshRead, RefreshStore, RefreshFails, rows
  <2> QED BY <2>1, SameStatuses
<1>3. CASE RefreshRead(q)
  <2>1. PICK s : /\ s = Summary(StatusesOf(request[q].run))
                 /\ request' = [request EXCEPT ![q].pc = "store", ![q].read = s]
    BY <1>3 DEF RefreshRead
  <2>2. request'[q] = [request[q] EXCEPT !.pc = "store", !.read = s]
    BY <1>1, <2>1
  <2>3. /\ request'[q].pc = "store" /\ request'[q].read = s
        /\ request'[q].op = request[q].op /\ request'[q].runs = request[q].runs
        /\ request'[q].run = request[q].run /\ request'[q].then = request[q].then
    BY <1>1, <2>2 DEF Request
  <2>4. Course(request'[q])
    BY <1>1, <1>3, <2>3 DEF Course, Deletes, RefreshRead
  <2>5. Cleared(q)'
    BY <1>2, <1>3, <2>3 DEF Cleared, RefreshRead
  <2>6. \A run \in Runs : Owes(request[q], run) => Owes(request'[q], run)
    BY <1>3, <2>3 DEF Owes, RefreshRead
  <2>7. Tallied(q)'
    <3>1. PICK run \in Runs : run = request[q].run
      BY <1>1
    <3>2. request'[q].read = Summary(StatusesOf(run)') /\ request'[q].run = run
      BY <1>2, <2>1, <2>3, <3>1
    <3>3. runRows' = runRows /\ disturbed' = disturbed
      BY <1>3 DEF RefreshRead, runRows, outside
    <3> QED BY <1>2, <2>6, <3>2, <3>3, StillRight DEF Tallied
  <2> QED BY <2>4, <2>5, <2>7 DEF Sums
<1>4. CASE RefreshStore(q) \/ RefreshFails(q)
  <2>1. Resume(q) /\ request[q].pc \in {"refresh", "store"}
    BY <1>4 DEF RefreshStore, RefreshFails
  <2>2. ASSUME RefreshStore(q), ~disturbed', NEW x \in Runs
        PROVE  Right(x)' \/ (x \in request[q].runs /\ x # request[q].run)
    <3>1. /\ ~disturbed /\ run_status' = run_status
          /\ suggestions_status' = [suggestions_status EXCEPT ![request[q].run] = request[q].read]
      BY <2>2 DEF RefreshStore, outside
    <3>2. request[q].pc = "store" /\ request[q].read = Summary(StatusesOf(request[q].run))
      BY <2>2, <3>1 DEF Tallied, RefreshStore
    <3>3. CASE x = request[q].run
      BY <1>2, <3>1, <3>2, <3>3 DEF TypeOK, Right
    <3>4. CASE x # request[q].run
      <4>1. Right(x) \/ Owes(request[q], x)
        BY <3>1 DEF Tallied
      <4>2. Right(x)' <=> Right(x)
        BY <1>2, <3>1, <3>4 DEF TypeOK, Right
      <4> QED BY <3>2, <3>4, <4>1, <4>2 DEF Owes
    <3> QED BY <3>3, <3>4
  <2>3. RefreshFails(q) => disturbed'
    BY DEF RefreshFails
  <2>4. CASE request[q].then = "idle"
    <3>1. request'[q] = Idle
      BY <1>1, <2>1, <2>4, ResumeFacts
    <3>2. Course(request'[q]) /\ Cleared(q)'
      BY <3>1 DEF Course, Cleared, Idle, Deletes
    <3>3. request[q].runs = {}
      BY <1>1, <2>1, <2>4 DEF Course
    <3>4. Tallied(q)'
      BY <1>4, <2>2, <2>3, <3>1, <3>3, IdleFacts DEF Tallied
    <3> QED BY <3>2, <3>4 DEF Sums
  <2>5. CASE request[q].then # "idle"
    <3>1. /\ request'[q].pc = request[q].then
          /\ request'[q].op = request[q].op /\ request'[q].runs = request[q].runs
          /\ request'[q].run = request[q].run
          /\ request[q].op = "materialize" => request'[q].read = request[q].read
          /\ request[q].then \in {"next", "execute", "each", "final"}
      BY <1>1, <2>1, <2>5, ResumeFacts DEF Held
    <3>2. Course(request'[q])
      BY <1>1, <2>1, <3>1 DEF Course, Deletes
    <3>3. Cleared(q)'
      BY <1>1, <1>2, <2>1, <3>1 DEF Cleared, Course
    <3>4. Tallied(q)'
      <4> SUFFICES ASSUME ~disturbed', RefreshStore(q) PROVE Tallied(q)'
        BY <1>4, <2>3 DEF Tallied
      <4>1. \A x \in Runs : Right(x)' \/ Owes(request'[q], x)
        BY <2>2, <3>1 DEF Owes
      <4>2. ASSUME request'[q].pc = "final"
            PROVE  request'[q].read = Summary(StatusesOf(request[q].run)')
        <5>1. request[q].op = "materialize"
          BY <1>1, <2>1, <3>1, <4>2 DEF Course, Deletes
        <5>2. request[q].read = Summary(StatusesOf(request[q].run))
          BY DEF Tallied, RefreshStore, outside
        <5>3. PICK run \in Runs : run = request[q].run
          BY <1>1
        <5>4. StatusesOf(run)' = StatusesOf(request[q].run)
          BY <1>2, <5>3
        <5>5. StatusesOf(request[q].run)' = StatusesOf(run)'
          BY <3>1, <5>3
        <5> QED BY <3>1, <5>1, <5>2, <5>4, <5>5
      <4>3. request'[q].pc # "store"
        BY <3>1
      <4> QED BY <4>1, <4>2, <4>3 DEF Tallied
    <3> QED BY <3>2, <3>3, <3>4 DEF Sums
  <2> QED BY <2>4, <2>5
<1> QED BY <1>3, <1>4

LEMMA ExecuteSums ==
  ASSUME FInv, NEW q \in Requests, ExecuteSuggestions(q)
  PROVE  Sums(q)
<1> USE DEF FInv, AInv, At
<1>1. request \in [Requests -> Request] /\ request[q] \in Request /\ Held(request[q], status)
  BY DEF TypeOK
<1>2. CASE NextOfBatch(q)
  <2>1. /\ status' = status /\ runRows' = runRows /\ disturbed' = disturbed
        /\ request[q].pc = "next"
    BY <1>2 DEF NextOfBatch, rows, runRows, outside
  <2>2. CASE Done(q)
    BY <2>1, <2>2, NothingOwed, IdleSums
  <2>3. ASSUME NEW a \in request[q].todo,
               request' = [request EXCEPT ![q] =
                 [Idle EXCEPT !.op = "auto", !.pc = "read", !.act = a,
                              !.todo = request[q].todo \ {a}, !.allowed = request[q].allowed]]
        PROVE  Sums(q)
    <3> DEFINE r == [Idle EXCEPT !.op = "auto", !.pc = "read", !.act = a,
                                 !.todo = request[q].todo \ {a}, !.allowed = request[q].allowed]
    <3>1. a \in Actions /\ request[q].todo \ {a} \subseteq Actions /\ request[q].allowed \in BOOLEAN
      BY <1>1, <2>3 DEF Request
    <3>2. r \in Request /\ r.pc = "read" /\ r.op # "cancelall" /\ r.runs = {}
      BY <3>1, IdleFacts DEF Request, Kinds, Pcs, Idle
    <3> QED BY <2>1, <2>3, <3>2, BeginSums
  <2> QED BY <1>2, <2>2, <2>3 DEF NextOfBatch
<1>3. CASE ReadToExecute(q)
  <2>1. /\ status' = status /\ runRows' = runRows /\ disturbed' = disturbed
        /\ request[q].pc = "read" /\ request[q].act \in Actions
    BY <1>1, <1>3 DEF ReadToExecute, Held, rows, runRows, outside
  <2>2. CASE Done(q)
    BY <2>1, <2>2, NothingOwed, IdleSums
  <2>3. CASE Goto(q, "next")
    <3>1. "next" \in Pcs
      BY DEF Pcs
    <3>2. /\ request'[q].pc = "next" /\ request'[q].op = request[q].op
          /\ request'[q].runs = request[q].runs
      BY <1>1, <2>3, <3>1, GotoFacts
    <3> QED BY <2>1, <3>2, OnSums
  <2>4. CASE Refresh(q, RunOf[request[q].act], "next")
    <3>1. "next" \in Pcs /\ RunOf[request[q].act] \in Runs
      BY <2>1, RunOfAssumption DEF Pcs
    <3>2. /\ request'[q].pc = "refresh" /\ request'[q].then = "next"
          /\ request'[q].op = request[q].op /\ request'[q].runs = request[q].runs
      BY <1>1, <2>4, <3>1, RefreshFacts
    <3> QED BY <2>1, <3>2, OnSums
  <2>5. CASE request' = [request EXCEPT ![q].pc = "start", ![q].seen = content[request[q].act]]
    <3>1. request'[q] = [request[q] EXCEPT !.pc = "start", !.seen = content[request[q].act]]
      BY <1>1, <2>5
    <3>2. /\ request'[q].pc = "start" /\ request'[q].op = request[q].op
          /\ request'[q].runs = request[q].runs
      BY <1>1, <3>1 DEF Request
    <3> QED BY <2>1, <3>2, OnSums
  <2> QED BY <1>3, <2>2, <2>3, <2>4, <2>5 DEF ReadToExecute
<1>4. CASE Start(q) \/ Finish(q)
  <2>1. /\ request[q].act \in Actions /\ request[q].pc \in {"start", "finish"}
        /\ runRows' = runRows /\ disturbed' = disturbed
        /\ \A a \in Actions : status'[a] # status[a] => a = request[q].act
    BY <1>1, <1>4 DEF Start, Finish, Held, Executes, Write, runRows, outside
  <2>2. PICK then \in {"idle", "next", "execute"} : Refresh(q, RunOf[request[q].act], then)
    BY <1>4 DEF Start, Finish
  <2>3. then \in Pcs /\ RunOf[request[q].act] \in Runs
    BY <2>1, RunOfAssumption DEF Pcs
  <2>4. /\ request'[q].pc = "refresh" /\ request'[q].then = then
        /\ request'[q].op = request[q].op /\ request'[q].runs = request[q].runs
        /\ request'[q].run = RunOf[request[q].act]
    BY <1>1, <2>2, <2>3, RefreshFacts
  <2> QED BY <2>1, <2>3, <2>4, WroteSums
<1>5. ASSUME NEW outcome \in Outcomes, Execute(q, outcome)
      PROVE  Sums(q)
  <2>1. /\ status' = status /\ runRows' = runRows /\ disturbed' = disturbed
        /\ request[q].pc = "execute"
        /\ request'[q] = [request[q] EXCEPT !.pc = "finish", !.outcome = outcome]
    BY <1>1, <1>5 DEF Execute, rows, runRows
  <2>2. /\ request'[q].pc = "finish" /\ request'[q].op = request[q].op
        /\ request'[q].runs = request[q].runs
    BY <1>1, <2>1 DEF Request
  <2> QED BY <2>1, <2>2, OnSums
<1> QED BY <1>2, <1>3, <1>4, <1>5 DEF ExecuteSuggestions

LEMMA ChangeSums ==
  ASSUME FInv, NEW q \in Requests, ReadToChange(q) \/ Edit(q) \/ Cancel(q)
  PROVE  Sums(q)
<1> USE DEF FInv, AInv, At
<1>1. request \in [Requests -> Request] /\ Held(request[q], status)
  BY DEF TypeOK
<1>2. CASE ReadToChange(q) \/ Edit(q)
  <2>1. /\ status' = status /\ runRows' = runRows /\ disturbed' = disturbed
        /\ request[q].pc \in {"read", "edit"}
    BY <1>2 DEF ReadToChange, Edit, rows, runRows, outside
  <2>2. CASE Done(q)
    BY <2>1, <2>2, NothingOwed, IdleSums
  <2>3. CASE ReadToChange(q) /\ Goto(q, request[q].op)
    <3>1. request[q].op \in {"edit", "cancel"} /\ request[q].op \in Pcs
      BY <2>3 DEF ReadToChange, Pcs
    <3>2. /\ request'[q].pc = request[q].op /\ request'[q].op = request[q].op
          /\ request'[q].runs = request[q].runs
      BY <1>1, <2>3, <3>1, GotoFacts
    <3> QED BY <2>1, <3>1, <3>2, OnSums
  <2> QED BY <1>2, <2>2, <2>3 DEF ReadToChange, Edit
<1>3. CASE Cancel(q)
  <2>1. /\ request[q].act \in Actions /\ request[q].pc = "cancel"
        /\ runRows' = runRows /\ disturbed' = disturbed
        /\ \A a \in Actions : status'[a] # status[a] => a = request[q].act
    BY <1>1, <1>3 DEF Cancel, Held, Write, runRows, outside
  <2>2. "idle" \in Pcs /\ RunOf[request[q].act] \in Runs
    BY <2>1, RunOfAssumption DEF Pcs
  <2>3. /\ request'[q].pc = "refresh" /\ request'[q].then = "idle"
        /\ request'[q].op = request[q].op /\ request'[q].runs = request[q].runs
        /\ request'[q].run = RunOf[request[q].act]
    BY <1>1, <1>3, <2>2, RefreshFacts DEF Cancel
  <2> QED BY <2>1, <2>2, <2>3, WroteSums
<1> QED BY <1>2, <1>3

LEMMA CancelAllSums ==
  ASSUME FInv, NEW q \in Requests, SelectPage(q) \/ CancelPage(q) \/ RefreshEach(q)
  PROVE  Sums(q)
<1> USE DEF FInv, AInv, At
<1>1. /\ request \in [Requests -> Request] /\ request[q] \in Request
      /\ request[q].op = "cancelall" /\ runRows' = runRows
      /\ disturbed' = disturbed
  BY DEF TypeOK, SelectPage, CancelPage, RefreshEach, runRows, outside
<1>2. CASE SelectPage(q)
  <2> DEFINE open == {a \in Actions : a > request[q].cursor /\ status[a] \in {"pending", "failed"}}
             page == Lowest(open, PageSize)
             pc == IF page = {} THEN "each" ELSE "cancelpage"
  <2>1. GoWith(q, page, pc)
    BY <1>2 DEF SelectPage, GoWith
  <2>2. page \in SUBSET Actions /\ pc \in Pcs
    BY DEF Lowest, Pcs
  <2>3. /\ \A a \in open \ page : Cardinality(page) >= PageSize /\ \A b \in page : b < a
        /\ \A a \in Actions : status[a] \in Open => a \in open
    <3>1. open \in SUBSET Actions /\ PageSize \in Nat \ {0}
      BY BoundAssumption
    <3>2. \A a \in Actions : status[a] \in Open => a \in open
      BY <1>1, <1>2 DEF Cleared, Open, SelectPage
    <3> HIDE DEF open
    <3> QED BY <3>1, <3>2, LowestFacts
  <2>4. page = {} => open = {}
    <3> SUFFICES ASSUME page = {}, open # {} PROVE FALSE
      OBVIOUS
    <3>1. Cardinality({}) >= PageSize
      BY <2>3
    <3> QED BY <3>1, FS_EmptySet, BoundAssumption
  <2>5. status' = status
    BY <1>2 DEF SelectPage, rows
  <2>6. (pc = "each" /\ page = {}) \/ pc = "cancelpage"
    OBVIOUS
  <2> HIDE DEF open, page, pc
  <2>7. /\ request'[q].pc = pc /\ request'[q].todo = page
        /\ request'[q].op = request[q].op /\ request'[q].runs = request[q].runs
    BY <1>1, <2>1, <2>2, GoWithFacts
  <2>8. Course(request'[q])
    BY <1>1, <2>6, <2>7 DEF Course, Deletes
  <2>9. Cleared(q)'
    BY <2>3, <2>4, <2>5, <2>6, <2>7 DEF Cleared
  <2>10. \A run \in Runs : Owes(request[q], run) => Owes(request'[q], run)
    BY <1>2, <2>7 DEF Owes, SelectPage
  <2> QED BY <1>1, <2>5, <2>6, <2>7, <2>8, <2>9, <2>10, StillSums
<1>3. CASE CancelPage(q)
  <2> DEFINE page == request[q].todo
             runs == request[q].runs \cup {RunOf[a] : a \in page}
             pc == IF Cardinality(page) < PageSize THEN "each" ELSE "select"
             cursor == Max(page)
  <2>1. page \in SUBSET Actions /\ page # {}
    BY <1>1, <1>3 DEF Held, CancelPage, Request
  <2>2. cursor \in page
    <3>1. page \subseteq Nat /\ IsFiniteSet(page)
      BY <2>1, ActionsAssumption, FS_Subset
    <3> QED BY <2>1, <3>1, MaxFacts
  <2>3. \A a \in Actions \ page : status[a] \in Open =>
          ~(Cardinality(page) < PageSize) /\ a > cursor
    <3>1. \A a \in Actions \ page : status[a] \in Open =>
            Cardinality(page) >= PageSize /\ \A b \in page : b < a
      BY <1>1, <1>3 DEF Cleared, CancelPage
    <3>2. Cardinality(page) \in Nat /\ PageSize \in Nat /\ page \subseteq Nat
      <4>1. IsFiniteSet(page)
        BY <2>1, ActionsAssumption, FS_Subset
      <4> QED BY <2>1, <4>1, FS_CardinalityType, BoundAssumption, ActionsAssumption
    <3> HIDE DEF page, cursor
    <3> QED BY <2>1, <2>2, <3>1, <3>2, ActionsAssumption
  <2>4. request' = [request EXCEPT ![q].runs = runs, ![q].todo = {},
                      ![q].cursor = cursor, ![q].pc = pc]
    BY <1>3 DEF CancelPage
  <2>5. \A a \in Actions : /\ status'[a] # status[a] => a \in page
                           /\ status'[a] \in Open => a \notin page /\ status[a] \in Open
    BY <1>3 DEF CancelPage, Write, Open, Live
  <2>6. \/ pc = "each" /\ Cardinality(page) < PageSize
        \/ pc = "select"
    OBVIOUS
  <2>7. \A run \in Runs : run \notin runs =>
          run \notin request[q].runs /\ \A a \in page : RunOf[a] # run
    OBVIOUS
  <2>8. request[q].pc = "cancelpage"
    BY <1>3 DEF CancelPage
  <2> HIDE DEF page, runs, pc, cursor
  <2>9. request'[q] = [request[q] EXCEPT !.runs = runs, !.todo = {}, !.cursor = cursor, !.pc = pc]
    BY <1>1, <2>4
  <2>10. /\ request'[q].pc = pc /\ request'[q].cursor = cursor /\ request'[q].runs = runs
         /\ request'[q].op = "cancelall"
    BY <1>1, <2>9 DEF Request
  <2>11. Course(request'[q])
    BY <2>6, <2>10 DEF Course, Deletes
  <2>12. Cleared(q)'
    BY <2>3, <2>5, <2>6, <2>10 DEF Cleared
  <2>13. Tallied(q)'
    <3> SUFFICES ASSUME ~disturbed', NEW x \in Runs, ~Owes(request'[q], x)
                 PROVE  Right(x)'
      BY <2>6, <2>10 DEF Tallied
    <3>1. x \notin request[q].runs /\ \A a \in page : RunOf[a] # x
      BY <2>7, <2>10 DEF Owes
    <3>2. StatusesOf(x)' = StatusesOf(x)
      BY <2>5, <3>1, SameStatuses
    <3>3. ~Owes(request[q], x)
      BY <2>8, <3>1 DEF Owes
    <3> QED BY <1>1, <3>2, <3>3, StillRight DEF Tallied
  <2> QED BY <2>11, <2>12, <2>13 DEF Sums
<1>4. CASE RefreshEach(q)
  <2>1. status' = status /\ request[q].pc = "each"
    BY <1>4 DEF RefreshEach, rows
  <2>2. CASE request[q].runs = {}
    <3>1. \A run \in Runs : ~Owes(request[q], run)
      BY <2>1, <2>2 DEF Owes
    <3> QED BY <1>1, <1>4, <2>1, <2>2, <3>1, IdleSums DEF RefreshEach
  <2>3. CASE request[q].runs # {}
    <3>1. PICK r \in request[q].runs :
            request' = [request EXCEPT ![q].pc = "refresh", ![q].run = r, ![q].then = "each",
                          ![q].runs = request[q].runs \ {r}]
      BY <1>4, <2>3 DEF RefreshEach
    <3>2. request'[q] = [request[q] EXCEPT !.pc = "refresh", !.run = r, !.then = "each",
                           !.runs = request[q].runs \ {r}]
      BY <1>1, <3>1
    <3>3. /\ request'[q].pc = "refresh" /\ request'[q].then = "each" /\ request'[q].run = r
          /\ request'[q].op = "cancelall" /\ request'[q].runs = request[q].runs \ {r}
      BY <1>1, <3>2 DEF Request
    <3>4. Course(request'[q])
      BY <3>3 DEF Course, Deletes
    <3>5. Cleared(q)'
      BY <1>1, <2>1, <3>3 DEF Cleared
    <3>6. \A run \in Runs : Owes(request[q], run) => Owes(request'[q], run)
      BY <2>1, <3>3 DEF Owes
    <3> QED BY <1>1, <2>1, <3>3, <3>4, <3>5, <3>6, StillSums
  <2> QED BY <2>2, <2>3
<1> QED BY <1>2, <1>3, <1>4

LEMMA MaterializeSums ==
  ASSUME FInv, NEW q \in Requests, Materialize(q)
  PROVE  Sums(q)
<1> USE DEF FInv, AInv, At
<1>1. /\ request \in [Requests -> Request] /\ request[q] \in Request
      /\ Held(request[q], status) /\ request[q].op = "materialize" /\ request[q].run \in Runs
      /\ disturbed' = disturbed
  BY DEF TypeOK, Request, Materialize, LoadRun, QueryOld, InsertNew, DeleteOld, CompleteRun, outside
<1>2. CASE LoadRun(q) \/ QueryOld(q)
  <2>1. /\ status' = status /\ runRows' = runRows
        /\ request[q].pc \in {"load", "query"}
    BY <1>2 DEF LoadRun, QueryOld, rows, runRows
  <2>2. CASE Done(q)
    BY <1>1, <2>1, <2>2, NothingOwed, IdleSums
  <2>3. CASE Goto(q, "query")
    <3>1. "query" \in Pcs
      BY DEF Pcs
    <3>2. /\ request'[q].pc = "query" /\ request'[q].op = request[q].op
          /\ request'[q].runs = request[q].runs
      BY <1>1, <2>3, <3>1, GotoFacts
    <3> QED BY <1>1, <2>1, <3>2, OnSums
  <2>4. CASE request' = [request EXCEPT ![q].pc = "insert",
                          ![q].todo = Lowest(Rows(request[q].run), QueryCap)]
    <3> DEFINE old == Lowest(Rows(request[q].run), QueryCap)
    <3>1. GoWith(q, old, "insert")
      BY <2>4 DEF GoWith
    <3>2. old \in SUBSET Actions /\ "insert" \in Pcs
      BY DEF Lowest, Rows, Pcs
    <3> HIDE DEF old
    <3>3. /\ request'[q].pc = "insert" /\ request'[q].op = request[q].op
          /\ request'[q].runs = request[q].runs
      BY <1>1, <3>1, <3>2, GoWithFacts
    <3> QED BY <1>1, <2>1, <3>3, OnSums
  <2> QED BY <1>2, <2>2, <2>3, <2>4 DEF LoadRun, QueryOld
<1>3. CASE InsertNew(q) /\ NewKeys(request[q].run) = {}
  <2>1. /\ status' = status /\ runRows' = runRows /\ Done(q)
        /\ request[q].pc = "insert"
    BY <1>3 DEF InsertNew, runRows
  <2> QED BY <1>1, <2>1, NothingOwed, IdleSums
<1>4. CASE InsertNew(q) /\ NewKeys(request[q].run) # {}
  <2>1. /\ runRows' = runRows /\ request[q].pc = "insert"
        /\ \A a \in Actions : status'[a] # status[a] => RunOf[a] = request[q].run
    BY <1>4 DEF InsertNew, NewKeys, runRows
  <2>2. /\ "delete" \in Pcs /\ "final" \in Pcs
    BY DEF Pcs
  <2>3. CASE Refresh(q, request[q].run, "final")
    <3>1. /\ request'[q].pc = "refresh" /\ request'[q].then = "final"
          /\ request'[q].op = request[q].op /\ request'[q].runs = request[q].runs
          /\ request'[q].run = request[q].run
      BY <1>1, <2>2, <2>3, RefreshFacts
    <3> QED BY <1>1, <2>1, <3>1, WroteSums
  <2>4. CASE Goto(q, "delete")
    <3>1. /\ request'[q].pc = "delete" /\ request'[q].run = request[q].run
          /\ request'[q].op = request[q].op /\ request'[q].runs = request[q].runs
      BY <1>1, <2>2, <2>4, GotoFacts
    <3> QED BY <1>1, <2>1, <3>1, WroteSums
  <2> QED BY <1>4, <2>3, <2>4 DEF InsertNew
<1>5. CASE DeleteOld(q)
  <2>1. /\ runRows' = runRows /\ request[q].pc = "delete"
        /\ \A a \in Actions : status'[a] # status[a] => RunOf[a] = request[q].run
    BY <1>1, <1>5 DEF DeleteOld, Write, Held, runRows
  <2>2. "final" \in Pcs
    BY DEF Pcs
  <2>3. /\ request'[q].pc = "refresh" /\ request'[q].then = "final"
        /\ request'[q].op = request[q].op /\ request'[q].runs = request[q].runs
        /\ request'[q].run = request[q].run
    BY <1>1, <1>5, <2>2, RefreshFacts DEF DeleteOld
  <2> QED BY <1>1, <2>1, <2>3, WroteSums
<1>6. CASE CompleteRun(q)
  <2>1. /\ status' = status /\ Done(q) /\ request[q].pc = "final"
        /\ run_status' = [run_status EXCEPT ![request[q].run] = "completed"]
        /\ suggestions_status' = [suggestions_status EXCEPT ![request[q].run] = request[q].read]
    BY <1>6 DEF CompleteRun, rows
  <2>2. request'[q] = Idle
    BY <1>1, <2>1, DoneFacts
  <2>3. Course(request'[q]) /\ Cleared(q)'
    BY <2>2 DEF Course, Cleared, Idle, Deletes
  <2>4. Tallied(q)'
    <3> SUFFICES ASSUME ~disturbed', NEW x \in Runs PROVE Right(x)'
      BY <2>2, IdleFacts DEF Tallied
    <3>1. StatusesOf(x)' = StatusesOf(x)
      BY <2>1, SameStatuses
    <3>2. request[q].read = Summary(StatusesOf(request[q].run)) /\ Right(x)
      BY <1>1, <2>1, NothingOwed DEF Tallied
    <3>3. CASE x = request[q].run
      BY <2>1, <3>1, <3>2, <3>3 DEF TypeOK, Right
    <3>4. CASE x # request[q].run
      BY <2>1, <3>1, <3>2, <3>4 DEF TypeOK, Right
    <3> QED BY <3>3, <3>4
  <2> QED BY <2>3, <2>4 DEF Sums
<1> QED BY <1>2, <1>3, <1>4, <1>5, <1>6 DEF Materialize

LEMMA RequestSums ==
  ASSUME FInv, NEW q \in Requests, Arrive(q) \/ Proceed(q) \/ Crash(q)
  PROVE  Sums(q)
<1>1. CASE Arrive(q)
  BY <1>1, ArriveSums
<1>2. CASE RefreshRead(q) \/ RefreshStore(q) \/ RefreshFails(q)
  BY <1>2, RefreshSums
<1>3. CASE ExecuteSuggestions(q)
  BY <1>3, ExecuteSums
<1>4. CASE ReadToChange(q) \/ Edit(q) \/ Cancel(q)
  BY <1>4, ChangeSums
<1>5. CASE SelectPage(q) \/ CancelPage(q) \/ RefreshEach(q)
  BY <1>5, CancelAllSums
<1>6. CASE Materialize(q)
  BY <1>6, MaterializeSums
<1>7. CASE CallFails(q) \/ Crash(q)
  BY <1>7, IdleSums DEF CallFails, Crash
<1> QED BY <1>1, <1>2, <1>3, <1>4, <1>5, <1>6, <1>7 DEF Proceed

LEMMA NextSums ==
  ASSUME NEW one, Requests = {one}, FInv, [Next]_vars
  PROVE  FInv'
<1>1. AInv'
  BY NextAInv DEF FInv
<1>2. ASSUME NEW q \in Requests, Arrive(q) \/ Proceed(q) \/ Crash(q)
      PROVE  FInv'
  <2>1. Sums(q) /\ q = one
    BY <1>2, RequestSums
  <2> QED BY <1>1, <2>1 DEF FInv, Sums
<1>3. ASSUME UNCHANGED <<rows, request, outside>>, \A run \in Runs : Right(run) => Right(run)'
      PROVE  FInv'
  <2>1. ASSUME NEW q \in Requests
        PROVE  Course(request'[q]) /\ Tallied(q)' /\ Cleared(q)'
    <3>1. Course(request'[q]) /\ Cleared(q)'
      BY <1>3 DEF FInv, Cleared, rows
    <3>2. \A run \in Runs : StatusesOf(run)' = StatusesOf(run)
      BY <1>3, SameStatuses DEF rows
    <3>3. PICK run \in Runs : run = request[q].run
      BY DEF FInv, AInv, TypeOK, Request
    <3>4. StatusesOf(request[q].run)' = StatusesOf(request[q].run)
      BY <1>3, <3>2, <3>3
    <3>5. Tallied(q)'
      BY <1>3, <3>4 DEF FInv, Tallied, outside
    <3> QED BY <3>1, <3>5
  <2> QED BY <1>1, <2>1 DEF FInv
<1>4. ASSUME NEW r \in Runs, AgentFinishes(r)
      PROVE  FInv'
  <2>1. UNCHANGED <<rows, request, outside>>
    BY <1>4 DEF AgentFinishes
  <2>2. ASSUME NEW run \in Runs, Right(run) PROVE Right(run)'
    <3>1. StatusesOf(run)' = StatusesOf(run)
      BY <2>1, SameStatuses DEF rows
    <3>2. CASE run = r
      BY <1>4, <3>1, <3>2 DEF AgentFinishes, Right, FInv, AInv, TypeOK
    <3>3. CASE run # r
      BY <1>4, <2>2, <3>1, <3>3 DEF AgentFinishes, Right, FInv, AInv, TypeOK
    <3> QED BY <3>2, <3>3
  <2> QED BY <1>3, <2>1, <2>2
<1>5. CASE UNCHANGED vars
  <2>1. \A run \in Runs : Right(run) => Right(run)'
    <3>1. \A run \in Runs : StatusesOf(run)' = StatusesOf(run)
      BY <1>5, SameStatuses DEF vars
    <3> QED BY <1>5, <3>1, StillRight DEF vars, runRows
  <2> QED BY <1>3, <1>5, <2>1 DEF vars, rows, outside
<1> QED BY <1>2, <1>4, <1>5 DEF Next

LEMMA InitSums == Init => FInv
<1> SUFFICES ASSUME Init PROVE FInv
  OBVIOUS
<1>1. \A q \in Requests : request[q] = Idle
  BY DEF Init
<1>2. \A q \in Requests : Course(request[q]) /\ Cleared(q) /\ Tallied(q)
  BY <1>1, IdleFacts DEF Course, Cleared, Tallied, Right, Idle, Deletes, Init
<1> QED BY <1>2, InitAInv DEF FInv

LEMMA FreshWhenQuiet ==
  ASSUME NEW one, Requests = {one}, FInv
  PROVE  SummaryFresh
<1> SUFFICES ASSUME Quiet, ~disturbed, NEW r \in Runs PROVE Right(r)
  BY DEF SummaryFresh, Right
<1>1. one \in Requests /\ request[one].pc = "idle"
  BY DEF Quiet
<1> QED BY <1>1, NothingOwed

\* One after the other, and as long as no call fails: when nothing is at work the
\* summary of every completed run sums up its suggestions, whatever placeholders the
\* runs had that failed and were completed by a materialize.
THEOREM Fresh ==
  ASSUME NEW one, Requests = {one}
  PROVE  Spec => []SummaryFresh
<1>1. Init => FInv
  BY InitSums
<1>2. FInv /\ [Next]_vars => FInv'
  BY NextSums
<1>3. FInv => SummaryFresh
  BY FreshWhenQuiet
<1> QED BY <1>1, <1>2, <1>3, PTL DEF Spec

\* A log item shown as processed has no open suggestion left, whatever is stored in
\* the rows of its failed runs.
THEOREM Processed ==
  ASSUME NEW one, Requests = {one}
  PROVE  Spec => []ProcessedMeansDone
<1>1. Init => FInv
  BY InitSums
<1>2. FInv /\ [Next]_vars => FInv'
  BY NextSums
<1>3. FInv => ProcessedMeansDone
  <2> SUFFICES ASSUME FInv, Quiet, ~disturbed, LogStatus = "processed", NEW a \in Actions,
                      status[a] \in {"pending", "executing", "failed"}
               PROVE  FALSE
    BY DEF ProcessedMeansDone
  <2>1. PICK r \in Runs : r = RunOf[a]
    BY RunOfAssumption
  <2>2. status[a] \in StatusesOf(r)
    BY <2>1 DEF StatusesOf, Rows, Live
  <2>3. Summary(StatusesOf(r)) \in {"pending", "failed"}
    BY <2>2 DEF Summary
  <2>4. run_status[r] = "completed" => suggestions_status[r] = Summary(StatusesOf(r))
    BY FreshWhenQuiet DEF SummaryFresh
  <2>5. ~OpenRun(r) /\ run_status[r] \in {"running", "completed", "failed"}
    BY DEF LogStatus, FInv, AInv, TypeOK
  <2> QED BY <2>3, <2>4, <2>5 DEF OpenRun
<1> QED BY <1>1, <1>2, <1>3, PTL DEF Spec

\* "Cancel all" comes to its end only when no suggestion is pending or failed,
\* whatever the size of its pages.
THEOREM AllCancelled ==
  ASSUME NEW one, Requests = {one}
  PROVE  Spec => CancelAllComplete
<1>1. Init => FInv
  BY InitSums
<1>2. FInv /\ [Next]_vars => FInv'
  BY NextSums
<1>3. FInv => \A q \in Requests : At(q, {"cancelall"}, "each") =>
                \A a \in Actions : status[a] \notin {"pending", "failed"}
  BY DEF FInv, Cleared, At, Open
<1>4. FInv /\ [Next]_vars =>
        [\A q \in Requests :
           At(q, {"cancelall"}, "each") /\ request'[q].pc = "idle" /\ ~disturbed' =>
             \A a \in Actions : status[a] \notin {"pending", "failed"}]_vars
  BY <1>3
<1> QED BY <1>1, <1>2, <1>4, PTL DEF Spec, CancelAllComplete

=============================================================================
