------------------------------- MODULE IoTasks -------------------------------
(***************************************************************************)
(* The IO task manager of the seaqa_io process, seaqa_io/tasks/            *)
(* task_manager.py, behind the HTTP endpoints of seaqa_io/server.py.       *)
(*                                                                         *)
(* Waitress threads (Handlers) serve the requests that submit a task and   *)
(* the polls for its result; worker threads take task ids from a bounded   *)
(* queue.  They share two dictionaries and the queue and take no lock, so  *)
(* every dictionary or queue operation is a step of its own.               *)
(***************************************************************************)
EXTENDS Naturals, Sequences

CONSTANTS
  Tasks,      \* task ids: one per request that submits a task
  Handlers,   \* waitress threads, SEAQA_IO_WORKERS of them
  Workers,    \* worker threads of the manager
  QueueSize,  \* capacity of tasks_queue
  None        \* no task

ASSUME QueueAssumption == QueueSize \in Nat \ {0}
ASSUME NoneAssumption == None \notin Tasks

VARIABLES
  tasks_map,         \* ids of the tasks registered and not cleaned up
  task_results_map,  \* id -> result waiting for a poll, or "none"
  tasks_queue,       \* ids waiting for a worker
  worker,            \* per worker: where it is in handle_task, and its task
  request,           \* per handler: where it is in its request, and the task
  reply,             \* per task: the last answer its client got
  lost               \* ids that a restart of the process has forgotten

ioVars == <<tasks_map, task_results_map, tasks_queue, worker, request, reply, lost>>

Results == {"ok", "failed"}
Finals  == Results \cup {"busy", "conflict", "notfound", "error"}
Idle    == [pc |-> "idle", task |-> None]

WorkerPcs  == {"idle", "run", "cleanup", "unlock"}
RequestPcs == {"idle", "check", "register", "put", "lock", "lookup", "pop", "recheck"}

TypeOK ==
  /\ tasks_map \subseteq Tasks
  /\ task_results_map \in [Tasks -> Results \cup {"none"}]
  /\ tasks_queue \in Seq(Tasks) /\ Len(tasks_queue) <= QueueSize
  /\ worker \in [Workers -> [pc : WorkerPcs, task : Tasks \cup {None}]]
  /\ request \in [Handlers -> [pc : RequestPcs, task : Tasks \cup {None}]]
  /\ reply \in [Tasks -> Finals \cup {"none", "waiting"}]
  /\ lost \subseteq Tasks

Init ==
  /\ tasks_map = {}
  /\ task_results_map = [t \in Tasks |-> "none"]
  /\ tasks_queue = <<>>
  /\ worker = [w \in Workers |-> Idle]
  /\ request = [h \in Handlers |-> Idle]
  /\ reply = [t \in Tasks |-> "none"]
  /\ lost = {}

Served(t) == \E h \in Handlers : request[h].task = t

Goto(h, pc) == request' = [request EXCEPT ![h].pc = pc]

\* The handler answers its request and is free for the next one.
Answer(h, answer) ==
  /\ reply' = [reply EXCEPT ![request[h].task] = answer]
  /\ request' = [request EXCEPT ![h] = Idle]

-----------------------------------------------------------------------------
(* A request that submits a task.                                          *)

\* The endpoint refuses a request while the queue is full.
BeginSubmit(h, t, next) ==
  /\ request[h] = Idle /\ reply[t] = "none" /\ ~Served(t)
  /\ IF Len(tasks_queue) = QueueSize
     THEN /\ reply' = [reply EXCEPT ![t] = "busy"]
          /\ UNCHANGED request
     ELSE /\ request' = [request EXCEPT ![h] = [pc |-> next, task |-> t]]
          /\ UNCHANGED reply
  /\ UNCHANGED <<tasks_map, task_results_map, tasks_queue, worker, lost>>

RegisterTask(h) ==
  /\ request[h].pc = "register"
  /\ tasks_map' = tasks_map \cup {request[h].task}
  /\ Goto(h, "put")
  /\ UNCHANGED <<task_results_map, tasks_queue, worker, reply, lost>>

\* Faulty variant for the checks: a queue without its bound.
EnqueueUnbounded(h) ==
  /\ request[h].pc = "put"
  /\ tasks_queue' = Append(tasks_queue, request[h].task)

\* queue.put blocks while the queue is full: it may have filled up since the
\* endpoint looked at it.
Enqueue(h) ==
  /\ request[h].pc = "put"
  /\ Len(tasks_queue) < QueueSize
  /\ tasks_queue' = Append(tasks_queue, request[h].task)

PutTask(h) ==
  /\ Enqueue(h)
  /\ Answer(h, "waiting")
  /\ UNCHANGED <<tasks_map, task_results_map, worker, lost>>

-----------------------------------------------------------------------------
(* A request that polls a task: the client sends the next one only when    *)
(* the one before it was answered.                                         *)

\* is_valid_task_id, its first look: the map of the tasks.
BeginPoll(h, t) ==
  /\ request[h] = Idle /\ reply[t] = "waiting" /\ ~Served(t)
  /\ request' = [request EXCEPT
       ![h] = [pc |-> IF t \in tasks_map THEN "pop" ELSE "lookup", task |-> t]]
  /\ UNCHANGED <<tasks_map, task_results_map, tasks_queue, worker, reply, lost>>

\* Faulty variant for the checks: an unknown task is reported as still running.
LookupWaits(h) ==
  /\ request[h].pc = "lookup"
  /\ IF task_results_map[request[h].task] # "none"
     THEN Goto(h, "pop") /\ UNCHANGED reply
     ELSE Answer(h, "waiting")
  /\ UNCHANGED <<tasks_map, task_results_map, tasks_queue, worker, lost>>

\* is_valid_task_id, its second look: the map of the results.
LookupResult(h) ==
  /\ request[h].pc = "lookup"
  /\ IF task_results_map[request[h].task] # "none"
     THEN Goto(h, "pop") /\ UNCHANGED reply
     ELSE Answer(h, "notfound")
  /\ UNCHANGED <<tasks_map, task_results_map, tasks_queue, worker, lost>>

\* Faulty variant for the checks: the result of a failed task counts as no result.
PopSuccess(h) ==
  LET t == request[h].task IN
  /\ request[h].pc = "pop"
  /\ IF task_results_map[t] = "ok"
     THEN Answer(h, "ok")
     ELSE Goto(h, "recheck") /\ UNCHANGED reply
  /\ task_results_map' = [task_results_map EXCEPT ![t] = "none"]
  /\ UNCHANGED <<tasks_map, tasks_queue, worker, lost>>

\* query_status takes the result out of the map and hands it over.
PopResult(h) ==
  LET t == request[h].task IN
  /\ request[h].pc = "pop"
  /\ IF task_results_map[t] # "none"
     THEN Answer(h, task_results_map[t])
     ELSE Goto(h, "recheck") /\ UNCHANGED reply
  /\ task_results_map' = [task_results_map EXCEPT ![t] = "none"]
  /\ UNCHANGED <<tasks_map, tasks_queue, worker, lost>>

\* Faulty variant for the checks: no result is taken for no task.
RecheckNothing(h) ==
  /\ request[h].pc = "recheck"
  /\ Answer(h, "notfound")
  /\ UNCHANGED <<tasks_map, task_results_map, tasks_queue, worker, lost>>

\* query_status found no result: is the task still registered?
RecheckMap(h) ==
  /\ request[h].pc = "recheck"
  /\ Answer(h, IF request[h].task \in tasks_map THEN "waiting" ELSE "notfound")
  /\ UNCHANGED <<tasks_map, task_results_map, tasks_queue, worker, lost>>

Poll(h) == LookupResult(h) \/ PopResult(h) \/ RecheckMap(h)

-----------------------------------------------------------------------------
(* A worker thread: handle_task.                                           *)

\* Faulty variant for the checks: the task stays at the head of the queue.
PeekTask(w) ==
  /\ worker[w].pc = "idle" /\ tasks_queue # <<>>
  /\ worker' = [worker EXCEPT ![w] = [pc |-> "run", task |-> Head(tasks_queue)]]
  /\ UNCHANGED <<tasks_queue, tasks_map, task_results_map, request, reply, lost>>

GetTask(w) ==
  /\ worker[w].pc = "idle" /\ tasks_queue # <<>>
  /\ tasks_queue' = Tail(tasks_queue)
  /\ worker' = [worker EXCEPT
       ![w] = IF Head(tasks_queue) \in tasks_map
              THEN [pc |-> "run", task |-> Head(tasks_queue)] ELSE Idle]
  /\ UNCHANGED <<tasks_map, task_results_map, request, reply, lost>>

\* The task function returns or raises: the result is stored first ...
StoreResult(w, r) ==
  /\ worker[w].pc = "run"
  /\ task_results_map' = [task_results_map EXCEPT ![worker[w].task] = r]
  /\ worker' = [worker EXCEPT ![w].pc = "cleanup"]
  /\ UNCHANGED <<tasks_map, tasks_queue, request, reply, lost>>

\* Faulty variant for the checks: only the success path drops the task.
DropIfOk(w) ==
  /\ worker[w].pc = "cleanup"
  /\ tasks_map' = IF task_results_map[worker[w].task] = "ok"
                  THEN tasks_map \ {worker[w].task} ELSE tasks_map

\* ... and the task leaves tasks_map in the finally clause.
DropTask(w) ==
  /\ worker[w].pc = "cleanup"
  /\ tasks_map' = tasks_map \ {worker[w].task}

CleanUp(w) ==
  /\ DropTask(w)
  /\ worker' = [worker EXCEPT ![w] = Idle]
  /\ UNCHANGED <<task_results_map, tasks_queue, request, reply, lost>>

Finished == {t \in Tasks : task_results_map[t] # "none"}

\* The process restarts.  Nothing of a manager is persisted; the requests it
\* was serving break off.
Restart ==
  /\ tasks_map' = {}
  /\ task_results_map' = [t \in Tasks |-> "none"]
  /\ tasks_queue' = <<>>
  /\ worker' = [w \in Workers |-> Idle]
  /\ request' = [h \in Handlers |-> Idle]
  /\ reply' = [t \in Tasks |-> IF Served(t) THEN "error" ELSE reply[t]]
  /\ lost' = lost \cup {t \in tasks_map \cup Finished : reply[t] \notin Results}

-----------------------------------------------------------------------------
Submit(h) == \/ \E t \in Tasks : BeginSubmit(h, t, "register")
             \/ RegisterTask(h) \/ PutTask(h)

Work(w) == GetTask(w) \/ (\E r \in Results : StoreResult(w, r)) \/ CleanUp(w)

Next ==
  \/ \E h \in Handlers : Submit(h) \/ Poll(h) \/ \E t \in Tasks : BeginPoll(h, t)
  \/ \E w \in Workers : Work(w)
  \/ Restart

Spec == Init /\ [][Next]_ioVars

\* Workers and handlers are operating system threads and every task function
\* returns or raises; waitress serves waiting requests in order of arrival, so
\* a client that keeps polling is not passed over for ever.
Fairness ==
  /\ \A w \in Workers : WF_ioVars(Work(w))
  /\ \A h \in Handlers : WF_ioVars(RegisterTask(h) \/ PutTask(h) \/ Poll(h))
  /\ \A t \in Tasks : SF_ioVars(\E h \in Handlers : BeginPoll(h, t))

FairSpec == Spec /\ Fairness

-----------------------------------------------------------------------------
(* Properties.                                                             *)

\* A task whose id the client holds is still to be found: registered, or with
\* its result waiting, unless a restart has forgotten it.  The worker stores
\* the result before it drops the task, so no poll finds neither.
NoTaskForgotten ==
  \A t \in Tasks : reply[t] = "waiting" => t \in tasks_map \cup Finished \cup lost

InQueue(t) == \E i \in DOMAIN tasks_queue : tasks_queue[i] = t
BeingPut(t) == \E h \in Handlers : request[h].pc = "put" /\ request[h].task = t
Held(t) == \E w \in Workers : worker[w].task = t

\* tasks_map keeps no task that nobody will clean up: it is on its way into
\* the queue, in it, or with a worker (a leak would make its client poll for
\* ever).
NoOrphan ==
  \A t \in tasks_map : BeingPut(t) \/ InQueue(t) \/ Held(t)

\* A task is worked on once: a worker's task is in no other worker's hands and
\* not in the queue any more, and the queue holds a task once.
RunOnce ==
  /\ \A v, w \in Workers : worker[v].task = worker[w].task => v = w \/ worker[v].task = None
  /\ \A w \in Workers : ~InQueue(worker[w].task)
  /\ \A i, j \in DOMAIN tasks_queue : tasks_queue[i] = tasks_queue[j] => i = j

\* What the client and the process know of a task, in the terms of the promise.
StatusOf(t) ==
  CASE t \in lost -> "lost"
    [] t \notin lost /\ reply[t] \in Results -> "delivered"
    [] t \notin lost /\ reply[t] \notin Results /\ t \in Finished -> task_results_map[t]
    [] t \notin lost /\ reply[t] \notin Results /\ t \notin Finished
         -> IF t \in tasks_map THEN "pending" ELSE "none"

HeardOf(t) == IF reply[t] \in {"busy", "conflict"} THEN "rejected" ELSE reply[t]

Promise == INSTANCE TaskLifecycle WITH
  status <- [t \in Tasks |-> StatusOf(t)], heard <- [t \in Tasks |-> HeardOf(t)]

\* The manager keeps the promise of TaskLifecycle: one result, delivered at
\* most once and as recorded, and no "not found" for an unfinished task.
KeepsPromise == Promise!Spec

\* A client that keeps polling hears the end of its task.
ClientHears == \A t \in Tasks : reply[t] = "waiting" ~> reply[t] \in Finals
=============================================================================
