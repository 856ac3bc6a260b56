---------------------------- MODULE AnalysisTasks ----------------------------
(***************************************************************************)
(* The embedding analysis task manager of the seaqa_io process,            *)
(* seaqa_io/tasks/analysis_task_manager.py, behind                         *)
(* /add-embedding-analysis-task and /embedding-analysis-task-status of     *)
(* seaqa_io/server.py.  It works as IoTasks does and also keeps, in        *)
(* project_tasks_map, the project that has an analysis running: a second   *)
(* request for that project is refused.                                    *)
(***************************************************************************)
EXTENDS IoTasks

CONSTANTS
  Projects,
  ProjectOf   \* the project each task analyses

ASSUME ProjectAssumption == ProjectOf \in [Tasks -> Projects]

VARIABLE project_tasks_map   \* project -> id of its running task, or None

vars == <<ioVars, project_tasks_map>>

AnalysisInit == Init /\ project_tasks_map = [p \in Projects |-> None]

-----------------------------------------------------------------------------
BeginAdd(h, t) ==
  BeginSubmit(h, t, "check") /\ UNCHANGED project_tasks_map

\* has_running_task: refuse the request if the project has one.
CheckProject(h) ==
  /\ request[h].pc = "check"
  /\ IF project_tasks_map[ProjectOf[request[h].task]] # None
     THEN Answer(h, "conflict")
     ELSE Goto(h, "register") /\ UNCHANGED reply
  /\ UNCHANGED <<tasks_map, task_results_map, tasks_queue, worker, lost, project_tasks_map>>

AddToMap(h) == RegisterTask(h) /\ UNCHANGED project_tasks_map

\* The task goes into the queue first ...
AddToQueue(h) ==
  /\ Enqueue(h)
  /\ Goto(h, "lock")
  /\ UNCHANGED <<tasks_map, task_results_map, worker, reply, lost, project_tasks_map>>

\* ... and the project is marked afterwards.
MarkProject(h) ==
  /\ request[h].pc = "lock"
  /\ project_tasks_map' = [project_tasks_map EXCEPT
       ![ProjectOf[request[h].task]] = request[h].task]
  /\ Answer(h, "waiting")
  /\ UNCHANGED <<tasks_map, task_results_map, tasks_queue, worker, lost>>

Add(h) == (\E t \in Tasks : BeginAdd(h, t))
          \/ CheckProject(h) \/ AddToMap(h) \/ AddToQueue(h) \/ MarkProject(h)

-----------------------------------------------------------------------------
BeginStatus(h, t) == BeginPoll(h, t) /\ UNCHANGED project_tasks_map

Status(h) == Poll(h) /\ UNCHANGED project_tasks_map

TakeTask(w) == GetTask(w) /\ UNCHANGED project_tasks_map

RunTask(w, r) == StoreResult(w, r) /\ UNCHANGED project_tasks_map

\* The finally clause: the task leaves tasks_map ...
RemoveTask(w) ==
  /\ DropTask(w)
  /\ worker' = [worker EXCEPT ![w].pc = "unlock"]
  /\ UNCHANGED <<task_results_map, tasks_queue, request, reply, lost, project_tasks_map>>

\* Faulty variant for the checks: the marks of all projects are taken off.
UnmarkAll(w) ==
  /\ worker[w].pc = "unlock"
  /\ project_tasks_map' = [p \in Projects |-> None]
  /\ worker' = [worker EXCEPT ![w] = Idle]
  /\ UNCHANGED <<tasks_map, task_results_map, tasks_queue, request, reply, lost>>

\* ... then its project leaves project_tasks_map, whoever marked it.
UnmarkProject(w) ==
  /\ worker[w].pc = "unlock"
  /\ project_tasks_map' = [project_tasks_map EXCEPT ![ProjectOf[worker[w].task]] = None]
  /\ worker' = [worker EXCEPT ![w] = Idle]
  /\ UNCHANGED <<tasks_map, task_results_map, tasks_queue, request, reply, lost>>

WorkOn(w) == TakeTask(w) \/ (\E r \in Results : RunTask(w, r))
             \/ RemoveTask(w) \/ UnmarkProject(w)

RestartAll == Restart /\ project_tasks_map' = [p \in Projects |-> None]

-----------------------------------------------------------------------------
AnalysisNext ==
  \/ \E h \in Handlers : Add(h) \/ Status(h) \/ \E t \in Tasks : BeginStatus(h, t)
  \/ \E w \in Workers : WorkOn(w)
  \/ RestartAll

AnalysisSpec == AnalysisInit /\ [][AnalysisNext]_vars

-----------------------------------------------------------------------------
(* Properties; KeepsPromise of IoTasks is checked of this manager too, and  *)
(* AnalysisTasksProofs proves NoTaskForgotten, NoOrphan and RunOnce of it.  *)

\* A task is underway from the time its request has passed the check until its
\* worker has taken the project mark off.
Underway(t) ==
  \/ \E h \in Handlers : request[h].task = t /\ request[h].pc \in {"register", "put", "lock"}
  \/ t \in tasks_map
  \/ Held(t)

\* A task got past the check.
Admitted(t) == reply[t] \notin {"none", "busy", "conflict"} \/ Underway(t)

\* As long as one request of a project has been admitted, the mark guards it:
\* from the answer to its request until it leaves tasks_map the project is
\* marked with it.
SoleTaskGuarded ==
  \A t \in tasks_map :
    /\ reply[t] = "waiting"
    /\ \A u \in Tasks : ProjectOf[u] = ProjectOf[t] /\ Admitted(u) => u = t
    => project_tasks_map[ProjectOf[t]] = t

\* A project that is refused ("This project already has a running analysis
\* task.", server.py:178) has a task underway.
ConflictMeansRunning ==
  [][\A t \in Tasks : reply[t] # "conflict" /\ reply'[t] = "conflict" =>
       \E u \in Tasks : ProjectOf[u] = ProjectOf[t] /\ Underway(u)]_vars
=============================================================================
