------------------------- MODULE AnalysisTasksProofs -------------------------
(***************************************************************************)
(* Proofs about the analysis task manager, for any projects, tasks,        *)
(* threads and queue size (AnalysisTasks.tla).  A task goes into the queue *)
(* before its client has the id, so a worker may take it, finish it and    *)
(* drop it while its request is still about to mark the project: the       *)
(* invariant of the IO task manager does not hold here.                    *)
(***************************************************************************)
EXTENDS AnalysisTasks, IoTasksProofs

-----------------------------------------------------------------------------
(* The inductive invariant.                                                *)

Unanswered == {"none", "busy", "conflict"}   \* what a client has heard without an id

Marking(t) == \E h \in Handlers : request[h].pc = "lock" /\ request[h].task = t

\* A handler works for a task exactly while it is busy, and no two for the same.
Serving ==
  /\ \A h \in Handlers : request[h].pc = "idle" <=> request[h].task = None
  /\ \A g, h \in Handlers :
       request[g].task = request[h].task /\ request[g].task # None => g = h

\* What the client has heard, by the step of its handler; a poll that did not find
\* its task in tasks_map will not find it there later.
Telling ==
  \A h \in Handlers :
    /\ request[h].pc \in {"check", "register", "put", "lock"} => reply[request[h].task] = "none"
    /\ request[h].pc \in {"lookup", "pop", "recheck"} => reply[request[h].task] = "waiting"
    /\ request[h].pc = "lookup" => request[h].task \notin tasks_map

\* A worker has a task exactly while it is busy, a registered one until it dropped
\* it; when it drops it the result is there, unless the client has it.
InHand ==
  \A w \in Workers :
    /\ worker[w].pc = "idle" <=> worker[w].task = None
    /\ worker[w].pc \in {"run", "cleanup"} => worker[w].task \in tasks_map
    /\ worker[w].pc = "unlock" => worker[w].task \notin tasks_map
    /\ worker[w].pc = "cleanup" /\ reply[worker[w].task] \in {"none", "waiting"}
         => worker[w].task \in Finished

\* A task that its client has not been given is nowhere, until its handler puts it
\* into the queue.
Untold ==
  \A t \in Tasks : reply[t] \in Unanswered /\ ~Marking(t) =>
    /\ t \notin Finished /\ ~InQueue(t) /\ ~Held(t)
    /\ t \in tasks_map <=> BeingPut(t)

\* A task that is registered was not lost and has a result only when the worker
\* that will drop it has stored one.
Open ==
  \A t \in tasks_map :
    /\ t \notin lost
    /\ reply[t] \in {"none", "waiting"} \cup Results
    /\ t \in Finished \/ reply[t] \in Results =>
         \E w \in Workers : worker[w].pc = "cleanup" /\ worker[w].task = t

\* Lost tasks were told to their clients, and have no result.
Lost ==
  \A t \in lost : t \notin Finished /\ reply[t] \notin Unanswered

\* A task that went into the queue can be found, before its client has the id too.
Findable ==
  \A t \in Tasks : reply[t] = "waiting" \/ Marking(t) => t \in tasks_map \cup Finished \cup lost

AnInv ==
  /\ TypeOK /\ project_tasks_map \in [Projects -> Tasks \cup {None}]
  /\ Serving /\ Telling /\ InHand /\ Queued /\ Untold /\ Open /\ Lost /\ Findable
  /\ RunOnce /\ NoOrphan /\ SoleTaskGuarded

-----------------------------------------------------------------------------
(* What the steps have in common.                                          *)

\* A task that was admitted stays so: a request that got past the check is answered
\* with an id, or breaks off in a restart.
LEMMA AdmittedStays ==
  ASSUME AnInv,
         \A t \in Tasks : reply[t] \notin Unanswered => reply'[t] \notin Unanswered,
         \A h \in Handlers : request[h].pc \in {"register", "put", "lock"} =>
           \/ reply'[request[h].task] \notin Unanswered
           \/ \E g \in Handlers : /\ request'[g].task = request[h].task
                                 /\ request'[g].pc \in {"register", "put", "lock"}
  PROVE  \A t \in Tasks : Admitted(t) => Admitted(t)'
<1> SUFFICES ASSUME NEW t \in Tasks, Admitted(t) PROVE Admitted(t)'
  OBVIOUS
<1>1. CASE reply[t] \notin Unanswered
  BY <1>1 DEF Admitted, Unanswered
<1>2. CASE reply[t] \in Unanswered
  <2>1. PICK h \in Handlers : request[h].task = t /\ request[h].pc \in {"register", "put", "lock"}
    <3>1. Underway(t)
      BY <1>2 DEF Admitted, Unanswered
    <3>2. CASE t \in tasks_map \/ Held(t)
      <4>1. BeingPut(t) \/ Marking(t)
        BY <1>2, <3>2 DEF AnInv, Untold
      <4> QED BY <4>1 DEF BeingPut, Marking
    <3> QED BY <3>1, <3>2 DEF Underway
  <2>2. reply'[t] \notin Unanswered \/ Underway(t)'
    BY <2>1 DEF Underway
  <2> QED BY <2>2 DEF Admitted, Unanswered
<1> QED BY <1>1, <1>2

\* The guard of a task stays while nothing marks or unmarks a project.
LEMMA GuardStays ==
  ASSUME AnInv, UNCHANGED project_tasks_map,
         \A t \in Tasks : Admitted(t) => Admitted(t)',
         \A t \in tasks_map' : reply'[t] = "waiting" => t \in tasks_map /\ reply[t] = "waiting"
  PROVE  SoleTaskGuarded'
<1> SUFFICES ASSUME NEW t \in tasks_map', reply'[t] = "waiting",
                    \A u \in Tasks : ProjectOf[u] = ProjectOf[t] /\ Admitted(u)' => u = t
             PROVE  project_tasks_map'[ProjectOf[t]] = t
  BY DEF SoleTaskGuarded
<1> QED BY DEF AnInv, SoleTaskGuarded

\* The steps of a handler that tell its client something or just go on: a task
\* without a handler that is putting or marking it may be turned down, one that is
\* not registered may be reported as not found.
LEMMA TalkStep ==
  ASSUME AnInv, TypeOK', Serving', Telling',
         UNCHANGED <<tasks_map, task_results_map, tasks_queue, worker, lost, project_tasks_map>>,
         \A t \in Tasks : (BeingPut(t)' <=> BeingPut(t)) /\ (Marking(t)' <=> Marking(t)),
         \A t \in Tasks :
           \/ reply'[t] = reply[t]
           \/ /\ reply[t] = "none" /\ reply'[t] \in {"busy", "conflict"}
              /\ ~BeingPut(t) /\ ~Marking(t)
           \/ reply[t] = "waiting" /\ reply'[t] = "notfound" /\ t \notin tasks_map,
         \A h \in Handlers : request[h].pc \in {"register", "put", "lock"} =>
           \E g \in Handlers : /\ request'[g].task = request[h].task
                              /\ request'[g].pc \in {"register", "put", "lock"}
  PROVE  AnInv'
<1> USE DEF AnInv
<1>1. \A t \in Tasks : reply[t] \in Unanswered <=> reply'[t] \in Unanswered
  BY DEF Unanswered
<1>2. Finished' = Finished
  BY DEF Finished
<1>3. \A t \in Tasks : (InQueue(t)' <=> InQueue(t)) /\ (Held(t)' <=> Held(t))
  BY DEF InQueue, Held
<1>4. InHand'
  <2>1. \A w \in Workers : worker[w].pc = "cleanup" => worker[w].task \in Tasks
    BY DEF InHand, TypeOK
  <2> QED BY <1>2, <2>1 DEF InHand
<1>5. Queued' /\ RunOnce'
  BY DEF Queued, RunOnce, InQueue
<1>6. Untold'
  BY <1>1, <1>2, <1>3 DEF Untold
<1>7. Open'
  BY <1>1, <1>2 DEF Open, Untold, TypeOK, Unanswered
<1>8. Lost' /\ Findable'
  BY <1>1, <1>2 DEF Lost, Findable, TypeOK
<1>9. NoOrphan'
  BY <1>3 DEF NoOrphan, TypeOK
<1>10. SoleTaskGuarded'
  BY <1>1, AdmittedStays, GuardStays DEF TypeOK
<1> QED BY <1>4, <1>5, <1>6, <1>7, <1>8, <1>9, <1>10

-----------------------------------------------------------------------------
(* Every step preserves the invariant: first the handlers.                 *)

LEMMA BeginAddStep ==
  ASSUME AnInv, NEW h \in Handlers, NEW t \in Tasks, BeginAdd(h, t)
  PROVE  AnInv'
<1> USE DEF AnInv, BeginAdd, BeginSubmit
<1>1. request[h].pc = "idle" /\ reply[t] = "none" /\ \A g \in Handlers : request[g].task # t
  BY DEF Idle, Served
<1>2. /\ \A g \in Handlers \ {h} : request'[g] = request[g]
      /\ \A u \in Tasks \ {t} : reply'[u] = reply[u]
      /\ \/ request'[h] = request[h] /\ reply'[t] = "busy"
         \/ request'[h].pc = "check" /\ request'[h].task = t /\ reply'[t] = "none"
  BY <1>1 DEF TypeOK
<1>3. TypeOK'
  <2>1. reply' \in [Tasks -> Finals \cup {"none", "waiting"}]
    BY DEF TypeOK, Finals
  <2>2. request' \in [Handlers -> [pc : RequestPcs, task : Tasks \cup {None}]]
    BY DEF TypeOK, RequestPcs
  <2> QED BY <2>1, <2>2 DEF TypeOK
<1>4. Serving'
  BY <1>1, <1>2, NoneAssumption DEF Serving
<1>5. Telling'
  <2>1. \A g \in Handlers \ {h} : request[g].pc # "idle" => request[g].task \in Tasks \ {t}
    BY <1>1 DEF Serving, TypeOK
  <2> QED BY <1>1, <1>2, <2>1 DEF Telling
<1>6. \A u \in Tasks : (BeingPut(u)' <=> BeingPut(u)) /\ (Marking(u)' <=> Marking(u))
  BY <1>1, <1>2 DEF BeingPut, Marking
<1>7. ~BeingPut(t) /\ ~Marking(t)
  BY <1>1 DEF BeingPut, Marking
<1> QED BY <1>1, <1>2, <1>3, <1>4, <1>5, <1>6, <1>7, TalkStep

LEMMA CheckProjectStep ==
  ASSUME AnInv, NEW h \in Handlers, CheckProject(h)
  PROVE  AnInv'
<1> USE DEF AnInv, CheckProject
<1>1. PICK t \in Tasks : t = request[h].task
  BY DEF Serving, TypeOK
<1>2. /\ request[h].pc = "check" /\ reply[t] = "none"
      /\ \A g \in Handlers \ {h} : request'[g] = request[g] /\ request[g].task # t
      /\ \A u \in Tasks \ {t} : reply'[u] = reply[u]
      /\ \/ /\ request'[h] = Idle /\ reply'[t] = "conflict"
         \/ /\ request'[h].pc = "register" /\ request'[h].task = t /\ reply'[t] = "none"
  BY <1>1, NoneAssumption DEF TypeOK, Answer, Goto, Telling, Serving
<1>3. TypeOK'
  <2>1. reply' \in [Tasks -> Finals \cup {"none", "waiting"}]
    BY <1>1 DEF TypeOK, Answer, Finals
  <2>2. request' \in [Handlers -> [pc : RequestPcs, task : Tasks \cup {None}]]
    BY DEF TypeOK, Answer, Goto, Idle, RequestPcs
  <2> QED BY <2>1, <2>2 DEF TypeOK
<1>4. Serving'
  BY <1>1, <1>2, NoneAssumption DEF Serving, Idle
<1>5. Telling'
  <2>1. \A g \in Handlers \ {h} : request[g].pc # "idle" => request[g].task \in Tasks \ {t}
    BY <1>2 DEF Serving, TypeOK
  <2> QED BY <1>1, <1>2, <2>1 DEF Telling, Idle
<1>6. \A u \in Tasks : (BeingPut(u)' <=> BeingPut(u)) /\ (Marking(u)' <=> Marking(u))
  BY <1>1, <1>2 DEF BeingPut, Marking, Idle
<1>7. ~BeingPut(t) /\ ~Marking(t)
  BY <1>1, <1>2 DEF BeingPut, Marking
<1>8. /\ UNCHANGED <<tasks_map, task_results_map, tasks_queue, worker, lost, project_tasks_map>>
      /\ \A g \in Handlers : request[g].pc \in {"register", "put", "lock"} =>
           \E f \in Handlers : /\ request'[f].task = request[g].task
                              /\ request'[f].pc \in {"register", "put", "lock"}
  BY <1>2
<1> QED BY <1>2, <1>3, <1>4, <1>5, <1>6, <1>7, <1>8, TalkStep

LEMMA AddToMapStep ==
  ASSUME AnInv, NEW h \in Handlers, AddToMap(h)
  PROVE  AnInv'
<1> USE DEF AnInv
<1>1. PICK t \in Tasks : t = request[h].task
  BY DEF AddToMap, RegisterTask, Serving, TypeOK
<1>2. /\ UNCHANGED <<task_results_map, tasks_queue, worker, reply, lost, project_tasks_map>>
      /\ request[h].pc = "register" /\ reply[t] = "none" /\ tasks_map' = tasks_map \cup {t}
      /\ request'[h].pc = "put" /\ request'[h].task = t
      /\ \A g \in Handlers \ {h} : request'[g] = request[g] /\ request[g].task # t
  BY <1>1, NoneAssumption DEF AddToMap, RegisterTask, TypeOK, Goto, Telling, Serving
<1>3. ~BeingPut(t) /\ ~Marking(t)
  BY <1>1, <1>2 DEF BeingPut, Marking
<1>4. t \notin Finished /\ ~InQueue(t) /\ ~Held(t) /\ t \notin tasks_map /\ t \notin lost
  BY <1>2, <1>3 DEF Untold, Unanswered, Lost
<1>5. TypeOK' /\ Serving'
  <2>1. TypeOK'
    BY <1>1 DEF AddToMap, RegisterTask, TypeOK, Goto, RequestPcs
  <2>2. Serving'
    BY <1>1, <1>2, NoneAssumption DEF Serving
  <2> QED BY <2>1, <2>2
<1>6. Telling'
  BY <1>1, <1>2 DEF Telling
<1>7. BeingPut(t)' /\ \A u \in Tasks : /\ u # t => (BeingPut(u)' <=> BeingPut(u))
                                       /\ Marking(u)' <=> Marking(u)
  BY <1>1, <1>2 DEF BeingPut, Marking
<1>8. Finished' = Finished /\ \A u \in Tasks : (InQueue(u)' <=> InQueue(u)) /\ (Held(u)' <=> Held(u))
  BY <1>2 DEF Finished, InQueue, Held
<1>9. InHand'
  BY <1>2, <1>4, <1>8 DEF InHand, Held
<1>10. Queued' /\ RunOnce'
  BY <1>2 DEF Queued, RunOnce, InQueue
<1>11. Untold'
  BY <1>2, <1>4, <1>7, <1>8 DEF Untold
<1>12. Open'
  BY <1>2, <1>4, <1>8 DEF Open, Results
<1>13. Lost' /\ Findable'
  BY <1>2, <1>7, <1>8 DEF Lost, Findable
<1>14. NoOrphan'
  BY <1>2, <1>7, <1>8 DEF NoOrphan, TypeOK
<1>15. SoleTaskGuarded'
  BY <1>1, <1>2, AdmittedStays, GuardStays
<1> QED BY <1>2, <1>5, <1>6, <1>9, <1>10, <1>11, <1>12, <1>13, <1>14, <1>15

\* From here on a worker may have the task.
LEMMA AddToQueueStep ==
  ASSUME AnInv, NEW h \in Handlers, AddToQueue(h)
  PROVE  AnInv'
<1> USE DEF AnInv, AddToQueue, Enqueue
<1>1. PICK t \in Tasks : t = request[h].task
  BY DEF Serving, TypeOK
<1>2. /\ UNCHANGED <<tasks_map, task_results_map, worker, reply, lost, project_tasks_map>>
      /\ request[h].pc = "put" /\ reply[t] = "none"
      /\ request'[h].pc = "lock" /\ request'[h].task = t
      /\ \A g \in Handlers \ {h} : request'[g] = request[g] /\ request[g].task # t
  BY <1>1, NoneAssumption DEF TypeOK, Goto, Telling, Serving
<1>3. BeingPut(t) /\ ~Marking(t)
  BY <1>1, <1>2 DEF BeingPut, Marking
<1>4. t \notin Finished /\ ~InQueue(t) /\ ~Held(t) /\ t \in tasks_map /\ t \notin lost
  BY <1>2, <1>3 DEF Untold, Unanswered, Lost
<1>5. /\ Len(tasks_queue) \in Nat
      /\ DOMAIN tasks_queue = 1 .. Len(tasks_queue)
      /\ DOMAIN tasks_queue' = 1 .. Len(tasks_queue) + 1
      /\ \A i \in 1 .. Len(tasks_queue) : tasks_queue'[i] = tasks_queue[i]
      /\ tasks_queue'[Len(tasks_queue) + 1] = t
      /\ tasks_queue' \in Seq(Tasks) /\ Len(tasks_queue') <= QueueSize
  BY <1>1, AppendFacts, QueueAssumption DEF TypeOK
<1>6. InQueue(t)' /\ \A u \in Tasks \cup {None} : u # t => (InQueue(u)' <=> InQueue(u))
  <2>1. InQueue(t)'
    <3>1. Len(tasks_queue) + 1 \in DOMAIN tasks_queue'
      BY <1>5
    <3> QED BY <1>5, <3>1 DEF InQueue
  <2>2. ASSUME NEW u \in Tasks \cup {None}, u # t, InQueue(u) PROVE InQueue(u)'
    BY <1>5, <2>2 DEF InQueue
  <2>3. ASSUME NEW u \in Tasks \cup {None}, u # t, InQueue(u)' PROVE InQueue(u)
    <3>1. PICK i \in 1 .. Len(tasks_queue) + 1 : tasks_queue'[i] = u
      BY <1>5, <2>3 DEF InQueue
    <3>2. i # Len(tasks_queue) + 1
      BY <1>5, <2>3, <3>1
    <3> QED BY <1>5, <3>1, <3>2 DEF InQueue
  <2> QED BY <2>1, <2>2, <2>3
<1>7. TypeOK' /\ Serving'
  <2>1. TypeOK'
    BY <1>1, <1>5 DEF TypeOK, Goto, RequestPcs
  <2>2. Serving'
    BY <1>1, <1>2, NoneAssumption DEF Serving
  <2> QED BY <2>1, <2>2
<1>8. Telling'
  BY <1>1, <1>2 DEF Telling
<1>9. /\ Marking(t)'
      /\ \A u \in Tasks \ {t} : (BeingPut(u)' <=> BeingPut(u)) /\ (Marking(u)' <=> Marking(u))
  BY <1>1, <1>2 DEF BeingPut, Marking
<1>10. Finished' = Finished /\ \A u \in Tasks : Held(u)' <=> Held(u)
  BY <1>2 DEF Finished, Held
<1>11. InHand'
  BY <1>2, <1>10 DEF InHand
<1>12. Queued'
  BY <1>2, <1>4, <1>5 DEF Queued
<1>13. Untold'
  BY <1>2, <1>6, <1>9, <1>10 DEF Untold
<1>14. Open' /\ Lost'
  BY <1>2, <1>10 DEF Open, Lost
<1>15. Findable'
  BY <1>2, <1>4, <1>9, <1>10 DEF Findable
<1>16. RunOnce'
  <2>1. \A w \in Workers : ~InQueue(worker[w].task)'
    BY <1>4, <1>6 DEF RunOnce, Held, TypeOK
  <2>2. \A i, j \in DOMAIN tasks_queue' : tasks_queue'[i] = tasks_queue'[j] => i = j
    BY <1>4, <1>5 DEF RunOnce, InQueue
  <2> QED BY <1>2, <2>1, <2>2 DEF RunOnce, InQueue
<1>17. NoOrphan'
  <2>1. ASSUME NEW u \in tasks_map, u # t PROVE BeingPut(u)' \/ InQueue(u)' \/ Held(u)'
    BY <1>6, <1>9, <1>10, <2>1 DEF NoOrphan, TypeOK
  <2> QED BY <1>2, <1>6, <2>1 DEF NoOrphan
<1>18. SoleTaskGuarded'
  BY <1>1, <1>2, AdmittedStays, GuardStays
<1> QED BY <1>2, <1>7, <1>8, <1>11, <1>12, <1>13, <1>14, <1>15, <1>16, <1>17, <1>18

\* The mark goes to the task of the request, whatever has become of it meanwhile;
\* another task of the project that still needs it is not its only one.
LEMMA MarkProjectStep ==
  ASSUME AnInv, NEW h \in Handlers, MarkProject(h)
  PROVE  AnInv'
<1> USE DEF AnInv, MarkProject, Answer
<1>1. PICK t \in Tasks : t = request[h].task
  BY DEF Serving, TypeOK
<1>2. /\ UNCHANGED <<tasks_map, task_results_map, tasks_queue, worker, lost>>
      /\ request[h].pc = "lock" /\ reply[t] = "none" /\ reply'[t] = "waiting"
      /\ request'[h] = Idle
      /\ \A u \in Tasks \ {t} : reply'[u] = reply[u]
      /\ \A g \in Handlers \ {h} : request'[g] = request[g] /\ request[g].task # t
  BY <1>1, NoneAssumption DEF TypeOK, Telling, Serving
<1>3. Marking(t)
  BY <1>1, <1>2 DEF Marking
<1>4. t \in tasks_map \cup Finished \cup lost
  BY <1>3 DEF Findable
<1>5. ProjectOf[t] \in Projects
  BY ProjectAssumption
<1>6. project_tasks_map' \in [Projects -> Tasks \cup {None}]
  BY <1>1, <1>5
<1>7. TypeOK' /\ Serving'
  <2>1. TypeOK'
    BY <1>1 DEF TypeOK, Idle, RequestPcs
  <2>2. Serving'
    BY <1>1, <1>2, NoneAssumption DEF Serving, Idle
  <2> QED BY <2>1, <2>2
<1>8. Telling'
  <2>1. \A g \in Handlers \ {h} : request[g].pc # "idle" => request[g].task \in Tasks \ {t}
    BY <1>2 DEF Serving, TypeOK
  <2> QED BY <1>1, <1>2, <2>1 DEF Telling, Idle
<1>9. \A u \in Tasks \ {t} : (BeingPut(u)' <=> BeingPut(u)) /\ (Marking(u)' <=> Marking(u))
  BY <1>1, <1>2 DEF BeingPut, Marking, Idle
<1>10. /\ Finished' = Finished
       /\ \A u \in Tasks : (InQueue(u)' <=> InQueue(u)) /\ (Held(u)' <=> Held(u))
  BY <1>2 DEF Finished, InQueue, Held
<1>11. InHand'
  <2>1. \A w \in Workers : worker[w].pc = "cleanup" => worker[w].task \in Tasks
    BY DEF InHand, TypeOK
  <2> QED BY <1>2, <1>10, <2>1 DEF InHand
<1>12. Queued' /\ RunOnce'
  BY <1>2 DEF Queued, RunOnce, InQueue
<1>13. Untold'
  BY <1>2, <1>9, <1>10 DEF Untold, Unanswered
<1>14. Open' /\ Lost'
  <2>1. Open'
    BY <1>2, <1>10 DEF Open, Results, TypeOK
  <2>2. Lost'
    BY <1>2, <1>10 DEF Lost, TypeOK, Unanswered
  <2> QED BY <2>1, <2>2
<1>15. Findable'
  BY <1>2, <1>4, <1>9, <1>10 DEF Findable
<1>16. NoOrphan'
  <2>1. ~BeingPut(t)
    BY <1>1, <1>2 DEF BeingPut
  <2> QED BY <1>2, <1>9, <1>10, <2>1 DEF NoOrphan, TypeOK
<1>17. SoleTaskGuarded'
  <2>1. \A u \in Tasks : Admitted(u) => Admitted(u)'
    BY <1>1, <1>2, AdmittedStays DEF Unanswered
  <2> SUFFICES ASSUME NEW u \in tasks_map, reply'[u] = "waiting",
                      \A v \in Tasks : ProjectOf[v] = ProjectOf[u] /\ Admitted(v)' => v = u
               PROVE  project_tasks_map'[ProjectOf[u]] = u
    BY <1>2 DEF SoleTaskGuarded
  <2>2. Admitted(t)'
    BY <1>2 DEF Admitted
  <2>3. u \in Tasks /\ ProjectOf[u] \in Projects
    BY ProjectAssumption DEF TypeOK
  <2>4. CASE u = t
    BY <1>1, <1>5, <2>4
  <2>5. CASE u # t
    <3>1. ProjectOf[u] # ProjectOf[t]
      BY <2>2, <2>5
    <3>2. project_tasks_map[ProjectOf[u]] = u
      BY <1>2, <2>1, <2>3, <2>5 DEF SoleTaskGuarded
    <3> QED BY <1>1, <2>3, <3>1, <3>2
  <2> QED BY <2>4, <2>5
<1> QED BY <1>6, <1>7, <1>8, <1>11, <1>12, <1>13, <1>14, <1>15, <1>16, <1>17

LEMMA BeginStatusStep ==
  ASSUME AnInv, NEW h \in Handlers, NEW t \in Tasks, BeginStatus(h, t)
  PROVE  AnInv'
<1> USE DEF AnInv
<1>1. /\ request[h].pc = "idle" /\ reply[t] = "waiting" /\ \A g \in Handlers : request[g].task # t
      /\ UNCHANGED <<tasks_map, task_results_map, tasks_queue, worker, lost, project_tasks_map>>
      /\ reply' = reply
      /\ \A g \in Handlers \ {h} : request'[g] = request[g]
      /\ request'[h].pc = (IF t \in tasks_map THEN "pop" ELSE "lookup") /\ request'[h].task = t
  BY DEF BeginStatus, BeginPoll, Idle, Served, TypeOK
<1>2. TypeOK'
  <2>1. request' \in [Handlers -> [pc : RequestPcs, task : Tasks \cup {None}]]
    BY DEF BeginStatus, BeginPoll, TypeOK, RequestPcs
  <2> QED BY <1>1, <2>1 DEF TypeOK
<1>3. Serving'
  BY <1>1, NoneAssumption DEF Serving
<1>4. Telling'
  BY <1>1 DEF Telling
<1>5. \A u \in Tasks : (BeingPut(u)' <=> BeingPut(u)) /\ (Marking(u)' <=> Marking(u))
  BY <1>1 DEF BeingPut, Marking
<1>6. \A g \in Handlers : request[g].pc \in {"register", "put", "lock"} =>
        \E f \in Handlers : /\ request'[f].task = request[g].task
                            /\ request'[f].pc \in {"register", "put", "lock"}
  BY <1>1
<1> QED BY <1>1, <1>2, <1>3, <1>4, <1>5, <1>6, TalkStep

\* A poll takes the result of its own task at most.
LEMMA StatusStep ==
  ASSUME AnInv, NEW h \in Handlers, Status(h)
  PROVE  AnInv'
<1> USE DEF AnInv
<1>1. PICK t \in Tasks : t = request[h].task
  BY DEF Status, Poll, LookupResult, PopResult, RecheckMap, Serving, TypeOK
<1>2. /\ request[h].pc \in {"lookup", "pop", "recheck"} /\ reply[t] = "waiting"
      /\ UNCHANGED <<tasks_map, tasks_queue, worker, lost, project_tasks_map>>
      /\ \A g \in Handlers \ {h} : request[g].task # t
  BY <1>1, NoneAssumption DEF Status, Poll, LookupResult, PopResult, RecheckMap, Telling, Serving
<1>3. \/ /\ \/ Goto(h, "pop") /\ UNCHANGED reply
            \/ Goto(h, "recheck") /\ UNCHANGED reply
            \/ Answer(h, "waiting")
            \/ Answer(h, "notfound") /\ t \notin tasks_map
         /\ task_results_map' = task_results_map
      \/ /\ task_results_map[t] \in Results
         /\ Answer(h, task_results_map[t])
         /\ task_results_map' = [task_results_map EXCEPT ![t] = "none"]
  <2>1. CASE LookupResult(h)
    <3>1. t \notin tasks_map
      BY <1>1, <2>1 DEF LookupResult, Telling
    <3> QED BY <2>1, <3>1 DEF LookupResult
  <2>2. CASE PopResult(h)
    <3>1. CASE task_results_map[t] = "none"
      <4>1. task_results_map' = task_results_map
        BY <1>1, <2>2, <3>1 DEF PopResult, TypeOK
      <4> QED BY <1>1, <2>2, <3>1, <4>1 DEF PopResult
    <3>2. CASE task_results_map[t] # "none"
      <4>1. task_results_map[t] \in Results
        BY <3>2 DEF TypeOK
      <4> QED BY <1>1, <2>2, <3>2, <4>1 DEF PopResult
    <3> QED BY <3>1, <3>2
  <2>3. CASE RecheckMap(h)
    BY <1>1, <2>3 DEF RecheckMap
  <2> QED BY <2>1, <2>2, <2>3 DEF Status, Poll
<1>4. /\ \A g \in Handlers \ {h} : request'[g] = request[g]
      /\ \A u \in Tasks \ {t} : reply'[u] = reply[u] /\ task_results_map'[u] = task_results_map[u]
      /\ \/ request'[h] = Idle
         \/ /\ request'[h].pc \in {"pop", "recheck"} /\ request'[h].task = t
            /\ reply'[t] = "waiting"
      /\ \/ /\ task_results_map' = task_results_map
            /\ reply'[t] = "waiting" \/ (reply'[t] = "notfound" /\ t \notin tasks_map)
         \/ /\ task_results_map[t] \in Results /\ reply'[t] \in Results
            /\ task_results_map' = [task_results_map EXCEPT ![t] = "none"]
  BY <1>1, <1>2, <1>3 DEF Goto, Answer, TypeOK
<1>5. TypeOK'
  <2>1. reply' \in [Tasks -> Finals \cup {"none", "waiting"}]
    BY <1>1, <1>3 DEF TypeOK, Answer, Finals
  <2>2. request' \in [Handlers -> [pc : RequestPcs, task : Tasks \cup {None}]]
    <3>1. ASSUME NEW pc \in {"pop", "recheck"}, Goto(h, pc)
          PROVE  request' \in [Handlers -> [pc : RequestPcs, task : Tasks \cup {None}]]
      <4>1. pc \in RequestPcs
        BY DEF RequestPcs
      <4> QED BY <3>1, <4>1 DEF TypeOK, Goto
    <3>2. CASE request' = [request EXCEPT ![h] = Idle]
      BY <3>2 DEF TypeOK, Idle, RequestPcs
    <3> QED BY <1>3, <3>1, <3>2 DEF Answer
  <2>3. task_results_map' \in [Tasks -> Results \cup {"none"}]
    BY <1>3 DEF TypeOK
  <2> QED BY <1>2, <2>1, <2>2, <2>3 DEF TypeOK
<1>6. Serving'
  BY <1>1, <1>2, <1>4, NoneAssumption DEF Serving, Idle
<1>7. Telling'
  <2>1. \A g \in Handlers \ {h} : request[g].pc # "idle" => request[g].task \in Tasks \ {t}
    BY <1>2 DEF Serving, TypeOK
  <2> QED BY <1>1, <1>2, <1>4, <2>1 DEF Telling, Idle
<1>8. \A u \in Tasks : (BeingPut(u)' <=> BeingPut(u)) /\ (Marking(u)' <=> Marking(u))
  BY <1>1, <1>2, <1>4 DEF BeingPut, Marking, Idle
<1>9. \A g \in Handlers : request[g].pc \in {"register", "put", "lock"} =>
        \E f \in Handlers : /\ request'[f].task = request[g].task
                            /\ request'[f].pc \in {"register", "put", "lock"}
  BY <1>2, <1>4
<1>10. CASE task_results_map' = task_results_map /\ reply'[t] \notin Results
  <2>1. reply'[t] = "waiting" \/ (reply'[t] = "notfound" /\ t \notin tasks_map)
    BY <1>4, <1>10
  <2>2. \A u \in Tasks :
           \/ reply'[u] = reply[u]
           \/ /\ reply[u] = "none" /\ reply'[u] \in {"busy", "conflict"}
              /\ ~BeingPut(u) /\ ~Marking(u)
           \/ reply[u] = "waiting" /\ reply'[u] = "notfound" /\ u \notin tasks_map
    BY <1>2, <1>4, <2>1
  <2> QED BY <1>2, <1>5, <1>6, <1>7, <1>8, <1>9, <1>10, <2>2, TalkStep
<1>11. CASE /\ task_results_map[t] \in Results /\ reply'[t] \in Results
            /\ task_results_map' = [task_results_map EXCEPT ![t] = "none"]
  <2>1. t \in Finished /\ Finished' = Finished \ {t} /\ t \notin lost
    <3>1. t \in Finished
      BY <1>11 DEF Finished, Results
    <3>2. Finished' = Finished \ {t}
      BY <1>11 DEF Finished, TypeOK
    <3> QED BY <3>1, <3>2 DEF Lost
  <2>2. \A u \in Tasks : (InQueue(u)' <=> InQueue(u)) /\ (Held(u)' <=> Held(u))
    BY <1>2 DEF InQueue, Held
  <2>3. InHand'
    <3>1. \A w \in Workers : worker[w].pc = "cleanup" => worker[w].task \in Tasks
      BY DEF InHand, TypeOK
    <3> QED BY <1>2, <1>4, <1>11, <2>1, <3>1 DEF InHand, Results
  <2>4. Queued' /\ RunOnce'
    BY <1>2 DEF Queued, RunOnce, InQueue
  <2>5. Untold'
    BY <1>2, <1>4, <1>8, <1>11, <2>1, <2>2 DEF Untold, Unanswered, Results
  <2>6. Open'
    <3>1. t \in tasks_map => \E w \in Workers : worker[w].pc = "cleanup" /\ worker[w].task = t
      BY <2>1 DEF Open
    <3> QED BY <1>2, <1>4, <1>11, <2>1, <3>1 DEF Open, TypeOK
  <2>7. Lost'
    BY <1>2, <1>4, <1>11, <2>1 DEF Lost, TypeOK
  <2>8. Findable'
    <3>1. ~Marking(t)
      BY <1>1, <1>2 DEF Marking
    <3> QED BY <1>2, <1>4, <1>8, <1>11, <2>1, <3>1 DEF Findable, Results
  <2>9. NoOrphan'
    BY <1>2, <1>8, <2>2 DEF NoOrphan, TypeOK
  <2>10. SoleTaskGuarded'
    <3>1. \A u \in Tasks : reply[u] \notin Unanswered => reply'[u] \notin Unanswered
      BY <1>4, <1>11 DEF Unanswered, Results
    <3>2. \A u \in Tasks : Admitted(u) => Admitted(u)'
      BY <1>9, <3>1, AdmittedStays
    <3>3. \A u \in tasks_map' : reply'[u] = "waiting" => u \in tasks_map /\ reply[u] = "waiting"
      BY <1>2, <1>4 DEF TypeOK
    <3> QED BY <1>2, <3>2, <3>3, GuardStays
  <2> QED BY <1>2, <1>5, <1>6, <1>7, <2>3, <2>4, <2>5, <2>6, <2>7, <2>8, <2>9, <2>10
<1>12. "waiting" \notin Results /\ "notfound" \notin Results
  BY DEF Results
<1> QED BY <1>4, <1>10, <1>11, <1>12

-----------------------------------------------------------------------------
(* The workers and the restart of the process.                             *)

\* What stays while the handlers rest: their part of the invariant.
LEMMA RestStep ==
  ASSUME AnInv, UNCHANGED <<request, reply>>, tasks_map' \subseteq tasks_map
  PROVE  /\ Serving' /\ Telling'
         /\ \A t \in Tasks : (BeingPut(t)' <=> BeingPut(t)) /\ (Marking(t)' <=> Marking(t))
         /\ \A t \in Tasks : Admitted(t) => Admitted(t)'
<1>1. Serving' /\ Telling'
  BY DEF AnInv, Serving, Telling
<1>2. \A t \in Tasks : (BeingPut(t)' <=> BeingPut(t)) /\ (Marking(t)' <=> Marking(t))
  BY DEF BeingPut, Marking
<1>3. \A t \in Tasks : Admitted(t) => Admitted(t)'
  BY AdmittedStays
<1> QED BY <1>1, <1>2, <1>3

LEMMA TakeTaskStep ==
  ASSUME AnInv, NEW w \in Workers, TakeTask(w)
  PROVE  AnInv'
<1> USE DEF AnInv
<1>1. /\ UNCHANGED <<tasks_map, task_results_map, request, reply, lost, project_tasks_map>>
      /\ worker[w].pc = "idle" /\ tasks_queue # <<>> /\ tasks_queue' = Tail(tasks_queue)
  BY DEF TakeTask, GetTask
<1>2. /\ Len(tasks_queue) \in Nat \ {0}
      /\ DOMAIN tasks_queue = 1 .. Len(tasks_queue)
      /\ DOMAIN tasks_queue' = 1 .. Len(tasks_queue) - 1
      /\ \A i \in 1 .. Len(tasks_queue) - 1 : tasks_queue'[i] = tasks_queue[i + 1]
      /\ tasks_queue' \in Seq(Tasks) /\ Len(tasks_queue') = Len(tasks_queue) - 1
  BY <1>1, TailFacts DEF TypeOK
<1>3. PICK t \in Tasks : t = Head(tasks_queue) /\ t = tasks_queue[1] /\ t \in tasks_map
  <2>1. Head(tasks_queue) \in Tasks /\ Head(tasks_queue) = tasks_queue[1]
    BY <1>1, TailFacts DEF TypeOK
  <2>2. tasks_queue[1] \in tasks_map
    BY <1>2 DEF Queued
  <2> QED BY <2>1, <2>2
<1>4. worker' = [worker EXCEPT ![w] = [pc |-> "run", task |-> t]]
  BY <1>3 DEF TakeTask, GetTask
<1>5. /\ worker'[w].pc = "run" /\ worker'[w].task = t
      /\ \A v \in Workers \ {w} : worker'[v] = worker[v]
  BY <1>4 DEF TypeOK
<1>6. InQueue(t) /\ \A v \in Workers : worker[v].task # t
  BY <1>2, <1>3 DEF RunOnce, InQueue
<1>7. ~InQueue(t)' /\ \A u \in Tasks \cup {None} : u # t => (InQueue(u)' <=> InQueue(u))
  <2>1. ~InQueue(t)'
    BY <1>2, <1>3 DEF RunOnce, InQueue
  <2>2. ASSUME NEW u \in Tasks \cup {None}, u # t, InQueue(u) PROVE InQueue(u)'
    <3>1. PICK i \in 1 .. Len(tasks_queue) : tasks_queue[i] = u
      BY <1>2, <2>2 DEF InQueue
    <3>2. i - 1 \in 1 .. Len(tasks_queue) - 1 /\ tasks_queue'[i - 1] = u
      BY <1>2, <1>3, <2>2, <3>1
    <3> QED BY <1>2, <3>2 DEF InQueue
  <2>3. ASSUME NEW u \in Tasks \cup {None}, InQueue(u)' PROVE InQueue(u)
    <3>1. PICK i \in 1 .. Len(tasks_queue) - 1 : tasks_queue'[i] = u
      BY <1>2, <2>3 DEF InQueue
    <3>2. i + 1 \in 1 .. Len(tasks_queue) /\ tasks_queue[i + 1] = u
      BY <1>2, <3>1
    <3> QED BY <1>2, <3>2 DEF InQueue
  <2> QED BY <2>1, <2>2, <2>3
<1>8. \A u \in Tasks \ {t} : Held(u)' <=> Held(u)
  BY <1>1, <1>5, NoneAssumption DEF Held, InHand
<1>9. TypeOK'
  <2>1. worker' \in [Workers -> [pc : WorkerPcs, task : Tasks \cup {None}]]
    BY <1>4 DEF TypeOK, WorkerPcs
  <2>2. Len(tasks_queue') <= QueueSize
    BY <1>2, QueueAssumption DEF TypeOK
  <2> QED BY <1>1, <1>2, <2>1, <2>2 DEF TypeOK
<1>10. /\ Serving' /\ Telling' /\ \A u \in Tasks : Admitted(u) => Admitted(u)'
       /\ \A u \in Tasks : (BeingPut(u)' <=> BeingPut(u)) /\ (Marking(u)' <=> Marking(u))
  BY <1>1, RestStep
<1>11. Finished' = Finished
  BY <1>1 DEF Finished
<1>12. InHand'
  BY <1>1, <1>3, <1>5, <1>11, NoneAssumption DEF InHand
<1>13. Queued'
  BY <1>1, <1>2 DEF Queued
<1>14. Untold'
  BY <1>1, <1>6, <1>7, <1>8, <1>10, <1>11 DEF Untold
<1>15. Open'
  BY <1>1, <1>5, <1>11 DEF Open
<1>16. Lost' /\ Findable'
  BY <1>1, <1>10, <1>11 DEF Lost, Findable
<1>17. RunOnce'
  <2>1. \A v, x \in Workers :
          worker'[v].task = worker'[x].task => v = x \/ worker'[v].task = None
    BY <1>5, <1>6 DEF RunOnce
  <2>2. \A v \in Workers : ~(\E i \in DOMAIN tasks_queue' : tasks_queue'[i] = worker'[v].task)
    <3>1. ASSUME NEW v \in Workers \ {w}, NEW i \in DOMAIN tasks_queue',
                 tasks_queue'[i] = worker'[v].task
          PROVE  FALSE
      BY <1>2, <1>5, <3>1 DEF RunOnce, InQueue
    <3>2. ASSUME NEW i \in DOMAIN tasks_queue', tasks_queue'[i] = t PROVE FALSE
      BY <1>7, <3>2 DEF InQueue
    <3> QED BY <1>5, <3>1, <3>2
  <2>3. \A i, j \in DOMAIN tasks_queue' : tasks_queue'[i] = tasks_queue'[j] => i = j
    BY <1>2 DEF RunOnce
  <2> QED BY <2>1, <2>2, <2>3 DEF RunOnce, InQueue
<1>18. NoOrphan'
  <2>1. Held(t)'
    BY <1>5 DEF Held
  <2>2. ASSUME NEW u \in tasks_map, u # t PROVE BeingPut(u)' \/ InQueue(u)' \/ Held(u)'
    BY <1>7, <1>8, <1>10, <2>2 DEF NoOrphan, TypeOK
  <2> QED BY <1>1, <2>1, <2>2 DEF NoOrphan
<1>19. SoleTaskGuarded'
  BY <1>1, <1>10, GuardStays
<1> QED BY <1>1, <1>9, <1>10, <1>12, <1>13, <1>14, <1>15, <1>16, <1>17, <1>18, <1>19

LEMMA RunTaskStep ==
  ASSUME AnInv, NEW w \in Workers, NEW r \in Results, RunTask(w, r)
  PROVE  AnInv'
<1> USE DEF AnInv
<1>1. PICK t \in Tasks : t = worker[w].task /\ t \in tasks_map
  BY DEF RunTask, StoreResult, InHand, TypeOK
<1>2. /\ UNCHANGED <<tasks_map, tasks_queue, request, reply, lost, project_tasks_map>>
      /\ worker[w].pc = "run" /\ worker'[w].pc = "cleanup" /\ worker'[w].task = t
      /\ \A v \in Workers \ {w} : worker'[v] = worker[v]
      /\ task_results_map' = [task_results_map EXCEPT ![t] = r]
  BY <1>1 DEF RunTask, StoreResult, TypeOK
<1>3. Finished' = Finished \cup {t}
  BY <1>2 DEF Finished, TypeOK, Results
<1>4. t \notin lost /\ Held(t)
  BY <1>1 DEF Open, Held
<1>5. \A u \in Tasks : (InQueue(u)' <=> InQueue(u)) /\ (Held(u)' <=> Held(u))
  BY <1>1, <1>2 DEF InQueue, Held
<1>6. TypeOK'
  <2>1. worker' \in [Workers -> [pc : WorkerPcs, task : Tasks \cup {None}]]
    BY DEF RunTask, StoreResult, TypeOK, WorkerPcs
  <2>2. task_results_map' \in [Tasks -> Results \cup {"none"}]
    BY <1>2 DEF TypeOK
  <2> QED BY <1>2, <2>1, <2>2 DEF TypeOK
<1>7. /\ Serving' /\ Telling' /\ \A u \in Tasks : Admitted(u) => Admitted(u)'
      /\ \A u \in Tasks : (BeingPut(u)' <=> BeingPut(u)) /\ (Marking(u)' <=> Marking(u))
  BY <1>2, RestStep
<1>8. InHand'
  BY <1>1, <1>2, <1>3, NoneAssumption DEF InHand
<1>9. Queued' /\ RunOnce' /\ NoOrphan'
  <2>1. Queued' /\ RunOnce'
    BY <1>1, <1>2 DEF Queued, RunOnce, InQueue
  <2>2. NoOrphan'
    BY <1>2, <1>5, <1>7 DEF NoOrphan, TypeOK
  <2> QED BY <2>1, <2>2
<1>10. Untold'
  BY <1>2, <1>3, <1>4, <1>5, <1>7 DEF Untold
<1>11. Open'
  BY <1>2, <1>3 DEF Open
<1>12. Lost' /\ Findable'
  BY <1>2, <1>3, <1>4, <1>7 DEF Lost, Findable
<1>13. SoleTaskGuarded'
  BY <1>2, <1>7, GuardStays
<1> QED BY <1>2, <1>6, <1>7, <1>8, <1>9, <1>10, <1>11, <1>12, <1>13

LEMMA RemoveTaskStep ==
  ASSUME AnInv, NEW w \in Workers, RemoveTask(w)
  PROVE  AnInv'
<1> USE DEF AnInv
<1>1. PICK t \in Tasks : t = worker[w].task /\ t \in tasks_map
  BY DEF RemoveTask, DropTask, InHand, TypeOK
<1>2. /\ UNCHANGED <<task_results_map, tasks_queue, request, reply, lost, project_tasks_map>>
      /\ worker[w].pc = "cleanup" /\ worker'[w].pc = "unlock" /\ worker'[w].task = t
      /\ \A v \in Workers \ {w} : worker'[v] = worker[v]
      /\ \A v \in Workers \ {w} : worker[v].task # t
      /\ tasks_map' = tasks_map \ {t}
  BY <1>1, NoneAssumption DEF RemoveTask, DropTask, TypeOK, RunOnce
<1>3. Held(t) /\ ~InQueue(t)
  BY <1>1 DEF Held, RunOnce
<1>4. t \in Finished \/ reply[t] \in Results
  BY <1>1, <1>2 DEF InHand, Open
<1>5. Finished' = Finished /\ \A u \in Tasks : (InQueue(u)' <=> InQueue(u)) /\ (Held(u)' <=> Held(u))
  BY <1>1, <1>2 DEF InQueue, Held, Finished
<1>6. TypeOK'
  <2>1. worker' \in [Workers -> [pc : WorkerPcs, task : Tasks \cup {None}]]
    BY DEF RemoveTask, DropTask, TypeOK, WorkerPcs
  <2> QED BY <1>2, <2>1 DEF TypeOK
<1>7. /\ Serving' /\ Telling' /\ \A u \in Tasks : Admitted(u) => Admitted(u)'
      /\ \A u \in Tasks : (BeingPut(u)' <=> BeingPut(u)) /\ (Marking(u)' <=> Marking(u))
  BY <1>2, RestStep
<1>8. InHand'
  BY <1>1, <1>2, <1>5, NoneAssumption DEF InHand
<1>9. Queued'
  BY <1>2, <1>3 DEF Queued, InQueue
<1>10. RunOnce'
  BY <1>1, <1>2 DEF RunOnce, InQueue
<1>11. Untold'
  BY <1>2, <1>3, <1>5, <1>7 DEF Untold
<1>12. Open' /\ Lost'
  BY <1>1, <1>2, <1>5 DEF Open, Lost
<1>13. Findable'
  <2>1. Marking(t) => reply[t] = "none"
    BY <1>1 DEF Marking, Telling
  <2> QED BY <1>2, <1>4, <1>5, <1>7, <2>1 DEF Findable, Results
<1>14. NoOrphan'
  BY <1>2, <1>5, <1>7 DEF NoOrphan, TypeOK
<1>15. SoleTaskGuarded'
  BY <1>2, <1>7, GuardStays
<1> QED BY <1>2, <1>6, <1>7, <1>8, <1>9, <1>10, <1>11, <1>12, <1>13, <1>14, <1>15

\* The worker takes the mark of its project off, whoever put it there; a task that
\* still needs it would not be the only one that was admitted.
LEMMA UnmarkProjectStep ==
  ASSUME AnInv, NEW w \in Workers, UnmarkProject(w)
  PROVE  AnInv'
<1> USE DEF AnInv
<1>1. PICK t \in Tasks : t = worker[w].task /\ t \notin tasks_map
  BY DEF UnmarkProject, InHand, TypeOK
<1>2. /\ UNCHANGED <<tasks_map, task_results_map, tasks_queue, request, reply, lost>>
      /\ worker[w].pc = "unlock" /\ worker'[w].pc = "idle" /\ worker'[w].task = None
      /\ \A v \in Workers \ {w} : worker'[v] = worker[v] /\ worker[v].task # t
  BY <1>1, NoneAssumption DEF UnmarkProject, Idle, TypeOK, RunOnce
<1>3. /\ project_tasks_map' = [project_tasks_map EXCEPT ![ProjectOf[t]] = None]
      /\ ProjectOf[t] \in Projects
  BY <1>1, ProjectAssumption DEF UnmarkProject
<1>4. Held(t) /\ Admitted(t)
  BY <1>1 DEF Held, Admitted, Underway
<1>5. Finished' = Finished /\ \A u \in Tasks : /\ InQueue(u)' <=> InQueue(u)
                                               /\ u # t => (Held(u)' <=> Held(u))
                                               /\ ~Held(t)'
  BY <1>1, <1>2, NoneAssumption DEF InQueue, Held, Finished
<1>6. TypeOK'
  <2>1. worker' \in [Workers -> [pc : WorkerPcs, task : Tasks \cup {None}]]
    BY DEF UnmarkProject, Idle, TypeOK, WorkerPcs
  <2> QED BY <1>2, <2>1 DEF TypeOK
<1>7. /\ Serving' /\ Telling' /\ \A u \in Tasks : Admitted(u) => Admitted(u)'
      /\ \A u \in Tasks : (BeingPut(u)' <=> BeingPut(u)) /\ (Marking(u)' <=> Marking(u))
  BY <1>2, RestStep
<1>8. InHand'
  BY <1>1, <1>2, <1>5 DEF InHand
<1>9. Queued'
  BY <1>2 DEF Queued
<1>10. RunOnce'
  <2>1. \A i \in DOMAIN tasks_queue : tasks_queue[i] \in Tasks
    BY DEF Queued, TypeOK
  <2>2. ~\E i \in DOMAIN tasks_queue : tasks_queue[i] = None
    BY <2>1, NoneAssumption
  <2> QED BY <1>2, <2>2 DEF RunOnce, InQueue
<1>11. Untold'
  BY <1>2, <1>5, <1>7 DEF Untold
<1>12. Open' /\ Lost' /\ Findable'
  <2>1. Open'
    BY <1>1, <1>2, <1>5 DEF Open
  <2>2. Lost' /\ Findable'
    BY <1>2, <1>5, <1>7 DEF Lost, Findable
  <2> QED BY <2>1, <2>2
<1>13. NoOrphan'
  BY <1>1, <1>2, <1>5, <1>7 DEF NoOrphan, TypeOK
<1>14. SoleTaskGuarded'
  <2> SUFFICES ASSUME NEW u \in tasks_map, reply[u] = "waiting",
                      \A v \in Tasks : ProjectOf[v] = ProjectOf[u] /\ Admitted(v)' => v = u
               PROVE  project_tasks_map'[ProjectOf[u]] = u
    BY <1>2 DEF SoleTaskGuarded
  <2>1. u # t /\ ProjectOf[u] # ProjectOf[t] /\ ProjectOf[u] \in Projects
    BY <1>1, <1>4, <1>7, ProjectAssumption DEF TypeOK
  <2>2. project_tasks_map[ProjectOf[u]] = u
    BY <1>7 DEF SoleTaskGuarded
  <2> QED BY <1>3, <2>1, <2>2
<1>15. project_tasks_map' \in [Projects -> Tasks \cup {None}]
  BY <1>3
<1> QED BY <1>6, <1>7, <1>8, <1>9, <1>10, <1>11, <1>12, <1>13, <1>14, <1>15

LEMMA RestartAllStep ==
  ASSUME AnInv, RestartAll
  PROVE  AnInv'
<1> USE DEF AnInv
<1>1. /\ tasks_map' = {} /\ tasks_queue' = <<>>
      /\ \A w \in Workers : worker'[w].pc = "idle" /\ worker'[w].task = None
      /\ \A h \in Handlers : request'[h].pc = "idle" /\ request'[h].task = None
      /\ task_results_map' = [t \in Tasks |-> "none"]
      /\ reply' = [t \in Tasks |-> IF Served(t) THEN "error" ELSE reply[t]]
      /\ lost' = lost \cup {t \in tasks_map \cup Finished : reply[t] \notin Results}
  BY DEF RestartAll, Restart, Idle
<1>2. DOMAIN tasks_queue' = {} /\ Finished' = {}
  BY <1>1 DEF Finished
<1>3. \A u \in Tasks : ~InQueue(u)' /\ ~Held(u)' /\ ~BeingPut(u)' /\ ~Marking(u)'
  BY <1>1, <1>2, NoneAssumption DEF InQueue, Held, BeingPut, Marking
<1>4. TypeOK' /\ project_tasks_map' \in [Projects -> Tasks \cup {None}]
  <2>1. /\ worker' \in [Workers -> [pc : WorkerPcs, task : Tasks \cup {None}]]
        /\ request' \in [Handlers -> [pc : RequestPcs, task : Tasks \cup {None}]]
    BY DEF RestartAll, Restart, Idle, WorkerPcs, RequestPcs
  <2>2. reply' \in [Tasks -> Finals \cup {"none", "waiting"}]
    BY <1>1 DEF TypeOK, Finals
  <2>3. lost' \subseteq Tasks
    BY <1>1 DEF TypeOK, Finished
  <2>4. tasks_queue' \in Seq(Tasks) /\ Len(tasks_queue') <= QueueSize
    BY <1>1, QueueAssumption
  <2>5. project_tasks_map' \in [Projects -> Tasks \cup {None}]
    BY DEF RestartAll
  <2> QED BY <1>1, <2>1, <2>2, <2>3, <2>4, <2>5 DEF TypeOK
<1>5. Serving' /\ Telling' /\ InHand' /\ Queued' /\ Untold' /\ Open' /\ NoOrphan'
  BY <1>1, <1>2, <1>3 DEF Serving, Telling, InHand, Queued, Untold, Open, NoOrphan
<1>6. RunOnce' /\ SoleTaskGuarded'
  BY <1>1, <1>2 DEF RunOnce, InQueue, SoleTaskGuarded
<1>7. Lost'
  <2> SUFFICES ASSUME NEW t \in lost' PROVE reply'[t] \notin Unanswered
    BY <1>2 DEF Lost
  <2>1. t \in Tasks
    BY <1>4 DEF TypeOK
  <2>2. CASE t \in lost
    BY <1>1, <2>1, <2>2 DEF Lost, Unanswered
  <2>3. CASE t \in tasks_map \cup Finished /\ reply[t] \in Unanswered
    <3>1. BeingPut(t) \/ Marking(t)
      BY <2>1, <2>3 DEF Untold
    <3>2. Served(t)
      BY <3>1 DEF BeingPut, Marking, Served
    <3> QED BY <1>1, <2>1, <3>2 DEF Unanswered
  <2>4. CASE reply[t] \notin Unanswered
    BY <1>1, <2>1, <2>4 DEF Unanswered
  <2> QED BY <1>1, <2>2, <2>3, <2>4
<1>8. Findable'
  <2> SUFFICES ASSUME NEW t \in Tasks, reply'[t] = "waiting" PROVE t \in lost'
    BY <1>3 DEF Findable
  <2>1. reply[t] = "waiting"
    BY <1>1
  <2> QED BY <1>1, <2>1 DEF Findable, Results
<1> QED BY <1>4, <1>5, <1>6, <1>7, <1>8

-----------------------------------------------------------------------------
(* The invariant as a whole.                                               *)

LEMMA AnInit == AnalysisInit => AnInv
<1> SUFFICES ASSUME AnalysisInit PROVE AnInv
  OBVIOUS
<1>1. Init /\ project_tasks_map = [p \in Projects |-> None]
  BY DEF AnalysisInit
<1>2. TypeOK
  BY <1>1, TypeInit
<1>3. DOMAIN tasks_queue = {} /\ Finished = {}
  BY <1>1 DEF Init, Finished
<1>4. \A t \in Tasks : ~InQueue(t) /\ ~Held(t) /\ ~BeingPut(t) /\ ~Marking(t)
  BY <1>1, <1>3, NoneAssumption DEF Init, Idle, InQueue, Held, BeingPut, Marking
<1>5. Serving /\ Telling /\ InHand /\ Queued /\ Lost
  BY <1>1, <1>3 DEF Init, Idle, Serving, Telling, InHand, Queued, Lost
<1>6. Untold /\ Open /\ Findable /\ RunOnce /\ NoOrphan /\ SoleTaskGuarded
  BY <1>1, <1>3, <1>4 DEF Init, Idle, Untold, Open, Findable, RunOnce, InQueue, NoOrphan,
                          SoleTaskGuarded
<1> QED BY <1>1, <1>2, <1>5, <1>6 DEF AnInv

LEMMA AnStutter == AnInv /\ UNCHANGED vars => AnInv'
  BY DEF AnInv, vars, ioVars, TypeOK, Serving, Telling, InHand, Queued, Untold, Open, Lost,
         Findable, RunOnce, NoOrphan, SoleTaskGuarded, Admitted, Underway, InQueue, Held,
         BeingPut, Marking, Finished

LEMMA AnNext == AnInv /\ [AnalysisNext]_vars => AnInv'
<1> SUFFICES ASSUME AnInv, [AnalysisNext]_vars PROVE AnInv'
  OBVIOUS
<1>1. CASE UNCHANGED vars
  BY <1>1, AnStutter
<1>2. ASSUME NEW h \in Handlers, Add(h) PROVE AnInv'
  BY <1>2, BeginAddStep, CheckProjectStep, AddToMapStep, AddToQueueStep, MarkProjectStep DEF Add
<1>3. ASSUME NEW h \in Handlers, Status(h) \/ \E t \in Tasks : BeginStatus(h, t) PROVE AnInv'
  BY <1>3, StatusStep, BeginStatusStep
<1>4. ASSUME NEW w \in Workers, WorkOn(w) PROVE AnInv'
  BY <1>4, TakeTaskStep, RunTaskStep, RemoveTaskStep, UnmarkProjectStep DEF WorkOn
<1>5. CASE RestartAll
  BY <1>5, RestartAllStep
<1> QED BY <1>1, <1>2, <1>3, <1>4, <1>5 DEF AnalysisNext

\* The inductive invariant, in every state the threads of the manager can reach.
THEOREM AnalysisInvariance == AnalysisSpec => []AnInv
<1>1. AnalysisInit => AnInv
  BY AnInit
<1>2. AnInv /\ [AnalysisNext]_vars => AnInv'
  BY AnNext
<1> QED BY <1>1, <1>2, PTL DEF AnalysisSpec

\* The analysis manager keeps the types and the bound of the queue too.
THEOREM AnalysisTypes == AnalysisSpec => []TypeOK
<1>1. AnInv => TypeOK
  BY DEF AnInv
<1> QED BY <1>1, AnalysisInvariance, PTL

\* No registered analysis leaks, though its request marks the project after a worker
\* may have finished it.
THEOREM AnalysisKept == AnalysisSpec => []NoOrphan
<1>1. AnInv => NoOrphan
  BY DEF AnInv
<1> QED BY <1>1, AnalysisInvariance, PTL

\* No analysis runs twice.
THEOREM AnalysisOnce == AnalysisSpec => []RunOnce
<1>1. AnInv => RunOnce
  BY DEF AnInv
<1> QED BY <1>1, AnalysisInvariance, PTL

\* A poll of an analysis finds it until its client has the end of it.
THEOREM AnalysisFound == AnalysisSpec => []NoTaskForgotten
<1>1. AnInv => NoTaskForgotten
  BY DEF AnInv, Findable, NoTaskForgotten
<1> QED BY <1>1, AnalysisInvariance, PTL

\* The mark of the project guards an analysis that is the only one admitted of its
\* project, as long as it is registered and its client has the id.
THEOREM SoleGuarded == AnalysisSpec => []SoleTaskGuarded
<1>1. AnInv => SoleTaskGuarded
  BY DEF AnInv
<1> QED BY <1>1, AnalysisInvariance, PTL

-----------------------------------------------------------------------------
(* The view of the promise: the steps of a request before and after the    *)
(* queue are steps of their own here, and only the registration and the    *)
(* last answer are seen.                                                   *)

LEMMA SameView ==
  ASSUME UNCHANGED <<tasks_map, task_results_map, lost, reply>>
  PROVE  UNCHANGED Promise!vars
<1>1. Unseen
  BY DEF Unseen, StatusOf, HeardOf, Finished
<1> QED BY <1>1, Stutter

\* A client is told that its request is refused.
LEMMA RefusalView ==
  ASSUME AnInv, NEW t \in Tasks, NEW answer \in {"busy", "conflict"},
         reply[t] = "none", ~BeingPut(t), ~Marking(t),
         UNCHANGED <<tasks_map, task_results_map, lost>>,
         reply' = [reply EXCEPT ![t] = answer]
  PROVE  Promise!Next
<1> USE DEF AnInv
<1>1. t \notin lost /\ t \notin Finished /\ t \notin tasks_map
  BY DEF Untold, Lost, Unanswered
<1>2. StatusOf(t) = "none" /\ HeardOf(t) = "none" /\ HeardOf(t)' = "rejected"
  BY <1>1 DEF StatusOf, HeardOf, Results, TypeOK
<1>3. \A u \in Tasks : StatusOf(u)' = StatusOf(u) /\ (u # t => HeardOf(u)' = HeardOf(u))
  BY DEF StatusOf, HeardOf, Results, Finished, TypeOK
<1>4. Promise!Reject(t)
  BY <1>2, <1>3 DEF Promise!Reject
<1> QED BY <1>4 DEF Promise!Next

LEMMA AddView ==
  ASSUME AnInv, NEW h \in Handlers, Add(h)
  PROVE  [Promise!Next]_(Promise!vars)
<1> USE DEF AnInv
<1>1. ASSUME NEW t \in Tasks, BeginAdd(h, t) PROVE [Promise!Next]_(Promise!vars)
  <2>1. /\ UNCHANGED <<tasks_map, task_results_map, lost>> /\ reply[t] = "none"
        /\ ~BeingPut(t) /\ ~Marking(t)
        /\ reply' = [reply EXCEPT ![t] = "busy"] \/ reply' = reply
    BY <1>1 DEF BeginAdd, BeginSubmit, Served, BeingPut, Marking
  <2> QED BY <2>1, RefusalView, SameView
<1>2. CASE CheckProject(h)
  <2>1. PICK t \in Tasks : t = request[h].task
    BY <1>2 DEF CheckProject, Serving, TypeOK
  <2>2. /\ UNCHANGED <<tasks_map, task_results_map, lost>> /\ reply[t] = "none"
        /\ ~BeingPut(t) /\ ~Marking(t)
        /\ reply' = [reply EXCEPT ![t] = "conflict"] \/ reply' = reply
    BY <1>2, <2>1, NoneAssumption DEF CheckProject, Answer, Telling, Serving, BeingPut, Marking
  <2> QED BY <2>2, RefusalView, SameView
<1>3. CASE AddToMap(h)
  <2>1. PICK t \in Tasks : t = request[h].task
    BY <1>3 DEF AddToMap, RegisterTask, Serving, TypeOK
  <2>2. /\ UNCHANGED <<task_results_map, lost, reply>> /\ reply[t] = "none"
        /\ ~BeingPut(t) /\ ~Marking(t) /\ tasks_map' = tasks_map \cup {t}
    BY <1>3, <2>1, NoneAssumption DEF AddToMap, RegisterTask, Telling, Serving, BeingPut, Marking
  <2>3. t \notin lost /\ t \notin Finished /\ t \notin tasks_map
    BY <2>2 DEF Untold, Lost, Unanswered
  <2>4. StatusOf(t) = "none" /\ HeardOf(t) = "none" /\ StatusOf(t)' = "pending"
    BY <2>2, <2>3 DEF StatusOf, HeardOf, Results, Finished
  <2>5. \A u \in Tasks : HeardOf(u)' = HeardOf(u) /\ (u # t => StatusOf(u)' = StatusOf(u))
    BY <2>2 DEF StatusOf, HeardOf, Finished
  <2>6. Promise!Accept(t)
    BY <2>4, <2>5 DEF Promise!Accept
  <2> QED BY <2>6 DEF Promise!Next
<1>4. CASE AddToQueue(h)
  BY <1>4, SameView DEF AddToQueue
<1>5. CASE MarkProject(h)
  <2>1. PICK t \in Tasks : t = request[h].task
    BY <1>5 DEF MarkProject, Serving, TypeOK
  <2>2. /\ UNCHANGED <<tasks_map, task_results_map, lost>> /\ reply[t] = "none" /\ Marking(t)
        /\ reply' = [reply EXCEPT ![t] = "waiting"]
    BY <1>5, <2>1 DEF MarkProject, Answer, Telling, Marking
  <2>3. t \in tasks_map \cup Finished \cup lost
    BY <2>2 DEF Findable
  <2>4. StatusOf(t) # "none" /\ HeardOf(t) = "none" /\ HeardOf(t)' = "waiting"
    BY <2>2, <2>3 DEF StatusOf, HeardOf, Results, Finished, TypeOK
  <2>5. \A u \in Tasks : StatusOf(u)' = StatusOf(u) /\ (u # t => HeardOf(u)' = HeardOf(u))
    BY <2>2 DEF StatusOf, HeardOf, Finished, Results, TypeOK
  <2>6. Promise!Acknowledge(t)
    BY <2>4, <2>5 DEF Promise!Acknowledge
  <2> QED BY <2>6 DEF Promise!Next
<1> QED BY <1>1, <1>2, <1>3, <1>4, <1>5 DEF Add

LEMMA StatusView ==
  ASSUME AnInv, NEW h \in Handlers, Status(h)
  PROVE  [Promise!Next]_(Promise!vars)
<1> USE DEF AnInv
<1>1. PICK t \in Tasks : t = request[h].task /\ reply[t] = "waiting"
  BY DEF Status, Poll, LookupResult, PopResult, RecheckMap, TypeOK, Serving, Telling
<1>2. UNCHANGED <<tasks_map, lost>>
  BY DEF Status, Poll, LookupResult, PopResult, RecheckMap
<1>3. t \in tasks_map \cup Finished \cup lost
  BY <1>1 DEF Findable
<1>4. ASSUME Answer(h, "notfound"), UNCHANGED task_results_map, t \notin tasks_map
      PROVE  Promise!Next
  <2>1. reply' = [reply EXCEPT ![t] = "notfound"]
    BY <1>1, <1>4 DEF Answer
  <2>2. /\ StatusOf(t) \in Results \cup {"lost"}
        /\ HeardOf(t) = "waiting" /\ HeardOf(t)' = "notfound"
    BY <1>1, <1>3, <1>4, <2>1 DEF StatusOf, HeardOf, Finished, Results, TypeOK
  <2>3. \A u \in Tasks : StatusOf(u)' = StatusOf(u) /\ (u # t => HeardOf(u)' = HeardOf(u))
    BY <1>1, <1>2, <1>4, <2>1 DEF StatusOf, HeardOf, Finished, Results, TypeOK
  <2>4. Promise!Miss(t)
    BY <2>2, <2>3 DEF Promise!Miss, Promise!Results, Results
  <2> QED BY <2>4 DEF Promise!Next
<1>5. CASE LookupResult(h)
  <2>1. t \notin tasks_map
    BY <1>1, <1>5 DEF LookupResult, Telling
  <2> QED BY <1>2, <1>4, <1>5, <2>1, SameView DEF LookupResult
<1>6. CASE PopResult(h)
  <2>1. CASE task_results_map[t] = "none"
    <3>1. task_results_map' = task_results_map
      BY <1>1, <1>6, <2>1 DEF PopResult, TypeOK
    <3> QED BY <1>1, <1>2, <1>6, <2>1, <3>1, SameView DEF PopResult
  <2>2. CASE task_results_map[t] # "none"
    <3> DEFINE r == task_results_map[t]
    <3>1. r \in Results /\ t \in Finished /\ t \notin lost
      BY <1>1, <2>2 DEF TypeOK, Finished, Lost
    <3>2. /\ task_results_map' = [task_results_map EXCEPT ![t] = "none"]
          /\ reply' = [reply EXCEPT ![t] = r]
      BY <1>1, <1>6, <2>2 DEF PopResult, Answer
    <3>3. /\ StatusOf(t) = r /\ HeardOf(t) = "waiting"
          /\ StatusOf(t)' = "delivered" /\ HeardOf(t)' = r
      BY <1>1, <1>2, <3>1, <3>2 DEF StatusOf, HeardOf, Finished, Results, TypeOK
    <3>4. \A u \in Tasks : u # t => StatusOf(u)' = StatusOf(u) /\ HeardOf(u)' = HeardOf(u)
      BY <1>1, <1>2, <3>2 DEF StatusOf, HeardOf, Finished, TypeOK
    <3>5. Promise!Deliver(t)
      BY <3>1, <3>3, <3>4 DEF Promise!Deliver, Promise!Results, Results
    <3> QED BY <3>5 DEF Promise!Next
  <2> QED BY <2>1, <2>2
<1>7. CASE RecheckMap(h)
  <2>1. CASE t \in tasks_map
    <3>1. reply' = reply /\ UNCHANGED task_results_map
      BY <1>1, <1>7, <2>1 DEF RecheckMap, Answer, TypeOK
    <3> QED BY <1>2, <3>1, SameView
  <2>2. CASE t \notin tasks_map
    BY <1>1, <1>4, <1>7, <2>2 DEF RecheckMap
  <2> QED BY <2>1, <2>2
<1> QED BY <1>5, <1>6, <1>7 DEF Status, Poll

LEMMA WorkOnView ==
  ASSUME AnInv, NEW w \in Workers, WorkOn(w)
  PROVE  [Promise!Next]_(Promise!vars)
<1> USE DEF AnInv
<1>1. CASE TakeTask(w)
  BY <1>1, SameView DEF TakeTask, GetTask
<1>2. ASSUME NEW r \in Results, RunTask(w, r) PROVE [Promise!Next]_(Promise!vars)
  <2>1. PICK t \in Tasks : t = worker[w].task /\ t \in tasks_map
    BY <1>2 DEF RunTask, StoreResult, InHand, TypeOK
  <2>2. /\ UNCHANGED <<tasks_map, reply, lost>> /\ worker[w].pc = "run"
        /\ task_results_map' = [task_results_map EXCEPT ![t] = r]
    BY <1>2, <2>1 DEF RunTask, StoreResult
  <2>3. t \notin lost /\ t \notin Finished /\ reply[t] \notin Results
    BY <2>1, <2>2, NoneAssumption DEF Open, RunOnce
  <2>4. Finished' = Finished \cup {t}
    BY <2>2 DEF Finished, TypeOK, Results
  <2>5. StatusOf(t) = "pending" /\ StatusOf(t)' = r
    BY <2>1, <2>2, <2>3, <2>4 DEF StatusOf, TypeOK
  <2>6. \A u \in Tasks : HeardOf(u)' = HeardOf(u) /\ (u # t => StatusOf(u)' = StatusOf(u))
    BY <2>2, <2>4 DEF StatusOf, HeardOf, TypeOK
  <2>7. Promise!Finish(t, r)
    BY <2>5, <2>6 DEF Promise!Finish
  <2> QED BY <2>7 DEF Promise!Next, Promise!Results, Results
<1>3. CASE RemoveTask(w)
  <2>1. PICK t \in Tasks : t = worker[w].task /\ t \in tasks_map
    BY <1>3 DEF RemoveTask, DropTask, InHand, TypeOK
  <2>2. /\ UNCHANGED <<task_results_map, reply, lost>> /\ worker[w].pc = "cleanup"
        /\ tasks_map' = tasks_map \ {t}
    BY <1>3, <2>1 DEF RemoveTask, DropTask
  <2>3. t \in Finished \/ reply[t] \in Results
    BY <2>1, <2>2 DEF InHand, Open
  <2>4. StatusOf(t)' = StatusOf(t)
    BY <2>2, <2>3 DEF StatusOf, Finished
  <2>5. \A u \in Tasks : u # t => StatusOf(u)' = StatusOf(u)
    BY <2>2 DEF StatusOf, Finished
  <2>6. Unseen
    BY <2>2, <2>4, <2>5 DEF Unseen, HeardOf
  <2> QED BY <2>6, Stutter
<1>4. CASE UnmarkProject(w)
  BY <1>4, SameView DEF UnmarkProject
<1> QED BY <1>1, <1>2, <1>3, <1>4 DEF WorkOn

LEMMA RestartAllView ==
  ASSUME AnInv, RestartAll
  PROVE  Promise!Next
<1> USE DEF AnInv
<1>1. /\ tasks_map' = {} /\ Finished' = {}
      /\ task_results_map' = [t \in Tasks |-> "none"]
      /\ reply' = [t \in Tasks |-> IF Served(t) THEN "error" ELSE reply[t]]
      /\ lost' = lost \cup {t \in tasks_map \cup Finished : reply[t] \notin Results}
  BY DEF RestartAll, Restart, Finished
<1>2. \A t \in Tasks : Served(t) => reply[t] \in {"none", "waiting"}
  BY NoneAssumption DEF Served, Telling, Serving, TypeOK, RequestPcs
<1> DEFINE broken == {t \in Tasks : Served(t)}
<1>3. \A t \in Tasks : StatusOf(t)' = IF StatusOf(t) \in {"none", "delivered"}
                                     THEN StatusOf(t) ELSE "lost"
  <2> SUFFICES ASSUME NEW t \in Tasks
               PROVE  StatusOf(t)' = IF StatusOf(t) \in {"none", "delivered"}
                                     THEN StatusOf(t) ELSE "lost"
    OBVIOUS
  <2>1. CASE t \in lost
    BY <1>1, <2>1 DEF StatusOf
  <2>2. CASE t \notin lost /\ reply[t] \in Results
    <3>1. reply'[t] \in Results /\ t \notin lost'
      BY <1>1, <1>2, <2>2 DEF Results
    <3> QED BY <2>2, <3>1 DEF StatusOf
  <2>3. CASE t \notin lost /\ reply[t] \notin Results /\ t \in tasks_map \cup Finished
    <3>1. StatusOf(t) \in Results \cup {"pending"} /\ t \in lost'
      BY <1>1, <2>3 DEF StatusOf, Finished, TypeOK
    <3> QED BY <3>1 DEF StatusOf, Results
  <2>4. CASE t \notin lost /\ reply[t] \notin Results /\ t \notin tasks_map \cup Finished
    <3>1. reply'[t] \notin Results /\ t \notin lost'
      BY <1>1, <2>4 DEF Results
    <3> QED BY <1>1, <2>4, <3>1 DEF StatusOf
  <2> QED BY <2>1, <2>2, <2>3, <2>4
<1>4. \A t \in Tasks : /\ t \in broken => HeardOf(t) \in {"none", "waiting"}
                       /\ HeardOf(t)' = IF t \in broken THEN "error" ELSE HeardOf(t)
  BY <1>1, <1>2 DEF HeardOf
<1>5. Promise!Restart(broken) /\ broken \in SUBSET Tasks
  BY <1>3, <1>4 DEF Promise!Restart
<1> QED BY <1>5 DEF Promise!Next

\* The analysis manager keeps the same promise to its clients, although a worker may
\* have finished and dropped the task before its client has the id.
THEOREM AnalysisPromise == AnalysisSpec => KeepsPromise
<1>1. AnalysisInit => Promise!Init
  BY DEF AnalysisInit, Init, Promise!Init, StatusOf, HeardOf, Finished, Results
<1>2. AnInv /\ [AnalysisNext]_vars => [Promise!Next]_(Promise!vars)
  <2> SUFFICES ASSUME AnInv, [AnalysisNext]_vars PROVE [Promise!Next]_(Promise!vars)
    OBVIOUS
  <2>1. CASE UNCHANGED vars
    BY <2>1, SameView DEF vars, ioVars
  <2>2. ASSUME NEW h \in Handlers, \/ Add(h) \/ Status(h)
                                   \/ \E t \in Tasks : BeginStatus(h, t)
        PROVE  [Promise!Next]_(Promise!vars)
    BY <2>2, AddView, StatusView, SameView DEF BeginStatus, BeginPoll
  <2>3. ASSUME NEW w \in Workers, WorkOn(w) PROVE [Promise!Next]_(Promise!vars)
    BY <2>3, WorkOnView
  <2>4. CASE RestartAll
    BY <2>4, RestartAllView
  <2> QED BY <2>1, <2>2, <2>3, <2>4 DEF AnalysisNext
<1> QED BY <1>1, <1>2, AnalysisInvariance, PTL DEF AnalysisSpec, KeepsPromise, Promise!Spec
=============================================================================
