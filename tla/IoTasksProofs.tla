---------------------------- MODULE IoTasksProofs ----------------------------
(***************************************************************************)
(* Proofs about the IO task manager, for any tasks, threads and queue size *)
(* (IoTasks.tla), its refinement of TaskLifecycle among them.              *)
(***************************************************************************)
EXTENDS IoTasks, TLAPS

-----------------------------------------------------------------------------
(* The inductive invariant.                                                *)

\* A handler works for a task exactly while it is busy, at a step of the IO
\* endpoints, and no two handlers work for the same task.
Handling ==
  /\ \A h \in Handlers :
       /\ request[h].pc \notin {"check", "lock"}
       /\ request[h].pc = "idle" <=> request[h].task = None
  /\ \A g, h \in Handlers :
       request[g].task = request[h].task /\ request[g].task # None => g = h

\* What the client of a task has heard so far, by the step of its handler.
Heard ==
  \A h \in Handlers :
    /\ request[h].pc \in {"register", "put"} => reply[request[h].task] = "none"
    /\ request[h].pc \in {"lookup", "pop", "recheck"} => reply[request[h].task] = "waiting"

\* A worker has a task exactly while it is busy, a task that is registered.
Working ==
  \A w \in Workers :
    /\ worker[w].pc # "unlock"
    /\ worker[w].pc = "idle" <=> worker[w].task = None
    /\ worker[w].pc # "idle" => worker[w].task \in tasks_map

\* Only registered tasks wait in the queue.
Queued == \A i \in DOMAIN tasks_queue : tasks_queue[i] \in tasks_map

\* A task that its client has heard nothing of is not registered, or its handler
\* is about to put it into the queue, where it is not yet, nor with a worker.
Fresh ==
  \A t \in Tasks : reply[t] = "none" =>
    /\ t \in tasks_map <=> BeingPut(t)
    /\ ~InQueue(t) /\ ~Held(t)

\* The result is there before the task is dropped, until its client has it.
Stored ==
  \A w \in Workers :
    worker[w].pc = "cleanup" /\ reply[worker[w].task] = "waiting"
      => task_results_map[worker[w].task] # "none"

IInv ==
  /\ TypeOK /\ Handling /\ Heard /\ Working /\ Queued /\ Fresh /\ Stored
  /\ RunOnce /\ NoOrphan /\ NoTaskForgotten

-----------------------------------------------------------------------------
(* The queue.                                                              *)

\* Appending leaves the positions there are alone and adds one.
LEMMA AppendFacts ==
  ASSUME NEW q \in Seq(Tasks), NEW t \in Tasks
  PROVE  /\ Append(q, t) \in Seq(Tasks) /\ Len(Append(q, t)) = Len(q) + 1
         /\ DOMAIN q = 1 .. Len(q) /\ DOMAIN Append(q, t) = 1 .. Len(q) + 1
         /\ \A i \in 1 .. Len(q) : Append(q, t)[i] = q[i]
         /\ Append(q, t)[Len(q) + 1] = t
  OBVIOUS

\* Taking the head moves the others up by one position.
LEMMA TailFacts ==
  ASSUME NEW q \in Seq(Tasks), q # <<>>
  PROVE  /\ Tail(q) \in Seq(Tasks) /\ Len(Tail(q)) = Len(q) - 1
         /\ Len(q) \in Nat \ {0} /\ Head(q) \in Tasks /\ Head(q) = q[1]
         /\ DOMAIN q = 1 .. Len(q) /\ DOMAIN Tail(q) = 1 .. Len(q) - 1
         /\ \A i \in 1 .. Len(q) - 1 : Tail(q)[i] = q[i + 1]
  OBVIOUS

-----------------------------------------------------------------------------
(* Type correctness.                                                       *)

LEMMA TypeInit == Init => TypeOK
  BY QueueAssumption DEF Init, TypeOK, Idle, Results, Finals, WorkerPcs, RequestPcs

\* A busy handler is named after its task, so an answer goes to a task.
LEMMA TypeNext == TypeOK /\ Handling /\ Working /\ [Next]_ioVars => TypeOK'
<1> SUFFICES ASSUME TypeOK, Handling, Working, [Next]_ioVars PROVE TypeOK'
  OBVIOUS
<1> USE DEF TypeOK, Idle, Results, Finals, WorkerPcs, RequestPcs
<1>1. CASE UNCHANGED ioVars
  BY <1>1 DEF ioVars
<1>2. ASSUME NEW h \in Handlers, NEW t \in Tasks, BeginSubmit(h, t, "register")
      PROVE TypeOK'
  BY <1>2 DEF BeginSubmit
<1>3. ASSUME NEW h \in Handlers, RegisterTask(h) PROVE TypeOK'
  <2>1. request[h].task \in Tasks
    BY <1>3 DEF RegisterTask, Handling
  <2> QED BY <1>3, <2>1 DEF RegisterTask, Goto
<1>4. ASSUME NEW h \in Handlers, PutTask(h) PROVE TypeOK'
  <2>1. request[h].task \in Tasks
    BY <1>4 DEF PutTask, Enqueue, Handling
  <2>2. tasks_queue' \in Seq(Tasks) /\ Len(tasks_queue') <= QueueSize
    BY <1>4, <2>1, AppendFacts, QueueAssumption DEF PutTask, Enqueue
  <2> QED BY <1>4, <2>1, <2>2 DEF PutTask, Answer
<1>5. ASSUME NEW h \in Handlers, NEW t \in Tasks, BeginPoll(h, t) PROVE TypeOK'
  BY <1>5 DEF BeginPoll
<1>6. ASSUME NEW h \in Handlers, Poll(h) PROVE TypeOK'
  <2>1. request[h].task \in Tasks
    BY <1>6 DEF Poll, LookupResult, PopResult, RecheckMap, Handling
  <2>2. CASE LookupResult(h)
    <3>1. CASE Goto(h, "pop") /\ UNCHANGED reply
      BY <2>2, <3>1 DEF LookupResult, Goto
    <3>2. CASE Answer(h, "notfound")
      BY <2>1, <2>2, <3>2 DEF LookupResult, Answer
    <3> QED BY <2>2, <3>1, <3>2 DEF LookupResult
  <2>3. CASE PopResult(h)
    <3>1. CASE Goto(h, "recheck") /\ UNCHANGED reply
      BY <2>3, <3>1 DEF PopResult, Goto
    <3>2. CASE task_results_map[request[h].task] # "none"
      <4>1. task_results_map[request[h].task] \in Results
        BY <2>1, <3>2
      <4>2. Answer(h, task_results_map[request[h].task])
        BY <2>3, <3>2 DEF PopResult
      <4> QED BY <2>1, <2>3, <4>1, <4>2 DEF PopResult, Answer
    <3> QED BY <2>3, <3>1, <3>2 DEF PopResult
  <2>4. CASE RecheckMap(h)
    BY <2>1, <2>4 DEF RecheckMap, Answer
  <2> QED BY <1>6, <2>2, <2>3, <2>4 DEF Poll
<1>7. ASSUME NEW w \in Workers, GetTask(w) PROVE TypeOK'
  <2>1. tasks_queue' \in Seq(Tasks) /\ Len(tasks_queue') <= QueueSize /\ Head(tasks_queue) \in Tasks
    BY <1>7, TailFacts, QueueAssumption DEF GetTask
  <2> QED BY <1>7, <2>1 DEF GetTask
<1>8. ASSUME NEW w \in Workers, NEW r \in Results, StoreResult(w, r) PROVE TypeOK'
  BY <1>8 DEF StoreResult
<1>9. ASSUME NEW w \in Workers, CleanUp(w) PROVE TypeOK'
  BY <1>9 DEF CleanUp, DropTask
<1>10. CASE Restart
  BY <1>10, QueueAssumption DEF Restart, Finished
<1> QED
  BY <1>1, <1>2, <1>3, <1>4, <1>5, <1>6, <1>7, <1>8, <1>9, <1>10 DEF Next, Submit, Work

-----------------------------------------------------------------------------
(* Every step preserves the inductive invariant: first the handlers.       *)

LEMMA BeginSubmitStep ==
  ASSUME IInv, TypeOK', NEW h \in Handlers, NEW t \in Tasks,
         BeginSubmit(h, t, "register")
  PROVE  IInv'
<1> USE DEF IInv
<1>1. UNCHANGED <<tasks_map, task_results_map, tasks_queue, worker, lost>>
  BY DEF BeginSubmit
<1>2. /\ request[h].pc = "idle" /\ reply[t] = "none"
      /\ \A g \in Handlers : request[g].task # t
  BY DEF BeginSubmit, Idle, Served
<1>3. /\ \A g \in Handlers \ {h} : request'[g] = request[g]
      /\ \A u \in Tasks \ {t} : reply'[u] = reply[u]
      /\ reply'[t] # "waiting"
      /\ \/ request'[h] = request[h]
         \/ request'[h].pc = "register" /\ request'[h].task = t /\ reply'[t] = "none"
  BY <1>2 DEF BeginSubmit, TypeOK
<1>4. Handling' /\ Heard'
  <2>1. \A g \in Handlers :
          /\ request'[g].pc \notin {"check", "lock"}
          /\ request'[g].pc = "idle" <=> request'[g].task = None
    BY <1>2, <1>3, NoneAssumption DEF Handling
  <2>2. \A f, g \in Handlers :
          request'[f].task = request'[g].task /\ request'[g].task # None => f = g
    BY <1>2, <1>3 DEF Handling
  <2>3. Heard'
    BY <1>2, <1>3, NoneAssumption DEF Heard, Handling, TypeOK
  <2> QED BY <2>1, <2>2, <2>3 DEF Handling
<1>5. Working' /\ Queued' /\ RunOnce'
  BY <1>1 DEF Working, Queued, RunOnce, InQueue
<1>6. \A u \in Tasks : InQueue(u)' = InQueue(u) /\ Held(u)' = Held(u)
  BY <1>1 DEF InQueue, Held
<1>7. \A u \in Tasks : BeingPut(u)' <=> BeingPut(u)
  BY <1>2, <1>3 DEF BeingPut
<1>8. Fresh' /\ NoOrphan'
  BY <1>1, <1>2, <1>3, <1>6, <1>7 DEF Fresh, NoOrphan, TypeOK
<1>9. Stored'
  <2> SUFFICES ASSUME NEW w \in Workers, worker[w].pc = "cleanup",
                      reply'[worker[w].task] = "waiting"
               PROVE  task_results_map[worker[w].task] # "none"
    BY <1>1 DEF Stored
  <2>1. worker[w].task \in Tasks
    BY DEF Working, TypeOK
  <2> QED BY <1>3, <2>1 DEF Stored
<1>10. NoTaskForgotten'
  BY <1>1, <1>3 DEF NoTaskForgotten, Finished
<1> QED BY <1>4, <1>5, <1>8, <1>9, <1>10

LEMMA RegisterTaskStep ==
  ASSUME IInv, TypeOK', NEW h \in Handlers, RegisterTask(h)
  PROVE  IInv'
<1> USE DEF IInv, RegisterTask, Goto
<1> DEFINE t == request[h].task
<1>1. t \in Tasks /\ reply[t] = "none" /\ ~BeingPut(t)
  BY DEF TypeOK, Handling, Heard, BeingPut
<1>2. Handling' /\ Heard'
  BY DEF TypeOK, Handling, Heard
<1>3. Working' /\ Queued'
  BY DEF Working, Queued
<1>4. \A u \in Tasks : InQueue(u)' = InQueue(u) /\ Held(u)' = Held(u)
  BY DEF InQueue, Held
<1>5. BeingPut(t)' /\ \A u \in Tasks \ {t} : BeingPut(u)' <=> BeingPut(u)
  BY DEF BeingPut, TypeOK
<1>6. Fresh'
  BY <1>1, <1>4, <1>5 DEF Fresh, TypeOK
<1>7. Stored' /\ NoTaskForgotten'
  BY DEF Stored, NoTaskForgotten, Finished
<1>8. RunOnce'
  BY DEF RunOnce, InQueue
<1>9. NoOrphan'
  BY <1>4, <1>5 DEF NoOrphan, TypeOK
<1> QED BY <1>2, <1>3, <1>6, <1>7, <1>8, <1>9

LEMMA PutTaskStep ==
  ASSUME IInv, TypeOK', NEW h \in Handlers, PutTask(h)
  PROVE  IInv'
<1> USE DEF IInv, PutTask, Enqueue, Answer, Idle
<1>1. PICK t \in Tasks : t = request[h].task /\ reply[t] = "none" /\ BeingPut(t)
  BY DEF TypeOK, Handling, Heard, BeingPut
<1>2. t \in tasks_map /\ ~InQueue(t) /\ ~Held(t)
  BY <1>1 DEF Fresh
<1>3. /\ Len(tasks_queue) \in Nat
      /\ DOMAIN tasks_queue = 1 .. Len(tasks_queue)
      /\ DOMAIN tasks_queue' = 1 .. Len(tasks_queue) + 1
      /\ \A i \in 1 .. Len(tasks_queue) : tasks_queue'[i] = tasks_queue[i]
      /\ tasks_queue'[Len(tasks_queue) + 1] = t
  BY <1>1, AppendFacts DEF TypeOK
<1>4. InQueue(t)' /\ \A u \in Tasks \cup {None} : u # t => (InQueue(u)' <=> InQueue(u))
  <2>1. InQueue(t)'
    <3>1. Len(tasks_queue) + 1 \in DOMAIN tasks_queue'
      BY <1>3
    <3> QED BY <1>3, <3>1 DEF InQueue
  <2>2. ASSUME NEW u \in Tasks \cup {None}, u # t, InQueue(u) PROVE InQueue(u)'
    BY <1>3, <2>2 DEF InQueue
  <2>3. ASSUME NEW u \in Tasks \cup {None}, u # t, InQueue(u)' PROVE InQueue(u)
    <3>1. PICK i \in 1 .. Len(tasks_queue) + 1 : tasks_queue'[i] = u
      BY <1>3, <2>3 DEF InQueue
    <3>2. i # Len(tasks_queue) + 1
      BY <1>3, <2>3, <3>1
    <3> QED BY <1>3, <3>1, <3>2 DEF InQueue
  <2> QED BY <2>1, <2>2, <2>3
<1>5. \A u \in Tasks : Held(u)' = Held(u)
  BY DEF Held
<1>6. \A u \in Tasks \ {t} : BeingPut(u)' <=> BeingPut(u)
  BY <1>1, NoneAssumption DEF BeingPut, TypeOK
<1>7. Handling' /\ Heard'
  BY <1>1, NoneAssumption DEF TypeOK, Handling, Heard
<1>8. Working'
  BY DEF Working
<1>9. Queued'
  BY <1>2, <1>3 DEF Queued
<1>10. Fresh'
  BY <1>1, <1>4, <1>5, <1>6 DEF Fresh, TypeOK
<1>11. Stored' /\ NoTaskForgotten'
  <2>1. Stored'
    BY <1>1, <1>2 DEF Stored, Held, Working, TypeOK
  <2>2. NoTaskForgotten'
    BY <1>1, <1>2 DEF NoTaskForgotten, Finished, TypeOK
  <2> QED BY <2>1, <2>2
<1>12. RunOnce'
  <2>1. \A w \in Workers : ~InQueue(worker[w].task)'
    BY <1>2, <1>4 DEF RunOnce, Held, TypeOK
  <2>2. \A i, j \in DOMAIN tasks_queue' : tasks_queue'[i] = tasks_queue'[j] => i = j
    BY <1>2, <1>3 DEF RunOnce, InQueue
  <2> QED BY <2>1, <2>2 DEF RunOnce
<1>13. NoOrphan'
  <2>1. ASSUME NEW u \in tasks_map, u # t PROVE BeingPut(u)' \/ InQueue(u)' \/ Held(u)'
    BY <1>4, <1>5, <1>6, <2>1 DEF NoOrphan, TypeOK
  <2> QED BY <1>4, <2>1 DEF NoOrphan
<1> QED BY <1>7, <1>8, <1>9, <1>10, <1>11, <1>12, <1>13

LEMMA BeginPollStep ==
  ASSUME IInv, TypeOK', NEW h \in Handlers, NEW t \in Tasks, BeginPoll(h, t)
  PROVE  IInv'
<1> USE DEF IInv, BeginPoll, Idle
<1>1. Handling' /\ Heard'
  BY NoneAssumption DEF TypeOK, Handling, Heard, Served
<1>2. Working' /\ Queued' /\ Stored' /\ NoTaskForgotten' /\ RunOnce'
  BY DEF Working, Queued, Stored, NoTaskForgotten, Finished, RunOnce, InQueue
<1>3. \A u \in Tasks : InQueue(u)' = InQueue(u) /\ Held(u)' = Held(u)
  BY DEF InQueue, Held
<1>4. \A u \in Tasks : BeingPut(u)' <=> BeingPut(u)
  BY DEF BeingPut, TypeOK
<1>5. Fresh' /\ NoOrphan'
  BY <1>3, <1>4 DEF Fresh, NoOrphan, TypeOK
<1> QED BY <1>1, <1>2, <1>5

\* A poll changes what is known of its own task alone.
LEMMA PollStep ==
  ASSUME IInv, TypeOK', NEW h \in Handlers, Poll(h)
  PROVE  IInv'
<1> USE DEF IInv
<1> DEFINE t == request[h].task
<1>1. /\ t \in Tasks /\ reply[t] = "waiting"
      /\ request[h].pc \in {"lookup", "pop", "recheck"}
  BY DEF Poll, LookupResult, PopResult, RecheckMap, TypeOK, Handling, Heard
<1>2. UNCHANGED <<tasks_map, tasks_queue, worker, lost>>
  BY DEF Poll, LookupResult, PopResult, RecheckMap
<1>3. \/ reply' = reply /\ task_results_map' = task_results_map
         /\ \E pc \in {"pop", "recheck"} : Goto(h, pc)
      \/ \E answer \in Results \cup {"waiting", "notfound"} :
           /\ Answer(h, answer)
           /\ answer = "waiting" => task_results_map' = task_results_map
           /\ \A u \in Tasks \ {t} : task_results_map'[u] = task_results_map[u]
  <2>1. CASE LookupResult(h)
    BY <2>1 DEF LookupResult
  <2>2. CASE PopResult(h)
    <3>1. \A u \in Tasks \ {t} : task_results_map'[u] = task_results_map[u]
      BY <2>2 DEF PopResult, TypeOK
    <3>2. CASE task_results_map[t] = "none"
      <4>1. task_results_map' = task_results_map
        BY <1>1, <2>2, <3>2 DEF PopResult, TypeOK
      <4> QED BY <2>2, <3>2, <4>1 DEF PopResult
    <3>3. CASE task_results_map[t] # "none"
      <4>1. task_results_map[t] \in Results
        BY <1>1, <3>3 DEF TypeOK
      <4> QED BY <2>2, <3>1, <3>3, <4>1 DEF PopResult, Results
    <3> QED BY <3>2, <3>3
  <2>3. CASE RecheckMap(h)
    BY <2>3 DEF RecheckMap
  <2> QED BY <2>1, <2>2, <2>3 DEF Poll
<1>4. /\ \A g \in Handlers \ {h} : request'[g] = request[g]
      /\ request'[h] = Idle \/ (/\ request'[h].pc \in {"pop", "recheck"}
                                /\ request'[h].task = t /\ reply' = reply)
      /\ \A u \in Tasks \ {t} : reply'[u] = reply[u] /\ task_results_map'[u] = task_results_map[u]
      /\ reply'[t] # "none"
      /\ reply'[t] = "waiting" => task_results_map'[t] = task_results_map[t]
  BY <1>1, <1>3 DEF Goto, Answer, TypeOK, Results
<1>5. Handling' /\ Heard'
  <2>1. CASE request'[h] = Idle
    <3>1. \A g \in Handlers :
            /\ request'[g].pc \notin {"check", "lock"}
            /\ request'[g].pc = "idle" <=> request'[g].task = None
      BY <1>4, <2>1 DEF Handling, Idle
    <3>2. \A f, g \in Handlers :
            request'[f].task = request'[g].task /\ request'[g].task # None => f = g
      BY <1>4, <2>1 DEF Handling, Idle
    <3>3. \A g \in Handlers \ {h} : request[g].task # t
      BY <1>1, NoneAssumption DEF Handling
    <3>4. Heard'
      BY <1>1, <1>4, <2>1, <3>3 DEF Heard, Handling, Idle, TypeOK
    <3> QED BY <3>1, <3>2, <3>4 DEF Handling
  <2>2. CASE request'[h].pc \in {"pop", "recheck"} /\ request'[h].task = t /\ reply' = reply
    <3>1. \A g \in Handlers :
            /\ request'[g].pc \notin {"check", "lock"}
            /\ request'[g].pc = "idle" <=> request'[g].task = None
      BY <1>1, <1>4, <2>2, NoneAssumption DEF Handling
    <3>2. \A f, g \in Handlers :
            request'[f].task = request'[g].task /\ request'[g].task # None => f = g
      BY <1>1, <1>4, <2>2 DEF Handling
    <3>3. Heard'
      BY <1>1, <1>4, <2>2 DEF Heard
    <3> QED BY <3>1, <3>2, <3>3 DEF Handling
  <2> QED BY <1>4, <2>1, <2>2
<1>6. Working' /\ Queued' /\ RunOnce'
  BY <1>2 DEF Working, Queued, RunOnce, InQueue
<1>7. \A u \in Tasks : InQueue(u)' = InQueue(u) /\ Held(u)' = Held(u)
  BY <1>2 DEF InQueue, Held
<1>8. \A u \in Tasks : BeingPut(u)' <=> BeingPut(u)
  BY <1>1, <1>4 DEF BeingPut, Idle
<1>9. Fresh' /\ NoOrphan'
  BY <1>1, <1>2, <1>4, <1>7, <1>8 DEF Fresh, NoOrphan, TypeOK
<1>10. Stored'
  <2> SUFFICES ASSUME NEW w \in Workers, worker[w].pc = "cleanup",
                      reply'[worker[w].task] = "waiting"
               PROVE  task_results_map'[worker[w].task] # "none"
    BY <1>2 DEF Stored
  <2>1. worker[w].task \in Tasks
    BY DEF Working, TypeOK
  <2> QED BY <1>1, <1>4, <2>1 DEF Stored
<1>11. NoTaskForgotten'
  BY <1>1, <1>2, <1>4 DEF NoTaskForgotten, Finished, TypeOK
<1> QED BY <1>5, <1>6, <1>9, <1>10, <1>11

-----------------------------------------------------------------------------
(* The workers and the restart of the process.                             *)

LEMMA GetTaskStep ==
  ASSUME IInv, TypeOK', NEW w \in Workers, GetTask(w)
  PROVE  IInv'
<1> USE DEF IInv
<1>1. /\ UNCHANGED <<tasks_map, task_results_map, request, reply, lost>>
      /\ worker[w].pc = "idle" /\ tasks_queue # <<>>
  BY DEF GetTask
<1>2. /\ Len(tasks_queue) \in Nat \ {0}
      /\ DOMAIN tasks_queue = 1 .. Len(tasks_queue)
      /\ DOMAIN tasks_queue' = 1 .. Len(tasks_queue) - 1
      /\ \A i \in 1 .. Len(tasks_queue) - 1 : tasks_queue'[i] = tasks_queue[i + 1]
  BY <1>1, TailFacts DEF GetTask, TypeOK
<1>3. PICK t \in Tasks : t = Head(tasks_queue) /\ t = tasks_queue[1] /\ t \in tasks_map
  <2>1. Head(tasks_queue) \in Tasks /\ Head(tasks_queue) = tasks_queue[1]
    BY <1>1, TailFacts DEF TypeOK
  <2>2. tasks_queue[1] \in tasks_map
    BY <1>2 DEF Queued
  <2> QED BY <2>1, <2>2
<1>4. worker' = [worker EXCEPT ![w] = [pc |-> "run", task |-> t]]
  BY <1>3 DEF GetTask
<1>5. /\ worker'[w].pc = "run" /\ worker'[w].task = t
      /\ \A v \in Workers \ {w} : worker'[v] = worker[v]
  BY <1>4 DEF TypeOK
<1>6. InQueue(t) /\ \A v \in Workers : worker[v].task # t
  BY <1>2, <1>3 DEF RunOnce, InQueue
<1>7. ~InQueue(t)' /\ \A u \in Tasks \cup {None} : u # t => (InQueue(u)' <=> InQueue(u))
  <2>1. ~InQueue(t)'
    BY <1>2, <1>3 DEF RunOnce, InQueue
  <2>2. ASSUME NEW u \in Tasks \cup {None}, u # t, InQueue(u) PROVE InQueue(u)'
    <3>1. PICK i \in 1 .. Len(tasks_queue) : tasks_queue[i] = u
      BY <1>2, <2>2 DEF InQueue
    <3>2. i - 1 \in 1 .. Len(tasks_queue) - 1 /\ tasks_queue'[i - 1] = u
      BY <1>2, <1>3, <2>2, <3>1
    <3> QED BY <1>2, <3>2 DEF InQueue
  <2>3. ASSUME NEW u \in Tasks \cup {None}, InQueue(u)' PROVE InQueue(u)
    BY <1>2, <2>3 DEF InQueue
  <2> QED BY <2>1, <2>2, <2>3
<1>8. \A u \in Tasks \ {t} : Held(u)' <=> Held(u)
  BY <1>1, <1>5, NoneAssumption DEF Held, Working
<1>9. \A u \in Tasks : BeingPut(u)' <=> BeingPut(u)
  BY <1>1 DEF BeingPut
<1>10. Handling' /\ Heard' /\ NoTaskForgotten'
  BY <1>1 DEF Handling, Heard, NoTaskForgotten, Finished
<1>11. Working' /\ Stored'
  BY <1>1, <1>3, <1>5, NoneAssumption DEF Working, Stored
<1>12. Queued'
  BY <1>1, <1>2 DEF Queued
<1>13. Fresh'
  BY <1>1, <1>6, <1>7, <1>8, <1>9 DEF Fresh
<1>14. RunOnce'
  <2>1. \A v, x \in Workers :
          worker'[v].task = worker'[x].task => v = x \/ worker'[v].task = None
    BY <1>5, <1>6 DEF RunOnce
  <2>2. \A v \in Workers : ~(\E i \in DOMAIN tasks_queue' : tasks_queue'[i] = worker'[v].task)
    <3>1. ASSUME NEW v \in Workers \ {w}, NEW i \in DOMAIN tasks_queue',
                 tasks_queue'[i] = worker'[v].task
          PROVE  FALSE
      BY <1>2, <1>5, <3>1 DEF RunOnce, InQueue
    <3>2. ASSUME NEW i \in DOMAIN tasks_queue', tasks_queue'[i] = t PROVE FALSE
      BY <1>7, <3>2 DEF InQueue
    <3> QED BY <1>5, <3>1, <3>2
  <2>3. \A i, j \in DOMAIN tasks_queue' : tasks_queue'[i] = tasks_queue'[j] => i = j
    BY <1>2 DEF RunOnce
  <2> QED BY <2>1, <2>2, <2>3 DEF RunOnce, InQueue
<1>15. NoOrphan'
  <2>1. Held(t)'
    BY <1>5 DEF Held
  <2>2. ASSUME NEW u \in tasks_map, u # t PROVE BeingPut(u)' \/ InQueue(u)' \/ Held(u)'
    BY <1>7, <1>8, <1>9, <2>2 DEF NoOrphan, TypeOK
  <2> QED BY <1>1, <2>1, <2>2 DEF NoOrphan
<1> QED BY <1>10, <1>11, <1>12, <1>13, <1>14, <1>15

LEMMA StoreResultStep ==
  ASSUME IInv, TypeOK', NEW w \in Workers, NEW r \in Results, StoreResult(w, r)
  PROVE  IInv'
<1> USE DEF IInv
<1>1. /\ UNCHANGED <<tasks_map, tasks_queue, request, reply, lost>>
      /\ worker[w].pc = "run" /\ worker[w].task \in Tasks
  BY DEF StoreResult, Working, TypeOK
<1>2. /\ worker'[w].pc = "cleanup" /\ worker'[w].task = worker[w].task
      /\ \A v \in Workers \ {w} : worker'[v] = worker[v]
  BY DEF StoreResult, TypeOK
<1>3. /\ task_results_map'[worker[w].task] # "none"
      /\ \A u \in Tasks : task_results_map[u] # "none" => task_results_map'[u] # "none"
  BY <1>1 DEF StoreResult, TypeOK, Results
<1>4. \A u \in Tasks : /\ InQueue(u)' <=> InQueue(u)
                       /\ Held(u)' <=> Held(u)
                       /\ BeingPut(u)' <=> BeingPut(u)
  BY <1>1, <1>2 DEF InQueue, Held, BeingPut
<1>5. Handling' /\ Heard' /\ Queued'
  BY <1>1 DEF Handling, Heard, Queued
<1>6. Working'
  BY <1>1, <1>2 DEF Working
<1>7. Stored'
  BY <1>1, <1>2, <1>3 DEF Stored, Working, TypeOK
<1>8. Fresh' /\ NoOrphan'
  BY <1>1, <1>4 DEF Fresh, NoOrphan, TypeOK
<1>9. NoTaskForgotten'
  BY <1>1, <1>3 DEF NoTaskForgotten, Finished
<1>10. RunOnce'
  BY <1>1, <1>2 DEF RunOnce, InQueue
<1> QED BY <1>5, <1>6, <1>7, <1>8, <1>9, <1>10

LEMMA CleanUpStep ==
  ASSUME IInv, TypeOK', NEW w \in Workers, CleanUp(w)
  PROVE  IInv'
<1> USE DEF IInv
<1>1. PICK t \in Tasks : t = worker[w].task /\ t \in tasks_map
  BY DEF CleanUp, DropTask, Working, TypeOK
<1>2. /\ UNCHANGED <<task_results_map, tasks_queue, request, reply, lost>>
      /\ worker[w].pc = "cleanup" /\ tasks_map' = tasks_map \ {t}
  BY <1>1 DEF CleanUp, DropTask
<1>3. /\ worker'[w].pc = "idle" /\ worker'[w].task = None
      /\ \A v \in Workers \ {w} : worker'[v] = worker[v] /\ worker[v].task # t
  BY <1>1, NoneAssumption DEF CleanUp, TypeOK, Idle, RunOnce
<1>4. Held(t) /\ ~InQueue(t) /\ reply[t] # "none"
  BY <1>1 DEF Held, RunOnce, Fresh
<1>5. \A u \in Tasks : /\ InQueue(u)' <=> InQueue(u)
                       /\ BeingPut(u)' <=> BeingPut(u)
                       /\ u # t => (Held(u)' <=> Held(u))
  BY <1>1, <1>2, <1>3, NoneAssumption DEF InQueue, Held, BeingPut
<1>6. Handling' /\ Heard'
  BY <1>2 DEF Handling, Heard
<1>7. Working'
  BY <1>2, <1>3 DEF Working
<1>8. Queued'
  BY <1>2, <1>4 DEF Queued, InQueue
<1>9. Fresh'
  BY <1>2, <1>4, <1>5 DEF Fresh
<1>10. Stored'
  BY <1>2, <1>3 DEF Stored
<1>11. RunOnce'
  <2>1. \A v, x \in Workers :
          worker'[v].task = worker'[x].task => v = x \/ worker'[v].task = None
    BY <1>3 DEF RunOnce
  <2>2. \A i \in DOMAIN tasks_queue : tasks_queue[i] \in Tasks
    BY DEF Queued, TypeOK
  <2>3. ASSUME NEW v \in Workers, NEW i \in DOMAIN tasks_queue', tasks_queue'[i] = worker'[v].task
        PROVE  FALSE
    BY <1>2, <1>3, <2>2, <2>3, NoneAssumption DEF RunOnce, InQueue
  <2> QED BY <1>2, <2>1, <2>3 DEF RunOnce, InQueue
<1>12. NoOrphan'
  BY <1>2, <1>5 DEF NoOrphan, TypeOK
<1>13. NoTaskForgotten'
  BY <1>1, <1>2 DEF NoTaskForgotten, Finished, Stored
<1> QED BY <1>6, <1>7, <1>8, <1>9, <1>10, <1>11, <1>12, <1>13

LEMMA RestartStep ==
  ASSUME IInv, TypeOK', Restart
  PROVE  IInv'
<1> USE DEF IInv
<1>1. /\ tasks_map' = {} /\ tasks_queue' = <<>>
      /\ \A w \in Workers : worker'[w].pc = "idle" /\ worker'[w].task = None
      /\ \A h \in Handlers : request'[h].pc = "idle" /\ request'[h].task = None
  BY DEF Restart, Idle
<1>2. DOMAIN tasks_queue' = {}
  BY <1>1
<1>3. \A u \in Tasks : ~InQueue(u)' /\ ~Held(u)' /\ ~BeingPut(u)'
  BY <1>1, <1>2, NoneAssumption DEF InQueue, Held, BeingPut
<1>4. Handling' /\ Heard' /\ Working' /\ Queued' /\ Fresh' /\ Stored' /\ NoOrphan'
  BY <1>1, <1>2, <1>3 DEF Handling, Heard, Working, Queued, Fresh, Stored, NoOrphan
<1>5. RunOnce'
  BY <1>1, <1>2 DEF RunOnce, InQueue
<1>6. NoTaskForgotten'
  <2> SUFFICES ASSUME NEW t \in Tasks, reply'[t] = "waiting" PROVE t \in lost'
    BY DEF NoTaskForgotten
  <2>1. reply[t] = "waiting"
    BY DEF Restart
  <2> QED BY <2>1 DEF NoTaskForgotten, Restart, Results
<1> QED BY <1>4, <1>5, <1>6

-----------------------------------------------------------------------------
(* The theorems.                                                           *)

LEMMA InvInit == Init => IInv
<1> SUFFICES ASSUME Init PROVE IInv
  OBVIOUS
<1>1. TypeOK
  BY TypeInit
<1>2. DOMAIN tasks_queue = {}
  BY DEF Init
<1>3. \A t \in Tasks : ~InQueue(t) /\ ~Held(t) /\ ~BeingPut(t)
  BY <1>2, NoneAssumption DEF Init, Idle, InQueue, Held, BeingPut
<1>4. Handling /\ Heard /\ Working /\ Queued /\ Stored
  BY <1>2 DEF Init, Idle, Handling, Heard, Working, Queued, Stored
<1>5. Fresh /\ RunOnce /\ NoOrphan /\ NoTaskForgotten
  BY <1>2, <1>3 DEF Init, Idle, Fresh, RunOnce, InQueue, NoOrphan, NoTaskForgotten
<1> QED BY <1>1, <1>4, <1>5 DEF IInv

LEMMA InvStutter == IInv /\ UNCHANGED ioVars => IInv'
  BY DEF IInv, ioVars, TypeOK, Handling, Heard, Working, Queued, Fresh, Stored, RunOnce,
         NoOrphan, NoTaskForgotten, InQueue, Held, BeingPut, Finished

LEMMA InvNext == IInv /\ [Next]_ioVars => IInv'
<1> SUFFICES ASSUME IInv, [Next]_ioVars PROVE IInv'
  OBVIOUS
<1>1. TypeOK'
  BY TypeNext DEF IInv
<1>2. CASE UNCHANGED ioVars
  BY <1>2, InvStutter
<1>3. ASSUME NEW h \in Handlers, Submit(h) PROVE IInv'
  BY <1>1, <1>3, BeginSubmitStep, RegisterTaskStep, PutTaskStep DEF Submit
<1>4. ASSUME NEW h \in Handlers, Poll(h) \/ \E t \in Tasks : BeginPoll(h, t) PROVE IInv'
  BY <1>1, <1>4, PollStep, BeginPollStep
<1>5. ASSUME NEW w \in Workers, Work(w) PROVE IInv'
  BY <1>1, <1>5, GetTaskStep, StoreResultStep, CleanUpStep DEF Work
<1>6. CASE Restart
  BY <1>1, <1>6, RestartStep
<1> QED BY <1>2, <1>3, <1>4, <1>5, <1>6 DEF Next

\* All of it holds in every state of the manager, whatever its threads do.
THEOREM Invariance == Spec => []IInv
<1>1. Init => IInv
  BY InvInit
<1>2. IInv /\ [Next]_ioVars => IInv'
  BY InvNext
<1> QED BY <1>1, <1>2, PTL DEF Spec

\* The variables keep their types, and the queue its bound.
THEOREM TypeCorrect == Spec => []TypeOK
<1>1. IInv => TypeOK
  BY DEF IInv
<1> QED BY <1>1, Invariance, PTL

\* A poll of a task that has neither been answered nor lost in a restart always
\* finds it: the worker stores the result before it drops the task.
THEOREM NothingForgotten == Spec => []NoTaskForgotten
<1>1. IInv => NoTaskForgotten
  BY DEF IInv
<1> QED BY <1>1, Invariance, PTL

\* No registered task is left without somebody who will clean it up.
THEOREM NothingOrphaned == Spec => []NoOrphan
<1>1. IInv => NoOrphan
  BY DEF IInv
<1> QED BY <1>1, Invariance, PTL

\* No task is worked on twice.
THEOREM EverythingRunsOnce == Spec => []RunOnce
<1>1. IInv => RunOnce
  BY DEF IInv
<1> QED BY <1>1, Invariance, PTL

-----------------------------------------------------------------------------
(* The IO task manager keeps the promise of TaskLifecycle: every step is   *)
(* a step of the promise, or changes nothing that the promise speaks of.   *)
(* What this needs to know besides the invariant comes first.              *)

\* What is registered was not forgotten in a restart; its client has not been told
\* of an end but by the worker that is about to drop it.
Registered ==
  \A t \in tasks_map :
    /\ t \notin lost
    /\ reply[t] \in {"none", "waiting"} \cup Results
    /\ t \in Finished \/ reply[t] \in Results =>
         \E w \in Workers : worker[w].pc = "cleanup" /\ worker[w].task = t

\* A result belongs to a task that was acknowledged and not forgotten, and a poll
\* that did not find its task in tasks_map will not find it there later.
Known ==
  /\ \A t \in Tasks : reply[t] = "none" => t \notin lost /\ t \notin Finished
  /\ \A t \in Finished : t \notin lost
  /\ \A h \in Handlers : request[h].pc = "lookup" => request[h].task \notin tasks_map

RInv == IInv /\ Registered /\ Known

-----------------------------------------------------------------------------
(* The view of the promise.                                                *)

Unseen == \A t \in Tasks : StatusOf(t)' = StatusOf(t) /\ HeardOf(t)' = HeardOf(t)

LEMMA Stutter == Unseen => UNCHANGED Promise!vars
  BY DEF Unseen, Promise!vars

LEMMA BeginSubmitView ==
  ASSUME RInv, IInv', NEW h \in Handlers, NEW t \in Tasks, BeginSubmit(h, t, "register")
  PROVE  (Registered /\ Known)' /\ [Promise!Next]_(Promise!vars)
<1> USE DEF RInv, IInv
<1>1. /\ UNCHANGED <<tasks_map, task_results_map, tasks_queue, worker, lost>>
      /\ reply[t] = "none" /\ \A g \in Handlers : request[g].task # t
      /\ t \notin tasks_map
  BY DEF BeginSubmit, Served, Fresh, BeingPut
<1>2. Registered'
  BY <1>1 DEF BeginSubmit, Registered, Finished, TypeOK
<1>3. Known'
  <2>1. /\ \A g \in Handlers : request'[g].pc = "lookup" => request'[g] = request[g]
        /\ \A u \in Tasks : reply'[u] = "none" => reply[u] = "none"
    BY DEF BeginSubmit, TypeOK
  <2> QED BY <1>1, <2>1 DEF Known, Finished
<1>4. CASE Len(tasks_queue) = QueueSize
  <2>1. reply' = [reply EXCEPT ![t] = "busy"]
    BY <1>4 DEF BeginSubmit
  <2>2. StatusOf(t) = "none" /\ HeardOf(t) = "none" /\ HeardOf(t)' = "rejected"
    BY <1>1, <2>1 DEF StatusOf, HeardOf, Known, Results, TypeOK
  <2>3. \A u \in Tasks : StatusOf(u)' = StatusOf(u) /\ (u # t => HeardOf(u)' = HeardOf(u))
    BY <1>1, <2>1 DEF StatusOf, HeardOf, Results, Finished, TypeOK
  <2>4. Promise!Reject(t)
    BY <2>2, <2>3 DEF Promise!Reject
  <2> QED BY <1>2, <1>3, <2>4 DEF Promise!Next
<1>5. CASE Len(tasks_queue) # QueueSize
  <2>1. reply' = reply
    BY <1>5 DEF BeginSubmit
  <2>2. Unseen
    BY <1>1, <2>1 DEF Unseen, StatusOf, HeardOf, Finished
  <2> QED BY <1>2, <1>3, <2>2, Stutter
<1> QED BY <1>4, <1>5

LEMMA RegisterTaskView ==
  ASSUME RInv, IInv', NEW h \in Handlers, RegisterTask(h)
  PROVE  (Registered /\ Known)' /\ [Promise!Next]_(Promise!vars)
<1> USE DEF RInv, IInv
<1>1. PICK t \in Tasks : t = request[h].task
  BY DEF RegisterTask, TypeOK, Handling
<1>2. /\ UNCHANGED <<task_results_map, tasks_queue, worker, reply, lost>>
      /\ reply[t] = "none" /\ t \notin tasks_map /\ tasks_map' = tasks_map \cup {t}
      /\ request' = [request EXCEPT ![h].pc = "put"]
  BY <1>1, NoneAssumption DEF RegisterTask, Goto, Heard, Handling, Fresh, BeingPut
<1>3. t \notin lost /\ t \notin Finished
  BY <1>2 DEF Known
<1>4. Registered'
  BY <1>2, <1>3 DEF Registered, Finished, Results
<1>5. Known'
  <2>1. \A g \in Handlers : request'[g].pc = "lookup" =>
          request'[g].task = request[g].task /\ request[g].pc = "lookup" /\ request[g].task # t
    BY <1>2 DEF TypeOK, Heard
  <2> QED BY <1>2, <2>1 DEF Known, Finished
<1>6. StatusOf(t) = "none" /\ HeardOf(t) = "none" /\ StatusOf(t)' = "pending"
  BY <1>2, <1>3 DEF StatusOf, HeardOf, Results, Finished
<1>7. \A u \in Tasks : HeardOf(u)' = HeardOf(u) /\ (u # t => StatusOf(u)' = StatusOf(u))
  BY <1>2 DEF StatusOf, HeardOf, Finished
<1>8. Promise!Accept(t)
  BY <1>6, <1>7 DEF Promise!Accept
<1> QED BY <1>4, <1>5, <1>8 DEF Promise!Next

LEMMA PutTaskView ==
  ASSUME RInv, IInv', NEW h \in Handlers, PutTask(h)
  PROVE  (Registered /\ Known)' /\ [Promise!Next]_(Promise!vars)
<1> USE DEF RInv, IInv
<1>1. PICK t \in Tasks : t = request[h].task /\ BeingPut(t) /\ reply[t] = "none"
  BY DEF PutTask, Enqueue, TypeOK, Handling, Heard, BeingPut
<1>2. /\ UNCHANGED <<tasks_map, task_results_map, worker, lost>>
      /\ reply' = [reply EXCEPT ![t] = "waiting"]
      /\ request' = [request EXCEPT ![h] = Idle]
      /\ t \in tasks_map /\ t \notin lost /\ t \notin Finished
  BY <1>1 DEF PutTask, Answer, Fresh, Registered, Known
<1>3. Registered'
  BY <1>1, <1>2 DEF Registered, Finished, TypeOK, Results
<1>4. Known'
  BY <1>1, <1>2 DEF Known, Finished, TypeOK, Idle
<1>5. StatusOf(t) = "pending" /\ HeardOf(t) = "none" /\ HeardOf(t)' = "waiting"
  BY <1>1, <1>2 DEF StatusOf, HeardOf, Results, TypeOK
<1>6. \A u \in Tasks : StatusOf(u)' = StatusOf(u) /\ (u # t => HeardOf(u)' = HeardOf(u))
  BY <1>1, <1>2 DEF StatusOf, HeardOf, Finished, Results, TypeOK
<1>7. Promise!Acknowledge(t)
  BY <1>5, <1>6 DEF Promise!Acknowledge
<1> QED BY <1>3, <1>4, <1>7 DEF Promise!Next

LEMMA BeginPollView ==
  ASSUME RInv, IInv', NEW h \in Handlers, NEW t \in Tasks, BeginPoll(h, t)
  PROVE  (Registered /\ Known)' /\ [Promise!Next]_(Promise!vars)
<1> USE DEF RInv, IInv, BeginPoll
<1>1. Registered'
  BY DEF Registered, Finished
<1>2. Known'
  BY DEF Known, Finished, TypeOK
<1>3. Unseen
  BY DEF Unseen, StatusOf, HeardOf, Finished
<1> QED BY <1>1, <1>2, <1>3, Stutter

LEMMA PollView ==
  ASSUME RInv, IInv', NEW h \in Handlers, Poll(h)
  PROVE  (Registered /\ Known)' /\ [Promise!Next]_(Promise!vars)
<1> USE DEF RInv, IInv
<1>1. PICK t \in Tasks : t = request[h].task /\ reply[t] = "waiting"
  BY DEF Poll, LookupResult, PopResult, RecheckMap, TypeOK, Handling, Heard
<1>2. UNCHANGED <<tasks_map, tasks_queue, worker, lost>>
  BY DEF Poll, LookupResult, PopResult, RecheckMap
<1>3. ASSUME NEW pc \in {"pop", "recheck"}, Goto(h, pc), UNCHANGED <<reply, task_results_map>>
      PROVE  (Registered /\ Known)' /\ [Promise!Next]_(Promise!vars)
  <2>1. Registered'
    BY <1>2, <1>3 DEF Registered, Finished
  <2>2. Known'
    BY <1>2, <1>3 DEF Known, Finished, Goto, TypeOK
  <2>3. Unseen
    BY <1>2, <1>3 DEF Unseen, StatusOf, HeardOf, Finished
  <2> QED BY <2>1, <2>2, <2>3, Stutter
<1>4. ASSUME NEW answer \in Results \cup {"waiting", "notfound"}, Answer(h, answer)
      PROVE  /\ reply' = [reply EXCEPT ![t] = answer]
             /\ \A u \in Tasks : reply'[u] = "none" => reply[u] = "none"
             /\ \A g \in Handlers : request'[g].pc = "lookup" => request'[g] = request[g]
  BY <1>1, <1>4 DEF Answer, Idle, TypeOK, Results
<1>5. ASSUME Answer(h, "notfound"), UNCHANGED task_results_map,
             t \notin tasks_map, t \in lost \/ t \in Finished
      PROVE  (Registered /\ Known)' /\ [Promise!Next]_(Promise!vars)
  <2>1. Registered'
    BY <1>2, <1>4, <1>5 DEF Registered, Finished, TypeOK
  <2>2. Known'
    BY <1>2, <1>4, <1>5 DEF Known, Finished
  <2>3. /\ StatusOf(t) \in Results \cup {"lost"}
        /\ HeardOf(t) = "waiting" /\ HeardOf(t)' = "notfound"
    BY <1>1, <1>4, <1>5 DEF StatusOf, HeardOf, Finished, Results, TypeOK
  <2>4. \A u \in Tasks : StatusOf(u)' = StatusOf(u) /\ (u # t => HeardOf(u)' = HeardOf(u))
    BY <1>1, <1>2, <1>4, <1>5 DEF StatusOf, HeardOf, Finished, Results, TypeOK
  <2>5. Promise!Miss(t)
    BY <2>3, <2>4 DEF Promise!Miss, Promise!Results, Results
  <2> QED BY <2>1, <2>2, <2>5 DEF Promise!Next
<1>6. CASE LookupResult(h)
  <2>1. CASE task_results_map[t] # "none"
    BY <1>1, <1>3, <1>6, <2>1 DEF LookupResult
  <2>2. CASE task_results_map[t] = "none"
    <3>1. t \notin tasks_map /\ t \in lost
      BY <1>1, <1>6, <2>2 DEF LookupResult, Known, NoTaskForgotten, Finished
    <3> QED BY <1>1, <1>5, <1>6, <2>2, <3>1 DEF LookupResult
  <2> QED BY <2>1, <2>2
<1>7. CASE PopResult(h)
  <2>1. CASE task_results_map[t] = "none"
    <3>1. task_results_map' = task_results_map
      BY <1>1, <1>7, <2>1 DEF PopResult, TypeOK
    <3> QED BY <1>1, <1>3, <1>7, <2>1, <3>1 DEF PopResult
  <2>2. CASE task_results_map[t] # "none"
    <3> DEFINE r == task_results_map[t]
    <3>1. r \in Results /\ t \in Finished /\ t \notin lost
      BY <1>1, <2>2 DEF TypeOK, Finished, Known
    <3>2. /\ Answer(h, r)
          /\ task_results_map' = [task_results_map EXCEPT ![t] = "none"]
          /\ reply' = [reply EXCEPT ![t] = r]
      BY <1>1, <1>4, <1>7, <2>2, <3>1 DEF PopResult
    <3>3. Registered'
      BY <1>2, <3>1, <3>2 DEF Registered, Finished, TypeOK
    <3>4. Known'
      BY <1>2, <1>4, <3>1, <3>2 DEF Known, Finished, TypeOK
    <3>5. /\ StatusOf(t) = r /\ HeardOf(t) = "waiting"
          /\ StatusOf(t)' = "delivered" /\ HeardOf(t)' = r
      BY <1>1, <1>2, <3>1, <3>2 DEF StatusOf, HeardOf, Finished, Results, TypeOK
    <3>6. \A u \in Tasks : u # t => StatusOf(u)' = StatusOf(u) /\ HeardOf(u)' = HeardOf(u)
      BY <1>1, <1>2, <3>2 DEF StatusOf, HeardOf, Finished, TypeOK
    <3>7. Promise!Deliver(t)
      BY <3>1, <3>5, <3>6 DEF Promise!Deliver, Promise!Results, Results
    <3> QED BY <3>3, <3>4, <3>7 DEF Promise!Next
  <2> QED BY <2>1, <2>2
<1>8. CASE RecheckMap(h)
  <2>1. CASE t \in tasks_map
    <3>1. Answer(h, "waiting") /\ reply' = reply /\ UNCHANGED task_results_map
      BY <1>1, <1>4, <1>8, <2>1 DEF RecheckMap, TypeOK
    <3>2. Registered'
      BY <1>2, <3>1 DEF Registered, Finished
    <3>3. Known'
      BY <1>2, <1>4, <3>1 DEF Known, Finished
    <3>4. Unseen
      BY <1>2, <3>1 DEF Unseen, StatusOf, HeardOf, Finished
    <3> QED BY <3>2, <3>3, <3>4, Stutter
  <2>2. CASE t \notin tasks_map
    <3>1. t \in lost \/ t \in Finished
      BY <1>1, <2>2 DEF NoTaskForgotten
    <3> QED BY <1>1, <1>5, <1>8, <2>2, <3>1 DEF RecheckMap
  <2> QED BY <2>1, <2>2
<1> QED BY <1>6, <1>7, <1>8 DEF Poll

LEMMA GetTaskView ==
  ASSUME RInv, IInv', NEW w \in Workers, GetTask(w)
  PROVE  (Registered /\ Known)' /\ [Promise!Next]_(Promise!vars)
<1> USE DEF RInv, IInv
<1>1. /\ UNCHANGED <<tasks_map, task_results_map, request, reply, lost>>
      /\ worker[w].pc = "idle" /\ \A v \in Workers \ {w} : worker'[v] = worker[v]
  BY DEF GetTask, TypeOK
<1>2. Registered'
  BY <1>1 DEF Registered, Finished
<1>3. Known'
  BY <1>1 DEF Known, Finished
<1>4. Unseen
  BY <1>1 DEF Unseen, StatusOf, HeardOf, Finished
<1> QED BY <1>2, <1>3, <1>4, Stutter

LEMMA StoreResultView ==
  ASSUME RInv, IInv', NEW w \in Workers, NEW r \in Results, StoreResult(w, r)
  PROVE  (Registered /\ Known)' /\ [Promise!Next]_(Promise!vars)
<1> USE DEF RInv, IInv
<1>1. PICK t \in Tasks : t = worker[w].task /\ t \in tasks_map
  BY DEF StoreResult, Working, TypeOK
<1>2. /\ UNCHANGED <<tasks_map, tasks_queue, request, reply, lost>>
      /\ task_results_map' = [task_results_map EXCEPT ![t] = r]
      /\ worker[w].pc = "run" /\ worker'[w].pc = "cleanup" /\ worker'[w].task = t
      /\ \A v \in Workers \ {w} : worker'[v] = worker[v]
  BY <1>1 DEF StoreResult, TypeOK
<1>3. /\ t \notin lost /\ t \notin Finished /\ reply[t] \notin Results
      /\ reply[t] # "none"
  BY <1>1, <1>2, NoneAssumption DEF Registered, RunOnce, Fresh, Held
<1>4. Finished' = Finished \cup {t}
  BY <1>2, <1>3 DEF Finished, TypeOK, Results
<1>5. Registered'
  BY <1>1, <1>2, <1>4 DEF Registered, Results
<1>6. Known'
  BY <1>2, <1>3, <1>4 DEF Known
<1>7. StatusOf(t) = "pending" /\ StatusOf(t)' = r
  BY <1>1, <1>2, <1>3, <1>4 DEF StatusOf, TypeOK
<1>8. \A u \in Tasks : HeardOf(u)' = HeardOf(u) /\ (u # t => StatusOf(u)' = StatusOf(u))
  BY <1>2, <1>4 DEF StatusOf, HeardOf, TypeOK
<1>9. Promise!Finish(t, r)
  BY <1>7, <1>8 DEF Promise!Finish
<1> QED BY <1>5, <1>6, <1>9 DEF Promise!Next, Promise!Results, Results

LEMMA CleanUpView ==
  ASSUME RInv, IInv', NEW w \in Workers, CleanUp(w)
  PROVE  (Registered /\ Known)' /\ [Promise!Next]_(Promise!vars)
<1> USE DEF RInv, IInv
<1>1. PICK t \in Tasks : t = worker[w].task /\ t \in tasks_map /\ Held(t)
  BY DEF CleanUp, DropTask, Working, TypeOK, Held
<1>2. /\ UNCHANGED <<task_results_map, tasks_queue, request, reply, lost>>
      /\ worker[w].pc = "cleanup" /\ tasks_map' = tasks_map \ {t}
      /\ \A v \in Workers \ {w} : worker'[v] = worker[v]
  BY <1>1 DEF CleanUp, DropTask, TypeOK
<1>3. t \in Finished \/ reply[t] \in Results
  BY <1>1, <1>2 DEF Registered, Fresh, Stored, Finished
<1>4. Registered'
  BY <1>1, <1>2 DEF Registered, Finished
<1>5. Known'
  BY <1>2 DEF Known, Finished
<1>6. Unseen
  <2>1. StatusOf(t)' = StatusOf(t)
    BY <1>2, <1>3 DEF StatusOf, Finished
  <2>2. \A u \in Tasks : u # t => StatusOf(u)' = StatusOf(u)
    BY <1>2 DEF StatusOf, Finished
  <2> QED BY <1>2, <2>1, <2>2 DEF Unseen, HeardOf
<1> QED BY <1>4, <1>5, <1>6, Stutter

\* The requests that break off in a restart were still open.
LEMMA RestartView ==
  ASSUME RInv, IInv', Restart
  PROVE  (Registered /\ Known)' /\ [Promise!Next]_(Promise!vars)
<1> USE DEF RInv, IInv
<1>1. /\ tasks_map' = {} /\ Finished' = {}
      /\ task_results_map' = [t \in Tasks |-> "none"]
      /\ reply' = [t \in Tasks |-> IF Served(t) THEN "error" ELSE reply[t]]
      /\ lost' = lost \cup {t \in tasks_map \cup Finished : reply[t] \notin Results}
      /\ \A h \in Handlers : request'[h].pc = "idle"
  BY DEF Restart, Finished, Idle
<1>2. \A t \in Tasks : Served(t) => reply[t] \in {"none", "waiting"}
  BY NoneAssumption DEF Served, Heard, Handling, TypeOK, RequestPcs
<1>3. Registered'
  BY <1>1 DEF Registered
<1>4. Known'
  <2>1. ASSUME NEW t \in Tasks, reply'[t] = "none" PROVE t \notin lost'
    <3>1. reply[t] = "none" /\ ~Served(t)
      BY <1>1, <2>1
    <3>2. t \notin lost /\ t \notin Finished /\ t \notin tasks_map
      BY <3>1 DEF Known, Fresh, BeingPut, Served
    <3> QED BY <1>1, <3>2
  <2> QED BY <1>1, <2>1 DEF Known
<1> DEFINE broken == {t \in Tasks : Served(t)}
<1>5. \A t \in Tasks : StatusOf(t)' = IF StatusOf(t) \in {"none", "delivered"}
                                     THEN StatusOf(t) ELSE "lost"
  <2> SUFFICES ASSUME NEW t \in Tasks
               PROVE  StatusOf(t)' = IF StatusOf(t) \in {"none", "delivered"}
                                     THEN StatusOf(t) ELSE "lost"
    OBVIOUS
  <2>1. CASE t \in lost
    BY <1>1, <2>1 DEF StatusOf
  <2>2. CASE t \notin lost /\ reply[t] \in Results
    <3>1. reply'[t] \in Results /\ t \notin lost'
      BY <1>1, <1>2, <2>2 DEF Results
    <3> QED BY <2>2, <3>1 DEF StatusOf
  <2>3. CASE t \notin lost /\ reply[t] \notin Results /\ t \in tasks_map \cup Finished
    <3>1. StatusOf(t) \in Results \cup {"pending"} /\ t \in lost'
      BY <1>1, <2>3 DEF StatusOf, Finished, TypeOK
    <3> QED BY <3>1 DEF StatusOf, Results
  <2>4. CASE t \notin lost /\ reply[t] \notin Results /\ t \notin tasks_map \cup Finished
    <3>1. reply'[t] \notin Results /\ t \notin lost'
      BY <1>1, <2>4 DEF Results
    <3> QED BY <1>1, <2>4, <3>1 DEF StatusOf
  <2> QED BY <2>1, <2>2, <2>3, <2>4
<1>6. \A t \in Tasks : /\ t \in broken => HeardOf(t) \in {"none", "waiting"}
                       /\ HeardOf(t)' = IF t \in broken THEN "error" ELSE HeardOf(t)
  BY <1>1, <1>2 DEF HeardOf
<1>7. Promise!Restart(broken)
  BY <1>5, <1>6 DEF Promise!Restart
<1>8. broken \in SUBSET Tasks
  OBVIOUS
<1> QED BY <1>3, <1>4, <1>7, <1>8 DEF Promise!Next

-----------------------------------------------------------------------------
LEMMA ViewInit == Init => RInv /\ Promise!Init
<1> SUFFICES ASSUME Init PROVE RInv /\ Promise!Init
  OBVIOUS
<1>1. IInv
  BY InvInit
<1>2. Registered /\ Known
  BY DEF Init, Registered, Known, Finished, Idle
<1>3. Promise!Init
  BY DEF Init, Promise!Init, StatusOf, HeardOf, Finished, Results
<1> QED BY <1>1, <1>2, <1>3 DEF RInv

LEMMA ViewNext == RInv /\ [Next]_ioVars => RInv' /\ [Promise!Next]_(Promise!vars)
<1> SUFFICES ASSUME RInv, [Next]_ioVars
             PROVE  (Registered /\ Known)' /\ [Promise!Next]_(Promise!vars) /\ IInv'
  BY DEF RInv
<1>1. IInv'
  BY InvNext DEF RInv
<1>2. CASE UNCHANGED ioVars
  <2>1. (Registered /\ Known)'
    BY <1>2 DEF RInv, ioVars, Registered, Known, Finished
  <2>2. Unseen
    BY <1>2 DEF ioVars, Unseen, StatusOf, HeardOf, Finished
  <2> QED BY <1>1, <2>1, <2>2, Stutter
<1>3. ASSUME NEW h \in Handlers, Submit(h)
      PROVE  (Registered /\ Known)' /\ [Promise!Next]_(Promise!vars)
  BY <1>1, <1>3, BeginSubmitView, RegisterTaskView, PutTaskView DEF Submit
<1>4. ASSUME NEW h \in Handlers, Poll(h) \/ \E t \in Tasks : BeginPoll(h, t)
      PROVE  (Registered /\ Known)' /\ [Promise!Next]_(Promise!vars)
  BY <1>1, <1>4, PollView, BeginPollView
<1>5. ASSUME NEW w \in Workers, Work(w)
      PROVE  (Registered /\ Known)' /\ [Promise!Next]_(Promise!vars)
  BY <1>1, <1>5, GetTaskView, StoreResultView, CleanUpView DEF Work
<1>6. CASE Restart
  BY <1>1, <1>6, RestartView
<1> QED BY <1>1, <1>2, <1>3, <1>4, <1>5, <1>6 DEF Next

\* What a client hears is what a worker recorded, at most once, and "not found" is
\* never the answer for a task that is waiting or running, in every interleaving of
\* the threads and across restarts: the manager implements TaskLifecycle.
THEOREM PromiseKept == Spec => KeepsPromise
<1>1. Init => RInv /\ Promise!Init
  BY ViewInit
<1>2. RInv /\ [Next]_ioVars => RInv' /\ [Promise!Next]_(Promise!vars)
  BY ViewNext
<1> QED BY <1>1, <1>2, PTL DEF Spec, KeepsPromise, Promise!Spec
=============================================================================
