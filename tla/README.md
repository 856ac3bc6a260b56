# SeaTicket: a verification development

SeaTicket (this repository) is a Django application, `seahub/`, with a small task
server beside it, `seaqa_io/`, a React front end, and two services that are not in the
repository: SeaDB, the table store that holds tickets, connection records, agent runs and
suggestions, and seaqa-ai, which answers questions and runs agents. SeaDB has no
transactions: a request that changes several rows is a sequence of separate calls, and so is a
request that looks something up in the cache and sets it afterwards. The front end keeps copies of what the server stores
and changes them before or after the server has answered. What can go wrong in
this program goes wrong between two such calls. The modules here model those sequences
with all their interleavings, failures and restarts; TLC checks them on small instances and TLAPS
proves some of the results for every size.

## 1. Inventory

### Modelled

**IO task manager** (`seaqa_io/tasks/task_manager.py`, the endpoints of `seaqa_io/server.py`).
*State:* `tasks_map`, `task_results_map`, `tasks_queue` (bounded), all in memory. *Operations:*
four endpoints submit a task (refused while the queue is full), `/io-task-status` polls it, worker
threads run it. *Interactions:* seahub submits on behalf of the browser, which polls once or twice a
second until the task is over. *Hard:* waitress threads and workers share the two
dictionaries and the queue without a lock; `is_valid_task_id` and `query_status` look at them in several
steps while a worker moves the task from one to the other; a restart forgets everything; `put` blocks
when the queue has filled up after the endpoint looked. *Correct when:* no unfinished task
is ever unknown, no task leaks, none is run twice, a result is handed over at most once and as
recorded, and a client that keeps polling hears the end.

**Analysis task manager** (`seaqa_io/tasks/analysis_task_manager.py`). As above, and
`project_tasks_map` marks the project that has an analysis running; a second request is refused with 409.
*Hard:* the mark is set after the task was queued and taken off by whichever task of the project ends
first. *Correct when:* besides the above, the mark is there exactly while it should guard.

**Agent suggestions** (`seahub/project/agent/agent.py`, `utils.py`, `action_executor.py`). *State:* rows
of `agent_actions` (status, content) and `agent_runs` (status, `suggestions_status`, a summary of the
suggestions of the run) in SeaDB. *Operations:* confirm, auto-execute (a batch, called by seaqa-ai), edit,
cancel, cancel all of a log item, materialize (replace the suggestions of a run), and the badge that is computed
from the runs. *Hard:* every guard is a read followed by an unconditional write; executing has side effects outside
(a reply, a label, a new ticket); each status change is followed by a refresh of the summary, in two more calls;
queries are paged. *Correct when:* an operation is performed once, only while the row says `executing`,
with the content the row shows; none is left executing; summaries and badge tell the truth; a run is
never emptied by a replacement.

**Chat with the AI** (`seahub/chats/view.py`, `utils.py`; the portal's copy in `seahub/portal/chat/`).
*State:* the messages of a session, and its lock: a cache entry with a time to live of 180 seconds. *Operations:* POST
a message (checks, validation, clear context, set the lock, ask, stream or answer, record, delete the lock), GET the
reply of a running task (wait until there is no lock, then read the last message). *Hard:* the lock is looked up and
set in two calls; it may expire; the reply is recorded by a Python generator that the web server closes when the
client has gone; every way out of it must record one reply and delete the lock; a stream may end without a reply, and errors of the
database are swallowed. *Correct when:* each post has at most one reply in the session, and a concluded one has one unless its
stream brought none or the database refused it; the lock is exact, a waiting request answers with no older message than the reply it
waited for, and every post ends.

**Links of tickets** (`seahub/tickets/tickets.py`, `ticket_utils.py`, `seahub/portal/apis.py`,
`seahub/project/connections.py`, `action_executor.py`). *State:* every link is stored twice in SeaDB: in
`linked_connection_records` of the ticket and in `linked_ticket` of the item (a record of a connection or an issue of the
portal). *Operations:* create, update and batch update of tickets, a task created for a ticket, a record or an issue that gets
a ticket, the agent's linking and creating, trash, restore and purge. *Interactions:* all but two share
`check_ticket_link_changes` (validates) and `sync_links_in_connection` (stores the items' side). *Hard:* validation reads and
several calls on two tables, in a different order in each handler; one failure is rolled back, most are not; tickets in the trash
keep their links. *Correct when:* the two sides agree, and no request takes a link away from a ticket it is not about.

**Front end: table store** (`frontend/src/sea-metadata/store/`). *State:* the rows and groups of the table shown, stacks of
undo and redo, the queue of operations to send. *Operations:* modify, delete and insert rows, group, undo, redo, reload, close the
linked issues through a dialog. *Interactions:* most operations are applied at once and sent one at a time; answers may
refuse, fail or rewrite. *Hard:* answers, refusals, undo and the end of each chain all start the sending again; reloads and the
dialog pass the queue by. *Correct when:* the server executes in the user's order, the table shows the newest change on its way
and otherwise what is stored, rows stand in the group of their value, undo starts from what is shown, and the queue drains.

**Front end: project data** (`frontend/src/project/hooks/data.js`). *State:* a cache of rows by id and of the rows of each view,
with the time it was fetched. *Operations:* fetch, modify, delete, insert, restore, empty the trash, change a filter. *Hard:* some
answers change the newest cache, others write back one computed from the render that made the call. *Correct when:* a view that is
answered without a call shows what the server would answer.

**Front end: live updates** (`frontend/src/utils/websocket-service.js` and the providers that use it). *State:* the web socket,
counts of subscriptions, listeners, reconnect timers, tokens awaited. *Operations:* mount, unmount, logout; open, close and fail of
the socket; timers and tokens that arrive. *Hard:* every callback may come after the socket, the component or the session has gone.
*Correct when:* a mounted component stays subscribed and is heard again, nothing else is pushed, a logout is final.

### Not modelled (yet)

| Part | State and operations | What is hard | Why not now |
|---|---|---|---|
| Tickets beyond their links | fields, comments, activities, `comment_count`, one ticket in some seconds per creator | counting and storing in two calls (`tickets.py:1536`) may leave a smaller count; the interval of creation reads `created_at` where the query selects `created_time` (`ticket_utils.py:597`) and so never applies; closing GitHub issues | each is a single read and write; nothing else depends on it |
| Ticket types, substates, views | settings rows | deleting a substate that tickets use | CRUD |
| Connections beyond links | connection settings, records in SeaDB | the synchronisation is another service | external |
| Portal issues beyond links | issues, comments, types, substates | the patterns of tickets; the PUT of several issues (`apis.py:558-579`) copies every key, `linked_ticket` with it, on one side only, and its `ticket_link_diff` stays empty; deleting an issue or a connection leaves the ticket's side | the one-sided PUT would put every item in doubt |
| Portal visitors, rate limits | sessions, cache counters | limits are checked before and counted after the validation (`portal/chat/apis.py:571`), so parallel posts exceed them | the counters are soft |
| Projects, views, tags, search | MySQL rows, query building | little shared state | CRUD |
| Knowledge base | SeaDB rows; Excel import and export as task functions | batches of 1000 rows without a transaction (`seaqa_io/tasks/__init__.py:229`) | opaque task functions of the IO manager |
| Organizations, billing | quotas, Stripe | an external payment service | external |
| Accounts, OAuth, SAML, two factors, registration, invitations | Django models | third-party protocols | vendored or external |
| Events, notifications, skills | messages to other services | fire and forget | no state |
| Front end beyond the three parts above | pages, editors, masks, dialogs; columns, several levels of groups, pagination, row links | rendering | user interface |
| Schema, upgrade scripts | - | - | administration |

Smaller behaviours of modelled parts that no property speaks of: results that nobody polls are never removed and `task_timeout` is
never used (`task_manager.py:20, 102`); the auto-confirm settings are read once for a batch (`agent.py:402`); SeaDB caps queries
without LIMIT at 100 rows, also those of materialize (`agent.py:694`); when the database refuses the reply of a chat, its
question may stand in the session alone (`chats/utils.py:69-78`; an entry `question` of `ChatTasks`); the portal's chat clears the context before it looks at the lock (`portal/chat/apis.py:699`), so a post that is
refused has already put a break into the session; leaving a table drops what waits in its queue (`store/index.js:40`); the purge deletes
a ticket that was restored after it had read the trash (in `TicketLinks`, without a property).

## 2. Modules

| Module | Models | Composition |
|---|---|---|
| `TaskLifecycle` | abstract: what a task manager promises its clients | implemented by `IoTasks` and `AnalysisTasks` (`KeepsPromise`) |
| `IoTasks` | the IO task manager behind its endpoints | |
| `AnalysisTasks` | the analysis task manager | extends `IoTasks`, whose steps it reuses and refines |
| `IoTasksProofs` | proofs about `IoTasks`, its refinement too | extends `IoTasks` |
| `AnalysisTasksProofs` | proofs about `AnalysisTasks`, its refinement too | extends `AnalysisTasks` and `IoTasksProofs` |
| `SuggestionLife` | abstract: the life of a suggestion | implemented by sequential `AgentActions` (`KeepsToLife`) |
| `AgentActions` | agent runs, suggestions and the requests on them | |
| `AgentActionsProofs` | proofs about `AgentActions`, its refinement too | extends `AgentActions` |
| `ChatTasks` | one chat session, of a project or of the portal | |
| `ChatTasksProofs` | proofs about `ChatTasks` | extends `ChatTasks` |
| `TicketLinks` | the two sides of the links between tickets and items, in all handlers | |
| `TicketLinksProofs` | proofs about `TicketLinks` | extends `TicketLinks` |
| `MetadataStore` | the table store of the front end, its server and its queue | |
| `MetadataStoreProofs` | proofs about `MetadataStore` | extends `MetadataStore` |
| `ProjectData` | the cache of a project's tables in the browser | |
| `ProjectDataProofs` | proofs about `ProjectData` | extends `ProjectData` |
| `LiveUpdates` | the web socket of a page and the components that use it | |
| `LiveUpdatesProofs` | proofs about `LiveUpdates` | extends `LiveUpdates` |
| `MC*` | instances for TLC | |

### State and actions against the code

*`IoTasks`.* `tasks_map`, `task_results_map`, `tasks_queue` are the attributes of the manager; `worker` and
`request` are the program counters of the threads; `reply` is what the browser was told last; `lost` remembers
what a restart forgot. A handler's request is split at every access to shared state: `BeginSubmit` (the
`full()` check), `RegisterTask`, `PutTask` (blocks while the queue is full), `BeginPoll`/`LookupResult` (the two
halves of `is_valid_task_id`), `PopResult`/`RecheckMap` (the two halves of `query_status`). A worker is
`GetTask`, `StoreResult`, `CleanUp`. The four submit endpoints differ only in their task functions, which
return or raise. Task ids are fresh, so a task is submitted once.

*`AnalysisTasks`* has its own submit (`CheckProject`, `AddToMap`, `AddToQueue`, `MarkProject`) and its
own end (`RemoveTask`, `UnmarkProject`).

*`AgentActions`.* One action is one call of SeaDB, or the execution of a suggestion, together with the Python
around it. `status`, `content`, `run_status` and `suggestions_status` are columns; a row that is not there is
`unused` or `deleted`. `performed` is the outside world: the content an operation was performed with, or
`again`. `request` is what a thread remembers between calls. Every status change continues in `RefreshRead` and
`RefreshStore`. `CallFails` is an error of SeaDB, `RefreshFails` one inside the safe refresh, `Crash` the
death of the process. A run that is not completed may hold what `Placeholders` allows in the place of a summary (`utils.py:365`; `none` in
the runs, also where there are suggestions), until it completes or is materialized. Whether the settings allow auto-execution is one Boolean for the batch. Rows that are not
suggestions (prelude, analysis) are left out. Suggestions have increasing keys, as SeaDB gives them.

*`ChatTasks`.* `post[p].pc` walks through the view and then through the generator; `portal`, chosen in `Init` from `Portals`, tells which of the two
copies of the code it is, which look at the lock at different places and end their streams differently. `Interrupt` is the
`GeneratorExit` that Python raises at a `yield` when the web server closes the generator, and once more when
the generator is destroyed after it has yielded again; `Destroy` is the end of one that yielded even then. `ReadEnd` ends a stream at any
line, with or without its results (an answer of 404 or 502 is read as a stream too, since `get_ai_reply` looks for 500 only), and `Record` may store the
question alone or nothing, which the generator does not notice (`chats/utils.py:77`); `lost` remembers both. Assumed of the AI service: a stream
brings its results, or an error line, once at most.

*`TicketLinks`.* `ticket[t]` is the row of a ticket (its state and its list), `linked[i]` the column `linked_ticket` of an item. A
request reads and plans when it begins (`Create`, `Update`, `Batch`, `CreateTask`, `PutRecord`, `LinkIssue`, `UnlinkIssue`,
`AgentLink`, `AgentCreate`, `Purge`); `todo` is what it has planned, a sequence of sets of calls of SeaDB, the calls of a set being those of
one loop over a set or a dict, whose order Python leaves open. `Check` is a read of the validation (and the deletion of a ticket just
created when it is refused), `Link`, `Look`, `LookFree` and `Unlink` are the calls of `sync_links_in_connection`, `Write`, `Insert` and
`Delete` those on tickets; `Break` is the `AttributeError` of the check when issues and records come together; `Skip` is an error
that is only logged, `Fail` any other and the death of a process. A batch keeps, of two tickets for one item, the one that came last in
the dict, in any order of the rows. `Trash` and `Restore` change the state alone. Links start in any way the two sides agree.

*`MetadataStore`.* A row has one cell, which is also the column the view is grouped by; `data` is the table shown, `history` the two
stacks, `pending`, `inflight` and `sending` the queue. A step is a callback that runs to its end: an edit with everything it applies and
sends at once, an answer with everything it rewrites, pushes and sends next. `server` is what the server stores; `Execute` is the server's
step. Of several rows to delete it reports those that were gone already (`failed`), and the table takes out the others (`Succeeded`). `reload` and `confirmed` are the calls that pass the queue by. `log` is the order in which the server executed.

*`ProjectData`.* `cache` holds rows by id and, per view, its rows, filter and whether it has a time stamp; `aged` are the views older
than an hour. A call remembers the cache of the render that made it (`seen`), which `AnswerModify`, `AnswerMetadata` and others write back
as the code does. A deletion or a restoration of several rows does what can be done and is answered all the same; a modification is
refused when one of its rows is gone (`Accepts`).

*`LiveUpdates`.* `ready`, `again`, `attempts`, `timers`, `held`, `keys`, `count`, `listeners` are the fields of the client; `loop` is the
loop of `resubscribeActiveProjects` over the live Map, `asked` the tokens `subscribe` awaits. An event of a socket that is no longer
current changes nothing and is left out. `server` is what the server pushes through the current socket.

*Ghosts.* `doubt`, `touched`, `astray`, `crossed`, `moved`, `stray`, `cut`, `shut`, `doubled`, `met`, `disturbed` and `lost` are read by no
action of the code: they remember that one of the races the code has took place, so that the properties can say that nothing
*else* goes wrong. What sets them is stated at the action and in the comment of the property; for `TicketLinks` each exception was taken
out in turn, and each time TLC found the property violated, so none of them is broader than a race that exists.

## 3. What TLC checks

| Run | Instance | Distinct states | Shows |
|---|---|---|---|
| `io_tasks` | 3 tasks, 2 handlers, 2 workers, queue of 1 | 0.11 M | `NoTaskForgotten`, `NoOrphan`, `RunOnce`, the refinement `KeepsPromise`, and `ClientHears` under fairness |
| `analysis_tasks` | 3 tasks of 2 projects, 2 handlers, 2 workers | 0.26 M (symmetric) | `SoleTaskGuarded`, and the refinement `KeepsPromise` |
| `analysis_conflict` | 2 tasks of 1 project | - | violation of `ConflictMeansRunning`, see Findings |
| `agent_replace` | 2 requests at once (confirm, materialize), 1 run, 3 rows | 2.5 M (symmetric) | `NoStuckExecution`, `NeverEmptied`, `Replaced` |
| `agent_requests` | 1 request at a time of every kind, 2 runs, 2 rows, failing calls, crashes | 1.3 M | freshness, single performance, completeness, `KeepsToLife`, `RequestsEnd` |
| `agent_double` | 2 confirmations of 1 suggestion | - | violation of `PerformedOnce`, see Findings |
| `chat_tasks` | 2 posts, 1 reader, expiry, crashes; `Init` chooses the chat | 2.8 M (symmetric) | `OneReplyEach`, `LockGuards`, `GetWaits`, `EndsInTime` |
| `chat_portal_interrupt` | portal chat: 1 post | - | violation of `Concluded`, see Findings |
| `ticket_links` | 2 tickets, 2 records of a connection, 1 issue, 2 requests, failing calls | 1.3 M (symmetric) | `BothSidesAgree`, `OwnLinks` |
| `table_store` | 2 rows, 2 values, 3 operations, 1 reload, undo of depth 1 | 0.70 M | `Agreement`, `SentInOrder`, `GroupsFollowValues`, `UndoFits`, `Drains` |
| `project_data` | 2 rows, 1 saved view and the trash, 5 calls, 2 in flight | 2.4 M | `ServesWhatIsStored`, `FilterAsStored` |
| `live_updates` | 3 components of 2 projects and 1 of none, 2 attempts, 3 failures, 1 logout, 3 mounts | 0.14 M | `Subscribed`, `NoStray`, `StaysShut`, `HeardAgain` |

The runs of `IoTasks`, `ChatTasks`, `TicketLinks` and the three modules of the front end check the type invariant too. That of
`AgentActions` is there for the reader (it holds in `agent_replace`, but is not in the list of the run), and
`AnalysisTasks` states none of its own.

*Why the bounds are enough.* A queue of one is full as soon as a task waits, and with two workers and two handlers
every pair of steps that can overtake each other does; the third task makes `put` block behind a full queue.
`PageSize` 1 makes every page of "cancel all" a full one, with a page after it. Two requests are what the races of
confirm and materialize need; three rows allow two generations of suggestions. `QueryCap` is above the number
of rows, so that the cap of SeaDB does not bite. A stream of one line besides its results has every kind of
yield before and after the results; the violating run uses three so that the generator yields again after it
was closed twice. Two requests about two tickets and three items are what it takes for one to link what the other unlinks, in
either order of the two sides; two records of one connection share a call, the issue has its own, and a batch of two tickets can want
one item twice; more requests one after the other start from what `Init` allows unless the earlier left a doubt, which no later one
clears. Three operations fill the queue behind one in flight, overlap it with a reload and leave something to undo and redo; with an undo
depth of one every push reaches the limit. Two calls in flight are what an answer needs to write back over another; four let each of
them meet the trash, and the fifth lets a deletion be answered after its row was restored and fetched again. Two attempts and three failures reach the end of reconnecting and a reset in between; three mounts remount a
component after the logout. Every cap on a counter is a constant of its module (`QueueSize`, `PageSize`, `QueryCap`, `MaxLines`, `MaxRequests`,
`MaxOps`, `MaxReloads`, `MaxUndo`, `MaxCalls`, `MaxInFlight`, `MaxAttempts`, `MaxFailures`, `MaxLogouts`, `MaxMounts`), and new suggestions
end where the set `Actions` does (`NewKeys`).

*What is checked only for requests one after the other.* `SummaryFresh`, `PerformedOnce`, `PerformedAsShown`,
`ProcessedMeansDone`, `CancelAllComplete` and `KeepsToLife` do not hold of
concurrent requests: the code has read-then-write races (two confirmations; a cancel or an edit during an
execution; refreshes that overtake each other). The run `agent_double` exhibits the one that a comment of the code
denies. Properties that do hold of concurrent requests are checked with them. In `ChatTasks`, `disturbed` records
that a lock expired, a process died, or a post set its lock while another was in progress; `LockGuards` and
`GetWaits` speak of sessions where none of this has happened, the others of all.

*Fairness.* `IoTasks`: weak fairness of workers and of a handler inside a request (they are operating system
threads, and task functions return or raise; none is killed by a timeout), strong fairness of each client's next
poll being served (waitress queues requests in order of arrival, the browser polls until it hears the end). No
fairness of submitting, of restarting, or of any particular result. `AgentActions`: weak fairness of a thread going on with its request; nobody has to send one. `MetadataStore`:
every call that was sent is answered or fails in the end (`ServeQueue`; a browser's request does); the user need do nothing.
`LiveUpdates`: a socket that connects opens or fails, one that closes ends, timers fire, and tokens arrive or are refused; nobody has to mount,
unmount or log out, and no socket has to stay open. `ChatTasks` assumes no fairness: that a post ends (`EndsInTime`) is stated as a rank that every
step lowers together with a step that is always possible, where a read from the AI service ends (its requests have a timeout) and streams
are finite. `TicketLinks` and `ProjectData` have safety properties only.

*Deadlock* is checked for the task managers and for sequential and concurrent agent requests. It is off where the instance comes to
rest: chats when all posts are over, stores, cache, socket and tickets when the bounded operations are used up, and in the run with a
violation of `PerformedOnce`.

Operators marked "Faulty variant for the checks" are what plausible mistakes would make of the operator after them: each
property is violated when its variant takes the operator's place (PROJECT.json, "mutants"). Nothing else refers to them.

## 4. What TLAPS proves

`IoTasksProofs`, for any sets of tasks, handlers and workers and any queue size above zero (`QueueAssumption`,
`NoneAssumption`):

- `TypeCorrect`: `Spec => []TypeOK`, which includes the bound of the queue;
- `NothingForgotten`: `Spec => []NoTaskForgotten`;
- `NothingOrphaned`: `Spec => []NoOrphan`;
- `EverythingRunsOnce`: `Spec => []RunOnce`.

All follow from one inductive invariant, `IInv` (`Invariance`). None of the four is inductive by itself. That no task is
forgotten depends on the worker's result being there when it drops the task (`Stored`), which depends on the
worker's task being registered and in no other worker's hands (`Working`, `RunOnce`), which depends on what is in the
queue being registered and there once (`Queued`), which depends on a task that is being put into the queue not being
there yet, because its client has heard nothing of it (`Fresh`, `Heard`, `Handling`). Each conjunct was first
checked by TLC on the instance of `io_tasks`. The proof has one lemma per action (`BeginSubmitStep` ... `RestartStep`),
combined in `InvNext`.

`PromiseKept`: `Spec => KeepsPromise` is the refinement of `TaskLifecycle`. Every step is a step of the promise or changes
nothing that a client can see (`Unseen`). Besides `IInv` this needs that a registered task was not lost and that whoever is about to drop it has stored
its result (`Registered`), and that a result belongs to a task that was acknowledged (`Known`).

`AnalysisTasksProofs`, for any projects too (`ProjectAssumption`):

- `AnalysisTypes`, `AnalysisKept`, `AnalysisOnce`, `AnalysisFound`: `TypeOK`, `NoOrphan`, `RunOnce` and `NoTaskForgotten` of the IO manager;
- `SoleGuarded`: `AnalysisSpec => []SoleTaskGuarded`;
- `AnalysisPromise`: `AnalysisSpec => KeepsPromise`.

`IInv` does not hold here: a task is in the queue before its client has the id, so that a worker may be done with it while its request is
still about to mark the project. The invariant `AnInv` says instead what a task is that its client has not been given (`Untold`, `Open`), and
that a task on its way to the mark can be found already (`Findable`). A mark set after its task has ended is the finding
of section 5; `SoleTaskGuarded` is what is left.

`LiveUpdatesProofs`, for any projects, any finite set of components and any bounds (`ComponentsAssumption`, `BoundAssumption`):

- `TypeCorrect`: `Spec => []TypeOK`;
- `StaysSubscribed`: `Spec => []Subscribed`;
- `NothingElsePushed`: `Spec => []NoStray`;
- `LogoutIsFinal`: `Spec => []StaysShut`.

Here too the four follow from one inductive invariant (`Invariance`). `TypeInv` needs that sockets which failed, timers and a closing socket are
paid for by the bound on failures (`Bounded`). `StaysShut` needs that without a second timer there is one timer at most and the client holds
it (`Alone`), so that `close` clears it. `NoStray` needs that a token is awaited only for a project that has an entry or was left
meanwhile, and that a socket that is connecting pushes nothing (`TokensKnown`). `Subscribed` speaks of cardinalities of sets of components: mounting and
unmounting use the facts about finite sets that the library proves.

`ChatTasksProofs`, for any posts, readers and lengths of the streams, in the project and in the portal, with expiring locks and crashes
(`FlagAssumption`, `LinesAssumption`, `NoneAssumption`):

- `ChatTypes`: `Spec => []TypeOK`;
- `OneReply`: `Spec => []OneReplyEach`; `LockIsExact`: `Spec => []LockGuards`; `ReaderWaits`: `Spec => []GetWaits`;
- `PostsNearTheirEnd`: `Spec => NearsEnd`, the half of `EndsInTime` without ENABLED: every step of a post lowers its rank.

`OneReply` says that a reply is recorded once at most and that in a project's chat a concluded post has it unless it is `lost`: that a
client goes, a connection breaks, a stream cannot be opened or a question is turned down costs no reply. `ReaderWaits` has the same
exception: then there is nothing to wait for, and the reader is given an older message.

The invariant `CInv` adds where a reply can be recorded already (`Placed`), that the session then holds it once unless it is lost (`Counted`, `Turned`) and where the
post of a stream can be that a reader found running (`Watched`, `Streamed`). The proof corrected a property: `GetWaits` was stated without its exception, which is
false in the portal for streams of three lines or more, where a generator is destroyed before there is a reply (finding 3); TLC's streams of two lines had not shown it.

`AgentActionsProofs`. For any runs, suggestions, page sizes and number of requests at once, with failing calls and crashes:

- `AgentTypes`: `Spec => []TypeOK`; `NoneStuck`: `Spec => []NoStuckExecution`;
- `NeverWithout`: `Spec => NeverEmptied`; `AllReplaced`: `Spec => Replaced`, both action properties.

For one request at a time (`Requests = {one}`, as in the run `agent_requests` and for the reason given above):

- `Once`, `AsShown`, `Fresh`, `Processed`: `PerformedOnce`, `PerformedAsShown`, `SummaryFresh`, `ProcessedMeansDone`;
- `AllCancelled`: `Spec => CancelAllComplete`; `LifeKept`: `Spec => KeepsToLife`, the refinement of `SuggestionLife`.

`AInv` holds whatever other requests do: who executes has its suggestion in hand (`Executes`, `Held`), and a suggestion is deleted only when a later one of its run was
there (`Superseded`, `Replacing`), which is why a run is never empty. `LInv` adds what a request alone knows of its row (`Deals`) and that what was never
executed was never performed (`Unspoilt`); `FInv` adds which summaries are still owed (`Owes`, `Tallied`) and that
a page of "cancel all" leaves nothing open below it (`Cleared`). `Fresh` is about completed runs, whatever the others hold in the place of a summary.
Assumed: keys are positive (the cursor starts at 0; `ActionsAssumption`), there is a run (`RunsAssumption`), and placeholders are among the values
of the column (`PlaceholdersAssumption`).

`MetadataStoreProofs`, for any rows, values, depth of undo, numbers of operations and reloads (`RowsAssumption`, `ValuesAssumption`, `EchoAssumption`, `BoundAssumption`):

- `MetadataTypes`: `Spec => []TypeOK`;
- `SentOnce`: `SentInOrder`; `GroupsHold`: `GroupsFollowValues`; `UndoStartsFromShown`: `UndoFits`; `TableAgrees`: `Agreement`.

The inductive invariant is `MInv`. The queue is ascending, behind one operation in flight at most, and above what was executed (`Queue`, `Logged`).
The entries of a row in the two stacks are chains: each starts from what the one before made, and the last made what is shown (`Leads`,
`Follows`, `Stacks`); identifiers name one operation in stacks and queue together (`Orderly`), so that a refusal takes its own entry out. `Agreement` follows from
`Table`: the row shows the newest operation that waits (`Agrees`), and the waiting operations of a row are a chain from the
server's value to the one shown (`Chained`), so that a refusal, which puts the old value back, lands on what the server has. That it is enough to take out the rows
whose deletion the server reports as done needs that a row it could not delete is in the table no more (`Gone`). The proof corrected the property
here too: a refusal of an undo taken from stacks that another operation's handler had filled twice (`crossed`) puts back a value the server does not have.
It takes five operations; TLC had three, and confirmed it when given five. `AnswerRefused` now records that race in `doubt`, as
it records the others.

`TicketLinksProofs`, for any tickets, connections, records and issues, any batches of tickets, any number of requests at once and in all, with failing
calls (`TicketAssumption`, `ConnectionAssumption`, `BatchAssumption`, `BoundAssumption`):

- `LinkTypes`: `Spec => []TypeOK`; `SidesAgree`: `Spec => []BothSidesAgree`; `LinksOwned`: `Spec => OwnLinks`, an action property.

`BothSidesAgree` speaks of items nobody is at work on, so the invariant `TInv` has to say what the requests at work will make of theirs.
`Settles` is that what is left of a request gives an item the ticket whose list it will be in (`TicketAfter`, `ListedAfter`), provided that the checks
it still has before it find the item free (`Comes`); `Knows` is what it may rely on when it breaks off, gets no for an answer or rolls back
(`Plans`). That its plan stays right needs that no one else touches its tickets and items: whoever is about one of them knows of it
and both put what they are about in doubt (`Meeting`). What it stores of other items is what they had (`Others`). The calls have an order, checks before
changes (`Sound`, `Shaped`), without which a check would come too late for `Owning`: what is linked or unlinked is the request's own or still to be
checked, which gives `OwnLinks`. There is a lemma for each operation that begins (`CreateKeeps` ... `PurgeKeeps`, by `BeginKeeps`: it is enough that the
plan is right at the start, `Starts`), one for each call (`LinkKeeps` ... `SkipKeeps`, by `StepKeeps`: others are undisturbed), and lemmas about the
sequences of sets of calls that plans are made of (`SoundConcat`, `FollowingFacts`, `JoinFacts`).

`ProjectDataProofs`, for any rows, values, saved views and numbers of calls (`RowsAssumption`, `ValuesAssumption`, `ViewsAssumption`, `BoundAssumption`):

- `ProjectDataTypes`: `Spec => []TypeOK`;
- `ServesStored`: `Spec => []ServesWhatIsStored`; `FiltersStored`: `Spec => []FilterAsStored`.

`ServesWhatIsStored` speaks of rows no call is about, so the inductive invariant `DataInv` says what holds of the others. A row is `Settled` for a view when no
call that the server executed has still to bring it there; for such rows view, map and server agree (`RowsAgree`, `ValuesAgree`). A fetch that was
executed carries what the server still stores of settled rows (`FetchedAgrees`), a row that was deleted stays so or is restored by a call that is not answered
either, and the other way round (`Undone`), and of two changes of a row one that waits carries the value stored (`ModifiedAgrees`). A call that another answer
has passed promises nothing. `FilterAsStored` needs that a view has one change of its filter on its way at most (`OneFilterEach`). The
proof corrected the property a third time: when a deletion is answered after its row was restored and its view fetched again, the
answer takes the row out of the view, and likewise a restoration out of the trash. TLC, which had four calls, confirmed it with five; `AnswerDelete` and
`AnswerRestore` now record it in `doubt` (`Late`) and the run has five. It also freed the property from two exceptions that were not needed:
views whose filter is being changed, and rows purged from the trash.

Left to TLC: liveness (`ClientHears`, `RequestsEnd`, `Drains`, `HeardAgain`) and the half of `EndsInTime` with ENABLED, which
the prover does not treat. Every other property of a passing run is the subject of a theorem.

## 5. Findings

1. **A project can be refused for good** (`analysis_conflict`). `analysis_task_manager.py:64-65` queues the task and
   then marks the project. A worker that finishes in between takes off nothing, and the mark set afterwards is never
   taken off: until a restart every request answers "This project already has a running analysis task." (`server.py:178`).
2. **A suggestion can be executed twice** (`agent_double`). The status is read and written in two calls; the comments
   "only process pending actions" (`agent.py:443`) and "concurrency guard" (`agent.py:470`) promise more.
3. **The portal loses a reply when its client goes** (`chat_portal_interrupt`). The generator is commented "continues to
   receive data even client interrupts the stream" (`portal/chat/utils.py:405`) but yields again after `GeneratorExit`, which
   ends it; its twin in `chats/utils.py` stops yielding. The reply is not recorded and the lock stays until it expires.

A fourth defect is in `TicketLinks` without a run of its own (action `Break`): `check_ticket_link_changes` puts issues to link under the key
`portal` among the connections and then looks every key up among the connections of the project (`ticket_utils.py:1342-1345`). As soon as the
same request also links or unlinks a record, the lookup gives `None` and the check dies of an `AttributeError`. An update is then answered with
an error and changes nothing; a creation leaves a ticket with a list no item knows of, past the rollback at `tickets.py:421-424`.

Further behaviours that the models contain and no text of the repository contradicts are listed with their lines under
"hazards" in PROJECT.json.

## 6. Plan

Done: `TaskLifecycle`, `IoTasks`, `AnalysisTasks`, `IoTasksProofs`, `SuggestionLife`, `AgentActions`, `ChatTasks`, `MetadataStore`,
`ProjectData`, `LiveUpdates`, `LiveUpdatesProofs`, `TicketLinks`, `AnalysisTasksProofs`,
`ChatTasksProofs`, `AgentActionsProofs`, `MetadataStoreProofs`, `TicketLinksProofs`, `ProjectDataProofs`.

No further modules are planned: what is left (section 1) is single reads and writes, other services, or rendering.
