---------------------------- MODULE ProjectData ----------------------------
(***************************************************************************)
(* The cache of a project's tables in the browser:                         *)
(* frontend/src/project/hooks/data.js.                                     *)
(*                                                                         *)
(* One table, with its rows by id (id_row_map), the rows of its saved      *)
(* views (id_view_map) and those of its trash (built_in_view_map).  Every  *)
(* operation calls the server and changes the cache when it is answered.   *)
(* Some answers change the newest cache (a function passed to setData);    *)
(* others write back what they computed from the cache of the render that  *)
(* made the call, and lose what happened in between.                       *)
(***************************************************************************)
EXTENDS Naturals, FiniteSets

CONSTANTS
  Rows,        \* rows of the table
  Initial,     \* rows the server stores when the project is opened
  Values,      \* values of a row
  Default,     \* the value of a new row
  Saved,       \* saved views
  Trash,       \* the built-in view of deleted rows
  Missing,     \* no such row in id_row_map
  MaxCalls,    \* bound: calls
  MaxInFlight  \* bound: calls made before their answers came

ASSUME RowsAssumption == Initial \subseteq Rows /\ Missing \notin Values
ASSUME ValuesAssumption == Default \in Values
ASSUME ViewsAssumption == Trash \notin Saved
ASSUME BoundAssumption == MaxCalls \in Nat /\ MaxInFlight \in Nat \ {0}

VARIABLES
  cache,    \* the table in the browser: rows by id, and the views
  aged,     \* views fetched more than an hour ago
  server,   \* the table at the server: rows, and the filters of the views
  calls,    \* calls in flight
  ncalls,   \* calls made so far
  doubt,    \* views that may show something else than the server stores
  astray,   \* saved views whose filter may be another one at the server
  moved     \* per view: rows that may have left or entered it since it was fetched

vars == <<cache, aged, server, calls, ncalls, doubt, astray, moved>>

Views == Saved \cup {Trash}

\* A saved view shows the live rows whose value passes its filter.
Filters == {Values, {Default}}

CachedView == [rows : SUBSET Rows, stamp : BOOLEAN, filter : Filters]
Cache == [map : [Rows -> Values \cup {Missing}], view : [Views -> CachedView]]
Server == [state : [Rows -> {"unborn", "live", "trashed", "gone"}],
           value : [Rows -> Values], filter : [Saved -> Filters]]

ServerRows(v) ==
  IF v = Trash THEN {r \in Rows : server.state[r] = "trashed"}
  ELSE {r \in Rows : server.state[r] = "live" /\ server.value[r] \in server.filter[v]}

-----------------------------------------------------------------------------
(* What a view is answered from the cache *)

\* shouldReload (project/utils.js): never fetched, expired, or older than an hour.
ShouldReload(v) == ~cache.view[v].stamp \/ v \in aged

\* getMetadata answers without a call when the view holds rows that are not too old.
\* Rows that id_row_map does not hold are left out of the answer.
Served(v) == ~ShouldReload(v) /\ cache.view[v].rows # {}
ServedRows(v) == {r \in cache.view[v].rows : cache.map[r] # Missing}

-----------------------------------------------------------------------------
(* Calls.  A call remembers the cache of the render that made it. *)

\* passed: another answer has changed the cache since the call was made; raced: a
\* filter was stored after the server had answered.
Call(kind, v, rs, x, f) ==
  [id |-> ncalls + 1, kind |-> kind, view |-> v, rows |-> rs, value |-> x, filter |-> f,
   phase |-> "asked", seen |-> cache, result |-> server, passed |-> FALSE, raced |-> FALSE]

\* The calls made before the cache changes.
Passed(cs) == {[d EXCEPT !.passed = TRUE] : d \in cs}

Ask(kind, v, rs, x, f) ==
  /\ ncalls < MaxCalls /\ Cardinality(calls) < MaxInFlight
  /\ ncalls' = ncalls + 1
  /\ calls' = (IF kind = "filter" THEN Passed(calls) ELSE calls) \cup {Call(kind, v, rs, x, f)}
  /\ UNCHANGED <<aged, server, doubt, astray, moved>>

\* A view is opened, or reloaded.
GetMetadata(v, is_reload) ==
  /\ ~is_reload => ~Served(v)
  /\ Ask(IF is_reload THEN "reload" ELSE "load", v, {}, Default, Values)
  /\ UNCHANGED cache

GetTableViews == Ask("views", Trash, {}, Default, Values) /\ UNCHANGED cache

ModifyRow(r, x) ==
  /\ cache.map[r] # Missing /\ cache.map[r] # x
  /\ Ask("modify", Trash, {r}, x, Values)
  /\ UNCHANGED cache

DeleteRows(rs) ==
  /\ rs # {} /\ \A r \in rs : cache.map[r] # Missing
  /\ Ask("delete", Trash, rs, Default, Values)
  /\ UNCHANGED cache

InsertRow(r) ==
  /\ server.state[r] = "unborn" /\ \A c \in calls : r \notin c.rows
  /\ Ask("insert", Trash, {r}, Default, Values)
  /\ UNCHANGED cache

RestoreRows(rs) ==
  /\ rs # {} /\ rs \subseteq cache.view[Trash].rows
  /\ Ask("restore", Trash, rs, Default, Values)
  /\ UNCHANGED cache

ClearTrash == Ask("clear", Trash, {}, Default, Values) /\ UNCHANGED cache

\* The filter of a view is changed in the cache first, then at the server.  The store of
\* the view sends one change at a time.
ChangingFilter(v) == \E c \in calls : c.kind = "filter" /\ c.view = v

ModifyView(v, f) ==
  /\ ~ChangingFilter(v)
  /\ cache.view[v].filter # f
  /\ Ask("filter", v, {}, Default, f)
  /\ cache' = [cache EXCEPT !.view[v] = [rows |-> {}, stamp |-> FALSE, filter |-> f]]

-----------------------------------------------------------------------------
(* The server *)

SetRows(rs, from, to) ==
  [server EXCEPT !.state = [r \in Rows |-> IF r \in rs /\ server.state[r] = from THEN to
                                           ELSE server.state[r]]]

\* What a call does to the table, where it is accepted.
Executed(c) ==
  CASE c.kind = "modify" -> [server EXCEPT !.value = [r \in Rows |-> IF r \in c.rows THEN c.value
                                                                     ELSE server.value[r]]]
    [] c.kind = "delete" -> SetRows(c.rows, "live", "trashed")
    [] c.kind = "insert" -> SetRows(c.rows, "unborn", "live")
    [] c.kind = "restore" -> SetRows(c.rows, "trashed", "live")
    [] c.kind = "clear" -> SetRows(Rows, "trashed", "gone")
    [] c.kind = "filter" -> [server EXCEPT !.filter[c.view] = c.filter]
    [] OTHER -> server

\* A change of a row that is not live is refused.  Deletions and restorations are done
\* for the rows where there is something to do, and answered all the same; the cache
\* does not look which ones the answer lists as failed.
Accepts(c) == c.kind = "modify" => \A r \in c.rows : server.state[r] = "live"

Fetches(c, v) == c.kind = "views" \/ (c.kind \in {"load", "reload"} /\ c.view = v)

Execute(c) ==
  /\ c.phase = "asked"
  /\ Accepts(c)
  /\ server' = Executed(c)
  /\ calls' = {[d EXCEPT !.raced = @ \/ (c.kind = "filter" /\ d.phase = "done"
                                           /\ Fetches(d, c.view))] : d \in calls \ {c}}
              \cup {[c EXCEPT !.phase = "done", !.result = Executed(c)]}
  /\ doubt' = IF c.kind = "filter" /\ cache.view[c.view].stamp THEN doubt \cup {c.view} ELSE doubt
  /\ moved' = [v \in Views |-> IF c.kind = "modify" /\ v # Trash THEN moved[v] \cup c.rows
                               ELSE moved[v]]
  /\ UNCHANGED <<cache, aged, ncalls, astray>>

\* The server refuses, or the call does not reach it.  The cache keeps what it has: a
\* filter that was not stored stays in it.
Fail(c) ==
  /\ c.phase = "asked"
  /\ calls' = calls \ {c}
  /\ astray' = IF c.kind = "filter" THEN astray \cup {c.view} ELSE astray
  /\ UNCHANGED <<cache, aged, server, ncalls, doubt, moved>>

-----------------------------------------------------------------------------
(* Answers *)

Answered(c, kinds) ==
  /\ c.phase = "done" /\ c.kind \in kinds
  /\ calls' = Passed(calls \ {c})
  /\ UNCHANGED <<server, ncalls>>

ResultRows(c) ==
  IF c.view = Trash THEN {r \in Rows : c.result.state[r] = "trashed"}
  ELSE {r \in Rows : c.result.state[r] = "live" /\ c.result.value[r] \in c.result.filter[c.view]}

\* The views of the map that the view is in, as the call saw them.
SeenViews(c) ==
  [w \in Views |-> IF (w = Trash) = (c.view = Trash) THEN c.seen.view[w] ELSE cache.view[w]]

KeptRows(c) == IF c.kind = "reload" THEN {} ELSE c.seen.view[c.view].rows

\* The rows fetched are added to the id_row_map and the view map that the call saw, and
\* both are written back.
AnswerMetadata(c) ==
  /\ Answered(c, {"load", "reload"})
  /\ cache' = [map |-> [r \in Rows |-> IF r \in ResultRows(c) THEN c.result.value[r]
                                       ELSE c.seen.map[r]],
               view |-> [SeenViews(c) EXCEPT ![c.view].rows = KeptRows(c) \cup ResultRows(c),
                                             ![c.view].stamp = TRUE]]
  /\ aged' = aged \ {c.view}
  /\ doubt' = IF c.passed THEN Views
              ELSE IF c.raced THEN doubt \cup {c.view}
              ELSE IF KeptRows(c) = {} THEN doubt \ {c.view} ELSE doubt
  /\ astray' = IF c.passed THEN Saved ELSE astray
  /\ moved' = IF KeptRows(c) = {} THEN [moved EXCEPT ![c.view] = {}] ELSE moved

\* Faulty variant for the checks: the views stay as they were.
AnswerViewsKeepingOld(c) ==
  /\ Answered(c, {"views"})
  /\ cache' = [cache EXCEPT !.view = [v \in Views |-> IF v = Trash THEN cache.view[v]
                                                      ELSE c.seen.view[v]]]
  /\ doubt' = IF c.passed THEN Views ELSE doubt
  /\ astray' = IF c.passed \/ c.raced \/ \E d \in calls : d.kind = "filter" THEN Saved ELSE {}
  /\ UNCHANGED <<aged, moved>>

\* The views are merged with those the call saw; a view whose filter differs is expired.
AnswerViews(c) ==
  /\ Answered(c, {"views"})
  /\ cache' = [cache EXCEPT !.view = [v \in Views |->
       IF v = Trash THEN cache.view[v]
       ELSE IF c.seen.view[v].filter = c.result.filter[v] THEN c.seen.view[v]
       ELSE [rows |-> {}, stamp |-> FALSE, filter |-> c.result.filter[v]]]]
  /\ doubt' = IF c.passed THEN Views ELSE doubt
  /\ astray' = IF c.passed \/ c.raced \/ \E d \in calls : d.kind = "filter" THEN Saved ELSE {}
  /\ UNCHANGED <<aged, moved>>

\* modifyLocalRows: the id_row_map that the call saw, with the change, is written back,
\* unless the row had the value already.
AnswerModify(c) ==
  /\ Answered(c, {"modify"})
  /\ cache' = IF \A r \in c.rows : c.seen.map[r] = c.value THEN cache
              ELSE [cache EXCEPT !.map = [r \in Rows |-> IF r \in c.rows THEN c.value
                                                         ELSE c.seen.map[r]]]
  /\ doubt' = IF c.passed THEN Views ELSE doubt
  /\ UNCHANGED <<aged, astray, moved>>

\* Faulty variant for the checks: only the timestamp is reset.
ExpiredKeepingRows(v) == [cache.view[v] EXCEPT !.stamp = FALSE]

Expired(v) == [cache.view[v] EXCEPT !.rows = {}, !.stamp = FALSE]

Without(v, rs) == [cache.view[v] EXCEPT !.rows = @ \ rs]

\* What the call did to a row was undone, and the cache changed, before its answer: the
\* answer takes the row out of a view that was fetched with it.
Late(c, state) == c.passed /\ \E r \in c.rows : server.state[r] = state

\* updateDataByDeleteRows: views that are too old are left as they are.
AnswerDelete(c) ==
  /\ Answered(c, {"delete"})
  /\ cache' = [map |-> [r \in Rows |-> IF r \in c.rows THEN Missing ELSE cache.map[r]],
               view |-> [v \in Views |-> IF ShouldReload(v) THEN cache.view[v]
                                         ELSE IF v = Trash THEN Expired(v)
                                         ELSE Without(v, c.rows)]]
  /\ moved' = [v \in Views |-> IF ShouldReload(v) THEN moved[v] \cup c.rows ELSE moved[v]]
  /\ doubt' = IF Late(c, "live") THEN doubt \cup Saved ELSE doubt
  /\ UNCHANGED <<aged, astray>>

\* Faulty variant for the checks: the views keep their rows.
AnswerInsertKeepingRows(c) ==
  /\ Answered(c, {"insert"})
  /\ UNCHANGED <<cache, aged, doubt, astray, moved>>

\* initDataWithInsertRow: every view but the trash is fetched again.
AnswerInsert(c) ==
  /\ Answered(c, {"insert"})
  /\ cache' = [cache EXCEPT !.view = [v \in Views |->
                 IF v # Trash THEN Expired(v) ELSE cache.view[v]]]
  /\ UNCHANGED <<aged, doubt, astray, moved>>

AnswerRestore(c) ==
  /\ Answered(c, {"restore"})
  /\ cache' = [cache EXCEPT !.view = [v \in Views |->
                 IF v # Trash THEN Expired(v) ELSE Without(v, c.rows)]]
  /\ doubt' = IF Late(c, "trashed") THEN doubt \cup {Trash} ELSE doubt
  /\ UNCHANGED <<aged, astray, moved>>

\* clearViewRows
AnswerClear(c) ==
  /\ Answered(c, {"clear"})
  /\ cache' = [cache EXCEPT !.view[Trash].rows = {}]
  /\ UNCHANGED <<aged, doubt, astray, moved>>

AnswerFilter(c) == Answered(c, {"filter"}) /\ UNCHANGED <<cache, aged, doubt, astray, moved>>

-----------------------------------------------------------------------------
Init ==
  /\ server = [state |-> [r \in Rows |-> IF r \in Initial THEN "live" ELSE "unborn"],
               value |-> [r \in Rows |-> Default], filter |-> [v \in Saved |-> Values]]
  /\ cache = [map |-> [r \in Rows |-> Missing],
              view |-> [v \in Views |-> [rows |-> {}, stamp |-> FALSE, filter |-> Values]]]
  /\ aged = {} /\ calls = {} /\ ncalls = 0
  /\ doubt = {} /\ astray = {} /\ moved = [v \in Views |-> {}]

\* An hour passes for the rows of a view.
Age(v) ==
  /\ cache.view[v].stamp /\ v \notin aged
  /\ aged' = aged \cup {v}
  /\ UNCHANGED <<cache, server, calls, ncalls, doubt, astray, moved>>

User ==
  \/ \E v \in Views, is_reload \in BOOLEAN : GetMetadata(v, is_reload)
  \/ GetTableViews
  \/ \E r \in Rows, x \in Values : ModifyRow(r, x)
  \/ \E rs \in SUBSET Rows : DeleteRows(rs)
  \/ \E r \in Rows : InsertRow(r)
  \/ \E rs \in SUBSET Rows : RestoreRows(rs)
  \/ ClearTrash
  \/ \E v \in Saved, f \in Filters : ModifyView(v, f)

Answer(c) ==
  \/ AnswerMetadata(c) \/ AnswerViews(c) \/ AnswerModify(c) \/ AnswerDelete(c)
  \/ AnswerInsert(c) \/ AnswerRestore(c) \/ AnswerClear(c) \/ AnswerFilter(c)

Next ==
  \/ User
  \/ \E c \in calls : Execute(c) \/ Fail(c) \/ Answer(c)
  \/ \E v \in Views : Age(v)

Spec == Init /\ [][Next]_vars

-----------------------------------------------------------------------------
(* Properties *)

Kinds == {"load", "reload", "views", "modify", "delete", "insert", "restore", "clear", "filter"}

\* Every variable has its type, and a view that was expired or never fetched holds no
\* rows that a later answer could add to (data.js:78, 184-187, 303, 602-616).
TypeOK ==
  /\ \A v \in Views : cache.view[v].rows # {} => cache.view[v].stamp
  /\ cache \in Cache /\ server \in Server
  /\ aged \subseteq Views /\ doubt \subseteq Views /\ astray \subseteq Saved
  /\ ncalls \in 0..MaxCalls /\ moved \in [Views -> SUBSET Rows]
  /\ \A c \in calls : c.kind \in Kinds /\ c.seen \in Cache /\ c.rows \subseteq Rows

Busy == UNION {c.rows : c \in calls}
Clearing == \E c \in calls : c.kind = "clear"

\* A view that is answered from the cache shows what the server would answer
\* (data.js:268-371, 528-688): no deleted row, every inserted and restored row, and the
\* stored values.  The exceptions are the races of the code: an answer has written back
\* an older cache, a late answer took out rows that were deleted or restored again since, a
\* fetch overlapped a new filter, and rows whose change moved them into or out of the view,
\* which no change of a row looks at.
ServesWhatIsStored ==
  \A v \in Views \ doubt :
    Served(v) /\ ~(v = Trash /\ Clearing) =>
      \A r \in Rows \ Busy :
        /\ r \notin moved[v] => (r \in ServedRows(v) <=> r \in ServerRows(v))
        /\ r \in ServedRows(v) => cache.map[r] = server.value[r]

\* The filter that the browser shows for a view is the stored one (data.js:88-123,
\* 176-192), unless storing it failed or a list of views was under way meanwhile.
FilterAsStored ==
  \A v \in Saved \ astray : ~ChangingFilter(v) => cache.view[v].filter = server.filter[v]
=============================================================================
