------------------------- MODULE ProjectDataProofs -------------------------
(***************************************************************************)
(* Proofs about ProjectData: type correctness, that a view answered from   *)
(* the cache shows what the server stores, and that the filters of the     *)
(* views are the stored ones.                                              *)
(*                                                                         *)
(* The properties speak of states in which the calls about a row have been *)
(* answered.  The invariant says what holds in between: what a call that   *)
(* was executed and not yet answered carries agrees with the server, but   *)
(* for what other such calls will bring in their turn.  A call that        *)
(* another answer has passed promises nothing: its answer puts every view  *)
(* in doubt.                                                               *)
(***************************************************************************)
EXTENDS ProjectData, TLAPS

-----------------------------------------------------------------------------
(* The strengthening *)

\* A call, typed.
CallRec ==
  [id : Nat, kind : Kinds, view : Views, rows : SUBSET Rows, value : Values,
   filter : Filters, phase : {"asked", "done"}, seen : Cache, result : Server,
   passed : BOOLEAN, raced : BOOLEAN]

\* A view that holds rows has a time stamp.
Stamped(ca) == \A v \in Views : ca.view[v].rows # {} => ca.view[v].stamp

Types ==
  /\ cache \in Cache /\ server \in Server
  /\ aged \subseteq Views /\ doubt \subseteq Views /\ astray \subseteq Saved
  /\ ncalls \in 0..MaxCalls /\ moved \in [Views -> SUBSET Rows]
  /\ calls \subseteq CallRec
  /\ Stamped(cache)
  /\ \A c \in calls : Stamped(c.seen) /\ (c.kind = "filter" => c.view \in Saved)

\* The server has executed a call of one of the kinds about the row, and the cache has not
\* had its answer.
Pending(kinds, r) ==
  \E c \in calls : c.phase = "done" /\ c.kind \in kinds /\ r \in c.rows

\* The calls that change what a view shows of a row.
Touching(v) == IF v = Trash THEN {"delete", "restore"}
               ELSE {"delete", "restore", "insert", "modify"}

\* The trash was emptied at the server, and the cache has not had the answer.
Emptied == \E c \in calls : c.phase = "done" /\ c.kind = "clear"

\* A row of a view, where no answer about it is due.
Settled(v, r) == ~Pending(Touching(v), r) /\ ~(v = Trash /\ Emptied)

RowsAgree ==
  \A v \in Views, r \in Rows :
    v \notin doubt /\ cache.view[v].rows # {} /\ r \notin moved[v] /\ Settled(v, r) =>
      /\ r \in cache.view[v].rows <=> r \in ServerRows(v)
      /\ r \in cache.view[v].rows => cache.map[r] # Missing

ValuesAgree ==
  \A v \in Views, r \in Rows :
    v \notin doubt /\ r \in cache.view[v].rows /\ cache.map[r] # Missing
      /\ ~Pending({"modify"}, r) => cache.map[r] = server.value[r]

\* A filter is stored, or on its way.
FiltersAgree ==
  \A v \in Saved \ astray :
    /\ (\A c \in calls : ~(c.kind = "filter" /\ c.view = v /\ c.phase = "asked")) =>
         cache.view[v].filter = server.filter[v]
    /\ \A c \in calls : c.kind = "filter" /\ c.view = v /\ c.phase = "asked" =>
         cache.view[v].filter = c.filter

OneFilterEach ==
  \A c, d \in calls : c.kind = "filter" /\ d.kind = "filter" /\ c.view = d.view => c = d

\* A row is in the view, filter aside.
In(v, state) == IF v = Trash THEN state = "trashed" ELSE state = "live"

\* What a fetch brings is what the server still stores, but for what other calls have done
\* that are not answered either.
FetchedAgrees(c) ==
  /\ \A r \in Rows : ~Pending({"modify"}, r) => c.result.value[r] = server.value[r]
  /\ \A r \in Rows : Settled(c.view, r) =>
       (In(c.view, c.result.state[r]) <=> In(c.view, server.state[r]))
  /\ c.raced \/ c.view = Trash \/ c.result.filter[c.view] = server.filter[c.view]

ListedAgrees(c) == c.raced \/ c.result.filter = server.filter

ModifiedAgrees(c) ==
  /\ \A v \in Saved : c.rows \subseteq moved[v]
  /\ \A r \in c.rows :
       \E d \in calls : d.phase = "done" /\ d.kind = "modify" /\ r \in d.rows
                        /\ d.value = server.value[r]


\* The calls that make a row live.
Reviving == {"restore", "insert"}

\* A row that was deleted, or restored, does not stand as before, unless a call that is not
\* answered either has changed it back.
Undone(c, state, kinds) == \A r \in c.rows : server.state[r] = state => Pending(kinds, r)

CallAgrees(c) ==
  /\ c.kind # "filter" => c.seen = cache
  /\ c.phase = "done" =>
       /\ c.kind \in {"load", "reload"} => FetchedAgrees(c)
       /\ c.kind = "views" => ListedAgrees(c)
       /\ c.kind = "modify" => ModifiedAgrees(c)
       /\ c.kind = "delete" => Undone(c, "live", Reviving)
       /\ c.kind = "restore" => Undone(c, "trashed", {"delete"})

CallsAgree == \A c \in calls : ~c.passed => CallAgrees(c)

DataInv ==
  Types /\ RowsAgree /\ ValuesAgree /\ FiltersAgree /\ OneFilterEach /\ CallsAgree

-----------------------------------------------------------------------------
(* Calls *)

\* The same call, but for what the passing of other calls leaves on it.
Same(d, e) ==
  /\ d.id = e.id /\ d.kind = e.kind /\ d.view = e.view /\ d.rows = e.rows
  /\ d.value = e.value /\ d.filter = e.filter /\ d.phase = e.phase
  /\ d.seen = e.seen /\ d.result = e.result

\* Passing a call changes nothing else of it.
LEMMA PassedCall ==
  ASSUME NEW e \in CallRec
  PROVE  /\ [e EXCEPT !.passed = TRUE] \in CallRec
         /\ Same([e EXCEPT !.passed = TRUE], e)
         /\ [e EXCEPT !.passed = TRUE].passed
BY DEF CallRec, Same

\* The calls after one was answered: all passed, otherwise the ones there were.
LEMMA PassedCalls ==
  ASSUME NEW cs \in SUBSET CallRec
  PROVE  /\ Passed(cs) \subseteq CallRec
         /\ \A d \in Passed(cs) : d.passed /\ \E e \in cs : Same(d, e)
         /\ \A e \in cs : \E d \in Passed(cs) : Same(d, e)
<1>1. \A e \in cs : /\ [e EXCEPT !.passed = TRUE] \in CallRec
                    /\ Same([e EXCEPT !.passed = TRUE], e)
                    /\ [e EXCEPT !.passed = TRUE].passed
  BY PassedCall
<1> QED BY <1>1 DEF Passed

\* At most one call about each filter.
OneEach(cs) ==
  \A c, d \in cs : c.kind = "filter" /\ d.kind = "filter" /\ c.view = d.view => c = d

LEMMA PassedFilters ==
  ASSUME NEW cs \in SUBSET CallRec, OneEach(cs)
  PROVE  OneEach(Passed(cs))
<1>1. SUFFICES ASSUME NEW d1 \in Passed(cs), NEW d2 \in Passed(cs), d1.kind = "filter",
                      d2.kind = "filter", d1.view = d2.view
               PROVE  d1 = d2
  BY DEF OneEach
<1>2. PICK e1 \in cs : d1 = [e1 EXCEPT !.passed = TRUE]
  BY DEF Passed
<1>3. PICK e2 \in cs : d2 = [e2 EXCEPT !.passed = TRUE]
  BY DEF Passed
<1>4. e1.kind = "filter" /\ e2.kind = "filter" /\ e1.view = e2.view
  <2>1. Same(d1, e1) /\ Same(d2, e2)
    BY <1>2, <1>3, PassedCall
  <2> QED BY <1>1, <2>1 DEF Same
<1>5. e1 = e2
  BY <1>4 DEF OneEach
<1> QED BY <1>2, <1>3, <1>5

\* An answer takes one call and passes the others.
LEMMA AnsweredCalls ==
  ASSUME DataInv, NEW c \in calls, NEW kinds, Answered(c, kinds)
  PROVE  /\ c.phase = "done" /\ c.kind \in kinds
         /\ calls' \subseteq CallRec
         /\ \A d \in calls' : d.passed /\ \E e \in calls \ {c} : Same(d, e)
         /\ \A e \in calls \ {c} : \E d \in calls' : Same(d, e)
<1>1. calls \ {c} \in SUBSET CallRec /\ calls' = Passed(calls \ {c})
  BY DEF DataInv, Types, Answered
<1> QED BY <1>1, PassedCalls DEF Answered

\* What an answer leaves of the invariant, whatever it does to the cache.
CallsKept ==
  /\ calls' \subseteq CallRec /\ (\A c \in calls' : Stamped(c.seen))
  /\ (\A c \in calls' : c.kind = "filter" => c.view \in Saved)
  /\ OneFilterEach' /\ CallsAgree'

LEMMA AnswerKeepsCalls ==
  ASSUME DataInv, NEW c \in calls, NEW kinds, Answered(c, kinds)
  PROVE  CallsKept
<1>1. /\ calls' \subseteq CallRec
      /\ \A d \in calls' : d.passed /\ \E e \in calls \ {c} : Same(d, e)
  BY AnsweredCalls
<1>2. CallsAgree'
  BY <1>1 DEF CallsAgree
<1>3. \A d \in calls' : Stamped(d.seen) /\ (d.kind = "filter" => d.view \in Saved)
  BY <1>1 DEF Same, DataInv, Types
<1>4. OneFilterEach'
  <2>1. calls \ {c} \in SUBSET CallRec /\ calls' = Passed(calls \ {c})
    BY DEF DataInv, Types, Answered
  <2>2. OneEach(calls \ {c})
    BY DEF DataInv, OneFilterEach, OneEach
  <2> QED BY <2>1, <2>2, PassedFilters DEF OneFilterEach, OneEach
<1> QED BY <1>1, <1>2, <1>3, <1>4 DEF CallsKept

\* After an answer, what is due is what was due, but for the call answered.
LEMMA AnswerPending ==
  ASSUME DataInv, NEW c \in calls, NEW kinds, Answered(c, kinds),
         NEW ks \in SUBSET Kinds, NEW r \in Rows
  PROVE  /\ Pending(ks, r)' => Pending(ks, r)
         /\ Pending(ks, r) /\ ~(c.kind \in ks /\ r \in c.rows) => Pending(ks, r)'
<1>1. /\ \A d \in calls' : \E e \in calls \ {c} : Same(d, e)
      /\ \A e \in calls \ {c} : \E d \in calls' : Same(d, e)
  BY AnsweredCalls
<1> QED BY <1>1 DEF Pending, Same

LEMMA AnswerEmptied ==
  ASSUME DataInv, NEW c \in calls, NEW kinds, Answered(c, kinds)
  PROVE  /\ Emptied' => Emptied
         /\ Emptied /\ c.kind # "clear" => Emptied'
<1>1. /\ \A d \in calls' : \E e \in calls \ {c} : Same(d, e)
      /\ \A e \in calls \ {c} : \E d \in calls' : Same(d, e)
  BY AnsweredCalls
<1> QED BY <1>1 DEF Emptied, Same

\* A row about which no answer is due after an answer had none due before, but for the one.
LEMMA AnswerSettled ==
  ASSUME DataInv, NEW c \in calls, NEW kinds, Answered(c, kinds), NEW v \in Views, NEW r \in Rows,
         Settled(v, r)', ~(c.kind \in Touching(v) /\ r \in c.rows), ~(v = Trash /\ c.kind = "clear")
  PROVE  Settled(v, r)
<1>1. Touching(v) \in SUBSET Kinds
  BY DEF Touching, Kinds
<1>2. Pending(Touching(v), r) => Pending(Touching(v), r)'
  BY <1>1, AnswerPending
<1>3. v = Trash /\ Emptied => Emptied'
  BY AnswerEmptied
<1>4. Touching(v)' = Touching(v)
  BY DEF Touching
<1> QED BY <1>2, <1>3, <1>4 DEF Settled, Pending

\* An answer that leaves the filters alone keeps them agreeing.
LEMMA AnswerFilters ==
  ASSUME DataInv, NEW c \in calls, NEW kinds, Answered(c, kinds), astray \subseteq astray',
         \A v \in Saved : cache'.view[v].filter = cache.view[v].filter
  PROVE  FiltersAgree'
<1>1. /\ c.phase = "done"
      /\ \A d \in calls' : \E e \in calls \ {c} : Same(d, e)
      /\ \A e \in calls \ {c} : \E d \in calls' : Same(d, e)
  BY AnsweredCalls
<1>2. server' = server
  BY DEF Answered
<1>3. SUFFICES ASSUME NEW v \in Saved, v \notin astray
               PROVE  /\ (\A d \in calls' : ~(d.kind = "filter" /\ d.view = v /\ d.phase = "asked"))
                           => cache.view[v].filter = server.filter[v]
                      /\ \A d \in calls' : d.kind = "filter" /\ d.view = v /\ d.phase = "asked"
                           => cache.view[v].filter = d.filter
  BY <1>2 DEF FiltersAgree
<1>4. ASSUME \A d \in calls' : ~(d.kind = "filter" /\ d.view = v /\ d.phase = "asked")
      PROVE  \A e \in calls : ~(e.kind = "filter" /\ e.view = v /\ e.phase = "asked")
  BY <1>1, <1>4 DEF Same
<1>5. ASSUME NEW d \in calls', d.kind = "filter", d.view = v, d.phase = "asked"
      PROVE  cache.view[v].filter = d.filter
  <2>1. PICK e \in calls : Same(d, e)
    BY <1>1
  <2>2. e.kind = "filter" /\ e.view = v /\ e.phase = "asked" /\ e.filter = d.filter
    BY <1>5, <2>1 DEF Same
  <2> QED BY <1>3, <2>2 DEF DataInv, FiltersAgree
<1> QED BY <1>3, <1>4, <1>5 DEF DataInv, FiltersAgree

-----------------------------------------------------------------------------
(* Answers *)

\* The parts of the invariant, put together.
LEMMA Together ==
  ASSUME CallsKept, server' \in Server, aged' \subseteq Views, doubt' \subseteq Views,
         astray' \subseteq Saved, ncalls' \in 0..MaxCalls, moved' \in [Views -> SUBSET Rows],
         cache' \in Cache, Stamped(cache'), RowsAgree', ValuesAgree', FiltersAgree'
  PROVE  DataInv'
BY DEF DataInv, Types, CallsKept, Stamped

LEMMA AnswerDeleteKeeps ==
  ASSUME DataInv, NEW c \in calls, AnswerDelete(c)
  PROVE  DataInv'
<1> DEFINE Kept == {"delete"}
<1>1. Answered(c, Kept) /\ c.kind = "delete" /\ c.phase = "done" /\ c.rows \subseteq Rows
  BY DEF AnswerDelete, Answered, DataInv, Types, CallRec
<1> HIDE DEF Kept
<1>2. server' = server /\ ncalls' = ncalls /\ aged' = aged /\ astray' = astray
  BY DEF AnswerDelete, Answered
<1>3. cache \in Cache /\ Stamped(cache) /\ server \in Server /\ moved \in [Views -> SUBSET Rows]
  BY DEF DataInv, Types
<1>4. \A r \in Rows : cache'.map[r] = IF r \in c.rows THEN Missing ELSE cache.map[r]
  BY DEF AnswerDelete
<1>5. \A v \in Views : cache'.view[v] = IF ShouldReload(v) THEN cache.view[v]
                                        ELSE IF v = Trash THEN Expired(v)
                                        ELSE Without(v, c.rows)
  BY DEF AnswerDelete
<1>6. \A v \in Views : cache.view[v] \in CachedView
  BY <1>3 DEF Cache
<1>7. \A v \in Views :
        /\ Expired(v) \in CachedView /\ Expired(v).rows = {}
        /\ Expired(v).filter = cache.view[v].filter
        /\ Without(v, c.rows) \in CachedView /\ Without(v, c.rows).rows = cache.view[v].rows \ c.rows
        /\ Without(v, c.rows).filter = cache.view[v].filter
        /\ Without(v, c.rows).stamp = cache.view[v].stamp
  BY <1>6 DEF Expired, Without, CachedView
<1>8. cache' \in Cache /\ Stamped(cache')
  <2>1. Stamped(cache')
    BY <1>3, <1>5, <1>7 DEF Stamped
  <2>2. \A v \in Views : cache'.view[v] \in CachedView
    BY <1>5, <1>6, <1>7
  <2>3. cache' = [map |-> [r \in Rows |-> IF r \in c.rows THEN Missing ELSE cache.map[r]],
                  view |-> [v \in Views |-> IF ShouldReload(v) THEN cache.view[v]
                                            ELSE IF v = Trash THEN Expired(v)
                                            ELSE Without(v, c.rows)]]
    BY DEF AnswerDelete
  <2>4. cache'.view \in [Views -> CachedView]
    BY <2>2, <2>3
  <2>5. cache'.map \in [Rows -> Values \cup {Missing}]
    BY <1>3, <2>3 DEF Cache
  <2> QED BY <2>1, <2>3, <2>4, <2>5 DEF Cache
<1>9. /\ doubt' \subseteq Views /\ doubt \subseteq doubt'
      /\ Late(c, "live") => Saved \subseteq doubt'
  BY DEF AnswerDelete, DataInv, Types, Views
<1>10. /\ moved' \in [Views -> SUBSET Rows]
       /\ \A v \in Views : moved[v] \subseteq moved'[v] /\ (ShouldReload(v) => c.rows \subseteq moved'[v])
  BY <1>1, <1>3 DEF AnswerDelete
<1>11. RowsAgree'
  <2>1. SUFFICES ASSUME NEW v \in Views, NEW r \in Rows, v \notin doubt', cache'.view[v].rows # {},
                        r \notin moved'[v], Settled(v, r)'
                 PROVE  /\ r \in cache'.view[v].rows <=> r \in ServerRows(v)
                        /\ r \in cache'.view[v].rows => cache'.map[r] # Missing
    BY <1>2 DEF RowsAgree, ServerRows
  <2>2. ASSUME r \notin c.rows, cache.view[v].rows # {}
        PROVE  /\ r \in cache.view[v].rows <=> r \in ServerRows(v)
               /\ r \in cache.view[v].rows => cache.map[r] # Missing
    <3>1. Settled(v, r)
      BY <1>1, <2>1, <2>2, AnswerSettled
    <3> QED BY <1>9, <1>10, <2>1, <2>2, <3>1 DEF DataInv, RowsAgree
  <2>3. CASE ShouldReload(v)
    <3>1. r \notin c.rows /\ cache'.view[v] = cache.view[v]
      BY <1>5, <1>10, <2>1, <2>3
    <3> QED BY <1>4, <2>1, <2>2, <3>1
  <2>4. CASE ~ShouldReload(v) /\ v = Trash
    BY <1>5, <1>7, <2>1, <2>4
  <2>5. CASE ~ShouldReload(v) /\ v # Trash
    <3>1. cache'.view[v].rows = cache.view[v].rows \ c.rows
      BY <1>5, <1>7, <2>5
    <3>2. CASE r \notin c.rows
      BY <1>4, <2>1, <2>2, <3>1, <3>2
    <3>3. CASE r \in c.rows
      <4>1. server.state[r] # "live"
        <5>1. CASE c.passed
          BY <1>9, <2>1, <2>5, <3>3, <5>1 DEF Late, Views
        <5>2. CASE ~c.passed
          <6>1. server.state[r] = "live" => Pending(Reviving, r)
            BY <1>1, <3>3, <5>2 DEF DataInv, CallsAgree, CallAgrees, Undone
          <6>2. Pending(Reviving, r) => Pending(Reviving, r)'
            BY <1>1, AnswerPending DEF Kinds, Reviving
          <6>3. Pending(Reviving, r)' => ~Settled(v, r)'
            BY <2>5 DEF Pending, Settled, Touching, Reviving
          <6> QED BY <2>1, <6>1, <6>2, <6>3
        <5> QED BY <5>1, <5>2
      <4>2. r \notin ServerRows(v)
        BY <2>5, <4>1 DEF ServerRows
      <4> QED BY <3>1, <3>3, <4>2
    <3> QED BY <3>2, <3>3
  <2> QED BY <2>3, <2>4, <2>5
<1>12. ValuesAgree'
  <2>1. SUFFICES ASSUME NEW v \in Views, NEW r \in Rows, v \notin doubt', r \in cache'.view[v].rows,
                        cache'.map[r] # Missing, ~Pending({"modify"}, r)'
                 PROVE  cache'.map[r] = server.value[r]
    BY <1>2 DEF ValuesAgree
  <2>2. r \notin c.rows /\ cache'.map[r] = cache.map[r]
    BY <1>4, <2>1
  <2>3. r \in cache.view[v].rows
    BY <1>5, <1>7, <2>1
  <2>4. ~Pending({"modify"}, r)
    BY <1>1, <2>1, <2>2, AnswerPending DEF Kinds
  <2> QED BY <1>9, <2>1, <2>2, <2>3, <2>4 DEF DataInv, ValuesAgree
<1>13. FiltersAgree'
  <2>1. \A v \in Saved : cache'.view[v].filter = cache.view[v].filter
    BY <1>5, <1>7 DEF Views
  <2> QED BY <1>1, <1>2, <2>1, AnswerFilters
<1>14. CallsKept
  BY <1>1, AnswerKeepsCalls
<1> QED
  BY <1>2, <1>3, <1>8, <1>9, <1>10, <1>11, <1>12, <1>13, <1>14, Together DEF DataInv, Types

\* Expiring a view, or taking rows out of it, gives a view with the same filter.
LEMMA ViewForms ==
  ASSUME cache \in Cache, NEW v \in Views, NEW rs
  PROVE  /\ cache.view[v] \in CachedView
         /\ Expired(v) \in CachedView /\ Expired(v).rows = {}
         /\ Expired(v).filter = cache.view[v].filter
         /\ Without(v, rs) \in CachedView /\ Without(v, rs).rows = cache.view[v].rows \ rs
         /\ Without(v, rs).filter = cache.view[v].filter
         /\ Without(v, rs).stamp = cache.view[v].stamp
<1>1. cache.view[v] \in CachedView
  BY DEF Cache
<1> QED BY <1>1 DEF Expired, Without, CachedView

\* An answer that changes views but no row keeps the cache typed.
LEMMA ViewsTyped ==
  ASSUME cache \in Cache, NEW f, cache' = [cache EXCEPT !.view = [v \in Views |-> f[v]]],
         \A v \in Views : f[v] \in CachedView /\ (f[v].rows # {} => f[v].stamp)
  PROVE  /\ cache' \in Cache /\ Stamped(cache') /\ cache'.map = cache.map
         /\ \A v \in Views : cache'.view[v] = f[v]
<1>1. [v \in Views |-> f[v]] \in [Views -> CachedView]
  OBVIOUS
<1>2. cache'.view = [v \in Views |-> f[v]] /\ cache'.map = cache.map /\ cache' \in Cache
  BY <1>1 DEF Cache
<1> QED BY <1>2 DEF Stamped

\* What the answers that leave the rows alone share.
LEMMA ViewsOnly ==
  ASSUME DataInv, NEW c \in calls, NEW kinds, Answered(c, kinds), c.kind # "modify",
         cache' \in Cache, Stamped(cache'), cache'.map = cache.map,
         aged' \subseteq Views, doubt \subseteq doubt', doubt' \subseteq Views,
         astray' \subseteq Saved, moved' = moved,
         \A v \in Views : cache'.view[v].rows \subseteq cache.view[v].rows,
         RowsAgree', FiltersAgree'
  PROVE  DataInv'
<1>1. server' = server /\ ncalls' = ncalls
  BY DEF Answered
<1>2. ValuesAgree'
  <2>1. SUFFICES ASSUME NEW v \in Views, NEW r \in Rows, v \notin doubt', r \in cache'.view[v].rows,
                        cache'.map[r] # Missing, ~Pending({"modify"}, r)'
                 PROVE  cache'.map[r] = server.value[r]
    BY <1>1 DEF ValuesAgree
  <2>2. ~Pending({"modify"}, r)
    BY <2>1, AnswerPending DEF Kinds
  <2> QED BY <2>1, <2>2 DEF DataInv, ValuesAgree
<1>3. CallsKept
  BY AnswerKeepsCalls
<1> QED BY <1>1, <1>2, <1>3, Together DEF DataInv, Types

LEMMA AnswerRestoreKeeps ==
  ASSUME DataInv, NEW c \in calls, AnswerRestore(c)
  PROVE  DataInv'
<1> DEFINE Kept == {"restore"}
           f == [v \in Views |-> IF v # Trash THEN Expired(v) ELSE Without(v, c.rows)]
<1>1. Answered(c, Kept) /\ c.kind = "restore" /\ c.phase = "done" /\ c.rows \subseteq Rows
  BY DEF AnswerRestore, Answered, DataInv, Types, CallRec
<1> HIDE DEF Kept
<1>2. server' = server /\ ncalls' = ncalls /\ aged' = aged /\ astray' = astray /\ moved' = moved
  BY DEF AnswerRestore, Answered
<1>3. cache \in Cache /\ Stamped(cache)
  BY DEF DataInv, Types
<1>4. \A v \in Views : f[v] \in CachedView /\ (f[v].rows # {} => f[v].stamp)
                       /\ f[v].filter = cache.view[v].filter
                       /\ f[v].rows = IF v = Trash THEN cache.view[v].rows \ c.rows ELSE {}
  <2>1. ASSUME NEW v \in Views
        PROVE  /\ Expired(v) \in CachedView /\ Expired(v).rows = {}
               /\ Expired(v).filter = cache.view[v].filter
               /\ Without(v, c.rows) \in CachedView
               /\ Without(v, c.rows).rows = cache.view[v].rows \ c.rows
               /\ Without(v, c.rows).filter = cache.view[v].filter
               /\ Without(v, c.rows).stamp = cache.view[v].stamp
    BY <1>3, ViewForms
  <2> QED BY <1>3, <2>1 DEF Stamped
<1>5. cache' = [cache EXCEPT !.view = [v \in Views |-> f[v]]]
  BY DEF AnswerRestore
<1> HIDE DEF f
<1>6. /\ cache' \in Cache /\ Stamped(cache') /\ cache'.map = cache.map
      /\ \A v \in Views : cache'.view[v] = f[v]
  BY <1>3, <1>4, <1>5, ViewsTyped
<1>7. /\ doubt' \subseteq Views /\ doubt \subseteq doubt'
      /\ Late(c, "trashed") => Trash \in doubt'
  BY DEF AnswerRestore, DataInv, Types, Views
<1>8. RowsAgree'
  <2>1. SUFFICES ASSUME NEW v \in Views, NEW r \in Rows, v \notin doubt', cache'.view[v].rows # {},
                        r \notin moved[v], Settled(v, r)'
                 PROVE  /\ r \in cache'.view[v].rows <=> r \in ServerRows(v)
                        /\ r \in cache'.view[v].rows => cache'.map[r] # Missing
    BY <1>2 DEF RowsAgree, ServerRows
  <2>2. v = Trash /\ cache'.view[v].rows = cache.view[v].rows \ c.rows
    BY <1>4, <1>6, <2>1
  <2>3. CASE r \notin c.rows
    <3>1. Settled(v, r)
      BY <1>1, <2>1, <2>3, AnswerSettled
    <3> QED BY <1>6, <1>7, <2>1, <2>2, <2>3, <3>1 DEF DataInv, RowsAgree
  <2>4. CASE r \in c.rows
    <3>1. server.state[r] # "trashed"
      <4>1. CASE c.passed
        BY <1>7, <2>1, <2>2, <2>4, <4>1 DEF Late
      <4>2. CASE ~c.passed
        <5>1. server.state[r] = "trashed" => Pending({"delete"}, r)
          BY <1>1, <2>4, <4>2 DEF DataInv, CallsAgree, CallAgrees, Undone
        <5>2. Pending({"delete"}, r) => Pending({"delete"}, r)'
          BY <1>1, AnswerPending DEF Kinds
        <5>3. Pending({"delete"}, r)' => ~Settled(v, r)'
          BY DEF Pending, Settled, Touching
        <5> QED BY <2>1, <5>1, <5>2, <5>3
      <4> QED BY <4>1, <4>2
    <3>2. r \notin ServerRows(v)
      BY <2>2, <3>1 DEF ServerRows
    <3> QED BY <2>2, <2>4, <3>2
  <2> QED BY <2>3, <2>4
<1>9. FiltersAgree'
  <2>1. \A v \in Saved : cache'.view[v].filter = cache.view[v].filter
    BY <1>4, <1>6 DEF Views
  <2> QED BY <1>1, <1>2, <2>1, AnswerFilters
<1>10. \A v \in Views : cache'.view[v].rows \subseteq cache.view[v].rows
  BY <1>4, <1>6
<1> QED
  BY <1>1, <1>2, <1>6, <1>7, <1>8, <1>9, <1>10, ViewsOnly DEF DataInv, Types

LEMMA AnswerInsertKeeps ==
  ASSUME DataInv, NEW c \in calls, AnswerInsert(c)
  PROVE  DataInv'
<1> DEFINE Kept == {"insert"}
           f == [v \in Views |-> IF v # Trash THEN Expired(v) ELSE cache.view[v]]
<1>1. Answered(c, Kept) /\ c.kind = "insert" /\ c.phase = "done"
  BY DEF AnswerInsert, Answered
<1> HIDE DEF Kept
<1>2. /\ server' = server /\ ncalls' = ncalls /\ aged' = aged /\ astray' = astray
      /\ moved' = moved /\ doubt' = doubt
  BY DEF AnswerInsert, Answered
<1>3. cache \in Cache /\ Stamped(cache)
  BY DEF DataInv, Types
<1>4. \A v \in Views : f[v] \in CachedView /\ (f[v].rows # {} => f[v].stamp)
                       /\ f[v].filter = cache.view[v].filter
                       /\ f[v].rows = IF v = Trash THEN cache.view[v].rows ELSE {}
  BY <1>3, ViewForms DEF Stamped
<1>5. cache' = [cache EXCEPT !.view = [v \in Views |-> f[v]]]
  BY DEF AnswerInsert
<1> HIDE DEF f
<1>6. /\ cache' \in Cache /\ Stamped(cache') /\ cache'.map = cache.map
      /\ \A v \in Views : cache'.view[v] = f[v]
  BY <1>3, <1>4, <1>5, ViewsTyped
<1>7. RowsAgree'
  <2>1. SUFFICES ASSUME NEW v \in Views, NEW r \in Rows, v \notin doubt, cache'.view[v].rows # {},
                        r \notin moved[v], Settled(v, r)'
                 PROVE  /\ r \in cache'.view[v].rows <=> r \in ServerRows(v)
                        /\ r \in cache'.view[v].rows => cache'.map[r] # Missing
    BY <1>2 DEF RowsAgree, ServerRows
  <2>2. v = Trash /\ cache'.view[v].rows = cache.view[v].rows
    BY <1>4, <1>6, <2>1
  <2>3. Settled(v, r)
    BY <1>1, <2>1, <2>2, AnswerSettled DEF Touching
  <2> QED BY <1>6, <2>1, <2>2, <2>3 DEF DataInv, RowsAgree
<1>8. FiltersAgree'
  <2>1. \A v \in Saved : cache'.view[v].filter = cache.view[v].filter
    BY <1>4, <1>6 DEF Views
  <2> QED BY <1>1, <1>2, <2>1, AnswerFilters
<1>9. \A v \in Views : cache'.view[v].rows \subseteq cache.view[v].rows
  BY <1>4, <1>6
<1> QED
  BY <1>1, <1>2, <1>6, <1>7, <1>8, <1>9, ViewsOnly DEF DataInv, Types

LEMMA AnswerClearKeeps ==
  ASSUME DataInv, NEW c \in calls, AnswerClear(c)
  PROVE  DataInv'
<1> DEFINE Kept == {"clear"}
           f == [v \in Views |-> IF v = Trash THEN [cache.view[v] EXCEPT !.rows = {}]
                                 ELSE cache.view[v]]
<1>1. Answered(c, Kept) /\ c.kind = "clear" /\ c.phase = "done"
  BY DEF AnswerClear, Answered
<1> HIDE DEF Kept
<1>2. /\ server' = server /\ ncalls' = ncalls /\ aged' = aged /\ astray' = astray
      /\ moved' = moved /\ doubt' = doubt
  BY DEF AnswerClear, Answered
<1>3. cache \in Cache /\ Stamped(cache)
  BY DEF DataInv, Types
<1>4. \A v \in Views : f[v] \in CachedView /\ (f[v].rows # {} => f[v].stamp)
                       /\ f[v].filter = cache.view[v].filter
                       /\ f[v].rows = IF v = Trash THEN {} ELSE cache.view[v].rows
  BY <1>3 DEF Stamped, Cache, CachedView
<1>5. cache' = [cache EXCEPT !.view = [v \in Views |-> f[v]]]
  BY <1>3 DEF AnswerClear, Cache, Views
<1> HIDE DEF f
<1>6. /\ cache' \in Cache /\ Stamped(cache') /\ cache'.map = cache.map
      /\ \A v \in Views : cache'.view[v] = f[v]
  BY <1>3, <1>4, <1>5, ViewsTyped
<1>7. RowsAgree'
  <2>1. SUFFICES ASSUME NEW v \in Views, NEW r \in Rows, v \notin doubt, cache'.view[v].rows # {},
                        r \notin moved[v], Settled(v, r)'
                 PROVE  /\ r \in cache'.view[v].rows <=> r \in ServerRows(v)
                        /\ r \in cache'.view[v].rows => cache'.map[r] # Missing
    BY <1>2 DEF RowsAgree, ServerRows
  <2>2. v # Trash /\ cache'.view[v].rows = cache.view[v].rows
    BY <1>4, <1>6, <2>1
  <2>3. Settled(v, r)
    BY <1>1, <2>1, <2>2, AnswerSettled DEF Touching
  <2> QED BY <1>6, <2>1, <2>2, <2>3 DEF DataInv, RowsAgree
<1>8. FiltersAgree'
  <2>1. \A v \in Saved : cache'.view[v].filter = cache.view[v].filter
    BY <1>4, <1>6 DEF Views
  <2> QED BY <1>1, <1>2, <2>1, AnswerFilters
<1>9. \A v \in Views : cache'.view[v].rows \subseteq cache.view[v].rows
  BY <1>4, <1>6
<1> QED
  BY <1>1, <1>2, <1>6, <1>7, <1>8, <1>9, ViewsOnly DEF DataInv, Types

LEMMA AnswerFilterKeeps ==
  ASSUME DataInv, NEW c \in calls, AnswerFilter(c)
  PROVE  DataInv'
<1> DEFINE Kept == {"filter"}
<1>1. Answered(c, Kept) /\ c.kind = "filter" /\ c.phase = "done"
  BY DEF AnswerFilter, Answered
<1> HIDE DEF Kept
<1>2. /\ server' = server /\ ncalls' = ncalls /\ aged' = aged /\ astray' = astray
      /\ moved' = moved /\ doubt' = doubt /\ cache' = cache
  BY DEF AnswerFilter, Answered
<1>3. RowsAgree'
  <2>1. SUFFICES ASSUME NEW v \in Views, NEW r \in Rows, v \notin doubt, cache.view[v].rows # {},
                        r \notin moved[v], Settled(v, r)'
                 PROVE  /\ r \in cache.view[v].rows <=> r \in ServerRows(v)
                        /\ r \in cache.view[v].rows => cache.map[r] # Missing
    BY <1>2 DEF RowsAgree, ServerRows
  <2>2. Settled(v, r)
    BY <1>1, <2>1, AnswerSettled DEF Touching
  <2> QED BY <2>1, <2>2 DEF DataInv, RowsAgree
<1>4. FiltersAgree'
  BY <1>1, <1>2, AnswerFilters
<1>5. cache' \in Cache /\ Stamped(cache')
  BY <1>2 DEF DataInv, Types
<1> QED
  BY <1>1, <1>2, <1>3, <1>4, <1>5, ViewsOnly DEF DataInv, Types

LEMMA AnswerViewsKeeps ==
  ASSUME DataInv, NEW c \in calls, AnswerViews(c)
  PROVE  DataInv'
<1> DEFINE Kept == {"views"}
           f == [v \in Views |->
                   IF v = Trash THEN cache.view[v]
                   ELSE IF c.seen.view[v].filter = c.result.filter[v] THEN c.seen.view[v]
                   ELSE [rows |-> {}, stamp |-> FALSE, filter |-> c.result.filter[v]]]
<1>1. Answered(c, Kept) /\ c.kind = "views" /\ c.phase = "done"
  BY DEF AnswerViews, Answered
<1> HIDE DEF Kept
<1>2. /\ server' = server /\ ncalls' = ncalls /\ aged' = aged /\ moved' = moved
      /\ doubt' = IF c.passed THEN Views ELSE doubt
  BY DEF AnswerViews, Answered
<1>3. /\ cache \in Cache /\ Stamped(cache) /\ c.seen \in Cache /\ Stamped(c.seen)
      /\ c.result \in Server /\ server \in Server
  BY DEF DataInv, Types, CallRec
<1>4. \A v \in Views : f[v] \in CachedView /\ (f[v].rows # {} => f[v].stamp)
  BY <1>3, ViewsAssumption DEF Stamped, Cache, CachedView, Server, Views
<1>5. cache' = [cache EXCEPT !.view = [v \in Views |-> f[v]]]
  BY DEF AnswerViews
<1>6. \A v \in Views : v # Trash => f[v].filter = c.result.filter[v]
  OBVIOUS
<1>7. ~c.passed => \A v \in Views : f[v].rows = cache.view[v].rows \/ f[v].rows = {}
  BY <1>1 DEF DataInv, CallsAgree, CallAgrees
<1> HIDE DEF f
<1>8. /\ cache' \in Cache /\ Stamped(cache') /\ cache'.map = cache.map
      /\ \A v \in Views : cache'.view[v] = f[v]
  BY <1>3, <1>4, <1>5, ViewsTyped
<1>9. RowsAgree'
  <2>1. SUFFICES ASSUME NEW v \in Views, NEW r \in Rows, v \notin doubt', cache'.view[v].rows # {},
                        r \notin moved[v], Settled(v, r)'
                 PROVE  /\ r \in cache'.view[v].rows <=> r \in ServerRows(v)
                        /\ r \in cache'.view[v].rows => cache'.map[r] # Missing
    BY <1>2 DEF RowsAgree, ServerRows
  <2>2. v \notin doubt /\ cache'.view[v].rows = cache.view[v].rows
    BY <1>2, <1>7, <1>8, <2>1
  <2>3. Settled(v, r)
    BY <1>1, <2>1, <2>2, AnswerSettled DEF Touching
  <2> QED BY <1>8, <2>1, <2>2, <2>3 DEF DataInv, RowsAgree
<1>10. FiltersAgree'
  <2>1. /\ \A d \in calls' : \E e \in calls \ {c} : Same(d, e)
        /\ \A e \in calls \ {c} : \E d \in calls' : Same(d, e)
    BY <1>1, AnsweredCalls
  <2>2. astray' = IF c.passed \/ c.raced \/ \E d \in calls : d.kind = "filter" THEN Saved ELSE {}
    BY DEF AnswerViews
  <2>3. SUFFICES ASSUME NEW v \in Saved, ~c.passed, ~c.raced, \A d \in calls : d.kind # "filter"
                 PROVE  /\ cache'.view[v].filter = server.filter[v]
                        /\ \A d \in calls' : d.kind # "filter"
    BY <1>2, <2>2 DEF FiltersAgree
  <2>4. c.result.filter = server.filter
    BY <1>1, <2>3 DEF DataInv, CallsAgree, CallAgrees, ListedAgrees
  <2>5. v \in Views /\ v # Trash
    BY ViewsAssumption DEF Views
  <2>6. cache'.view[v].filter = server.filter[v]
    BY <1>6, <1>8, <2>4, <2>5
  <2>7. \A d \in calls' : d.kind # "filter"
    BY <2>1, <2>3 DEF Same
  <2> QED BY <2>6, <2>7
<1>11. CASE c.passed
  <2>1. ValuesAgree'
    BY <1>2, <1>11 DEF ValuesAgree, Views
  <2>2. CallsKept
    BY <1>1, AnswerKeepsCalls
  <2>3. astray' \subseteq Saved
    BY DEF AnswerViews
  <2> QED BY <1>2, <1>3, <1>8, <1>9, <1>10, <1>11, <2>1, <2>2, <2>3, Together DEF DataInv, Types
<1>12. CASE ~c.passed
  <2>1. \A v \in Views : cache'.view[v].rows \subseteq cache.view[v].rows
    BY <1>7, <1>8, <1>12
  <2>2. astray' \subseteq Saved
    BY DEF AnswerViews
  <2> QED
    BY <1>1, <1>2, <1>8, <1>9, <1>10, <1>12, <2>1, <2>2, ViewsOnly DEF DataInv, Types
<1> QED BY <1>11, <1>12

LEMMA AnswerModifyKeeps ==
  ASSUME DataInv, NEW c \in calls, AnswerModify(c)
  PROVE  DataInv'
<1> DEFINE Kept == {"modify"}
           g == [r \in Rows |-> IF r \in c.rows THEN c.value ELSE c.seen.map[r]]
<1>1. Answered(c, Kept) /\ c.kind = "modify" /\ c.phase = "done"
  BY DEF AnswerModify, Answered
<1> HIDE DEF Kept
<1>2. /\ server' = server /\ ncalls' = ncalls /\ aged' = aged /\ moved' = moved
      /\ astray' = astray /\ doubt' = IF c.passed THEN Views ELSE doubt
  BY DEF AnswerModify, Answered
<1>3. /\ cache \in Cache /\ Stamped(cache) /\ c.seen \in Cache /\ c.value \in Values
      /\ c.rows \subseteq Rows /\ server \in Server
  BY DEF DataInv, Types, CallRec
<1>4. /\ g \in [Rows -> Values \cup {Missing}]
      /\ \A r \in Rows : g[r] = IF r \in c.rows THEN c.value ELSE c.seen.map[r]
  BY <1>3 DEF Cache
<1>5. \/ cache' = cache /\ (\A r \in c.rows : c.seen.map[r] = c.value)
      \/ cache' = [cache EXCEPT !.map = g]
  BY DEF AnswerModify
<1> HIDE DEF g
<1>6. cache' \in Cache /\ Stamped(cache') /\ cache'.view = cache.view
  BY <1>3, <1>4, <1>5 DEF Cache, Stamped
<1>7. ~c.passed => \A r \in Rows : cache'.map[r] = IF r \in c.rows THEN c.value ELSE cache.map[r]
  <2>1. ~c.passed => c.seen = cache
    BY <1>1 DEF DataInv, CallsAgree, CallAgrees
  <2> QED BY <1>3, <1>4, <1>5, <2>1 DEF Cache
<1>8. ~c.passed => ModifiedAgrees(c)
  BY <1>1 DEF DataInv, CallsAgree, CallAgrees
<1>9. RowsAgree'
  <2>1. SUFFICES ASSUME NEW v \in Views, NEW r \in Rows, v \notin doubt', cache.view[v].rows # {},
                        r \notin moved[v], Settled(v, r)'
                 PROVE  /\ r \in cache.view[v].rows <=> r \in ServerRows(v)
                        /\ r \in cache.view[v].rows => cache'.map[r] # Missing
    BY <1>2, <1>6 DEF RowsAgree, ServerRows
  <2>2. v \notin doubt /\ ~c.passed
    BY <1>2, <2>1
  <2>3. v # Trash => r \notin c.rows
    BY <1>8, <2>1, <2>2 DEF ModifiedAgrees, Views
  <2>4. Settled(v, r)
    BY <1>1, <2>1, <2>3, AnswerSettled DEF Touching
  <2>5. /\ r \in cache.view[v].rows <=> r \in ServerRows(v)
        /\ r \in cache.view[v].rows => cache.map[r] # Missing
    BY <2>1, <2>2, <2>4 DEF DataInv, RowsAgree
  <2> QED BY <1>3, <1>7, <2>2, <2>5, RowsAssumption
<1>10. ValuesAgree'
  <2>1. SUFFICES ASSUME NEW v \in Views, NEW r \in Rows, v \notin doubt', r \in cache.view[v].rows,
                        cache'.map[r] # Missing, ~Pending({"modify"}, r)'
                 PROVE  cache'.map[r] = server.value[r]
    BY <1>2, <1>6 DEF ValuesAgree
  <2>2. v \notin doubt /\ ~c.passed
    BY <1>2, <2>1
  <2>3. CASE r \in c.rows
    <3>1. PICK d \in calls : d.phase = "done" /\ d.kind = "modify" /\ r \in d.rows
                             /\ d.value = server.value[r]
      BY <1>8, <2>2, <2>3 DEF ModifiedAgrees
    <3>2. d = c
      <4>1. ASSUME d # c PROVE FALSE
        <5>1. PICK e \in calls' : Same(e, d)
          BY <1>1, <4>1, AnsweredCalls
        <5> QED BY <2>1, <3>1, <5>1 DEF Pending, Same
      <4> QED BY <4>1
    <3> QED BY <1>7, <2>2, <2>3, <3>1, <3>2
  <2>4. CASE r \notin c.rows
    <3>1. ~Pending({"modify"}, r)
      BY <1>1, <2>1, <2>4, AnswerPending DEF Kinds
    <3> QED BY <1>7, <2>1, <2>2, <2>4, <3>1 DEF DataInv, ValuesAgree
  <2> QED BY <2>3, <2>4
<1>11. FiltersAgree'
  BY <1>1, <1>2, <1>6, AnswerFilters
<1>12. CallsKept
  BY <1>1, AnswerKeepsCalls
<1> QED
  BY <1>2, <1>3, <1>6, <1>9, <1>10, <1>11, <1>12, Together DEF DataInv, Types

LEMMA AnswerMetadataKeeps ==
  ASSUME DataInv, NEW c \in calls, AnswerMetadata(c)
  PROVE  DataInv'
<1> DEFINE Kept == {"load", "reload"}
           g == [r \in Rows |-> IF r \in ResultRows(c) THEN c.result.value[r] ELSE c.seen.map[r]]
           f == [SeenViews(c) EXCEPT ![c.view].rows = KeptRows(c) \cup ResultRows(c),
                                     ![c.view].stamp = TRUE]
<1>1. Answered(c, Kept) /\ c.kind \in Kept /\ c.phase = "done"
  BY DEF AnswerMetadata, Answered
<1>2. /\ server' = server /\ ncalls' = ncalls /\ aged' = aged \ {c.view}
      /\ doubt' = (IF c.passed THEN Views
                   ELSE IF c.raced THEN doubt \cup {c.view}
                   ELSE IF KeptRows(c) = {} THEN doubt \ {c.view} ELSE doubt)
      /\ astray' = (IF c.passed THEN Saved ELSE astray)
      /\ moved' = (IF KeptRows(c) = {} THEN [moved EXCEPT ![c.view] = {}] ELSE moved)
  BY DEF AnswerMetadata, Answered
<1>3. /\ cache \in Cache /\ Stamped(cache) /\ c.seen \in Cache /\ Stamped(c.seen)
      /\ c.result \in Server /\ server \in Server /\ c.view \in Views
      /\ moved \in [Views -> SUBSET Rows] /\ aged \subseteq Views /\ doubt \subseteq Views
      /\ astray \subseteq Saved
  BY DEF DataInv, Types, CallRec
<1>4. ResultRows(c) \subseteq Rows /\ KeptRows(c) \subseteq Rows
  BY <1>3 DEF ResultRows, KeptRows, Cache, CachedView
<1>5. /\ g \in [Rows -> Values \cup {Missing}]
      /\ \A r \in Rows : g[r] = IF r \in ResultRows(c) THEN c.result.value[r] ELSE c.seen.map[r]
  BY <1>3, <1>4 DEF Cache, Server
<1>6. /\ SeenViews(c) \in [Views -> CachedView]
      /\ \A v \in Views : SeenViews(c)[v] = c.seen.view[v] \/ SeenViews(c)[v] = cache.view[v]
  BY <1>3 DEF SeenViews, Cache
<1>7. /\ f \in [Views -> CachedView]
      /\ f[c.view].rows = KeptRows(c) \cup ResultRows(c) /\ f[c.view].stamp
      /\ f[c.view].filter = SeenViews(c)[c.view].filter
      /\ \A v \in Views \ {c.view} : f[v] = SeenViews(c)[v]
  BY <1>3, <1>4, <1>6 DEF CachedView
<1>8. cache' = [map |-> g, view |-> f]
  BY DEF AnswerMetadata
<1> HIDE DEF g, f
<1>9. cache'.map = g /\ cache'.view = f
  BY <1>8
<1>10. cache' \in Cache /\ Stamped(cache')
  <2>1. Stamped(cache')
    BY <1>3, <1>6, <1>7, <1>9 DEF Stamped
  <2> QED BY <1>5, <1>7, <1>8, <2>1 DEF Cache
<1>11. ~c.passed => c.seen = cache /\ FetchedAgrees(c)
  BY <1>1 DEF DataInv, CallsAgree, CallAgrees
<1>12. moved' \in [Views -> SUBSET Rows] /\ \A v \in Views \ {c.view} : moved'[v] = moved[v]
  BY <1>2, <1>3
<1>13. /\ doubt' \subseteq Views /\ astray' \subseteq Saved /\ astray \subseteq astray'
       /\ aged' \subseteq Views
  BY <1>2, <1>3
<1>14. CallsKept
  BY <1>1, AnswerKeepsCalls
<1>15. CASE c.passed
  <2>1. RowsAgree' /\ ValuesAgree' /\ FiltersAgree'
    BY <1>2, <1>15 DEF RowsAgree, ValuesAgree, FiltersAgree
  <2> QED BY <1>2, <1>3, <1>10, <1>12, <1>13, <1>14, <2>1, Together DEF DataInv, Types
<1>16. CASE ~c.passed
  <2>1. \A v \in Views : SeenViews(c)[v] = cache.view[v]
    BY <1>6, <1>11, <1>16
  <2>2. FiltersAgree'
    <3>1. \A v \in Saved : cache'.view[v].filter = cache.view[v].filter
      BY <1>7, <1>9, <2>1 DEF Views
    <3> QED BY <1>1, <1>13, <3>1, AnswerFilters
  <2>3. ASSUME NEW v \in Views, NEW r \in Rows, Settled(v, r)'
        PROVE  Settled(v, r)
    <3>1. c.kind \notin Touching(v) /\ c.kind # "clear"
      BY <1>1 DEF Touching
    <3> HIDE DEF Kept
    <3> QED BY <1>1, <2>3, <3>1, AnswerSettled
  <2>4. ASSUME NEW r \in Rows, ~Pending({"modify"}, r)'
        PROVE  ~Pending({"modify"}, r)
    <3>1. c.kind \notin {"modify"}
      BY <1>1
    <3> HIDE DEF Kept
    <3> QED BY <1>1, <2>4, <3>1, AnswerPending DEF Kinds
  <2>5. \A r \in Rows : Settled(c.view, r) =>
          (In(c.view, c.result.state[r]) <=> In(c.view, server.state[r]))
    BY <1>11, <1>16 DEF FetchedAgrees
  <2>6. \A r \in Rows : ~Pending({"modify"}, r) => c.result.value[r] = server.value[r]
    BY <1>11, <1>16 DEF FetchedAgrees
  <2>7. c.raced \/ c.view = Trash \/ c.result.filter[c.view] = server.filter[c.view]
    BY <1>11, <1>16 DEF FetchedAgrees
  \* Where nothing is due, the rows fetched are those that the server would send now.
  <2>8. ASSUME NEW r \in Rows, Settled(c.view, r), ~c.raced
        PROVE  r \in ResultRows(c) <=> r \in ServerRows(c.view)
    <3>1. In(c.view, c.result.state[r]) <=> In(c.view, server.state[r])
      BY <2>5, <2>8
    <3>2. CASE c.view = Trash
      BY <3>1, <3>2 DEF In, ResultRows, ServerRows
    <3>3. CASE c.view # Trash
      <4>1. ~Pending({"modify"}, r)
        BY <2>8, <3>3 DEF Settled, Pending, Touching
      <4> QED BY <2>6, <2>7, <2>8, <3>1, <3>3, <4>1 DEF In, ResultRows, ServerRows
    <3> QED BY <3>2, <3>3
  <2>9. \A r \in Rows : cache'.map[r] = IF r \in ResultRows(c) THEN c.result.value[r]
                                        ELSE cache.map[r]
    BY <1>5, <1>9, <1>11, <1>16
  <2>10. \A r \in ResultRows(c) : c.result.value[r] # Missing
    BY <1>3, <1>4, RowsAssumption DEF Server
  <2>11. KeptRows(c) = {} \/ KeptRows(c) = cache.view[c.view].rows
    BY <1>11, <1>16 DEF KeptRows
  <2>12. RowsAgree'
    <3>1. SUFFICES ASSUME NEW v \in Views, NEW r \in Rows, v \notin doubt',
                          cache'.view[v].rows # {}, r \notin moved'[v], Settled(v, r)'
                   PROVE  /\ r \in cache'.view[v].rows <=> r \in ServerRows(v)
                          /\ r \in cache'.view[v].rows => cache'.map[r] # Missing
      BY <1>2 DEF RowsAgree, ServerRows
    <3>2. Settled(v, r)
      BY <2>3, <3>1
    <3>3. CASE v # c.view
      <4>1. v \notin doubt /\ r \notin moved[v] /\ cache'.view[v].rows = cache.view[v].rows
        BY <1>2, <1>7, <1>9, <1>12, <1>16, <2>1, <3>1, <3>3
      <4>2. /\ r \in cache.view[v].rows <=> r \in ServerRows(v)
            /\ r \in cache.view[v].rows => cache.map[r] # Missing
        BY <3>1, <3>2, <4>1 DEF DataInv, RowsAgree
      <4> QED BY <2>9, <2>10, <4>1, <4>2
    <3>4. CASE v = c.view
      <4>1. ~c.raced
        BY <1>2, <1>16, <3>1, <3>4
      <4>2. r \in ResultRows(c) <=> r \in ServerRows(v)
        BY <2>8, <3>2, <3>4, <4>1
      <4>3. cache'.view[v].rows = KeptRows(c) \cup ResultRows(c)
        BY <1>7, <1>9, <3>4
      <4>4. CASE KeptRows(c) = {}
        BY <2>9, <2>10, <4>2, <4>3, <4>4
      <4>5. CASE KeptRows(c) # {}
        <5>1. v \notin doubt /\ r \notin moved[v]
          BY <1>2, <1>16, <3>1, <4>1, <4>5
        <5>2. KeptRows(c) = cache.view[v].rows
          BY <2>11, <3>4, <4>5
        <5>3. /\ r \in cache.view[v].rows <=> r \in ServerRows(v)
              /\ r \in cache.view[v].rows => cache.map[r] # Missing
          BY <3>2, <4>5, <5>1, <5>2 DEF DataInv, RowsAgree
        <5> QED BY <2>9, <2>10, <4>2, <4>3, <5>2, <5>3
      <4> QED BY <4>4, <4>5
    <3> QED BY <3>3, <3>4
  <2>13. ValuesAgree'
    <3>1. SUFFICES ASSUME NEW v \in Views, NEW r \in Rows, v \notin doubt',
                          r \in cache'.view[v].rows, cache'.map[r] # Missing,
                          ~Pending({"modify"}, r)'
                   PROVE  cache'.map[r] = server.value[r]
      BY <1>2 DEF ValuesAgree
    <3>2. ~Pending({"modify"}, r)
      BY <2>4, <3>1
    <3>3. CASE r \in ResultRows(c)
      BY <2>6, <2>9, <3>2, <3>3
    <3>4. CASE r \notin ResultRows(c)
      <4>1. cache'.map[r] = cache.map[r]
        BY <2>9, <3>4
      <4>2. r \in cache.view[v].rows
        BY <1>7, <1>9, <2>1, <2>11, <3>1, <3>4
      <4>3. v \notin doubt
        <5>1. v = c.view => KeptRows(c) # {}
          BY <1>7, <1>9, <3>1, <3>4
        <5> QED BY <1>2, <1>16, <3>1, <5>1
      <4> QED BY <3>1, <3>2, <4>1, <4>2, <4>3 DEF DataInv, ValuesAgree
    <3> QED BY <3>3, <3>4
  <2> QED
    BY <1>2, <1>3, <1>10, <1>12, <1>13, <1>14, <2>2, <2>12, <2>13, Together DEF DataInv, Types
<1> QED BY <1>15, <1>16

-----------------------------------------------------------------------------
(* Calls made, refused and forgotten *)

\* Where the executed calls stay, what is due stays.
LEMMA PendingStays ==
  ASSUME \A d \in calls' : d.phase = "done" => \E e \in calls : Same(d, e),
         \A e \in calls : e.phase = "done" => \E d \in calls' : Same(d, e)
  PROVE  /\ \A ks, r : Pending(ks, r)' <=> Pending(ks, r)
         /\ Emptied' <=> Emptied
<1>1. ASSUME NEW ks, NEW r PROVE Pending(ks, r)' <=> Pending(ks, r)
  BY DEF Pending, Same
<1>2. Emptied' <=> Emptied
  BY DEF Emptied, Same
<1> QED BY <1>1, <1>2

\* Where nothing happens at the server and to what is due, a call keeps its promise.
LEMMA PromiseStays ==
  ASSUME NEW d, CallAgrees(d), server' = server, moved' = moved,
         d.kind = "filter" \/ cache' = cache,
         \A e \in calls : e.phase = "done" => \E f \in calls' : Same(f, e),
         \A ks, r : Pending(ks, r)' <=> Pending(ks, r), Emptied' <=> Emptied
  PROVE  CallAgrees(d)'
<1>1. \A v, r : Settled(v, r)' <=> Settled(v, r)
  <2>1. ASSUME NEW v, NEW r PROVE Settled(v, r)' <=> Settled(v, r)
    <3>1. Pending(Touching(v), r)' <=> Pending(Touching(v), r)
      OBVIOUS
    <3> QED BY <3>1 DEF Settled, Touching
  <2> QED BY <2>1
<1>2. FetchedAgrees(d) => FetchedAgrees(d)'
  BY <1>1 DEF FetchedAgrees, In
<1>3. ListedAgrees(d) => ListedAgrees(d)'
  BY DEF ListedAgrees
<1>4. /\ Undone(d, "live", Reviving) => Undone(d, "live", Reviving)'
      /\ Undone(d, "trashed", {"delete"}) => Undone(d, "trashed", {"delete"})'
  BY DEF Undone
<1>5. ModifiedAgrees(d) => ModifiedAgrees(d)'
  BY DEF ModifiedAgrees, Same
<1> QED BY <1>2, <1>3, <1>4, <1>5 DEF CallAgrees

\* Nor does the cache disagree with it.
LEMMA RowsStay ==
  ASSUME DataInv, server' = server, moved' = moved, doubt' = doubt, cache'.map = cache.map,
         \A v \in Views : cache'.view[v].rows = cache.view[v].rows \/ cache'.view[v].rows = {},
         \A ks, r : Pending(ks, r)' <=> Pending(ks, r), Emptied' <=> Emptied
  PROVE  RowsAgree' /\ ValuesAgree'
<1>1. ASSUME NEW v \in Views, NEW r \in Rows
      PROVE  Settled(v, r)' <=> Settled(v, r)
  <2>1. Pending(Touching(v), r)' <=> Pending(Touching(v), r)
    OBVIOUS
  <2> QED BY <2>1 DEF Settled, Touching
<1>2. \A v : ServerRows(v)' = ServerRows(v)
  BY DEF ServerRows
<1>3. RowsAgree'
  BY <1>1, <1>2 DEF DataInv, RowsAgree
<1>4. ValuesAgree'
  BY DEF DataInv, ValuesAgree
<1> QED BY <1>3, <1>4

LEMMA NewCall ==
  ASSUME DataInv, NEW kind \in Kinds, NEW v \in Views, NEW rs \in SUBSET Rows,
         NEW x \in Values, NEW f \in Filters, Ask(kind, v, rs, x, f)
  PROVE  /\ Call(kind, v, rs, x, f) \in CallRec
         /\ Stamped(Call(kind, v, rs, x, f).seen)
         /\ ncalls' \in 0..MaxCalls
BY BoundAssumption DEF DataInv, Types, Ask, Call, CallRec

LEMMA AskKeeps ==
  ASSUME DataInv, NEW kind \in Kinds, NEW v \in Views, NEW rs \in SUBSET Rows,
         NEW x \in Values, NEW f \in Filters, Ask(kind, v, rs, x, f), kind # "filter",
         cache' = cache
  PROVE  DataInv'
<1> DEFINE n == Call(kind, v, rs, x, f)
<1>1. /\ n \in CallRec /\ Stamped(n.seen) /\ ncalls' \in 0..MaxCalls
      /\ n.kind = kind /\ n.phase = "asked" /\ n.seen = cache
  BY NewCall DEF Call
<1>2. /\ calls' = calls \cup {n} /\ aged' = aged /\ server' = server /\ doubt' = doubt
      /\ astray' = astray /\ moved' = moved
  BY DEF Ask
<1> HIDE DEF n
<1>3. /\ \A d \in calls' : d.phase = "done" => \E e \in calls : Same(d, e)
      /\ \A e \in calls : e.phase = "done" => \E d \in calls' : Same(d, e)
  BY <1>1, <1>2 DEF Same
<1>4. /\ \A ks, r : Pending(ks, r)' <=> Pending(ks, r)
      /\ Emptied' <=> Emptied
  BY <1>3, PendingStays
<1>5. CallsAgree'
  <2>1. SUFFICES ASSUME NEW d \in calls', ~d.passed PROVE CallAgrees(d)'
    BY DEF CallsAgree
  <2>2. CASE d \in calls
    BY <1>2, <1>4, <1>3, <2>1, <2>2, PromiseStays DEF DataInv, CallsAgree
  <2>3. CASE d = n
    BY <1>1, <2>3 DEF CallAgrees
  <2> QED BY <1>2, <2>2, <2>3
<1>6. RowsAgree' /\ ValuesAgree'
  BY <1>2, <1>4, RowsStay
<1>7. FiltersAgree'
  BY <1>1, <1>2 DEF DataInv, FiltersAgree
<1>8. OneFilterEach'
  BY <1>1, <1>2 DEF DataInv, OneFilterEach
<1>9. CallsKept
  BY <1>1, <1>2, <1>5, <1>8 DEF CallsKept, DataInv, Types
<1> QED
  BY <1>1, <1>2, <1>6, <1>7, <1>9, Together DEF DataInv, Types

LEMMA ModifyViewKeeps ==
  ASSUME DataInv, NEW v \in Saved, NEW f \in Filters, ModifyView(v, f)
  PROVE  DataInv'
<1> DEFINE n == Call("filter", v, {}, Default, f)
<1>1. v \in Views /\ v # Trash
  BY ViewsAssumption DEF Views
<1>2. Ask("filter", v, {}, Default, f)
  BY DEF ModifyView
<1>3. /\ n \in CallRec /\ Stamped(n.seen) /\ ncalls' \in 0..MaxCalls
      /\ n.kind = "filter" /\ n.phase = "asked" /\ n.view = v /\ n.filter = f
  <2> DEFINE none == {}
  <2>1. none \in SUBSET Rows /\ Default \in Values /\ "filter" \in Kinds
    BY ValuesAssumption DEF Kinds
  <2>2. n = Call("filter", v, none, Default, f) /\ Ask("filter", v, none, Default, f)
    BY <1>2
  <2> HIDE DEF none
  <2>3. /\ n \in CallRec /\ Stamped(n.seen) /\ ncalls' \in 0..MaxCalls
    BY <1>1, <2>1, <2>2, NewCall
  <2> QED BY <2>3 DEF Call
<1>4. /\ calls' = Passed(calls) \cup {n} /\ aged' = aged /\ server' = server /\ doubt' = doubt
      /\ astray' = astray /\ moved' = moved
  BY <1>2 DEF Ask
<1> HIDE DEF n
<1>5. /\ Passed(calls) \subseteq CallRec
      /\ \A d \in Passed(calls) : d.passed /\ \E e \in calls : Same(d, e)
      /\ \A e \in calls : \E d \in Passed(calls) : Same(d, e)
  BY PassedCalls DEF DataInv, Types
<1>6. /\ \A ks, r : Pending(ks, r)' <=> Pending(ks, r)
      /\ Emptied' <=> Emptied
  <2>1. /\ \A d \in calls' : d.phase = "done" => \E e \in calls : Same(d, e)
        /\ \A e \in calls : e.phase = "done" => \E d \in calls' : Same(d, e)
    BY <1>3, <1>4, <1>5
  <2> QED BY <2>1, PendingStays
<1>7. cache \in Cache /\ Stamped(cache)
  BY DEF DataInv, Types
<1>8. /\ cache' \in Cache /\ cache'.map = cache.map
      /\ cache'.view[v] = [rows |-> {}, stamp |-> FALSE, filter |-> f]
      /\ \A w \in Views \ {v} : cache'.view[w] = cache.view[w]
  <2>1. cache' = [cache EXCEPT !.view[v] = [rows |-> {}, stamp |-> FALSE, filter |-> f]]
    BY DEF ModifyView
  <2>2. [rows |-> {}, stamp |-> FALSE, filter |-> f] \in CachedView
    BY DEF CachedView
  <2> QED BY <1>1, <1>7, <2>1, <2>2 DEF Cache
<1>9. Stamped(cache')
  BY <1>7, <1>8 DEF Stamped
<1>10. RowsAgree' /\ ValuesAgree'
  <2>1. \A w \in Views : cache'.view[w].rows = cache.view[w].rows \/ cache'.view[w].rows = {}
    BY <1>8
  <2> QED BY <1>4, <1>6, <1>8, <2>1, RowsStay
<1>11. \A d \in calls : d.kind = "filter" => d.view # v
  BY DEF ModifyView, ChangingFilter
<1>12. FiltersAgree'
  <2>1. SUFFICES ASSUME NEW w \in Saved, w \notin astray
                 PROVE  /\ (\A d \in calls' : ~(d.kind = "filter" /\ d.view = w /\ d.phase = "asked"))
                             => cache'.view[w].filter = server.filter[w]
                        /\ \A d \in calls' : d.kind = "filter" /\ d.view = w /\ d.phase = "asked"
                             => cache'.view[w].filter = d.filter
    BY <1>4 DEF FiltersAgree
  <2>2. CASE w = v
    <3>1. \A d \in Passed(calls) : d.kind = "filter" => d.view # v
      BY <1>5, <1>11 DEF Same
    <3> QED BY <1>3, <1>4, <1>8, <2>2, <3>1
  <2>3. CASE w # v
    <3>1. cache'.view[w] = cache.view[w]
      BY <1>8, <2>3 DEF Views
    <3>2. ASSUME \A d \in calls' : ~(d.kind = "filter" /\ d.view = w /\ d.phase = "asked")
          PROVE  \A e \in calls : ~(e.kind = "filter" /\ e.view = w /\ e.phase = "asked")
      BY <1>4, <1>5, <3>2 DEF Same
    <3>3. ASSUME NEW d \in calls', d.kind = "filter", d.view = w, d.phase = "asked"
          PROVE  cache.view[w].filter = d.filter
      <4>1. PICK e \in calls : Same(d, e)
        BY <1>3, <1>4, <1>5, <2>3, <3>3
      <4>2. e.kind = "filter" /\ e.view = w /\ e.phase = "asked" /\ e.filter = d.filter
        BY <3>3, <4>1 DEF Same
      <4> QED BY <2>1, <4>2 DEF DataInv, FiltersAgree
    <3> QED BY <2>1, <3>1, <3>2, <3>3 DEF DataInv, FiltersAgree
  <2> QED BY <2>2, <2>3
<1>13. CallsKept
  <2>1. CallsAgree'
    BY <1>3, <1>4, <1>5 DEF CallsAgree, CallAgrees
  <2>2. OneFilterEach'
    <3>1. OneEach(Passed(calls))
      <4>1. calls \in SUBSET CallRec /\ OneEach(calls)
        BY DEF DataInv, Types, OneFilterEach, OneEach
      <4> QED BY <4>1, PassedFilters
    <3>2. \A d \in Passed(calls) : d.kind = "filter" => d.view # v
      BY <1>5, <1>11 DEF Same
    <3> QED BY <1>3, <1>4, <3>1, <3>2 DEF OneFilterEach, OneEach
  <2>3. calls' \subseteq CallRec
    BY <1>3, <1>4, <1>5
  <2>4. \A d \in calls' : Stamped(d.seen) /\ (d.kind = "filter" => d.view \in Saved)
    BY <1>3, <1>4, <1>5 DEF Same, DataInv, Types
  <2> QED BY <2>1, <2>2, <2>3, <2>4 DEF CallsKept
<1> QED
  BY <1>3, <1>4, <1>8, <1>9, <1>10, <1>12, <1>13, Together DEF DataInv, Types

LEMMA FailKeeps ==
  ASSUME DataInv, NEW c \in calls, Fail(c)
  PROVE  DataInv'
<1>1. /\ c.phase = "asked" /\ calls' = calls \ {c} /\ cache' = cache /\ aged' = aged
      /\ server' = server /\ ncalls' = ncalls /\ doubt' = doubt /\ moved' = moved
      /\ astray' = IF c.kind = "filter" THEN astray \cup {c.view} ELSE astray
  BY DEF Fail
<1>2. /\ \A d \in calls' : d.phase = "done" => \E e \in calls : Same(d, e)
      /\ \A e \in calls : e.phase = "done" => \E d \in calls' : Same(d, e)
  BY <1>1 DEF Same
<1>3. /\ \A ks, r : Pending(ks, r)' <=> Pending(ks, r)
      /\ Emptied' <=> Emptied
  BY <1>2, PendingStays
<1>4. CallsAgree'
  <2>1. SUFFICES ASSUME NEW d \in calls', ~d.passed PROVE CallAgrees(d)'
    BY DEF CallsAgree
  <2>2. CallAgrees(d)
    BY <1>1, <2>1 DEF DataInv, CallsAgree
  <2> QED BY <1>1, <1>2, <1>3, <2>2, PromiseStays
<1>5. RowsAgree' /\ ValuesAgree'
  BY <1>1, <1>3, RowsStay
<1>6. FiltersAgree'
  BY <1>1 DEF DataInv, FiltersAgree
<1>7. OneFilterEach'
  BY <1>1 DEF DataInv, OneFilterEach
<1>8. CallsKept
  BY <1>1, <1>4, <1>7 DEF CallsKept, DataInv, Types
<1>9. astray' \subseteq Saved
  BY <1>1 DEF DataInv, Types
<1> QED
  BY <1>1, <1>5, <1>6, <1>8, <1>9, Together DEF DataInv, Types

LEMMA AgeKeeps ==
  ASSUME DataInv, NEW v \in Views, Age(v)
  PROVE  DataInv'
<1>1. /\ calls' = calls /\ cache' = cache /\ aged' = aged \cup {v}
      /\ server' = server /\ ncalls' = ncalls /\ doubt' = doubt /\ moved' = moved
      /\ astray' = astray
  BY DEF Age
<1>2. /\ \A ks, r : Pending(ks, r)' <=> Pending(ks, r)
      /\ Emptied' <=> Emptied
  BY <1>1 DEF Pending, Emptied
<1>3. CallsAgree'
  <2>1. SUFFICES ASSUME NEW d \in calls', ~d.passed PROVE CallAgrees(d)'
    BY DEF CallsAgree
  <2>2. CallAgrees(d)
    BY <1>1, <2>1 DEF DataInv, CallsAgree
  <2>3. \A e \in calls : e.phase = "done" => \E f \in calls' : Same(f, e)
    BY <1>1 DEF Same
  <2> QED BY <1>1, <1>2, <2>2, <2>3, PromiseStays
<1>4. RowsAgree' /\ ValuesAgree'
  BY <1>1, <1>2, RowsStay
<1>5. FiltersAgree' /\ OneFilterEach'
  BY <1>1 DEF DataInv, FiltersAgree, OneFilterEach
<1>6. CallsKept
  BY <1>1, <1>3, <1>5 DEF CallsKept, DataInv, Types
<1> QED
  BY <1>1, <1>4, <1>5, <1>6, Together DEF DataInv, Types

\* What the user does makes a call and nothing else, but for the filters.
LEMMA UserKeeps ==
  ASSUME DataInv, User
  PROVE  DataInv'
<1> DEFINE none == {}
<1>1. /\ none \in SUBSET Rows /\ Default \in Values /\ Values \in Filters /\ Trash \in Views
      /\ \A k \in {"load", "reload", "views", "modify", "delete", "insert", "restore", "clear"} :
           k \in Kinds /\ k # "filter"
  BY ValuesAssumption DEF Filters, Views, Kinds
<1>2. ASSUME NEW v \in Views, NEW is_reload \in BOOLEAN, GetMetadata(v, is_reload)
      PROVE  DataInv'
  <2>1. cache' = cache /\ (Ask("reload", v, none, Default, Values)
                           \/ Ask("load", v, none, Default, Values))
    BY <1>2 DEF GetMetadata
  <2> HIDE DEF none
  <2> QED BY <1>1, <2>1, AskKeeps
<1>3. ASSUME GetTableViews PROVE DataInv'
  <2>1. cache' = cache /\ Ask("views", Trash, none, Default, Values)
    BY <1>3 DEF GetTableViews
  <2> HIDE DEF none
  <2> QED BY <1>1, <2>1, AskKeeps
<1>4. ASSUME NEW r \in Rows, NEW x \in Values, ModifyRow(r, x) PROVE DataInv'
  <2> DEFINE one == {r}
  <2>1. cache' = cache /\ Ask("modify", Trash, one, x, Values) /\ one \in SUBSET Rows
    BY <1>4 DEF ModifyRow
  <2> HIDE DEF one
  <2> QED BY <1>1, <2>1, AskKeeps
<1>5. ASSUME NEW rs \in SUBSET Rows, DeleteRows(rs) PROVE DataInv'
  <2>1. cache' = cache /\ Ask("delete", Trash, rs, Default, Values)
    BY <1>5 DEF DeleteRows
  <2> QED BY <1>1, <2>1, AskKeeps
<1>6. ASSUME NEW r \in Rows, InsertRow(r) PROVE DataInv'
  <2> DEFINE one == {r}
  <2>1. cache' = cache /\ Ask("insert", Trash, one, Default, Values) /\ one \in SUBSET Rows
    BY <1>6 DEF InsertRow
  <2> HIDE DEF one
  <2> QED BY <1>1, <2>1, AskKeeps
<1>7. ASSUME NEW rs \in SUBSET Rows, RestoreRows(rs) PROVE DataInv'
  <2>1. cache' = cache /\ Ask("restore", Trash, rs, Default, Values)
    BY <1>7 DEF RestoreRows
  <2> QED BY <1>1, <2>1, AskKeeps
<1>8. ASSUME ClearTrash PROVE DataInv'
  <2>1. cache' = cache /\ Ask("clear", Trash, none, Default, Values)
    BY <1>8 DEF ClearTrash
  <2> HIDE DEF none
  <2> QED BY <1>1, <2>1, AskKeeps
<1>9. ASSUME NEW v \in Saved, NEW f \in Filters, ModifyView(v, f) PROVE DataInv'
  BY <1>9, ModifyViewKeeps
<1> QED BY <1>2, <1>3, <1>4, <1>5, <1>6, <1>7, <1>8, <1>9 DEF User

-----------------------------------------------------------------------------
(* A call reaches the server *)

\* What a call does to the table.
LEMMA ExecutedServer ==
  ASSUME DataInv, NEW c \in calls, Accepts(c), server' = Executed(c)
  PROVE  /\ server' \in Server
         /\ \A r \in Rows : server'.value[r] = IF c.kind = "modify" /\ r \in c.rows THEN c.value
                                               ELSE server.value[r]
         /\ \A v \in Saved : server'.filter[v] = IF c.kind = "filter" /\ v = c.view THEN c.filter
                                                 ELSE server.filter[v]
         /\ c.kind # "filter" => server'.filter = server.filter
<1>1. server \in Server /\ c \in CallRec
  BY DEF DataInv, Types
<1>2. c.rows \subseteq Rows /\ c.value \in Values /\ c.filter \in Filters
  BY <1>1 DEF CallRec
<1>3. CASE c.kind = "modify"
  BY <1>1, <1>2, <1>3 DEF Executed, Server
<1>4. CASE c.kind \in {"delete", "insert", "restore", "clear"}
  <2>1. \/ server' = SetRows(c.rows, "live", "trashed")
        \/ server' = SetRows(c.rows, "unborn", "live")
        \/ server' = SetRows(c.rows, "trashed", "live")
        \/ server' = SetRows(Rows, "trashed", "gone")
    BY <1>4 DEF Executed
  <2> QED BY <1>1, <1>4, <2>1 DEF SetRows, Server
<1>5. CASE c.kind = "filter"
  BY <1>1, <1>2, <1>5 DEF Executed, Server
<1>6. CASE c.kind \notin {"modify", "delete", "insert", "restore", "clear", "filter"}
  BY <1>1, <1>6 DEF Executed
<1> QED BY <1>3, <1>4, <1>5, <1>6

\* How the state of a row changes.
Change(c, r, s, t) ==
  \/ t = s
  \/ c.kind = "delete" /\ r \in c.rows /\ s = "live" /\ t = "trashed"
  \/ c.kind = "insert" /\ r \in c.rows /\ s = "unborn" /\ t = "live"
  \/ c.kind = "restore" /\ r \in c.rows /\ s = "trashed" /\ t = "live"
  \/ c.kind = "clear" /\ s = "trashed" /\ t = "gone"

LEMMA ExecutedStates ==
  ASSUME DataInv, NEW c \in calls, Accepts(c), server' = Executed(c)
  PROVE  /\ \A r \in Rows : Change(c, r, server.state[r], server'.state[r])
         /\ c.kind = "delete" => \A r \in c.rows : server'.state[r] # "live"
         /\ c.kind = "restore" => \A r \in c.rows : server'.state[r] # "trashed"
<1>1. server \in Server /\ c.rows \subseteq Rows
  BY DEF DataInv, Types, CallRec
<1>2. ASSUME NEW rs, NEW from, NEW to, server' = SetRows(rs, from, to)
      PROVE  \A r \in Rows : server'.state[r] = IF r \in rs /\ server.state[r] = from THEN to
                                                ELSE server.state[r]
  BY <1>1, <1>2 DEF SetRows, Server
<1>3. CASE c.kind = "delete"
  <2>1. server' = SetRows(c.rows, "live", "trashed")
    BY <1>3 DEF Executed
  <2>2. \A r \in Rows : server'.state[r] = IF r \in c.rows /\ server.state[r] = "live"
                                           THEN "trashed" ELSE server.state[r]
    BY <1>2, <2>1
  <2> QED BY <1>1, <1>3, <2>2 DEF Change
<1>4. CASE c.kind = "insert"
  <2>1. server' = SetRows(c.rows, "unborn", "live")
    BY <1>4 DEF Executed
  <2>2. \A r \in Rows : server'.state[r] = IF r \in c.rows /\ server.state[r] = "unborn"
                                           THEN "live" ELSE server.state[r]
    BY <1>2, <2>1
  <2> QED BY <1>1, <1>4, <2>2 DEF Change
<1>5. CASE c.kind = "restore"
  <2>1. server' = SetRows(c.rows, "trashed", "live")
    BY <1>5 DEF Executed
  <2>2. \A r \in Rows : server'.state[r] = IF r \in c.rows /\ server.state[r] = "trashed"
                                           THEN "live" ELSE server.state[r]
    BY <1>2, <2>1
  <2> QED BY <1>1, <1>5, <2>2 DEF Change
<1>6. CASE c.kind = "clear"
  <2>1. server' = SetRows(Rows, "trashed", "gone")
    BY <1>6 DEF Executed
  <2>2. \A r \in Rows : server'.state[r] = IF r \in Rows /\ server.state[r] = "trashed"
                                           THEN "gone" ELSE server.state[r]
    BY <1>2, <2>1
  <2> QED BY <1>6, <2>2 DEF Change
<1>7. CASE c.kind = "modify"
  BY <1>1, <1>7 DEF Executed, Change, Server
<1>8. CASE c.kind = "filter"
  BY <1>1, <1>8 DEF Executed, Change, Server
<1>9. CASE c.kind \notin {"modify", "delete", "insert", "restore", "clear", "filter"}
  BY <1>1, <1>9 DEF Executed, Change
<1> QED BY <1>3, <1>4, <1>5, <1>6, <1>7, <1>8, <1>9

\* The call after the server executed it, and the other calls.
Done(n, c) ==
  /\ n.phase = "done" /\ n.result = server'
  /\ n.kind = c.kind /\ n.view = c.view /\ n.rows = c.rows /\ n.value = c.value
  /\ n.filter = c.filter /\ n.seen = c.seen /\ n.passed = c.passed

Raced(d, c) ==
  [d EXCEPT !.raced = @ \/ (c.kind = "filter" /\ d.phase = "done" /\ Fetches(d, c.view))]

LEMMA RacedCall ==
  ASSUME NEW d \in CallRec, NEW c \in CallRec
  PROVE  /\ Raced(d, c) \in CallRec /\ Same(Raced(d, c), d)
         /\ Raced(d, c).passed = d.passed /\ (d.raced => Raced(d, c).raced)
         /\ c.kind = "filter" /\ d.phase = "done" /\ Fetches(d, c.view) => Raced(d, c).raced
<1>1. (d.raced \/ (c.kind = "filter" /\ d.phase = "done" /\ Fetches(d, c.view))) \in BOOLEAN
  OBVIOUS
<1> QED BY <1>1 DEF CallRec, Same, Raced

\* The other call, after it was raced or not.
After(d, e, c) ==
  /\ d = Raced(e, c) /\ d \in CallRec /\ Same(d, e)
  /\ d.passed = e.passed /\ (e.raced => d.raced)
  /\ c.kind = "filter" /\ e.phase = "done" /\ Fetches(e, c.view) => d.raced

LEMMA ExecutedCalls ==
  ASSUME DataInv, NEW c \in calls, Execute(c)
  PROVE  /\ c.phase = "asked" /\ calls' \subseteq CallRec
         /\ \E n \in calls' : Done(n, c)
         /\ \A d \in calls' : Done(d, c) \/ \E e \in calls \ {c} : After(d, e, c)
         /\ \A e \in calls \ {c} : \E d \in calls' : After(d, e, c)
<1> DEFINE n == [c EXCEPT !.phase = "done", !.result = Executed(c)]
<1>1. /\ c.phase = "asked" /\ server' = Executed(c) /\ Accepts(c)
      /\ calls' = {Raced(d, c) : d \in calls \ {c}} \cup {n}
  BY DEF Execute, Raced
<1>2. calls \subseteq CallRec /\ c \in CallRec
  BY DEF DataInv, Types
<1>3. Executed(c) \in Server
  BY <1>1, ExecutedServer
<1>4. n \in CallRec /\ Done(n, c)
  BY <1>1, <1>2, <1>3 DEF CallRec, Done
<1> HIDE DEF n
<1>5. \A e \in calls \ {c} : After(Raced(e, c), e, c)
  BY <1>2, RacedCall DEF After
<1>6. calls' \subseteq CallRec
  BY <1>1, <1>4, <1>5 DEF After
<1> QED BY <1>1, <1>4, <1>5, <1>6

\* What is due after a call was executed: what was due, and the call's rows.
LEMMA ExecutedPending ==
  ASSUME DataInv, NEW c \in calls, Execute(c), NEW ks, NEW r
  PROVE  /\ Pending(ks, r) => Pending(ks, r)'
         /\ c.kind \in ks /\ r \in c.rows => Pending(ks, r)'
<1>1. /\ c.phase = "asked" /\ \E n \in calls' : Done(n, c)
      /\ \A e \in calls \ {c} : \E d \in calls' : After(d, e, c)
  BY ExecutedCalls
<1> QED BY <1>1 DEF Pending, Done, After, Same

LEMMA ExecutedEmptied ==
  ASSUME DataInv, NEW c \in calls, Execute(c)
  PROVE  /\ Emptied => Emptied'
         /\ c.kind = "clear" => Emptied'
<1>1. /\ c.phase = "asked" /\ \E n \in calls' : Done(n, c)
      /\ \A e \in calls \ {c} : \E d \in calls' : After(d, e, c)
  BY ExecutedCalls
<1> QED BY <1>1 DEF Emptied, Done, After, Same

\* A row about which nothing is due is shown by a view as before.
LEMMA ExecutedSettled ==
  ASSUME DataInv, NEW c \in calls, Execute(c), NEW v \in Views, NEW r \in Rows, Settled(v, r)'
  PROVE  /\ Settled(v, r)
         /\ In(v, server'.state[r]) <=> In(v, server.state[r])
         /\ v # Trash => server'.value[r] = server.value[r]
<1>1. ~Pending(Touching(v), r)' /\ (v = Trash => ~Emptied')
  BY DEF Settled, Touching
<1>2. Settled(v, r)
  BY <1>1, ExecutedPending, ExecutedEmptied DEF Settled
<1>3. ~(c.kind \in Touching(v) /\ r \in c.rows) /\ ~(v = Trash /\ c.kind = "clear")
  BY <1>1, ExecutedPending, ExecutedEmptied
<1>4. Accepts(c) /\ server' = Executed(c)
  BY DEF Execute
<1>5. Change(c, r, server.state[r], server'.state[r])
  BY <1>4, ExecutedStates
<1>6. In(v, server'.state[r]) <=> In(v, server.state[r])
  BY <1>3, <1>5 DEF Change, In, Touching
<1>7. v # Trash => server'.value[r] = server.value[r]
  BY <1>3, <1>4, ExecutedServer DEF Touching
<1> QED BY <1>2, <1>6, <1>7

LEMMA ExecutedValue ==
  ASSUME DataInv, NEW c \in calls, Execute(c), NEW r \in Rows, ~Pending({"modify"}, r)'
  PROVE  ~Pending({"modify"}, r) /\ server'.value[r] = server.value[r]
<1>1. ~Pending({"modify"}, r) /\ ~(c.kind \in {"modify"} /\ r \in c.rows)
  BY ExecutedPending
<1>2. Accepts(c) /\ server' = Executed(c)
  BY DEF Execute
<1> QED BY <1>1, <1>2, ExecutedServer

\* The call just executed carries what the server now stores.
LEMMA ExecutedPromise ==
  ASSUME DataInv, NEW c \in calls, Execute(c), NEW n \in calls', Done(n, c), ~n.passed
  PROVE  CallAgrees(n)'
<1>1. Accepts(c) /\ server' = Executed(c) /\ cache' = cache
      /\ moved' = [v \in Views |-> IF c.kind = "modify" /\ v # Trash THEN moved[v] \cup c.rows
                                   ELSE moved[v]]
  BY DEF Execute
<1>2. /\ n.phase = "done" /\ n.result = server' /\ n.kind = c.kind /\ n.view = c.view
      /\ n.rows = c.rows /\ n.value = c.value /\ n.seen = c.seen /\ ~c.passed
  BY DEF Done
<1>3. c.kind # "filter" => n.seen = cache'
  BY <1>1, <1>2 DEF DataInv, CallsAgree, CallAgrees
<1>4. FetchedAgrees(n)' /\ ListedAgrees(n)'
  BY <1>2 DEF FetchedAgrees, ListedAgrees
<1>5. c.kind = "modify" => ModifiedAgrees(n)'
  <2>1. SUFFICES ASSUME c.kind = "modify" PROVE ModifiedAgrees(n)'
    OBVIOUS
  <2>2. \A v \in Saved : n.rows \subseteq moved'[v]
    BY <1>1, <1>2, <2>1, ViewsAssumption DEF Views
  <2>3. \A r \in n.rows : n.value = server'.value[r]
    <3>1. c.rows \subseteq Rows
      BY DEF DataInv, Types, CallRec
    <3> QED BY <1>1, <1>2, <2>1, <3>1, ExecutedServer
  <2> QED BY <1>2, <2>1, <2>2, <2>3 DEF ModifiedAgrees
<1>6. c.kind = "delete" => Undone(n, "live", Reviving)'
  BY <1>1, <1>2, ExecutedStates DEF Undone
<1>7. c.kind = "restore" => Undone(n, "trashed", {"delete"})'
  BY <1>1, <1>2, ExecutedStates DEF Undone
<1> QED BY <1>2, <1>3, <1>4, <1>5, <1>6, <1>7 DEF CallAgrees

\* The other calls keep their promises.
LEMMA OtherPromises ==
  ASSUME DataInv, NEW c \in calls, Execute(c), NEW e \in calls \ {c}, NEW d \in calls',
         After(d, e, c), ~d.passed
  PROVE  CallAgrees(d)'
<1>1. Accepts(c) /\ server' = Executed(c) /\ cache' = cache
      /\ moved' = [v \in Views |-> IF c.kind = "modify" /\ v # Trash THEN moved[v] \cup c.rows
                                   ELSE moved[v]]
  BY DEF Execute
<1>2. /\ d.kind = e.kind /\ d.view = e.view /\ d.rows = e.rows /\ d.value = e.value
      /\ d.phase = e.phase /\ d.seen = e.seen /\ d.result = e.result /\ ~e.passed
      /\ (e.raced => d.raced)
      /\ (c.kind = "filter" /\ e.phase = "done" /\ Fetches(e, c.view) => d.raced)
  BY DEF After, Same
<1>3. CallAgrees(e)
  BY <1>2 DEF DataInv, CallsAgree
<1>4. e.view \in Views /\ e.rows \subseteq Rows /\ moved \in [Views -> SUBSET Rows]
      /\ server \in Server /\ e.result \in Server
  BY DEF DataInv, Types, CallRec
<1>5. \A v \in Saved : server'.filter[v] = IF c.kind = "filter" /\ v = c.view THEN c.filter
                                           ELSE server.filter[v]
  BY <1>1, ExecutedServer
<1>6. ASSUME e.phase = "done", e.kind \in {"load", "reload"}
      PROVE  FetchedAgrees(d)'
  <2>1. FetchedAgrees(e)
    BY <1>3, <1>6 DEF CallAgrees
  <2>2. ASSUME NEW r \in Rows, ~Pending({"modify"}, r)'
        PROVE  d.result.value[r] = server'.value[r]
    <3>1. ~Pending({"modify"}, r) /\ server'.value[r] = server.value[r]
      BY <2>2, ExecutedValue
    <3> QED BY <1>2, <2>1, <3>1 DEF FetchedAgrees
  <2>3. ASSUME NEW r \in Rows, Settled(d.view, r)'
        PROVE  In(d.view, d.result.state[r]) <=> In(d.view, server'.state[r])
    <3>1. Settled(e.view, r)'
      BY <1>2, <2>3
    <3>2. Settled(e.view, r) /\ (In(e.view, server'.state[r]) <=> In(e.view, server.state[r]))
      BY <1>4, <3>1, ExecutedSettled
    <3> QED BY <1>2, <2>1, <3>2 DEF FetchedAgrees
  <2>4. d.raced \/ d.view = Trash \/ d.result.filter[d.view] = server'.filter[d.view]
    <3>1. e.raced \/ e.view = Trash \/ e.result.filter[e.view] = server.filter[e.view]
      BY <2>1 DEF FetchedAgrees
    <3>2. c.kind = "filter" /\ c.view = e.view => d.raced
      BY <1>2, <1>6 DEF Fetches
    <3>3. e.view = Trash \/ e.view \in Saved
      BY <1>4 DEF Views
    <3> QED BY <1>2, <1>5, <3>1, <3>2, <3>3
  <2>5. \A r \in Rows : Settled(d.view, r)' =>
          (In(d.view, d.result.state[r]) <=> In(d.view, server'.state[r]))
    BY <2>3
  <2> QED BY <2>2, <2>4, <2>5 DEF FetchedAgrees, In
<1>7. ASSUME e.phase = "done", e.kind = "views"
      PROVE  ListedAgrees(d)'
  <2>1. ListedAgrees(e)
    BY <1>3, <1>7 DEF CallAgrees
  <2>2. c.kind = "filter" => d.raced
    BY <1>2, <1>7 DEF Fetches
  <2>3. c.kind # "filter" => server'.filter = server.filter
    BY <1>1, ExecutedServer
  <2> QED BY <1>2, <2>1, <2>2, <2>3 DEF ListedAgrees
<1>8. ASSUME e.phase = "done", e.kind = "modify"
      PROVE  ModifiedAgrees(d)'
  <2>1. ModifiedAgrees(e)
    BY <1>3, <1>8 DEF CallAgrees
  <2>2. \A v \in Saved : d.rows \subseteq moved'[v]
    BY <1>1, <1>2, <2>1 DEF ModifiedAgrees, Views
  <2>3. ASSUME NEW r \in d.rows
        PROVE  \E m \in calls' : m.phase = "done" /\ m.kind = "modify" /\ r \in m.rows
                                 /\ m.value = server'.value[r]
    <3>1. PICK m \in calls : m.phase = "done" /\ m.kind = "modify" /\ r \in m.rows
                             /\ m.value = server.value[r]
      BY <1>2, <2>1, <2>3 DEF ModifiedAgrees
    <3>2. /\ c.phase = "asked" /\ \E n \in calls' : Done(n, c)
          /\ \A g \in calls \ {c} : \E h \in calls' : After(h, g, c)
      BY ExecutedCalls
    <3>3. r \in Rows
      BY <1>2, <1>4, <2>3
    <3>4. CASE c.kind = "modify" /\ r \in c.rows
      <4>1. server'.value[r] = c.value
        BY <1>1, <3>3, <3>4, ExecutedServer
      <4> QED BY <3>2, <3>4, <4>1 DEF Done
    <3>5. CASE ~(c.kind = "modify" /\ r \in c.rows)
      <4>1. server'.value[r] = server.value[r]
        BY <1>1, <3>3, <3>5, ExecutedServer
      <4>2. PICK h \in calls' : After(h, m, c)
        BY <3>1, <3>2
      <4> QED BY <3>1, <4>1, <4>2 DEF After, Same
    <3> QED BY <3>4, <3>5
  <2> QED BY <2>2, <2>3 DEF ModifiedAgrees
<1>9. \A r \in Rows : Change(c, r, server.state[r], server'.state[r])
  BY <1>1, ExecutedStates
<1>10. ASSUME e.phase = "done", e.kind = "delete"
       PROVE  Undone(d, "live", Reviving)'
  <2>1. Undone(e, "live", Reviving)
    BY <1>3, <1>10 DEF CallAgrees
  <2>2. SUFFICES ASSUME NEW r \in d.rows
                 PROVE  server'.state[r] = "live" => Pending(Reviving, r)'
    BY DEF Undone
  <2>3. r \in Rows /\ r \in e.rows
    BY <1>2, <1>4, <2>2
  <2>4. server.state[r] = "live" => Pending(Reviving, r)
    BY <2>1, <2>3 DEF Undone
  <2>5. Pending(Reviving, r) => Pending(Reviving, r)'
    BY ExecutedPending
  <2>6. c.kind \in Reviving /\ r \in c.rows => Pending(Reviving, r)'
    BY ExecutedPending
  <2>7. Change(c, r, server.state[r], server'.state[r])
    BY <1>9, <2>3
  <2> QED BY <2>4, <2>5, <2>6, <2>7 DEF Change, Reviving
<1>11. ASSUME e.phase = "done", e.kind = "restore"
       PROVE  Undone(d, "trashed", {"delete"})'
  <2>1. Undone(e, "trashed", {"delete"})
    BY <1>3, <1>11 DEF CallAgrees
  <2>2. SUFFICES ASSUME NEW r \in d.rows
                 PROVE  server'.state[r] = "trashed" => Pending({"delete"}, r)'
    BY DEF Undone
  <2>3. r \in Rows /\ r \in e.rows
    BY <1>2, <1>4, <2>2
  <2>4. server.state[r] = "trashed" => Pending({"delete"}, r)
    BY <2>1, <2>3 DEF Undone
  <2>5. Pending({"delete"}, r) => Pending({"delete"}, r)'
    BY ExecutedPending
  <2>6. c.kind \in {"delete"} /\ r \in c.rows => Pending({"delete"}, r)'
    BY ExecutedPending
  <2>7. Change(c, r, server.state[r], server'.state[r])
    BY <1>9, <2>3
  <2> QED BY <2>4, <2>5, <2>6, <2>7 DEF Change
<1>12. d.kind # "filter" => d.seen = cache'
  BY <1>1, <1>2, <1>3 DEF CallAgrees
<1> QED BY <1>2, <1>6, <1>7, <1>8, <1>10, <1>11, <1>12 DEF CallAgrees

LEMMA ExecuteKeeps ==
  ASSUME DataInv, NEW c \in calls, Execute(c)
  PROVE  DataInv'
<1>1. /\ Accepts(c) /\ server' = Executed(c) /\ cache' = cache /\ aged' = aged
      /\ ncalls' = ncalls /\ astray' = astray
      /\ doubt' = (IF c.kind = "filter" /\ cache.view[c.view].stamp THEN doubt \cup {c.view}
                   ELSE doubt)
      /\ moved' = [v \in Views |-> IF c.kind = "modify" /\ v # Trash THEN moved[v] \cup c.rows
                                   ELSE moved[v]]
  BY DEF Execute
<1>2. /\ cache \in Cache /\ Stamped(cache) /\ server \in Server /\ c \in CallRec
      /\ moved \in [Views -> SUBSET Rows] /\ (c.kind = "filter" => c.view \in Saved)
      /\ doubt \subseteq Views /\ c.rows \subseteq Rows
  BY DEF DataInv, Types, CallRec
<1>3. server' \in Server
  BY <1>1, ExecutedServer
<1>4. /\ moved' \in [Views -> SUBSET Rows]
      /\ \A v \in Views : moved[v] \subseteq moved'[v]
  BY <1>1, <1>2
<1>5. doubt' \subseteq Views /\ doubt \subseteq doubt'
  BY <1>1, <1>2 DEF Views
<1>6. \A v \in Saved : server'.filter[v] = IF c.kind = "filter" /\ v = c.view THEN c.filter
                                           ELSE server.filter[v]
  BY <1>1, ExecutedServer
<1>7. /\ c.phase = "asked" /\ calls' \subseteq CallRec
      /\ \A d \in calls' : Done(d, c) \/ \E e \in calls \ {c} : After(d, e, c)
      /\ \A e \in calls \ {c} : \E d \in calls' : After(d, e, c)
  BY ExecutedCalls
<1>8. RowsAgree'
  <2>1. SUFFICES ASSUME NEW v \in Views, NEW r \in Rows, v \notin doubt', cache.view[v].rows # {},
                        r \notin moved'[v], Settled(v, r)'
                 PROVE  /\ r \in cache.view[v].rows <=> r \in ServerRows(v)'
                        /\ r \in cache.view[v].rows => cache.map[r] # Missing
    BY <1>1 DEF RowsAgree
  <2>2. /\ Settled(v, r)
        /\ In(v, server'.state[r]) <=> In(v, server.state[r])
        /\ v # Trash => server'.value[r] = server.value[r]
    BY <2>1, ExecutedSettled
  <2>3. /\ r \in cache.view[v].rows <=> r \in ServerRows(v)
        /\ r \in cache.view[v].rows => cache.map[r] # Missing
    BY <1>4, <1>5, <2>1, <2>2 DEF DataInv, RowsAgree
  <2>4. v # Trash => server'.filter[v] = server.filter[v]
    <3>1. cache.view[v].stamp
      BY <1>2, <2>1 DEF Stamped
    <3> QED BY <1>1, <1>6, <2>1, <3>1 DEF Views
  <2>5. r \in ServerRows(v)' <=> r \in ServerRows(v)
    BY <2>2, <2>4 DEF ServerRows, In
  <2> QED BY <2>3, <2>5
<1>9. ValuesAgree'
  <2>1. SUFFICES ASSUME NEW v \in Views, NEW r \in Rows, v \notin doubt', r \in cache.view[v].rows,
                        cache.map[r] # Missing, ~Pending({"modify"}, r)'
                 PROVE  cache.map[r] = server'.value[r]
    BY <1>1 DEF ValuesAgree
  <2>2. ~Pending({"modify"}, r) /\ server'.value[r] = server.value[r]
    BY <2>1, ExecutedValue
  <2> QED BY <1>5, <2>1, <2>2 DEF DataInv, ValuesAgree
<1>10. OneFilterEach'
  <2>1. SUFFICES ASSUME NEW d1 \in calls', NEW d2 \in calls', d1.kind = "filter",
                        d2.kind = "filter", d1.view = d2.view
                 PROVE  d1 = d2
    BY DEF OneFilterEach
  <2>2. \A e1, e2 \in calls : e1.kind = "filter" /\ e2.kind = "filter" /\ e1.view = e2.view
                                => e1 = e2
    BY DEF DataInv, OneFilterEach
  <2> DEFINE n == [c EXCEPT !.phase = "done", !.result = Executed(c)]
  <2>3. n.kind = c.kind /\ n.view = c.view
    BY <1>2 DEF CallRec
  <2>4. \A d \in calls' : d = n \/ \E e \in calls \ {c} : d = Raced(e, c)
    BY DEF Execute, Raced
  <2>5. \A e \in calls : Same(Raced(e, c), e)
    BY <1>2, RacedCall DEF DataInv, Types
  <2> HIDE DEF n
  <2>6. CASE d1 = n /\ d2 = n
    BY <2>6
  <2>7. ASSUME NEW d \in calls', NEW e \in calls \ {c}, d = Raced(e, c), d.kind = "filter",
               c.kind = "filter", d.view = c.view
        PROVE  FALSE
    <3>1. e.kind = "filter" /\ e.view = c.view
      BY <2>5, <2>7 DEF Same
    <3> QED BY <2>2, <2>7, <3>1
  <2>8. ASSUME NEW e1 \in calls, NEW e2 \in calls, d1 = Raced(e1, c), d2 = Raced(e2, c)
        PROVE  d1 = d2
    <3>1. e1.kind = "filter" /\ e2.kind = "filter" /\ e1.view = e2.view
      BY <2>1, <2>5, <2>8 DEF Same
    <3> QED BY <2>2, <2>8, <3>1
  <2> QED BY <2>1, <2>3, <2>4, <2>6, <2>7, <2>8
<1>11. FiltersAgree'
  <2>1. SUFFICES ASSUME NEW v \in Saved, v \notin astray
                 PROVE  /\ (\A d \in calls' : ~(d.kind = "filter" /\ d.view = v /\ d.phase = "asked"))
                             => cache.view[v].filter = server'.filter[v]
                        /\ \A d \in calls' : d.kind = "filter" /\ d.view = v /\ d.phase = "asked"
                             => cache.view[v].filter = d.filter
    BY <1>1 DEF FiltersAgree
  <2>2. CASE c.kind = "filter" /\ c.view = v
    <3>1. cache.view[v].filter = server'.filter[v]
      BY <1>6, <1>7, <2>1, <2>2 DEF DataInv, FiltersAgree
    <3>2. \A d \in calls' : ~(d.kind = "filter" /\ d.view = v /\ d.phase = "asked")
      BY <1>7, <2>2 DEF Done, After, Same, DataInv, OneFilterEach
    <3> QED BY <3>1, <3>2
  <2>3. CASE ~(c.kind = "filter" /\ c.view = v)
    <3>1. server'.filter[v] = server.filter[v]
      BY <1>6, <2>3
    <3>2. ASSUME \A d \in calls' : ~(d.kind = "filter" /\ d.view = v /\ d.phase = "asked")
          PROVE  \A e \in calls : ~(e.kind = "filter" /\ e.view = v /\ e.phase = "asked")
      BY <1>7, <2>3, <3>2 DEF After, Same
    <3>3. ASSUME NEW d \in calls', d.kind = "filter", d.view = v, d.phase = "asked"
          PROVE  cache.view[v].filter = d.filter
      <4>1. PICK e \in calls \ {c} : Same(d, e)
        BY <1>7, <3>3 DEF Done, After
      <4>2. e.kind = "filter" /\ e.view = v /\ e.phase = "asked" /\ e.filter = d.filter
        BY <3>3, <4>1 DEF Same
      <4> QED BY <2>1, <4>2 DEF DataInv, FiltersAgree
    <3> QED BY <2>1, <3>1, <3>2, <3>3 DEF DataInv, FiltersAgree
  <2> QED BY <2>2, <2>3
<1>12. CallsAgree'
  <2>1. SUFFICES ASSUME NEW d \in calls', ~d.passed PROVE CallAgrees(d)'
    BY DEF CallsAgree
  <2>2. CASE Done(d, c)
    BY <2>1, <2>2, ExecutedPromise
  <2>3. CASE \E e \in calls \ {c} : After(d, e, c)
    BY <2>1, <2>3, OtherPromises
  <2> QED BY <1>7, <2>2, <2>3
<1>13. \A d \in calls' : Stamped(d.seen) /\ (d.kind = "filter" => d.view \in Saved)
  <2>1. \A e \in calls : Stamped(e.seen) /\ (e.kind = "filter" => e.view \in Saved)
    BY DEF DataInv, Types
  <2> QED BY <1>7, <2>1 DEF Done, After, Same
<1>14. CallsKept
  BY <1>7, <1>10, <1>12, <1>13 DEF CallsKept
<1> QED
  BY <1>1, <1>2, <1>3, <1>4, <1>5, <1>8, <1>9, <1>11, <1>14, Together DEF DataInv, Types

-----------------------------------------------------------------------------
(* The theorems *)

LEMMA InitData ==
  ASSUME Init
  PROVE  DataInv
<1>1. /\ cache = [map |-> [r \in Rows |-> Missing],
                  view |-> [v \in Views |-> [rows |-> {}, stamp |-> FALSE, filter |-> Values]]]
      /\ server = [state |-> [r \in Rows |-> IF r \in Initial THEN "live" ELSE "unborn"],
                   value |-> [r \in Rows |-> Default], filter |-> [v \in Saved |-> Values]]
      /\ aged = {} /\ calls = {} /\ ncalls = 0
      /\ doubt = {} /\ astray = {} /\ moved = [v \in Views |-> {}]
  BY DEF Init
<1>2. Values \in Filters /\ Default \in Values
  BY ValuesAssumption DEF Filters
<1>3. cache \in Cache
  BY <1>1, <1>2 DEF Cache, CachedView
<1>4. server \in Server
  BY <1>1, <1>2 DEF Server
<1>5. \A v \in Views : cache.view[v].rows = {} /\ cache.view[v].filter = Values
  BY <1>1
<1>6. Types
  BY <1>1, <1>3, <1>4, <1>5, BoundAssumption DEF Types, Stamped
<1>7. RowsAgree /\ ValuesAgree
  BY <1>5 DEF RowsAgree, ValuesAgree
<1>8. FiltersAgree
  BY <1>1, <1>5 DEF FiltersAgree, Views
<1>9. OneFilterEach /\ CallsAgree
  BY <1>1 DEF OneFilterEach, CallsAgree
<1> QED BY <1>6, <1>7, <1>8, <1>9 DEF DataInv

LEMMA StepData ==
  ASSUME DataInv, Next
  PROVE  DataInv'
<1>1. CASE User
  BY <1>1, UserKeeps
<1>2. ASSUME NEW c \in calls, Execute(c) PROVE DataInv'
  BY <1>2, ExecuteKeeps
<1>3. ASSUME NEW c \in calls, Fail(c) PROVE DataInv'
  BY <1>3, FailKeeps
<1>4. ASSUME NEW c \in calls, Answer(c) PROVE DataInv'
  BY <1>4, AnswerMetadataKeeps, AnswerViewsKeeps, AnswerModifyKeeps, AnswerDeleteKeeps,
     AnswerInsertKeeps, AnswerRestoreKeeps, AnswerClearKeeps, AnswerFilterKeeps DEF Answer
<1>5. ASSUME NEW v \in Views, Age(v) PROVE DataInv'
  BY <1>5, AgeKeeps
<1> QED BY <1>1, <1>2, <1>3, <1>4, <1>5 DEF Next

\* Every behaviour of the cache keeps the whole invariant: whatever calls are under way,
\* in whatever order they reach the server and are answered, the cache and what the calls
\* still carry agree with the server (data.js:88-192, 268-371, 455-688).
THEOREM ProjectDataInvariance == Spec => []DataInv
<1>1. Init => DataInv
  BY InitData
<1>2. DataInv /\ [Next]_vars => DataInv'
  <2>1. SUFFICES ASSUME DataInv, [Next]_vars PROVE DataInv'
    OBVIOUS
  <2>2. CASE Next
    BY <2>1, <2>2, StepData
  <2>3. CASE UNCHANGED vars
    <3>1. DataInv' <=> DataInv
      BY <2>3 DEF vars, DataInv, Types, RowsAgree, ValuesAgree, FiltersAgree, OneFilterEach,
         CallsAgree, CallAgrees, FetchedAgrees, ListedAgrees, ModifiedAgrees, Undone, Settled,
         Pending, Emptied, ServerRows
    <3> QED BY <2>1, <3>1
  <2> QED BY <2>1, <2>2, <2>3
<1> QED BY <1>1, <1>2, PTL DEF Spec

\* Every variable has its type, and a view that holds no time stamp holds no rows, for any
\* number of rows, values, views and calls (data.js:78, 184-187, 303, 602-616).
THEOREM ProjectDataTypes == Spec => []TypeOK
<1>1. DataInv => TypeOK
  BY DEF DataInv, Types, TypeOK, Stamped, CallRec
<1> QED BY <1>1, ProjectDataInvariance, PTL

\* A view answered from the cache shows what the server would answer, for any number of
\* rows, values, views and calls: no deleted row, every inserted and restored one, and the
\* stored values (data.js:268-371, 528-688).
THEOREM ServesStored == Spec => []ServesWhatIsStored
<1>1. DataInv => ServesWhatIsStored
  <2>1. SUFFICES ASSUME DataInv, NEW v \in Views \ doubt, Served(v), ~(v = Trash /\ Clearing),
                        NEW r \in Rows \ Busy
                 PROVE  /\ r \notin moved[v] => (r \in ServedRows(v) <=> r \in ServerRows(v))
                        /\ r \in ServedRows(v) => cache.map[r] = server.value[r]
    BY DEF ServesWhatIsStored
  <2>2. \A ks : ~Pending(ks, r)
    BY <2>1 DEF Pending, Busy
  <2>3. Settled(v, r)
    BY <2>1, <2>2 DEF Settled, Emptied, Clearing
  <2>4. cache.view[v].rows # {}
    BY <2>1 DEF Served
  <2>5. r \notin moved[v] => /\ r \in cache.view[v].rows <=> r \in ServerRows(v)
                             /\ r \in cache.view[v].rows => cache.map[r] # Missing
    BY <2>1, <2>3, <2>4 DEF DataInv, RowsAgree
  <2>6. r \in cache.view[v].rows /\ cache.map[r] # Missing => cache.map[r] = server.value[r]
    BY <2>1, <2>2 DEF DataInv, ValuesAgree
  <2>7. r \in ServedRows(v) <=> r \in cache.view[v].rows /\ cache.map[r] # Missing
    <3>1. cache.view[v].rows \subseteq Rows
      BY <2>1 DEF DataInv, Types, Cache, CachedView
    <3> QED BY <3>1 DEF ServedRows
  <2> QED BY <2>5, <2>6, <2>7
<1> QED BY <1>1, ProjectDataInvariance, PTL

\* The filter that the browser shows for a view is the stored one, for any number of views
\* and calls (data.js:88-123, 176-192).
THEOREM FiltersStored == Spec => []FilterAsStored
<1>1. DataInv => FilterAsStored
  BY DEF DataInv, FiltersAgree, FilterAsStored, ChangingFilter
<1> QED BY <1>1, ProjectDataInvariance, PTL
=============================================================================
