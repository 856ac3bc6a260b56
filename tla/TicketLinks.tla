----------------------------- MODULE TicketLinks -----------------------------
(***************************************************************************)
(* The links between tickets and the items they are about: the records of  *)
(* connections (emails, topics, issues, tasks) and the issues of the       *)
(* portal.  A link is stored twice, in linked_connection_records of the    *)
(* ticket and in linked_ticket of the item, and nothing but the handlers   *)
(* keeps the two together: seahub/tickets/tickets.py with                  *)
(* check_ticket_link_changes and sync_links_in_connection of               *)
(* ticket_utils.py, seahub/portal/apis.py, seahub/project/connections.py   *)
(* and seahub/project/agent/action_executor.py.                            *)
(*                                                                         *)
(* A request reads what it needs, and then makes one call of SeaDB after   *)
(* the other: todo is what it has before it, a sequence of sets of calls,  *)
(* where the calls of a set are those of one loop over a set or a dict, in *)
(* any order.                                                              *)
(***************************************************************************)
EXTENDS Naturals, Sequences, FiniteSets

CONSTANTS
  Tickets,      \* rows of the table of tickets, those to be created included
  Records,      \* records of connections that support linked_ticket
  Issues,       \* issues of the portal
  ConnectionOf, \* the connection of a record
  Requests,     \* requests that may be at work at the same time
  Batches,      \* sets of tickets that one request changes
  MaxRequests,  \* bound of the model: requests in all
  CanFail,      \* calls may fail and processes may die
  None          \* no ticket

ASSUME TicketAssumption == None \notin Tickets /\ Records \cap Issues = {}
ASSUME ConnectionAssumption == DOMAIN ConnectionOf = Records
ASSUME BatchAssumption == Batches \subseteq SUBSET Tickets
ASSUME BoundAssumption == MaxRequests \in Nat /\ CanFail \in BOOLEAN

VARIABLES
  ticket,   \* per ticket: its row
  linked,   \* per item: its linked_ticket
  request,  \* per request: what it is about and has to do
  begun,    \* requests so far
  doubt     \* items whose two sides may disagree, by a race or a failure

vars == <<ticket, linked, request, begun, doubt>>

Items == Records \cup Issues

\* What one call of SeaDB reaches: the records of a connection, or an issue.
Places == {{r \in Records : ConnectionOf[r] = c} : c \in {ConnectionOf[r] : r \in Records}}
          \cup {{x} : x \in Issues}

Call == [do : {"check", "break", "link", "look", "look free", "unlink", "read", "write",
               "insert", "delete"},
         at : SUBSET Items]

Request ==
  [op : {"none", "create", "update", "batch", "task", "record", "issue", "agent link",
         "agent create", "purge"},
   tickets : SUBSET Tickets,         \* the tickets it is about
   items : SUBSET Items,             \* the items whose links it may change
   lists : UNION {[T -> SUBSET Items] : T \in SUBSET Tickets}, \* the lists it will store
   add : SUBSET (Items \X Tickets),    \* records_to_link
   remove : SUBSET (Items \X Tickets), \* records_to_unlink
   todo : Seq(SUBSET Call),
   met : SUBSET Items,               \* items another request was about at the same time
   dirty : BOOLEAN]                  \* it has stored something

Idle == [op |-> "none", tickets |-> {}, items |-> {}, lists |-> <<>>, add |-> {}, remove |-> {},
         todo |-> <<>>, met |-> {}, dirty |-> FALSE]

TypeOK ==
  /\ ticket \in [Tickets -> [state : {"unborn", "open", "trash", "gone"}, links : SUBSET Items]]
  /\ linked \in [Items -> Tickets \cup {None}]
  /\ request \in [Requests -> Request]
  /\ \A q \in Requests : request[q].todo = <<>> <=> request[q] = Idle
  /\ begun \in 0 .. MaxRequests
  /\ doubt \subseteq Items

\* Any tickets and links there may be by now, on both sides.
Init ==
  /\ \E state \in [Tickets -> {"unborn", "open", "trash"}] :
       /\ linked \in [Items -> {t \in Tickets : state[t] # "unborn"} \cup {None}]
       /\ ticket = [t \in Tickets |-> [state |-> state[t], links |-> {i \in Items : linked[i] = t}]]
  /\ request = [q \in Requests |-> Idle]
  /\ begun = 0
  /\ doubt = {}

Busy(q) == request[q].todo # <<>>

\* get_ticket
Open(t) == ticket[t].state = "open"

\* The number of a ticket that has not been given out.
Unborn(t) == ticket[t].state = "unborn" /\ \A q \in Requests : t \notin request[q].tickets

Exists(t) == ticket[t].state \in {"open", "trash"}

Linked(pairs) == {p[1] : p \in pairs}

Target(pairs, i) == CHOOSE t \in Tickets : <<i, t>> \in pairs

Calls(do, items) == {[do |-> do, at |-> items \cap g] : g \in {h \in Places : h \cap items # {}}}

One(do) == {[do |-> do, at |-> {}]}

\* The calls of a loop, which are none when there is nothing to go over.
Some(calls) == IF calls = {} THEN <<>> ELSE <<calls>>

\* check_ticket_link_changes: the issues as they are met, then the records.  When
\* records are linked or unlinked, issues to link are taken for one more connection,
\* and the check breaks off at it with an error of its own.
Checks(add, remove) ==
  LET mixed == Linked(add) \cap Issues # {} /\ Linked(add \cup remove) \cap Records # {}
  IN  Some(Calls("check", Linked(add) \cap Issues))
      \o Some(Calls("check", Linked(add) \cap Records) \cup IF mixed THEN One("break") ELSE {})

\* sync_links_in_connection
Sync(add, remove) ==
  Some(Calls("link", Linked(add) \cap Records)) \o Some(Calls("look", Linked(remove) \cap Records))
  \o Some(Calls("look free", Linked(add) \cap Issues)) \o Some(Calls("look", Linked(remove) \cap Issues))

-----------------------------------------------------------------------------
(* The beginning of the requests, with what they read first.               *)

Meets(p, T, I) == Busy(p) /\ (request[p].tickets \cap T # {} \/ request[p].items \cap I # {})

\* Two requests at once about the same ticket or item are a race: nothing but
\* chance decides what is stored of the items of both.
Begin(q, op, T, I, lists, add, remove, todo, unsafe) ==
  LET others == {p \in Requests \ {q} : Meets(p, T, I)}
      theirs == UNION {request[p].items : p \in others}
  IN  /\ todo # <<>>
      /\ request' = [p \in Requests |->
           CASE p = q         -> [op |-> op, tickets |-> T, items |-> I, lists |-> lists,
                                  add |-> add, remove |-> remove, todo |-> todo,
                                  met |-> theirs, dirty |-> FALSE]
             [] p \in others  -> [request[p] EXCEPT !.met = @ \cup I]
             [] OTHER         -> request[p]]
      /\ begun' = begun + 1
      /\ doubt' = doubt \cup unsafe \cup IF others = {} THEN {} ELSE I \cup theirs
      /\ UNCHANGED <<ticket, linked>>

\* A new ticket with its list; the links are checked and synchronised after it.
Create(q, t, new) ==
  LET add == {<<i, t>> : i \in new}
  IN  /\ Unborn(t)
      /\ Begin(q, "create", {t}, new, [u \in {t} |-> new], add, {},
               <<One("insert")>> \o Checks(add, {}) \o Sync(add, {}), {})

\* One ticket gets a new list.
Update(q, t, new) ==
  LET add    == {<<i, t>> : i \in new \ ticket[t].links}
      remove == {<<i, t>> : i \in ticket[t].links \ new}
  IN  /\ Open(t)
      /\ Begin(q, "update", {t}, Linked(add \cup remove), [u \in {t} |-> new], add, remove,
               Checks(add, remove) \o <<One("write")>> \o Sync(add, remove), {})

\* The orders in which the rows of the tickets may come.
Orders(T) == {f \in [T -> 1 .. Cardinality(T)] : \A t, u \in T : f[t] = f[u] => t = u}

\* Of two tickets for an item the dict keeps the one that came last.
Kept(pairs, order) ==
  {p \in pairs : \A o \in pairs : o[1] = p[1] => order[o[2]] <= order[p[2]]}

Twice(pairs) == {i \in Items : \E t, u \in Tickets : t # u /\ <<i, t>> \in pairs /\ <<i, u>> \in pairs}

\* Several tickets get new lists, those in the trash too, and the items are
\* synchronised first.  A record that two of them want is noticed, an issue is not.
Batch(q, new) ==
  LET T       == DOMAIN new
      added   == UNION {{<<i, t>> : i \in new[t] \ ticket[t].links} : t \in T}
      removed == UNION {{<<i, t>> : i \in ticket[t].links \ new[t]} : t \in T}
  IN  /\ \A t \in T : Exists(t)
      /\ Twice(added) \subseteq Issues
      /\ \E order \in Orders(T) :
           LET add == Kept(added, order)  remove == Kept(removed, order)
           IN  Begin(q, "batch", T, Linked(added \cup removed), new, add, remove,
                     Checks(add, remove) \o Sync(add, remove) \o <<One("write")>>, Twice(added))

\* A record that has just been created in its connection, for a ticket.
CreateTask(q, r, t) ==
  LET add == {<<r, t>>}
  IN  /\ linked[r] = None /\ \A u \in Tickets : r \notin ticket[u].links
      /\ \A p \in Requests : r \notin request[p].items
      /\ Open(t)
      /\ Begin(q, "task", {t}, {r}, [u \in {t} |-> ticket[t].links \cup {r}], add, {},
               Checks(add, {}) \o <<One("write")>> \o Sync(add, {}), {})

\* A record gets a ticket, whichever it had: the page that asks shows none.
PutRecord(q, r, t) ==
  /\ Open(t)
  /\ Begin(q, "record", {t}, {r}, [u \in {t} |-> ticket[t].links \cup {r}], {<<r, t>>}, {},
           <<One("write"), Calls("link", {r})>>, IF linked[r] \in {None, t} THEN {} ELSE {r})

LinkIssue(q, x, t) ==
  /\ linked[x] = None
  /\ Begin(q, "issue", {t}, {x}, <<>>, {<<x, t>>}, {}, <<One("read")>>, {})

UnlinkIssue(q, x) ==
  /\ linked[x] # None
  /\ Begin(q, "issue", {linked[x]}, {x}, <<>>, {}, {<<x, linked[x]>>}, <<One("read")>>, {})

\* _execute_link_existing_ticket
AgentLink(q, i, t) ==
  LET add == {<<i, t>>}
  IN  /\ Open(t)
      /\ Begin(q, "agent link", {t}, {i}, [u \in {t} |-> ticket[t].links \cup {i}], add, {},
               Checks(add, {}) \o Sync(add, {})
               \o (IF i \in ticket[t].links THEN <<>> ELSE <<One("write")>>), {})

\* A ticket for an email, a topic or a thread of Discord: the row of the ticket, then
\* the link of the record, whose failure is only logged.
InsertAndLink(i) == <<One("insert"), Calls("link", {i})>>

\* _execute_*_create_ticket with _create_ticket, for issues of the portal and of GitHub
\* and, in the same two calls, for the other items.
AgentCreate(q, i, t) ==
  /\ linked[i] = None /\ Unborn(t)
  /\ Begin(q, "agent create", {t}, {i}, [u \in {t} |-> {i}], {<<i, t>>}, {},
           InsertAndLink(i), {})

\* Faulty variant for the checks: the issues keep the tickets that are gone.
PurgeRecordsOnly(q) ==
  LET T      == {t \in Tickets : ticket[t].state = "trash"}
      listed == UNION {ticket[t].links : t \in T}
      at     == UNION {g \in Places : g \cap listed \cap Records # {}}
      I      == listed \cup {i \in Items : linked[i] \in T}
  IN  /\ T # {}
      /\ Begin(q, "purge", T, I, <<>>, {}, Items \X T,
               Some(Calls("look", at)) \o <<One("delete")>>, {})

\* The trash is emptied: the connections that its tickets list are searched for
\* records with these tickets, and the listed issues are looked at in one call.
Purge(q) ==
  LET T      == {t \in Tickets : ticket[t].state = "trash"}
      listed == UNION {ticket[t].links : t \in T}
      at     == UNION {g \in Places : g \cap listed \cap Records # {}}
      issues == IF listed \cap Issues = {} THEN {} ELSE {[do |-> "look", at |-> listed \cap Issues]}
      I      == listed \cup {i \in Items : linked[i] \in T}
  IN  /\ T # {}
      /\ Begin(q, "purge", T, I, <<>>, {}, Items \X T,
               Some(Calls("look", at)) \o Some(issues) \o <<One("delete")>>, {})

-----------------------------------------------------------------------------
(* The calls.                                                              *)

Then(q, c, calls) ==
  LET todo == Some(calls) \o Some(Head(request[q].todo) \ {c}) \o Tail(request[q].todo)
  IN  IF todo = <<>> THEN Idle ELSE [request[q] EXCEPT !.todo = todo]

Go(q, r) == request' = [request EXCEPT ![q] = IF r.todo = <<>> THEN Idle ELSE r]

Done(q, c) == Go(q, [Then(q, c, {}) EXCEPT !.dirty = TRUE])

\* An issue must be free, a record may have the ticket already.  A ticket that
\* was to be created is deleted again.
Check(q, c) ==
  LET free == \A i \in c.at : linked[i] \in {None} \cup IF i \in Issues THEN {}
                                                        ELSE {Target(request[q].add, i)}
  IN  /\ c.do = "check"
      /\ \/ free /\ Go(q, Then(q, c, {}))
         \/ /\ ~free \/ CanFail
            /\ Go(q, [request[q] EXCEPT !.todo =
                        IF request[q].op = "create" THEN <<One("delete")>> ELSE <<>>])
      /\ UNCHANGED <<ticket, linked, begun, doubt>>

Link(q, c) ==
  /\ c.do = "link"
  /\ linked' = [i \in Items |-> IF i \in c.at THEN Target(request[q].add, i) ELSE linked[i]]
  /\ Done(q, c)
  /\ UNCHANGED <<ticket, begun, doubt>>

\* Faulty variant for the checks: the links are cleared whatever they point to.
LookAway(q, c) ==
  /\ c.do = "look"
  /\ Go(q, Then(q, c, {[do |-> "unlink", at |-> c.at]}))
  /\ UNCHANGED <<ticket, linked, begun, doubt>>

\* "Only clear the links that actually point to the current ticket".
Look(q, c) ==
  LET ours == {i \in c.at : <<i, linked[i]>> \in request[q].remove}
  IN  /\ c.do = "look"
      /\ Go(q, Then(q, c, IF ours = {} THEN {} ELSE {[do |-> "unlink", at |-> ours]}))
      /\ UNCHANGED <<ticket, linked, begun, doubt>>

LookFree(q, c) ==
  /\ c.do = "look free"
  /\ Go(q, Then(q, c, IF \A x \in c.at : linked[x] = None THEN {[do |-> "link", at |-> c.at]} ELSE {}))
  /\ UNCHANGED <<ticket, linked, begun, doubt>>

\* Faulty variant for the checks: an empty list in place of no ticket.
UnlinkToList(q, c) ==
  /\ c.do = "unlink"
  /\ linked' = [i \in Items |-> IF i \in c.at THEN <<>> ELSE linked[i]]
  /\ Done(q, c)
  /\ UNCHANGED <<ticket, begun, doubt>>

Unlink(q, c) ==
  /\ c.do = "unlink"
  /\ linked' = [i \in Items |-> IF i \in c.at THEN None ELSE linked[i]]
  /\ Done(q, c)
  /\ UNCHANGED <<ticket, begun, doubt>>

\* Rows that are no longer there are not updated.
Write(q, c) ==
  LET lists == request[q].lists
  IN  /\ c.do = "write"
      /\ ticket' = [t \in Tickets |-> IF t \in DOMAIN lists /\ Exists(t)
                                      THEN [ticket[t] EXCEPT !.links = lists[t]] ELSE ticket[t]]
      /\ Done(q, c)
      /\ UNCHANGED <<linked, begun, doubt>>

Insert(q, c) ==
  LET lists == request[q].lists
  IN  /\ c.do = "insert"
      /\ ticket' = [t \in Tickets |-> IF t \in DOMAIN lists
                                      THEN [state |-> "open", links |-> lists[t]] ELSE ticket[t]]
      /\ Done(q, c)
      /\ UNCHANGED <<linked, begun, doubt>>

Delete(q, c) ==
  /\ c.do = "delete"
  /\ ticket' = [t \in Tickets |-> IF t \in request[q].tickets
                                  THEN [state |-> "gone", links |-> {}] ELSE ticket[t]]
  /\ Done(q, c)
  /\ UNCHANGED <<linked, begun, doubt>>

\* The ticket an issue of the portal is linked to or unlinked from.  In the trash
\* it is not found: it keeps its list, and the issue is unlinked all the same.
Read(q, c) ==
  LET r     == request[q]
      t     == CHOOSE u \in r.tickets : TRUE
      new   == IF r.add = {} THEN ticket[t].links \ r.items ELSE ticket[t].links \cup r.items
      write == IF Open(t) /\ new # ticket[t].links THEN One("write") ELSE {}
      put   == Calls(IF r.add = {} THEN "unlink" ELSE "link", r.items)
  IN  /\ c.do = "read"
      /\ IF Open(t) \/ r.add = {}
         THEN Go(q, [r EXCEPT !.lists = [u \in {t} |-> new], !.todo = Some(write) \o Some(put)])
         ELSE Go(q, Idle)
      /\ doubt' = doubt \cup IF ~Open(t) /\ r.add = {} /\ new # ticket[t].links THEN r.items ELSE {}
      /\ UNCHANGED <<ticket, linked, begun>>

\* What fails at an issue in sync_links_in_connection is only logged, and so is
\* the last call of a creation by the agent.
Skip(q, c) ==
  /\ CanFail /\ c.do \in {"link", "look", "look free", "unlink"}
  /\ request[q].op # "purge" /\ (c.at \subseteq Issues \/ request[q].op = "agent create")
  /\ Go(q, Then(q, c, {}))
  /\ doubt' = doubt \cup c.at
  /\ UNCHANGED <<ticket, linked, begun>>

\* The error is none that the handlers expect: the ticket just created stays.
Break(q, c) ==
  /\ c.do = "break"
  /\ Go(q, Idle)
  /\ doubt' = doubt \cup IF request[q].dirty THEN request[q].items ELSE {}
  /\ UNCHANGED <<ticket, linked, begun>>

\* Any other call that fails, and a process that dies, leave the rest undone.
Fail(q) ==
  /\ CanFail /\ Busy(q)
  /\ doubt' = doubt \cup IF request[q].dirty THEN request[q].items ELSE {}
  /\ Go(q, Idle)
  /\ UNCHANGED <<ticket, linked, begun>>

Step(q) ==
  Busy(q) /\ \E c \in Head(request[q].todo) :
    \/ Check(q, c) \/ Break(q, c) \/ Link(q, c) \/ Look(q, c) \/ LookFree(q, c) \/ Unlink(q, c)
    \/ Write(q, c) \/ Insert(q, c) \/ Delete(q, c) \/ Read(q, c) \/ Skip(q, c)

-----------------------------------------------------------------------------
\* The trash: the links stay as they are, on both sides.
Trash(t) ==
  /\ Open(t)
  /\ ticket' = [ticket EXCEPT ![t].state = "trash"]
  /\ UNCHANGED <<linked, request, begun, doubt>>

Restore(t) ==
  /\ ticket[t].state = "trash"
  /\ ticket' = [ticket EXCEPT ![t].state = "open"]
  /\ UNCHANGED <<linked, request, begun, doubt>>

Arrive(q) ==
  /\ ~Busy(q) /\ begun < MaxRequests
  /\ \/ \E t \in Tickets, new \in SUBSET Items : Create(q, t, new) \/ Update(q, t, new)
     \/ \E T \in Batches : \E new \in [T -> SUBSET Items] : Batch(q, new)
     \/ \E r \in Records, t \in Tickets : CreateTask(q, r, t) \/ PutRecord(q, r, t)
     \/ \E x \in Issues : UnlinkIssue(q, x) \/ \E t \in Tickets : LinkIssue(q, x, t)
     \/ \E i \in Items, t \in Tickets : AgentLink(q, i, t) \/ AgentCreate(q, i, t)
     \/ Purge(q)

Next ==
  \/ \E q \in Requests : Arrive(q) \/ Step(q) \/ Fail(q)
  \/ \E t \in Tickets : Trash(t) \/ Restore(t)

Spec == Init /\ [][Next]_vars

-----------------------------------------------------------------------------
(* Properties.                                                             *)

\* The two sides of a link agree: an item has the ticket that lists it and no
\* other, tickets in the trash and tickets that are gone included, unless a request
\* is at work on it, failed half-way or broke off, raced with another about the same ticket or
\* item, took the item from its ticket by a stale page, gave one issue to two
\* tickets, or unlinked an issue from a ticket in the trash.
BothSidesAgree ==
  \A i \in Items \ doubt : (\A q \in Requests : i \notin request[q].items) =>
    \A t \in Tickets : linked[i] = t <=> i \in ticket[t].links

\* A link is taken from a ticket only by a request about this ticket (or by the
\* page that puts a record unasked), however contradictory the two sides are by
\* then, unless another request was about the item at the same time ("Only clear the
\* links that actually point to the current ticket", ticket_utils.py:1443).
OwnLinks ==
  [][\A i \in Items : linked[i] # None /\ linked'[i] # linked[i] =>
       \E q \in Requests : /\ request'[q] # request[q]
                           /\ \/ linked[i] \in request[q].tickets
                              \/ i \in request[q].met
                              \/ request[q].op = "record"]_vars
=============================================================================
