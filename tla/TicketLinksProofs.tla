-------------------------- MODULE TicketLinksProofs --------------------------
(***************************************************************************)
(* Proofs about the links between tickets and items (TicketLinks.tla), for *)
(* any tickets, records and issues and any number of requests at once,     *)
(* with calls that fail and processes that die.                            *)
(***************************************************************************)
EXTENDS TicketLinks, TLAPS

-----------------------------------------------------------------------------
(* What a request has before it.                                           *)

Lists == UNION {[T -> SUBSET Items] : T \in SUBSET Tickets}
Pairs == SUBSET (Items \X Tickets)
Todos == Seq(SUBSET Call)

\* The calls of a sequence of sets of them; whether one of a kind is there, and whether
\* one of a kind is about an item.
LeftOf(todo) == UNION {todo[k] : k \in DOMAIN todo}
Has(L, do) == \E c \in L : c.do = do
Due(L, do, i) == \E c \in L : c.do = do /\ i \in c.at

Checking(L) == Has(L, "check") \/ Has(L, "break")

\* The checks come first, but for the ticket they are made for.
InOrder(todo) ==
  \A j, k \in DOMAIN todo : j <= k =>
    \A c \in todo[j], d \in todo[k] :
      d.do \in {"check", "break"} => c.do \in {"check", "break", "insert"}

Sound(todo) == InOrder(todo) /\ \A k \in DOMAIN todo : todo[k] # {}

\* An issue that is about to get a ticket or to lose the one it has.
AboutIssue(r) ==
  \E t \in Tickets, x \in Issues :
    /\ r.tickets = {t} /\ r.items = {x}
    /\ \/ r.add = {<<x, t>>} /\ r.remove = {}
       \/ r.add = {} /\ r.remove = {<<x, t>>}

\* What the calls have to do with the request.
Meant(r, c) ==
  /\ c.do \in {"check", "link", "look free"} => c.at \subseteq Linked(r.add)
  /\ c.do = "look free" => \A i, j \in c.at : i = j
  /\ c.do = "look" => r.op = "purge" \/ c.at \subseteq r.items
  /\ c.do = "unlink" => c.at \subseteq r.items \cup r.met
  /\ c.do = "write" => r.op \notin {"create", "purge"}
  /\ c.do = "delete" => r.op \in {"create", "purge"} /\ ~Has(LeftOf(r.todo), "insert")
  /\ c.do = "insert" => r.op \in {"create", "agent create"}
  /\ c.do \in {"check", "break"} => r.op # "agent create" /\ (r.dirty => r.op = "create")
  /\ c.do = "read" => r.op = "issue" /\ ~r.dirty /\ r.todo = <<{c}>> /\ AboutIssue(r)

Shaped(r) ==
  /\ r.op # "none"
  /\ r.add \cup r.remove \subseteq Items \X r.tickets
  /\ Linked(r.add) \subseteq r.items
  /\ DOMAIN r.lists \subseteq r.tickets
  /\ \A c \in LeftOf(r.todo) : Meant(r, c)
  /\ Sound(r.todo)

Shapes == \A q \in Requests : Busy(q) => Shaped(request[q])

\* Requests about one ticket or item know of each other, and what they are about is in
\* doubt.
Near(r, s) == r.tickets \cap s.tickets # {} \/ r.items \cap s.items # {}

Meeting ==
  \A q \in Requests :
    /\ request[q].met \subseteq doubt
    /\ \A p \in Requests \ {q} : Near(request[p], request[q]) =>
         request[p].items \subseteq doubt /\ request[p].items \subseteq request[q].met

\* An item without a ticket, or with one that the request is about.
Safe(r, i, v) == i \in r.met \/ v = None \/ v \in r.tickets

\* What a request links and unlinks is its own, or will be checked.
Owns(r, i, v) ==
  r.op # "record" =>
    LET L == LeftOf(r.todo) IN
    /\ Due(L, "link", i) \/ Due(L, "unlink", i) \/ (Has(L, "read") /\ i \in r.items) =>
         Due(L, "check", i) \/ Safe(r, i, v)
    /\ r.op = "purge" /\ v \in r.tickets => i \in r.items \cup r.met

Owning == \A q \in Requests, i \in Items : Busy(q) => Owns(request[q], i, linked[i])

-----------------------------------------------------------------------------
(* What the two sides of a link come to.                                   *)

Agrees(i, v, tk) == \A t \in Tickets : v = t <=> i \in tk[t].links

\* What the calls L of the request r make of the ticket v of an item, and whether they
\* leave the item in the list of the ticket t.
TicketAfter(r, L, i, v) ==
  IF Due(L, "link", i) \/ (Due(L, "look free", i) /\ v = None) THEN Target(r.add, i)
  ELSE IF Due(L, "unlink", i) \/ (Due(L, "look", i) /\ <<i, v>> \in r.remove) THEN None
  ELSE v

ListedAfter(r, L, i, t, tk) ==
  IF Has(L, "delete") /\ t \in r.tickets THEN FALSE
  ELSE IF (Has(L, "write") \/ Has(L, "insert")) /\ t \in DOMAIN r.lists THEN i \in r.lists[t]
  ELSE i \in tk[t].links

\* The check will find the item free.
Free(r, i, v) == v \in {None} \cup IF i \in Issues THEN {} ELSE {Target(r.add, i)}

\* What a request knows and will do that has the calls L before it, about an item of its
\* own with the ticket v; it has stored something when d holds.
Knows(r, d, L, i, v, tk) ==
  /\ ~d => Agrees(i, v, tk)
  /\ Has(L, "read") /\ r.add # {} => v = None
  /\ Has(L, "read") /\ r.remove # {} => v \in r.tickets
  /\ Has(L, "write") => \A t \in DOMAIN r.lists : tk[t].state \in {"open", "trash"}
  /\ r.op = "create" /\ Checking(L) =>
       \A t \in Tickets : v = t <=> t \notin r.tickets /\ i \in tk[t].links

Settles(r, L, i, v, tk) ==
  /\ \A t \in Tickets : TicketAfter(r, L, i, v) = t <=> ListedAfter(r, L, i, t, tk)
  /\ Due(L, "link", i) \/ Due(L, "look free", i) => ~Due(L, "look", i) /\ ~Due(L, "unlink", i)

Comes(r, L, i, v, tk) ==
  ~Has(L, "read") /\ (Due(L, "check", i) => Free(r, i, v)) => Settles(r, L, i, v, tk)

Plans ==
  \A q \in Requests : Busy(q) =>
    \A i \in request[q].items \ doubt :
      LET r == request[q]  L == LeftOf(r.todo) IN
      Knows(r, r.dirty, L, i, linked[i], ticket) /\ Comes(r, L, i, linked[i], ticket)

\* What a request does not change of an item that it is not about.
Spares(r, i, v, tk) ==
  LET L == LeftOf(r.todo) IN
  /\ Has(L, "write") \/ Has(L, "insert") =>
       \A t \in DOMAIN r.lists : i \in r.lists[t] <=> i \in tk[t].links
  /\ r.op \in {"create", "purge"} => \A t \in r.tickets : i \notin tk[t].links
  /\ r.op = "purge" => v \notin r.tickets

Others ==
  \A q \in Requests : Busy(q) =>
    \A i \in Items \ (doubt \cup request[q].items) : Spares(request[q], i, linked[i], ticket)

\* A ticket that is not there has no list.
Blank(tk) == \A t \in Tickets : tk[t].state \in {"unborn", "gone"} => tk[t].links = {}

TInv == TypeOK /\ Shapes /\ Meeting /\ Owning /\ BothSidesAgree /\ Plans /\ Others /\ Blank(ticket)

-----------------------------------------------------------------------------
(* Types.                                                                  *)

LEMMA ListsFacts ==
  /\ \A T \in SUBSET Tickets : \A f \in [T -> SUBSET Items] : f \in Lists
  /\ \A f \in Lists : DOMAIN f \subseteq Tickets /\ \A t \in DOMAIN f : f[t] \subseteq Items
  /\ <<>> \in Lists
<1>1. \A T \in SUBSET Tickets : \A f \in [T -> SUBSET Items] : f \in Lists
  BY DEF Lists
<1>2. <<>> \in [{} -> SUBSET Items]
  OBVIOUS
<1>3. \A f \in Lists : DOMAIN f \subseteq Tickets /\ \A t \in DOMAIN f : f[t] \subseteq Items
  BY DEF Lists
<1> QED BY <1>1, <1>2, <1>3

LEMMA RequestFacts ==
  ASSUME NEW r \in Request
  PROVE  /\ r.op \in {"none", "create", "update", "batch", "task", "record", "issue", "agent link",
                      "agent create", "purge"}
         /\ r.tickets \subseteq Tickets /\ r.items \subseteq Items /\ r.met \subseteq Items
         /\ r.lists \in Lists /\ r.add \in Pairs /\ r.remove \in Pairs /\ r.todo \in Todos
         /\ r.dirty \in BOOLEAN
BY DEF Request, Lists, Pairs, Todos

LEMMA IdleFacts ==
  /\ Idle \in Request /\ Idle.todo = <<>> /\ Idle.op = "none" /\ Idle.lists = <<>>
  /\ Idle.tickets = {} /\ Idle.items = {} /\ Idle.met = {} /\ Idle.dirty = FALSE
  /\ Idle.add = {} /\ Idle.remove = {}
<1>1. <<>> \in Lists /\ <<>> \in Todos /\ {} \in Pairs
  BY ListsFacts DEF Todos, Pairs
<1>2. Request = [op : {"none", "create", "update", "batch", "task", "record", "issue", "agent link",
                       "agent create", "purge"},
                 tickets : SUBSET Tickets, items : SUBSET Items, lists : Lists, add : Pairs,
                 remove : Pairs, todo : Todos, met : SUBSET Items, dirty : BOOLEAN]
  BY DEF Request, Lists, Pairs, Todos
<1>3. Idle \in Request
  BY <1>1, <1>2 DEF Idle
<1> QED BY <1>3 DEF Idle

\* What the calls change of a request.
LEMMA WithTodo ==
  ASSUME NEW r \in Request, NEW todo \in Todos, NEW d \in BOOLEAN
  PROVE  LET s == [r EXCEPT !.todo = todo] IN
         /\ s \in Request /\ s.todo = todo /\ s.dirty = r.dirty
         /\ s.op = r.op /\ s.tickets = r.tickets /\ s.items = r.items /\ s.lists = r.lists
         /\ s.add = r.add /\ s.remove = r.remove /\ s.met = r.met
BY DEF Request, Todos

LEMMA WithDirty ==
  ASSUME NEW r \in Request, NEW d \in BOOLEAN
  PROVE  LET s == [r EXCEPT !.dirty = d] IN
         /\ s \in Request /\ s.todo = r.todo /\ s.dirty = d
         /\ s.op = r.op /\ s.tickets = r.tickets /\ s.items = r.items /\ s.lists = r.lists
         /\ s.add = r.add /\ s.remove = r.remove /\ s.met = r.met
BY DEF Request

Widened(s, r, I) ==
  /\ s \in Request /\ s.todo = r.todo /\ s.dirty = r.dirty
  /\ s.op = r.op /\ s.tickets = r.tickets /\ s.items = r.items /\ s.lists = r.lists
  /\ s.add = r.add /\ s.remove = r.remove /\ s.met = r.met \cup I

LEMMA WithMet ==
  ASSUME NEW r \in Request, NEW I \in SUBSET Items
  PROVE  Widened([r EXCEPT !.met = @ \cup I], r, I)
BY DEF Widened, Request

Relisted(s, r, l, todo) ==
  /\ s \in Request /\ s.todo = todo /\ s.lists = l /\ s.dirty = r.dirty
  /\ s.op = r.op /\ s.tickets = r.tickets /\ s.items = r.items
  /\ s.add = r.add /\ s.remove = r.remove /\ s.met = r.met

LEMMA WithLists ==
  ASSUME NEW r \in Request, NEW todo \in Todos, NEW l \in Lists
  PROVE  Relisted([r EXCEPT !.lists = l, !.todo = todo], r, l, todo)
BY DEF Relisted, Request, Todos, Lists

LEMMA TargetFacts ==
  ASSUME NEW r \in Request, r.add \subseteq Items \X r.tickets, NEW i \in Linked(r.add)
  PROVE  <<i, Target(r.add, i)>> \in r.add /\ Target(r.add, i) \in r.tickets
         /\ Target(r.add, i) \in Tickets /\ Target(r.add, i) # None
<1>1. r.tickets \subseteq Tickets
  BY RequestFacts
<1>2. PICK p \in r.add : p[1] = i
  BY DEF Linked
<1>3. p = <<i, p[2]>> /\ p[2] \in r.tickets
  BY <1>2
<1>4. \E t \in Tickets : <<i, t>> \in r.add
  BY <1>1, <1>2, <1>3
<1>5. <<i, Target(r.add, i)>> \in r.add /\ Target(r.add, i) \in Tickets
  BY <1>4 DEF Target
<1> QED BY <1>5, TicketAssumption

-----------------------------------------------------------------------------
(* Sequences of sets of calls.                                             *)

LEMMA SomeFacts ==
  ASSUME NEW C \in SUBSET Call
  PROVE  /\ Some(C) \in Todos /\ LeftOf(Some(C)) = C
         /\ \A k \in DOMAIN Some(C) : Some(C)[k] # {}
         /\ C # {} => Some(C) # <<>>
<1>1. CASE C = {}
  <2>1. Some(C) = <<>> /\ DOMAIN Some(C) = {}
    BY <1>1 DEF Some
  <2>2. <<>> \in Todos
    BY DEF Todos
  <2>3. LeftOf(Some(C)) = {}
    BY <2>1 DEF LeftOf
  <2> QED BY <1>1, <2>1, <2>2, <2>3
<1>2. CASE C # {}
  <2>1. Some(C) = <<C>> /\ DOMAIN Some(C) = {1} /\ Some(C)[1] = C
    BY <1>2 DEF Some
  <2>2. <<C>> \in Todos
    BY DEF Todos
  <2> QED BY <1>2, <2>1, <2>2 DEF LeftOf
<1> QED BY <1>1, <1>2

LEMMA ConcatFacts ==
  ASSUME NEW s \in Todos, NEW u \in Todos
  PROVE  /\ s \o u \in Todos /\ Len(s \o u) = Len(s) + Len(u)
         /\ Len(s) \in Nat /\ Len(u) \in Nat
         /\ DOMAIN s = 1 .. Len(s) /\ DOMAIN u = 1 .. Len(u) /\ DOMAIN (s \o u) = 1 .. Len(s) + Len(u)
         /\ \A k \in 1 .. Len(s) : (s \o u)[k] = s[k]
         /\ \A k \in 1 .. Len(u) : (s \o u)[Len(s) + k] = u[k]
         /\ \A k \in Len(s) + 1 .. Len(s) + Len(u) : (s \o u)[k] = u[k - Len(s)] /\ k - Len(s) \in 1 .. Len(u)
BY DEF Todos

LEMMA LeftConcat ==
  ASSUME NEW s \in Todos, NEW u \in Todos
  PROVE  LeftOf(s \o u) = LeftOf(s) \cup LeftOf(u)
<1> DEFINE w == s \o u
<1>1. /\ Len(s) \in Nat /\ Len(u) \in Nat
      /\ DOMAIN s = 1 .. Len(s) /\ DOMAIN u = 1 .. Len(u) /\ DOMAIN w = 1 .. Len(s) + Len(u)
      /\ \A k \in 1 .. Len(s) : w[k] = s[k]
      /\ \A k \in 1 .. Len(u) : w[Len(s) + k] = u[k]
      /\ \A k \in Len(s) + 1 .. Len(s) + Len(u) : w[k] = u[k - Len(s)] /\ k - Len(s) \in 1 .. Len(u)
  BY ConcatFacts
<1> HIDE DEF w
<1>2. ASSUME NEW k \in DOMAIN w PROVE w[k] \subseteq LeftOf(s) \cup LeftOf(u)
  <2>1. k \in 1 .. Len(s) \/ k \in Len(s) + 1 .. Len(s) + Len(u)
    BY <1>1
  <2> QED BY <1>1, <2>1 DEF LeftOf
<1>3. ASSUME NEW k \in DOMAIN s PROVE s[k] \subseteq LeftOf(w)
  <2>1. k \in DOMAIN w /\ w[k] = s[k]
    BY <1>1
  <2> QED BY <2>1 DEF LeftOf
<1>4. ASSUME NEW k \in DOMAIN u PROVE u[k] \subseteq LeftOf(w)
  <2>1. Len(s) + k \in DOMAIN w /\ w[Len(s) + k] = u[k]
    BY <1>1
  <2> QED BY <2>1 DEF LeftOf
<1>5. LeftOf(w) = LeftOf(s) \cup LeftOf(u)
  BY <1>2, <1>3, <1>4 DEF LeftOf
<1> QED BY <1>5 DEF w

\* The first sequence has nothing but checks and the ticket they are for, or the second
\* has no checks.
LEMMA SoundConcat ==
  ASSUME NEW s \in Todos, NEW u \in Todos, Sound(s), Sound(u),
         \/ ~Checking(LeftOf(u))
         \/ \A c \in LeftOf(s) : c.do \in {"check", "break", "insert"}
  PROVE  Sound(s \o u)
<1> DEFINE w == s \o u
<1>1. /\ Len(s) \in Nat /\ Len(u) \in Nat
      /\ DOMAIN s = 1 .. Len(s) /\ DOMAIN u = 1 .. Len(u) /\ DOMAIN w = 1 .. Len(s) + Len(u)
      /\ \A k \in 1 .. Len(s) : w[k] = s[k]
      /\ \A k \in Len(s) + 1 .. Len(s) + Len(u) : w[k] = u[k - Len(s)] /\ k - Len(s) \in 1 .. Len(u)
  BY ConcatFacts
<1> HIDE DEF w
<1>2. \A k \in DOMAIN w : w[k] # {}
  <2> TAKE k \in DOMAIN w
  <2>1. k \in 1 .. Len(s) \/ k \in Len(s) + 1 .. Len(s) + Len(u)
    BY <1>1
  <2> QED BY <1>1, <2>1 DEF Sound
<1>3. ASSUME NEW j \in DOMAIN w, NEW k \in DOMAIN w, j <= k, NEW c \in w[j], NEW d \in w[k],
             d.do \in {"check", "break"}
      PROVE  c.do \in {"check", "break", "insert"}
  <2>1. CASE j \in 1 .. Len(s) /\ k \in 1 .. Len(s)
    BY <1>1, <1>3, <2>1 DEF Sound, InOrder
  <2>2. CASE j \in Len(s) + 1 .. Len(s) + Len(u) /\ k \in Len(s) + 1 .. Len(s) + Len(u)
    <3>1. /\ w[j] = u[j - Len(s)] /\ w[k] = u[k - Len(s)]
          /\ j - Len(s) \in DOMAIN u /\ k - Len(s) \in DOMAIN u
      BY <1>1, <2>2
    <3>2. j - Len(s) <= k - Len(s)
      BY <1>1, <1>3, <2>2
    <3> QED BY <1>3, <3>1, <3>2 DEF Sound, InOrder
  <2>3. CASE j \in 1 .. Len(s) /\ k \in Len(s) + 1 .. Len(s) + Len(u)
    <3>1. c \in LeftOf(s) /\ d \in LeftOf(u)
      BY <1>1, <2>3 DEF LeftOf
    <3>2. Checking(LeftOf(u))
      BY <1>3, <3>1 DEF Checking, Has
    <3> QED BY <3>1, <3>2
  <2> QED BY <1>1, <1>3, <2>1, <2>2, <2>3
<1>4. Sound(w)
  BY <1>2, <1>3 DEF Sound, InOrder
<1> QED BY <1>4 DEF w

LEMMA SoundSome ==
  ASSUME NEW C \in SUBSET Call,
         \/ \A c \in C : c.do \in {"check", "break", "insert"}
         \/ \A c \in C : c.do \notin {"check", "break"}
  PROVE  Sound(Some(C))
<1>1. /\ \A k \in DOMAIN Some(C) : Some(C)[k] # {}
      /\ \A k \in DOMAIN Some(C) : Some(C)[k] \subseteq C
  BY SomeFacts DEF LeftOf
<1> QED BY <1>1 DEF Sound, InOrder

LEMMA HeadTailFacts ==
  ASSUME NEW todo \in Todos, todo # <<>>, Sound(todo)
  PROVE  /\ Head(todo) \in SUBSET Call /\ Head(todo) # {} /\ Tail(todo) \in Todos
         /\ LeftOf(todo) = Head(todo) \cup LeftOf(Tail(todo)) /\ LeftOf(todo) \subseteq Call
         /\ Sound(Tail(todo)) /\ Len(todo) = Len(Tail(todo)) + 1
         /\ Len(Tail(todo)) \in Nat
         /\ \A c \in Head(todo) : c.do \notin {"check", "break", "insert"} => ~Checking(LeftOf(todo))
<1> DEFINE u == Tail(todo)
<1>1. /\ Len(todo) \in Nat \ {0} /\ DOMAIN todo = 1 .. Len(todo) /\ Head(todo) = todo[1]
      /\ \A k \in DOMAIN todo : todo[k] \in SUBSET Call
  BY DEF Todos
<1>2. /\ u \in Todos /\ Len(u) = Len(todo) - 1 /\ DOMAIN u = 1 .. Len(todo) - 1
      /\ \A k \in 1 .. Len(todo) - 1 : u[k] = todo[k + 1]
  BY DEF Todos
<1> HIDE DEF u
<1>3. LeftOf(todo) = Head(todo) \cup LeftOf(u)
  <2>1. ASSUME NEW k \in DOMAIN todo PROVE todo[k] \subseteq Head(todo) \cup LeftOf(u)
    <3>1. CASE k = 1
      BY <1>1, <3>1
    <3>2. CASE k # 1
      <4>1. k - 1 \in DOMAIN u /\ u[k - 1] = todo[k]
        BY <1>1, <1>2, <3>2
      <4> QED BY <4>1 DEF LeftOf
    <3> QED BY <3>1, <3>2
  <2>2. ASSUME NEW k \in DOMAIN u PROVE u[k] \subseteq LeftOf(todo)
    <3>1. k + 1 \in DOMAIN todo /\ u[k] = todo[k + 1]
      BY <1>1, <1>2
    <3> QED BY <3>1 DEF LeftOf
  <2>3. Head(todo) \subseteq LeftOf(todo)
    BY <1>1 DEF LeftOf
  <2> QED BY <2>1, <2>2, <2>3 DEF LeftOf
<1>4. LeftOf(todo) \subseteq Call
  BY <1>1 DEF LeftOf
<1>5. Sound(u)
  <2>1. \A k \in DOMAIN u : k + 1 \in DOMAIN todo /\ u[k] = todo[k + 1] /\ k \in Nat
    BY <1>1, <1>2
  <2>2. \A j, k \in DOMAIN u : j <= k => j + 1 <= k + 1
    BY <2>1
  <2> QED BY <2>1, <2>2 DEF Sound, InOrder
<1>6. ASSUME NEW c \in Head(todo), c.do \notin {"check", "break", "insert"}
      PROVE  ~Checking(LeftOf(todo))
  <2>1. 1 \in DOMAIN todo /\ c \in todo[1] /\ \A k \in DOMAIN todo : 1 <= k
    BY <1>1
  <2> QED BY <1>6, <2>1 DEF Sound, InOrder, Checking, Has, LeftOf
<1>7. Len(u) \in Nat /\ Len(todo) = Len(u) + 1
  BY <1>1, <1>2
<1>8. Head(todo) \in SUBSET Call /\ Head(todo) # {}
  BY <1>1 DEF Sound
<1> QED BY <1>2, <1>3, <1>4, <1>5, <1>6, <1>7, <1>8 DEF u

\* What is left when a call is done and others follow at once.
Following(todo, c, calls) == Some(calls) \o Some(Head(todo) \ {c}) \o Tail(todo)

LEMMA FollowingFacts ==
  ASSUME NEW todo \in Todos, todo # <<>>, Sound(todo), NEW c \in Head(todo), NEW calls \in SUBSET Call,
         calls # {} => /\ c.do \notin {"check", "break", "insert"}
                       /\ \A d \in calls : d.do \notin {"check", "break", "insert"}
  PROVE  LET after == Following(todo, c, calls) IN
         /\ after \in Todos /\ Sound(after)
         /\ LeftOf(after) \subseteq LeftOf(todo) \cup calls
         /\ (LeftOf(todo) \ {c}) \cup calls \subseteq LeftOf(after)
         /\ calls = {} => after # todo
<1> DEFINE H == Head(todo) \ {c}
           s == Some(calls)
           u == Some(H)
           v == Tail(todo)
<1>1. /\ Head(todo) \in SUBSET Call /\ v \in Todos /\ Sound(v)
      /\ LeftOf(todo) = Head(todo) \cup LeftOf(v) /\ LeftOf(todo) \subseteq Call
      /\ Len(todo) = Len(v) + 1 /\ Len(v) \in Nat
      /\ c.do \notin {"check", "break", "insert"} => ~Checking(LeftOf(todo))
  BY HeadTailFacts
<1>2. H \in SUBSET Call
  BY <1>1
<1>3. /\ s \in Todos /\ LeftOf(s) = calls /\ u \in Todos /\ LeftOf(u) = H
  BY <1>2, SomeFacts
<1>4. Sound(s)
  BY SoundSome
<1>5. Sound(u) /\ (Checking(LeftOf(v)) => \A d \in H : d.do \in {"check", "break", "insert"})
  <2>1. ASSUME NEW d \in H, d.do \notin {"check", "break", "insert"}
        PROVE  ~Checking(LeftOf(todo))
    BY <2>1, HeadTailFacts
  <2>2. Checking(LeftOf(v)) => Checking(LeftOf(todo))
    BY <1>1 DEF Checking, Has
  <2>3. (\E d \in H : d.do \in {"check", "break"}) => Checking(LeftOf(todo))
    BY <1>1 DEF Checking, Has
  <2> QED BY <1>2, <2>1, <2>2, <2>3, SoundSome
<1> HIDE DEF s, u, v
<1>6. u \o v \in Todos /\ LeftOf(u \o v) = H \cup LeftOf(v) /\ Sound(u \o v)
  <2>1. ~Checking(LeftOf(v)) \/ \A d \in LeftOf(u) : d.do \in {"check", "break", "insert"}
    BY <1>3, <1>5
  <2>2. u \o v \in Todos
    BY <1>1, <1>3, ConcatFacts
  <2>3. LeftOf(u \o v) = LeftOf(u) \cup LeftOf(v)
    BY <1>1, <1>3, LeftConcat
  <2>4. Sound(u \o v)
    BY <1>1, <1>3, <1>5, <2>1, SoundConcat
  <2> QED BY <1>3, <2>2, <2>3, <2>4
<1>7. calls # {} => ~Checking(LeftOf(u \o v))
  BY <1>1, <1>6 DEF Checking, Has
<1>8. /\ s \o (u \o v) \in Todos /\ LeftOf(s \o (u \o v)) = calls \cup H \cup LeftOf(v)
      /\ Sound(s \o (u \o v))
  <2>1. ~Checking(LeftOf(u \o v)) \/ \A d \in LeftOf(s) : d.do \in {"check", "break", "insert"}
    BY <1>3, <1>7
  <2> DEFINE uv == u \o v
  <2>2. uv \in Todos /\ Sound(uv) /\ LeftOf(uv) = H \cup LeftOf(v)
    BY <1>6
  <2> HIDE DEF uv
  <2>3. s \o uv \in Todos
    BY <1>3, <2>2, ConcatFacts
  <2>4. LeftOf(s \o uv) = LeftOf(s) \cup LeftOf(uv)
    BY <1>3, <2>2, LeftConcat
  <2>5. Sound(s \o uv)
    BY <1>3, <1>4, <2>1, <2>2, SoundConcat DEF uv
  <2> QED BY <1>3, <2>2, <2>3, <2>4, <2>5 DEF uv
<1>9. Following(todo, c, calls) = s \o (u \o v)
  <2>1. (s \o u) \o v = s \o (u \o v)
    BY <1>1, <1>3 DEF Todos
  <2> QED BY <2>1 DEF Following, s, u, v
<1>10. ASSUME calls = {} PROVE s \o (u \o v) # todo
  <2>1. s = <<>>
    BY <1>10 DEF Some, s
  <2>2. s \o (u \o v) = u \o v
    BY <1>6, <2>1 DEF Todos
  <2>3. CASE H = {}
    <3>1. u = <<>>
      BY <2>3 DEF Some, u
    <3>2. u \o v = v
      BY <1>1, <3>1 DEF Todos
    <3>3. ASSUME v = todo PROVE FALSE
      <4>1. Len(v) = Len(v) + 1 /\ Len(v) \in Nat
        BY <1>1, <3>3
      <4> QED BY <4>1
    <3> QED BY <2>2, <3>2, <3>3
  <2>4. CASE H # {}
    <3>1. u = <<H>> /\ Len(u) = 1 /\ u[1] = H
      BY <2>4 DEF Some, u
    <3>2. 1 \in 1 .. Len(u)
      BY <3>1
    <3>5. (u \o v)[1] = H
      BY <1>1, <1>3, <3>1, <3>2, ConcatFacts
    <3>3. todo[1] = Head(todo)
      BY DEF Todos
    <3> QED BY <2>2, <3>3, <3>5
  <2> QED BY <2>3, <2>4
<1> QED BY <1>1, <1>8, <1>9, <1>10 DEF H

-----------------------------------------------------------------------------
(* What the steps of a request have in common.                             *)

\* The request goes on with todo before it, or is over when there is nothing.
Goes(q, todo, d) ==
  /\ request' \in [Requests -> Request]
  /\ \A p \in Requests \ {q} : request'[p] = request[p]
  /\ todo = <<>> => request'[q] = Idle
  /\ todo # <<>> =>
       LET r == request[q]  s == request'[q] IN
       /\ s.todo = todo /\ s.dirty = d
       /\ s.op = r.op /\ s.tickets = r.tickets /\ s.items = r.items /\ s.lists = r.lists
       /\ s.add = r.add /\ s.remove = r.remove /\ s.met = r.met

LEMMA GoThen ==
  ASSUME TypeOK, Shapes, NEW q \in Requests, Busy(q), NEW c \in Head(request[q].todo), NEW calls \in SUBSET Call,
         Go(q, Then(q, c, calls)),
         calls # {} => /\ c.do \notin {"check", "break", "insert"}
                       /\ \A d \in calls : d.do \notin {"check", "break", "insert"}
  PROVE  Goes(q, Following(request[q].todo, c, calls), request[q].dirty)
<1> DEFINE r == request[q]
           todo == Following(r.todo, c, calls)
<1>1. r \in Request /\ r.todo \in Todos /\ r.todo # <<>> /\ Sound(r.todo) /\ request \in [Requests -> Request]
  BY RequestFacts DEF TypeOK, Shapes, Shaped, Busy
<1>2. todo \in Todos
  BY <1>1, FollowingFacts
<1>3. Then(q, c, calls) = IF todo = <<>> THEN Idle ELSE [r EXCEPT !.todo = todo]
  BY DEF Then, Following
<1>4. request' = [request EXCEPT ![q] = IF todo = <<>> THEN Idle ELSE [r EXCEPT !.todo = todo]]
  <2>1. todo # <<>> => [r EXCEPT !.todo = todo].todo = todo
    BY <1>1, <1>2, WithTodo
  <2> HIDE DEF todo, r
  <2> QED BY <1>3, <2>1, IdleFacts DEF Go
<1> HIDE DEF todo, r
<1>5. [r EXCEPT !.todo = todo] \in Request
  BY <1>1, <1>2, WithTodo
<1>6. /\ request' \in [Requests -> Request]
      /\ \A p \in Requests \ {q} : request'[p] = request[p]
      /\ request'[q] = IF todo = <<>> THEN Idle ELSE [r EXCEPT !.todo = todo]
  BY <1>1, <1>4, <1>5, IdleFacts
<1>7. Goes(q, todo, r.dirty)
  BY <1>1, <1>2, <1>6, WithTodo DEF Goes, r
<1> QED BY <1>7 DEF todo, r

LEMMA DoneThen ==
  ASSUME TypeOK, Shapes, NEW q \in Requests, Busy(q), NEW c \in Head(request[q].todo), Done(q, c)
  PROVE  Goes(q, Following(request[q].todo, c, {}), TRUE)
<1> DEFINE r == request[q]
           todo == Following(r.todo, c, {})
           s == [r EXCEPT !.todo = todo]
<1>1. r \in Request /\ r.todo \in Todos /\ r.todo # <<>> /\ Sound(r.todo) /\ request \in [Requests -> Request]
  BY RequestFacts DEF TypeOK, Shapes, Shaped, Busy
<1>2. todo \in Todos
  BY <1>1, FollowingFacts
<1>3. Then(q, c, {}) = IF todo = <<>> THEN Idle ELSE s
  BY DEF Then, Following
<1>4. /\ s \in Request /\ s.todo = todo
      /\ s.op = r.op /\ s.tickets = r.tickets /\ s.items = r.items /\ s.lists = r.lists
      /\ s.add = r.add /\ s.remove = r.remove /\ s.met = r.met
  BY <1>1, <1>2, WithTodo
<1> HIDE DEF todo, r, s
<1>5. /\ [s EXCEPT !.dirty = TRUE].todo = todo
      /\ [Idle EXCEPT !.dirty = TRUE].todo = <<>>
  BY <1>4, WithDirty, IdleFacts
<1>6. request' = [request EXCEPT ![q] = IF todo = <<>> THEN Idle ELSE [s EXCEPT !.dirty = TRUE]]
  BY <1>3, <1>5 DEF Done, Go
<1>7. [s EXCEPT !.dirty = TRUE] \in Request
  BY <1>4, WithDirty
<1>8. /\ request' \in [Requests -> Request]
      /\ \A p \in Requests \ {q} : request'[p] = request[p]
      /\ request'[q] = IF todo = <<>> THEN Idle ELSE [s EXCEPT !.dirty = TRUE]
  BY <1>1, <1>6, <1>7, IdleFacts
<1>9. Goes(q, todo, TRUE)
  BY <1>4, <1>8, WithDirty DEF Goes, r
<1> QED BY <1>9 DEF todo, r

\* What a step of the request changes of tickets and items.
Touches(q) ==
  LET r == request[q] IN
  /\ linked' \in [Items -> Tickets \cup {None}]
  /\ ticket' \in [Tickets -> [state : {"unborn", "open", "trash", "gone"}, links : SUBSET Items]]
  /\ begun' = begun
  /\ Blank(ticket) => Blank(ticket')
  /\ doubt \subseteq doubt' /\ doubt' \subseteq Items
  /\ \A i \in Items : linked'[i] # linked[i] =>
       /\ i \in r.items \cup r.met
       /\ linked'[i] = None \/ (i \in r.items /\ linked'[i] \in r.tickets)
  /\ \A t \in Tickets : t \notin r.tickets => ticket'[t] = ticket[t]
  /\ \A i \in Items \ (doubt \cup r.items), t \in Tickets :
       i \in ticket'[t].links <=> i \in ticket[t].links

LEMMA BusyFacts ==
  ASSUME TInv, NEW q \in Requests
  PROVE  LET r == request[q] IN
         /\ r \in Request /\ r.todo \in Todos /\ r.items \subseteq Items /\ r.met \subseteq doubt
         /\ r.tickets \subseteq Tickets /\ r.dirty \in BOOLEAN /\ None \notin r.tickets
         /\ r.lists \in Lists
         /\ Busy(q) => /\ r.todo # <<>> /\ Shaped(r) /\ Sound(r.todo)
                       /\ r.op # "none" /\ r.add \cup r.remove \subseteq Items \X r.tickets
                       /\ Linked(r.add) \subseteq r.items /\ DOMAIN r.lists \subseteq r.tickets
                       /\ \A c \in LeftOf(r.todo) : Meant(r, c)
         /\ ~Busy(q) => r = Idle /\ r.items = {} /\ r.tickets = {}
<1>1. request[q] \in Request /\ (request[q].todo = <<>> => request[q] = Idle)
  BY DEF TInv, TypeOK
<1>2. request[q].tickets \subseteq Tickets
  BY <1>1, RequestFacts
<1> QED BY <1>1, <1>2, RequestFacts, IdleFacts, TicketAssumption DEF TInv, Shapes, Shaped, Meeting, Busy

\* Others who are about an item that is not in doubt are not disturbed.
LEMMA Undisturbed ==
  ASSUME TInv, NEW q \in Requests, Busy(q), Touches(q), NEW p \in Requests \ {q},
         NEW i \in request[p].items \ doubt'
  PROVE  /\ linked'[i] = linked[i]
         /\ \A t \in Tickets : i \in ticket'[t].links <=> i \in ticket[t].links
         /\ \A t \in request[p].tickets : ticket'[t] = ticket[t]
<1>1. i \in Items /\ i \notin doubt /\ request[p].tickets \subseteq Tickets
  BY BusyFacts DEF Touches
<1>2. ~Near(request[p], request[q])
  BY <1>1 DEF TInv, Meeting
<1>3. i \notin request[q].items /\ request[p].tickets \cap request[q].tickets = {}
  BY <1>2 DEF Near
<1>4. i \notin request[q].met
  BY <1>1, BusyFacts
<1> QED BY <1>1, <1>3, <1>4 DEF Touches

LEMMA OthersOwn ==
  ASSUME TInv, NEW q \in Requests, Busy(q), Touches(q), NEW p \in Requests \ {q}, Busy(p),
         NEW i \in Items
  PROVE  Owns(request[p], i, linked'[i])
<1> DEFINE r == request[p]  L == LeftOf(r.todo)
<1>1. Owns(r, i, linked[i])
  BY DEF TInv, Owning
<1>2. CASE linked'[i] = linked[i]
  BY <1>1, <1>2
<1>3. CASE linked'[i] = None
  BY <1>1, <1>3, BusyFacts DEF Owns, Safe
<1>4. CASE i \in request[q].items /\ linked'[i] \in request[q].tickets
  <2>1. i \in r.items => i \in r.met
    BY <1>4 DEF TInv, Meeting, Near
  <2>2. linked'[i] \in r.tickets => i \in r.met
    BY <1>4 DEF TInv, Meeting, Near
  <2>3. Due(L, "link", i) => i \in r.items
    BY BusyFacts DEF Due, Meant
  <2>4. Due(L, "unlink", i) => i \in r.items \cup r.met
    BY BusyFacts DEF Due, Meant
  <2> QED BY <2>1, <2>2, <2>3, <2>4 DEF Owns, Safe
<1> QED BY <1>2, <1>3, <1>4 DEF Touches

LEMMA OthersPlan ==
  ASSUME TInv, NEW q \in Requests, Busy(q), Touches(q), NEW p \in Requests \ {q}, Busy(p),
         NEW i \in request[p].items \ doubt'
  PROVE  LET r == request[p]  L == LeftOf(r.todo) IN
         Knows(r, r.dirty, L, i, linked'[i], ticket') /\ Comes(r, L, i, linked'[i], ticket')
<1> DEFINE r == request[p]  L == LeftOf(r.todo)
<1>1. /\ linked'[i] = linked[i]
      /\ \A t \in Tickets : i \in ticket'[t].links <=> i \in ticket[t].links
      /\ \A t \in r.tickets : ticket'[t] = ticket[t]
  BY Undisturbed
<1>2. Knows(r, r.dirty, L, i, linked[i], ticket) /\ Comes(r, L, i, linked[i], ticket)
  BY DEF TInv, Plans, Touches
<1>3. DOMAIN r.lists \subseteq r.tickets
  BY BusyFacts
<1> HIDE DEF L, r
<1>4. Knows(r, r.dirty, L, i, linked[i], ticket')
  BY <1>1, <1>2, <1>3 DEF Knows, Agrees
<1>5. \A t \in Tickets : ListedAfter(r, L, i, t, ticket') <=> ListedAfter(r, L, i, t, ticket)
  BY <1>1 DEF ListedAfter
<1>6. Comes(r, L, i, linked[i], ticket')
  BY <1>2, <1>5 DEF Comes, Settles
<1> QED BY <1>1, <1>4, <1>6 DEF r, L

LEMMA OthersSpare ==
  ASSUME TInv, NEW q \in Requests, Busy(q), Touches(q), NEW p \in Requests \ {q}, Busy(p),
         NEW i \in Items \ (doubt' \cup request[p].items)
  PROVE  Spares(request[p], i, linked'[i], ticket')
<1> DEFINE r == request[p]
<1>1. Spares(r, i, linked[i], ticket)
  BY DEF TInv, Others, Touches
<1>2. DOMAIN r.lists \subseteq r.tickets /\ r.tickets \subseteq Tickets /\ None \notin r.tickets
  BY BusyFacts
<1>3. CASE i \in request[q].items
  <2>1. ~Near(request[q], r)
    BY <1>3 DEF TInv, Meeting, Touches
  <2>2. r.tickets \cap request[q].tickets = {}
    BY <2>1 DEF Near
  <2>3. \A t \in r.tickets : ticket'[t] = ticket[t]
    BY <1>2, <2>2 DEF Touches
  <2>4. linked[i] \notin r.tickets => linked'[i] \notin r.tickets
    BY <1>2, <2>2 DEF Touches
  <2> QED BY <1>1, <1>2, <2>3, <2>4 DEF Spares
<1>4. CASE i \notin request[q].items
  <2>1. i \notin request[q].met
    BY BusyFacts DEF Touches
  <2>2. linked'[i] = linked[i] /\ \A t \in Tickets : i \in ticket'[t].links <=> i \in ticket[t].links
    BY <1>4, <2>1 DEF Touches
  <2> QED BY <1>1, <1>2, <2>2 DEF Spares
<1> QED BY <1>3, <1>4

\* The request goes on, and the invariant holds of it.
Continues(q) ==
  LET r == request[q]  s == request'[q]  L == LeftOf(s.todo) IN
  /\ s.todo # <<>>
  /\ s.op = r.op /\ s.tickets = r.tickets /\ s.items = r.items /\ s.met = r.met
  /\ Shaped(s)
  /\ \A i \in Items : Owns(s, i, linked'[i])
  /\ \A i \in s.items \ doubt' :
       Knows(s, s.dirty, L, i, linked'[i], ticket') /\ Comes(s, L, i, linked'[i], ticket')
  /\ \A i \in Items \ (doubt' \cup s.items) : Spares(s, i, linked'[i], ticket')

LEMMA StepKeeps ==
  ASSUME TInv, NEW q \in Requests, Busy(q), Touches(q),
         request' \in [Requests -> Request], \A p \in Requests \ {q} : request'[p] = request[p],
         \/ Continues(q)
         \/ /\ request'[q] = Idle
            /\ \A i \in request[q].items \ doubt' : Agrees(i, linked'[i], ticket')
  PROVE  TInv'
<1>1. \A p \in Requests : request'[p] = request[p] \/ (p = q /\ request'[p] = Idle) \/ (p = q /\ Continues(q))
  OBVIOUS
<1>2. \A p \in Requests : p # q /\ request'[p].todo # <<>> => Busy(p) /\ request'[p] = request[p]
  BY DEF Busy
<1>3. request'[q].todo # <<>> => Continues(q)
  BY IdleFacts
<1>4. \A p \in Requests :
        \/ request'[p].items = {} /\ request'[p].tickets = {} /\ request'[p].met = {}
        \/ /\ request'[p].items = request[p].items /\ request'[p].tickets = request[p].tickets
           /\ request'[p].met = request[p].met
  BY <1>1, IdleFacts DEF Continues
<1>5. TypeOK'
  <2>1. \A p \in Requests : request'[p].todo = <<>> <=> request'[p] = Idle
    BY <1>1, IdleFacts DEF Continues, TInv, TypeOK
  <2> QED BY <2>1 DEF TInv, TypeOK, Touches
<1>6. Shapes'
  BY <1>2, <1>3, BusyFacts DEF Shapes, Busy, Continues
<1>7. Meeting'
  <2>1. ASSUME NEW p \in Requests PROVE request'[p].met \subseteq doubt'
    BY <1>4, BusyFacts DEF Touches
  <2>2. ASSUME NEW p \in Requests, NEW s \in Requests \ {p}, Near(request'[s], request'[p])
        PROVE  request'[s].items \subseteq doubt' /\ request'[s].items \subseteq request'[p].met
    <3>1. /\ request'[p].items = request[p].items /\ request'[p].tickets = request[p].tickets
          /\ request'[p].met = request[p].met
          /\ request'[s].items = request[s].items /\ request'[s].tickets = request[s].tickets
      BY <1>4, <2>2 DEF Near
    <3>2. Near(request[s], request[p])
      BY <2>2, <3>1 DEF Near
    <3> QED BY <3>1, <3>2 DEF TInv, Meeting, Touches
  <2> QED BY <2>1, <2>2 DEF Meeting
<1>8. Owning'
  BY <1>2, <1>3, OthersOwn DEF Owning, Busy, Continues
<1>9. BothSidesAgree'
  <2> SUFFICES ASSUME NEW i \in Items \ doubt', \A p \in Requests : i \notin request'[p].items
               PROVE  Agrees(i, linked'[i], ticket')
    BY DEF BothSidesAgree, Agrees
  <2>1. \A p \in Requests \ {q} : i \notin request[p].items
    OBVIOUS
  <2>2. CASE i \in request[q].items
    BY <2>2 DEF Continues
  <2>3. CASE i \notin request[q].items
    <3>1. Agrees(i, linked[i], ticket)
      BY <2>1, <2>3 DEF TInv, BothSidesAgree, Agrees, Touches
    <3>2. i \notin request[q].met
      BY BusyFacts DEF Touches
    <3>3. linked'[i] = linked[i] /\ \A t \in Tickets : i \in ticket'[t].links <=> i \in ticket[t].links
      BY <2>3, <3>2 DEF Touches
    <3> QED BY <3>1, <3>3 DEF Agrees
  <2> QED BY <2>2, <2>3
<1>10. Plans'
  <2> SUFFICES ASSUME NEW p \in Requests, request'[p].todo # <<>>, NEW i \in request'[p].items \ doubt'
               PROVE  LET r == request'[p]  L == LeftOf(r.todo) IN
                      Knows(r, r.dirty, L, i, linked'[i], ticket') /\ Comes(r, L, i, linked'[i], ticket')
    BY DEF Plans, Busy, Knows, Comes, Settles, Agrees, ListedAfter
  <2>1. CASE p = q
    BY <1>3, <2>1 DEF Continues
  <2>2. CASE p # q
    BY <1>2, <2>2, OthersPlan
  <2> QED BY <2>1, <2>2
<1>11. Others'
  <2> SUFFICES ASSUME NEW p \in Requests, request'[p].todo # <<>>,
                      NEW i \in Items \ (doubt' \cup request'[p].items)
               PROVE  Spares(request'[p], i, linked'[i], ticket')
    BY DEF Others, Busy, Spares
  <2>1. CASE p = q
    BY <1>3, <2>1 DEF Continues
  <2>2. CASE p # q
    BY <1>2, <2>2, OthersSpare
  <2> QED BY <2>1, <2>2
<1>12. Blank(ticket')
  BY DEF TInv, Touches
<1> QED BY <1>5, <1>6, <1>7, <1>8, <1>9, <1>10, <1>11, <1>12 DEF TInv

\* Nothing is left to do about an item: the two sides agree.
LEMMA NothingLeft ==
  ASSUME NEW r, NEW i, NEW v, NEW tk, Comes(r, {}, i, v, tk)
  PROVE  Agrees(i, v, tk)
BY DEF Comes, Settles, Agrees, TicketAfter, ListedAfter, Has, Due

\* A call is done, and those that follow from it at once come next: what is left to show
\* is about the items of the request.
LEMMA FollowKeeps ==
  ASSUME TInv, NEW q \in Requests, Busy(q), NEW c \in Head(request[q].todo), NEW calls \in SUBSET Call,
         NEW d \in BOOLEAN, Touches(q),
         Goes(q, Following(request[q].todo, c, calls), d),
         c.do # "read",
         calls # {} => c.do \notin {"check", "break", "insert"},
         c.do \in {"check", "break"} => d = request[q].dirty,
         \A e \in calls : e.do \in {"link", "unlink"} /\ Meant(request[q], e),
         \A i \in Items : (\E e \in calls : i \in e.at) => Safe(request[q], i, linked[i]),
         \A i \in Items : c.do = "check" /\ i \in c.at => Safe(request[q], i, linked[i]),
         \A i \in request[q].items \ doubt' :
           LET L == LeftOf(Following(request[q].todo, c, calls)) IN
           /\ Knows(request[q], d, L, i, linked'[i], ticket')
           /\ Comes(request[q], L, i, linked'[i], ticket')
  PROVE  TInv'
<1> DEFINE r == request[q]  s == request'[q]  todo == Following(r.todo, c, calls)
           L == LeftOf(r.todo)  M == LeftOf(todo)
<1>1. /\ r \in Request /\ r.todo \in Todos /\ r.items \subseteq Items /\ r.met \subseteq doubt
      /\ r.tickets \subseteq Tickets /\ None \notin r.tickets
      /\ r.todo # <<>> /\ Shaped(r) /\ Sound(r.todo)
  BY BusyFacts
<1>2. calls # {} => /\ c.do \notin {"check", "break", "insert"}
                    /\ \A e \in calls : e.do \notin {"check", "break", "insert"}
  OBVIOUS
<1>3. /\ todo \in Todos /\ Sound(todo) /\ M \subseteq L \cup calls /\ (L \ {c}) \cup calls \subseteq M
      /\ c \in L /\ L \subseteq Call
  BY <1>1, <1>2, FollowingFacts, HeadTailFacts
<1> HIDE DEF todo, L, M
<1>4. /\ request' \in [Requests -> Request] /\ \A p \in Requests \ {q} : request'[p] = request[p]
      /\ todo = <<>> => s = Idle
      /\ todo # <<>> =>
           /\ s.todo = todo /\ s.dirty = d
           /\ s.op = r.op /\ s.tickets = r.tickets /\ s.items = r.items /\ s.lists = r.lists
           /\ s.add = r.add /\ s.remove = r.remove /\ s.met = r.met
  BY DEF Goes, todo
<1>5. CASE todo = <<>>
  <2>1. M = {}
    BY <1>5 DEF M, LeftOf
  <2>2. \A i \in r.items \ doubt' : Agrees(i, linked'[i], ticket')
    BY <2>1, NothingLeft DEF M, todo
  <2> QED BY <1>4, <1>5, <2>2, StepKeeps
<1>6. CASE todo # <<>>
  <2> USE <1>6
  <2>0. \A e \in L : Meant(r, e)
    BY <1>1 DEF Shaped, L
  <2>7. ASSUME NEW e \in M PROVE e.do # "read"
    <3>1. CASE e \in calls
      BY <3>1
    <3>2. CASE e \in L /\ e.do = "read"
      <4>1. r.todo = <<{e}>>
        BY <2>0, <3>2 DEF Meant
      <4>2. c = e
        BY <4>1
      <4> QED BY <3>2, <4>2
    <3> QED BY <1>3, <3>1, <3>2
  <2>1. ASSUME NEW e \in M PROVE Meant(s, e)
    <3>1. Meant(r, e)
      BY <1>3, <2>0
    <3>2. e.do # "read"
      BY <2>7
    <3>4. e.do = "delete" => ~Has(M, "insert")
      <4>1. e.do = "delete" => ~Has(L, "insert")
        BY <3>1 DEF Meant, L
      <4>2. Has(M, "insert") => Has(L, "insert")
        BY <1>3 DEF Has
      <4> QED BY <4>1, <4>2
    <3>3. e.do \in {"check", "break"} /\ s.dirty => r.op = "create"
      <4>1. SUFFICES ASSUME e.do \in {"check", "break"}, s.dirty, ~r.dirty PROVE r.op = "create"
        BY <3>1 DEF Meant
      <4>2. c.do \notin {"check", "break"}
        BY <1>1, <1>4, <4>1, RequestFacts
      <4>3. e \in L
        BY <1>3, <4>1
      <4>4. Checking(L)
        BY <4>1, <4>3 DEF Checking, Has
      <4>5. c.do = "insert"
        BY <1>1, <4>2, <4>4, HeadTailFacts DEF L
      <4>6. r.op \in {"create", "agent create"} /\ r.op # "agent create"
        BY <1>3, <2>0, <3>1, <4>1, <4>5 DEF Meant
      <4> QED BY <4>6
    <3> QED BY <1>4, <3>1, <3>2, <3>3, <3>4 DEF Meant, M
  <2>2. Shaped(s)
    BY <1>1, <1>3, <1>4, <2>1 DEF Shaped, M
  <2>3. ASSUME NEW i \in Items PROVE Owns(s, i, linked'[i])
    <3>1. Owns(r, i, linked[i])
      BY DEF TInv, Owning
    <3>2. CASE linked'[i] # linked[i]
      <4>1. /\ i \in r.items \cup r.met
            /\ linked'[i] = None \/ linked'[i] \in r.tickets
        BY <3>2 DEF Touches
      <4> QED BY <1>4, <4>1 DEF Owns, Safe
    <3>3. CASE linked'[i] = linked[i]
      <4>1. Due(M, "link", i) => Due(L, "link", i) \/ Safe(r, i, linked[i])
        BY <1>3 DEF Due
      <4>2. Due(M, "unlink", i) => Due(L, "unlink", i) \/ Safe(r, i, linked[i])
        BY <1>3 DEF Due
      <4>3. ~Has(M, "read")
        BY <2>7 DEF Has
      <4>4. Due(L, "check", i) => Due(M, "check", i) \/ Safe(r, i, linked[i])
        BY <1>3 DEF Due
      <4>5. s.op # "record" =>
              /\ Due(M, "link", i) \/ Due(M, "unlink", i) \/ (Has(M, "read") /\ i \in s.items) =>
                   Due(M, "check", i) \/ Safe(r, i, linked[i])
              /\ s.op = "purge" /\ linked[i] \in s.tickets => i \in s.items \cup s.met
        BY <1>4, <3>1, <4>1, <4>2, <4>3, <4>4 DEF Owns, L
      <4> QED BY <1>4, <3>3, <4>5 DEF Owns, Safe, M
    <3> QED BY <3>2, <3>3
  <2>4. ASSUME NEW i \in s.items \ doubt'
        PROVE  Knows(s, s.dirty, M, i, linked'[i], ticket') /\ Comes(s, M, i, linked'[i], ticket')
    <3>1. Knows(r, d, M, i, linked'[i], ticket') /\ Comes(r, M, i, linked'[i], ticket')
      BY <1>4, <2>4 DEF M, todo
    <3>2. \A t \in Tickets : ListedAfter(s, M, i, t, ticket') <=> ListedAfter(r, M, i, t, ticket')
      BY <1>4 DEF ListedAfter
    <3>3. TicketAfter(s, M, i, linked'[i]) = TicketAfter(r, M, i, linked'[i])
      BY <1>4 DEF TicketAfter
    <3> QED BY <1>4, <3>1, <3>2, <3>3 DEF Knows, Comes, Settles, Free
  <2>5. ASSUME NEW i \in Items \ (doubt' \cup s.items)
        PROVE  Spares(s, i, linked'[i], ticket')
    <3>1. i \in Items \ (doubt \cup r.items) /\ i \notin r.met
      BY <1>1, <1>4, <2>5 DEF Touches
    <3>2. linked'[i] = linked[i] /\ \A t \in Tickets : i \in ticket'[t].links <=> i \in ticket[t].links
      BY <3>1 DEF Touches
    <3>3. Spares(r, i, linked[i], ticket)
      BY <3>1 DEF TInv, Others
    <3>4. /\ Has(M, "write") => Has(L, "write")
          /\ Has(M, "insert") => Has(L, "insert")
      BY <1>3 DEF Has
    <3>5. DOMAIN r.lists \subseteq Tickets
      BY <1>1 DEF Shaped
    <3>6. /\ Has(M, "write") \/ Has(M, "insert") =>
               \A t \in DOMAIN s.lists : i \in s.lists[t] <=> i \in ticket'[t].links
          /\ s.op \in {"create", "purge"} => \A t \in s.tickets : i \notin ticket'[t].links
          /\ s.op = "purge" => linked'[i] \notin s.tickets
      BY <1>1, <1>4, <3>2, <3>3, <3>4, <3>5 DEF Spares, L
    <3> QED BY <1>4, <3>6 DEF Spares, M
  <2>6. Continues(q)
    BY <1>4, <2>2, <2>3, <2>4, <2>5 DEF Continues, M
  <2> QED BY <1>4, <2>6, StepKeeps
<1> QED BY <1>5, <1>6

LEMMA DoneKeeps ==
  ASSUME TInv, NEW q \in Requests, Busy(q), NEW c \in Head(request[q].todo), NEW d \in BOOLEAN, Touches(q),
         Goes(q, Following(request[q].todo, c, {}), d),
         c.do # "read",
         c.do \in {"check", "break"} => d = request[q].dirty,
         \A i \in Items : c.do = "check" /\ i \in c.at => Safe(request[q], i, linked[i]),
         \A i \in request[q].items \ doubt' :
           LET L == LeftOf(Following(request[q].todo, c, {})) IN
           /\ Knows(request[q], d, L, i, linked'[i], ticket')
           /\ Comes(request[q], L, i, linked'[i], ticket')
  PROVE  TInv'
<1>1. {} \in SUBSET Call
  OBVIOUS
<1> QED BY <1>1, FollowKeeps

-----------------------------------------------------------------------------
(* The calls.                                                              *)

LEMMA HeadFacts ==
  ASSUME TInv, NEW q \in Requests, Busy(q), NEW c \in Head(request[q].todo)
  PROVE  LET r == request[q]  L == LeftOf(r.todo) IN
         /\ c \in Call /\ c \in L /\ L \subseteq Call /\ Meant(r, c)
         /\ \A e \in L : Meant(r, e)
         /\ c.do # "read" => ~Has(L, "read")
         /\ c.do \notin {"check", "break", "insert"} => ~Checking(L)
<1> DEFINE r == request[q]  L == LeftOf(r.todo)
<1>1. r.todo \in Todos /\ r.todo # <<>> /\ Sound(r.todo) /\ \A e \in L : Meant(r, e)
  BY BusyFacts
<1>2. c \in L /\ L \subseteq Call /\ (c.do \notin {"check", "break", "insert"} => ~Checking(L))
  BY <1>1, HeadTailFacts
<1>3. ASSUME NEW e \in L, e.do = "read" PROVE c = e
  <2>1. r.todo = <<{e}>>
    BY <1>1, <1>3 DEF Meant
  <2> QED BY <2>1
<1> QED BY <1>1, <1>2, <1>3 DEF Has

\* A link is stored with the item.
LEMMA LinkKeeps ==
  ASSUME TInv, NEW q \in Requests, Busy(q), NEW c \in Head(request[q].todo), Link(q, c)
  PROVE  TInv'
<1> DEFINE r == request[q]  L == LeftOf(r.todo)  todo == Following(r.todo, c, {})  M == LeftOf(todo)
<1>1. /\ c.do = "link" /\ linked' = [i \in Items |-> IF i \in c.at THEN Target(r.add, i) ELSE linked[i]]
      /\ Done(q, c) /\ UNCHANGED <<ticket, begun, doubt>>
  BY DEF Link
<1>2. /\ c \in L /\ L \subseteq Call /\ Meant(r, c) /\ ~Has(L, "read") /\ ~Checking(L)
      /\ r \in Request /\ r.todo \in Todos /\ r.todo # <<>> /\ Sound(r.todo)
      /\ r.add \subseteq Items \X r.tickets /\ Linked(r.add) \subseteq r.items /\ r.items \subseteq Items
  BY <1>1, HeadFacts, BusyFacts
<1>3. M \subseteq L \cup {} /\ (L \ {c}) \cup {} \subseteq M
  BY <1>2, FollowingFacts
<1>4. Goes(q, todo, TRUE)
  BY <1>1, DoneThen DEF TInv
<1>5. \A i \in c.at : /\ i \in r.items /\ Target(r.add, i) \in r.tickets
                      /\ Target(r.add, i) \in Tickets /\ Target(r.add, i) # None
  BY <1>1, <1>2, TargetFacts DEF Meant
<1>6. Touches(q)
  <2>1. linked' \in [Items -> Tickets \cup {None}]
    BY <1>1, <1>5 DEF TInv, TypeOK
  <2>2. \A i \in Items : linked'[i] # linked[i] => i \in r.items /\ linked'[i] \in r.tickets
    BY <1>1, <1>5
  <2> QED BY <1>1, <2>1, <2>2 DEF Touches, TInv, TypeOK
<1> HIDE DEF M, todo, L
<1>7. ASSUME NEW i \in r.items \ doubt'
      PROVE  Knows(r, TRUE, M, i, linked'[i], ticket') /\ Comes(r, M, i, linked'[i], ticket')
  <2>1. Knows(r, r.dirty, L, i, linked[i], ticket) /\ Comes(r, L, i, linked[i], ticket)
    BY <1>1 DEF TInv, Plans, L
  <2>2. ~Due(L, "check", i) /\ ~Has(M, "read") /\ ~Checking(M)
    BY <1>2, <1>3 DEF Due, Has, Checking
  <2>3. Settles(r, L, i, linked[i], ticket)
    BY <1>2, <2>1, <2>2 DEF Comes
  <2>4. Has(M, "write") => Has(L, "write")
    BY <1>3 DEF Has
  <2>5. Knows(r, TRUE, M, i, linked'[i], ticket')
    BY <1>1, <2>1, <2>2, <2>4 DEF Knows
  <2>6. /\ Has(M, "write") <=> Has(L, "write")
        /\ Has(M, "insert") <=> Has(L, "insert")
        /\ Has(M, "delete") <=> Has(L, "delete")
    BY <1>1, <1>3 DEF Has
  <2>7. \A t \in Tickets : ListedAfter(r, M, i, t, ticket') <=> ListedAfter(r, L, i, t, ticket)
    BY <1>1, <2>6 DEF ListedAfter
  <2>8. /\ Due(M, "link", i) => Due(L, "link", i)
        /\ Due(M, "look free", i) <=> Due(L, "look free", i)
        /\ Due(M, "unlink", i) <=> Due(L, "unlink", i)
        /\ Due(M, "look", i) <=> Due(L, "look", i)
        /\ i \in c.at => Due(L, "link", i)
        /\ i \notin c.at => (Due(L, "link", i) => Due(M, "link", i))
    BY <1>1, <1>2, <1>3 DEF Due
  <2>9. TicketAfter(r, M, i, linked'[i]) = TicketAfter(r, L, i, linked[i])
    <3>1. CASE i \in c.at
      <4>1. linked'[i] = Target(r.add, i)
        BY <1>1, <1>2, <3>1
      <4>2. ~Due(M, "look", i) /\ ~Due(M, "unlink", i) /\ Due(L, "link", i)
        BY <2>3, <2>8, <3>1 DEF Settles
      <4> QED BY <4>1, <4>2 DEF TicketAfter
    <3>2. CASE i \notin c.at
      <4>1. linked'[i] = linked[i]
        BY <1>1, <1>2, <3>2
      <4> QED BY <2>8, <3>2, <4>1 DEF TicketAfter
    <3> QED BY <3>1, <3>2
  <2>10. Settles(r, M, i, linked'[i], ticket')
    BY <2>3, <2>7, <2>8, <2>9 DEF Settles
  <2> QED BY <2>5, <2>10 DEF Comes
<1> QED BY <1>1, <1>4, <1>6, <1>7, DoneKeeps DEF M, todo

\* A link is taken off the item.
LEMMA UnlinkKeeps ==
  ASSUME TInv, NEW q \in Requests, Busy(q), NEW c \in Head(request[q].todo), Unlink(q, c)
  PROVE  TInv'
<1> DEFINE r == request[q]  L == LeftOf(r.todo)  todo == Following(r.todo, c, {})  M == LeftOf(todo)
<1>1. /\ c.do = "unlink" /\ linked' = [i \in Items |-> IF i \in c.at THEN None ELSE linked[i]]
      /\ Done(q, c) /\ UNCHANGED <<ticket, begun, doubt>>
  BY DEF Unlink
<1>2. /\ c \in L /\ L \subseteq Call /\ Meant(r, c) /\ ~Has(L, "read") /\ ~Checking(L)
      /\ r \in Request /\ r.todo \in Todos /\ r.todo # <<>> /\ Sound(r.todo)
      /\ r.items \subseteq Items
  BY <1>1, HeadFacts, BusyFacts
<1>3. M \subseteq L /\ L \ {c} \subseteq M
  BY <1>2, FollowingFacts
<1>4. Goes(q, todo, TRUE)
  BY <1>1, DoneThen DEF TInv
<1>5. Touches(q)
  <2>1. linked' \in [Items -> Tickets \cup {None}]
    BY <1>1 DEF TInv, TypeOK
  <2>2. \A i \in Items : linked'[i] # linked[i] => i \in r.items \cup r.met /\ linked'[i] = None
    BY <1>1, <1>2 DEF Meant
  <2> QED BY <1>1, <2>1, <2>2 DEF Touches, TInv, TypeOK
<1> HIDE DEF M, todo, L
<1>6. ASSUME NEW i \in r.items \ doubt'
      PROVE  Knows(r, TRUE, M, i, linked'[i], ticket') /\ Comes(r, M, i, linked'[i], ticket')
  <2>1. Knows(r, r.dirty, L, i, linked[i], ticket) /\ Comes(r, L, i, linked[i], ticket)
    BY <1>1 DEF TInv, Plans, L
  <2>2. ~Due(L, "check", i) /\ ~Has(M, "read") /\ ~Checking(M)
    BY <1>2, <1>3 DEF Due, Has, Checking
  <2>3. Settles(r, L, i, linked[i], ticket)
    BY <1>2, <2>1, <2>2 DEF Comes
  <2>4. /\ Has(M, "write") <=> Has(L, "write")
        /\ Has(M, "insert") <=> Has(L, "insert")
        /\ Has(M, "delete") <=> Has(L, "delete")
    BY <1>1, <1>3 DEF Has
  <2>5. Knows(r, TRUE, M, i, linked'[i], ticket')
    BY <1>1, <2>1, <2>2, <2>4 DEF Knows
  <2>6. \A t \in Tickets : ListedAfter(r, M, i, t, ticket') <=> ListedAfter(r, L, i, t, ticket)
    BY <1>1, <2>4 DEF ListedAfter
  <2>7. /\ Due(M, "link", i) <=> Due(L, "link", i)
        /\ Due(M, "look free", i) <=> Due(L, "look free", i)
        /\ Due(M, "unlink", i) => Due(L, "unlink", i)
        /\ Due(M, "look", i) <=> Due(L, "look", i)
        /\ i \in c.at => Due(L, "unlink", i)
        /\ i \notin c.at => (Due(L, "unlink", i) => Due(M, "unlink", i))
    BY <1>1, <1>2, <1>3 DEF Due
  <2>8. TicketAfter(r, M, i, linked'[i]) = TicketAfter(r, L, i, linked[i])
    <3>1. CASE i \in c.at
      <4>1. linked'[i] = None
        BY <1>1, <1>2, <3>1
      <4>2. ~Due(L, "link", i) /\ ~Due(L, "look free", i) /\ Due(L, "unlink", i)
        BY <2>3, <2>7, <3>1 DEF Settles
      <4> QED BY <2>7, <4>1, <4>2 DEF TicketAfter
    <3>2. CASE i \notin c.at
      <4>1. linked'[i] = linked[i]
        BY <1>1, <1>2, <3>2
      <4> QED BY <2>7, <3>2, <4>1 DEF TicketAfter
    <3> QED BY <3>1, <3>2
  <2>9. Settles(r, M, i, linked'[i], ticket')
    BY <2>3, <2>6, <2>7, <2>8 DEF Settles
  <2> QED BY <2>5, <2>9 DEF Comes
<1> QED BY <1>1, <1>4, <1>5, <1>6, DoneKeeps DEF M, todo

\* The links that point to the ticket are looked for.
LEMMA LookKeeps ==
  ASSUME TInv, NEW q \in Requests, Busy(q), NEW c \in Head(request[q].todo), Look(q, c)
  PROVE  TInv'
<1> DEFINE r == request[q]  L == LeftOf(r.todo)
           ours == {i \in c.at : <<i, linked[i]>> \in r.remove}
           calls == IF ours = {} THEN {} ELSE {[do |-> "unlink", at |-> ours]}
           todo == Following(r.todo, c, calls)  M == LeftOf(todo)
<1>1. /\ c.do = "look" /\ Go(q, Then(q, c, calls)) /\ UNCHANGED <<ticket, linked, begun, doubt>>
  BY DEF Look
<1>2. /\ c \in Call /\ c \in L /\ L \subseteq Call /\ Meant(r, c) /\ ~Has(L, "read") /\ ~Checking(L)
      /\ r \in Request /\ r.todo \in Todos /\ r.todo # <<>> /\ Sound(r.todo)
      /\ r.items \subseteq Items /\ r.remove \subseteq Items \X r.tickets /\ r.dirty \in BOOLEAN
  BY <1>1, HeadFacts, BusyFacts
<1>3. ours \subseteq Items /\ \A i \in ours : i \in c.at /\ linked[i] \in r.tickets /\ <<i, linked[i]>> \in r.remove
  BY <1>2
<1>4. ours \subseteq r.items \cup r.met
  <2>1. CASE r.op = "purge"
    <3>1. \A i \in Items : linked[i] \in r.tickets => i \in r.items \cup r.met
      BY <2>1 DEF TInv, Owning, Owns
    <3> QED BY <1>3, <3>1
  <2>2. CASE r.op # "purge"
    BY <1>1, <1>2, <2>2 DEF Meant
  <2> QED BY <2>1, <2>2
<1> HIDE DEF ours
<1>5. calls \in SUBSET Call /\ \A e \in calls : e.do = "unlink" /\ e.at = ours
  BY <1>3 DEF Call
<1>6. \A e \in calls : Meant(r, e)
  BY <1>4, <1>5 DEF Meant
<1>7. \A i \in Items : (\E e \in calls : i \in e.at) => Safe(r, i, linked[i])
  BY <1>3, <1>5 DEF Safe
<1>8. /\ \A i \in Items : Due(calls, "unlink", i) <=> i \in ours
      /\ \A i \in Items : ~Due(calls, "link", i) /\ ~Due(calls, "look free", i) /\ ~Due(calls, "look", i)
  <2>1. CASE ours = {}
    BY <2>1 DEF Due
  <2>2. CASE ours # {}
    <3>1. calls = {[do |-> "unlink", at |-> ours]}
      BY <2>2
    <3>2. \A e \in calls : e.do = "unlink" /\ e.at = ours
      BY <3>1
    <3>3. \E e \in calls : e.do = "unlink" /\ e.at = ours
      BY <3>1
    <3> HIDE DEF calls
    <3> QED BY <3>2, <3>3 DEF Due
  <2> QED BY <2>1, <2>2
<1> HIDE DEF calls
<1>9. M \subseteq L \cup calls /\ (L \ {c}) \cup calls \subseteq M
  BY <1>1, <1>2, <1>5, FollowingFacts
<1>10. Goes(q, todo, r.dirty)
  BY <1>1, <1>5, GoThen DEF TInv
<1>11. Touches(q)
  BY <1>1 DEF Touches, TInv, TypeOK
<1> HIDE DEF M, todo, L
<1>12. ASSUME NEW i \in r.items \ doubt'
       PROVE  Knows(r, r.dirty, M, i, linked'[i], ticket') /\ Comes(r, M, i, linked'[i], ticket')
  <2>0. i \in Items
    BY <1>2
  <2>1. Knows(r, r.dirty, L, i, linked[i], ticket) /\ Comes(r, L, i, linked[i], ticket)
    BY <1>1 DEF TInv, Plans, L
  <2>2. ~Due(L, "check", i) /\ ~Has(M, "read") /\ ~Checking(M)
    BY <1>2, <1>5, <1>9 DEF Due, Has, Checking
  <2>3. Settles(r, L, i, linked[i], ticket)
    BY <1>2, <2>1, <2>2 DEF Comes
  <2>4. /\ Has(M, "write") <=> Has(L, "write")
        /\ Has(M, "insert") <=> Has(L, "insert")
        /\ Has(M, "delete") <=> Has(L, "delete")
    BY <1>1, <1>5, <1>9 DEF Has
  <2>5. Knows(r, r.dirty, M, i, linked[i], ticket)
    BY <2>1, <2>2, <2>4 DEF Knows
  <2>6. \A t \in Tickets : ListedAfter(r, M, i, t, ticket) <=> ListedAfter(r, L, i, t, ticket)
    BY <2>4 DEF ListedAfter
  <2>7. /\ Due(M, "link", i) <=> Due(L, "link", i)
        /\ Due(M, "look free", i) <=> Due(L, "look free", i)
        /\ Due(M, "unlink", i) <=> Due(L, "unlink", i) \/ i \in ours
        /\ Due(M, "look", i) => Due(L, "look", i)
        /\ i \in c.at => Due(L, "look", i)
        /\ i \notin c.at => (Due(L, "look", i) => Due(M, "look", i))
    <3>1. /\ Due(M, "unlink", i) => Due(L, "unlink", i) \/ Due(calls, "unlink", i)
          /\ Due(L, "unlink", i) \/ Due(calls, "unlink", i) => Due(M, "unlink", i)
      BY <1>1, <1>9 DEF Due
    <3> QED BY <1>1, <1>2, <1>5, <1>8, <1>9, <2>0, <3>1 DEF Due
  <2>8. i \in ours <=> i \in c.at /\ <<i, linked[i]>> \in r.remove
    BY DEF ours
  <2>9. TicketAfter(r, M, i, linked[i]) = TicketAfter(r, L, i, linked[i])
    BY <2>3, <2>7, <2>8 DEF TicketAfter, Settles
  <2>10. Settles(r, M, i, linked[i], ticket)
    BY <2>3, <2>6, <2>7, <2>8, <2>9 DEF Settles
  <2> QED BY <1>1, <2>5, <2>10 DEF Comes
<1>13. TInv'
  BY <1>1, <1>2, <1>5, <1>6, <1>7, <1>10, <1>11, <1>12, FollowKeeps DEF M, todo
<1> QED BY <1>13

\* An issue is linked when it is still free.
LEMMA LookFreeKeeps ==
  ASSUME TInv, NEW q \in Requests, Busy(q), NEW c \in Head(request[q].todo), LookFree(q, c)
  PROVE  TInv'
<1> DEFINE r == request[q]  L == LeftOf(r.todo)
           free == \A x \in c.at : linked[x] = None
           calls == IF free THEN {[do |-> "link", at |-> c.at]} ELSE {}
           todo == Following(r.todo, c, calls)  M == LeftOf(todo)
<1>1. /\ c.do = "look free" /\ Go(q, Then(q, c, calls)) /\ UNCHANGED <<ticket, linked, begun, doubt>>
  BY DEF LookFree
<1>2. /\ c \in Call /\ c \in L /\ L \subseteq Call /\ Meant(r, c) /\ ~Has(L, "read") /\ ~Checking(L)
      /\ r \in Request /\ r.todo \in Todos /\ r.todo # <<>> /\ Sound(r.todo)
      /\ r.items \subseteq Items /\ r.dirty \in BOOLEAN
  BY <1>1, HeadFacts, BusyFacts
<1>3. c.at \subseteq Linked(r.add) /\ \A i, j \in c.at : i = j
  BY <1>1, <1>2 DEF Meant
<1>4. calls \in SUBSET Call /\ \A e \in calls : e.do = "link" /\ e.at = c.at /\ free
  <2>1. [do |-> "link", at |-> c.at] \in Call
    BY <1>2 DEF Call
  <2>2. CASE free
    BY <2>1, <2>2
  <2>3. CASE ~free
    BY <2>3
  <2> HIDE DEF free
  <2> QED BY <2>2, <2>3
<1>5. \A e \in calls : Meant(r, e)
  BY <1>3, <1>4 DEF Meant
<1>6. \A i \in Items : (\E e \in calls : i \in e.at) => Safe(r, i, linked[i])
  BY <1>4 DEF Safe
<1>7. \A i \in Items : /\ Due(calls, "link", i) <=> i \in c.at /\ free
                       /\ ~Due(calls, "unlink", i) /\ ~Due(calls, "look free", i) /\ ~Due(calls, "look", i)
  <2> HIDE DEF free
  <2>1. CASE ~free
    BY <2>1 DEF Due
  <2>2. CASE free
    <3>1. calls = {[do |-> "link", at |-> c.at]}
      BY <2>2
    <3>2. \A e \in calls : e.do = "link" /\ e.at = c.at
      BY <3>1
    <3>3. \E e \in calls : e.do = "link" /\ e.at = c.at
      BY <3>1
    <3> HIDE DEF calls
    <3> QED BY <2>2, <3>2, <3>3 DEF Due
  <2> QED BY <2>1, <2>2
<1> HIDE DEF calls
<1>8. M \subseteq L \cup calls /\ (L \ {c}) \cup calls \subseteq M
  BY <1>1, <1>2, <1>4, FollowingFacts
<1>9. Goes(q, todo, r.dirty)
  BY <1>1, <1>4, GoThen DEF TInv
<1>10. Touches(q)
  BY <1>1 DEF Touches, TInv, TypeOK
<1> HIDE DEF M, todo, L
<1>11. ASSUME NEW i \in r.items \ doubt'
       PROVE  Knows(r, r.dirty, M, i, linked'[i], ticket') /\ Comes(r, M, i, linked'[i], ticket')
  <2>0. i \in Items
    BY <1>2
  <2>1. Knows(r, r.dirty, L, i, linked[i], ticket) /\ Comes(r, L, i, linked[i], ticket)
    BY <1>1 DEF TInv, Plans, L
  <2>2. ~Due(L, "check", i) /\ ~Has(M, "read") /\ ~Checking(M)
    BY <1>2, <1>4, <1>8 DEF Due, Has, Checking
  <2>3. Settles(r, L, i, linked[i], ticket)
    BY <1>2, <2>1, <2>2 DEF Comes
  <2>4. /\ Has(M, "write") <=> Has(L, "write")
        /\ Has(M, "insert") <=> Has(L, "insert")
        /\ Has(M, "delete") <=> Has(L, "delete")
    BY <1>1, <1>4, <1>8 DEF Has
  <2>5. Knows(r, r.dirty, M, i, linked[i], ticket)
    BY <2>1, <2>2, <2>4 DEF Knows
  <2>6. \A t \in Tickets : ListedAfter(r, M, i, t, ticket) <=> ListedAfter(r, L, i, t, ticket)
    BY <2>4 DEF ListedAfter
  <2>7. /\ Due(M, "link", i) => Due(L, "link", i) \/ Due(calls, "link", i)
        /\ Due(L, "link", i) \/ Due(calls, "link", i) => Due(M, "link", i)
        /\ Due(M, "look free", i) => Due(L, "look free", i)
        /\ Due(M, "unlink", i) <=> Due(L, "unlink", i)
        /\ Due(M, "look", i) <=> Due(L, "look", i)
        /\ i \in c.at => Due(L, "look free", i)
        /\ i \notin c.at => (Due(L, "look free", i) => Due(M, "look free", i))
    <3>1. /\ Due(M, "link", i) => Due(L, "link", i) \/ Due(calls, "link", i)
          /\ Due(L, "link", i) \/ Due(calls, "link", i) => Due(M, "link", i)
      BY <1>1, <1>8 DEF Due
    <3>2. /\ Due(M, "look free", i) => Due(L, "look free", i) \/ Due(calls, "look free", i)
          /\ Due(M, "unlink", i) => Due(L, "unlink", i) \/ Due(calls, "unlink", i)
          /\ Due(M, "look", i) => Due(L, "look", i) \/ Due(calls, "look", i)
      BY <1>8 DEF Due
    <3> QED BY <1>1, <1>2, <1>7, <1>8, <2>0, <3>1, <3>2 DEF Due
  <2>8. TicketAfter(r, M, i, linked[i]) = TicketAfter(r, L, i, linked[i])
    <3>1. CASE i \in c.at /\ linked[i] = None
      <4>1. free
        BY <1>3, <3>1
      <4>2. Due(calls, "link", i)
        BY <1>7, <2>0, <3>1, <4>1
      <4> QED BY <2>7, <3>1, <4>2 DEF TicketAfter
    <3>2. CASE i \in c.at /\ linked[i] # None
      <4>1. ~Due(calls, "link", i)
        BY <1>7, <2>0, <3>2
      <4> QED BY <2>7, <3>2, <4>1 DEF TicketAfter
    <3>3. CASE i \notin c.at
      <4>1. ~Due(calls, "link", i)
        BY <1>7, <2>0, <3>3
      <4> QED BY <2>7, <3>3, <4>1 DEF TicketAfter
    <3> QED BY <3>1, <3>2, <3>3
  <2>9. Due(M, "link", i) => Due(L, "link", i) \/ Due(L, "look free", i)
    BY <1>7, <2>0, <2>7
  <2>10. Settles(r, M, i, linked[i], ticket)
    BY <2>3, <2>6, <2>7, <2>8, <2>9 DEF Settles
  <2> QED BY <1>1, <2>5, <2>10 DEF Comes
<1>12. TInv'
  BY <1>1, <1>2, <1>4, <1>5, <1>6, <1>9, <1>10, <1>11, FollowKeeps DEF M, todo
<1> QED BY <1>12

\* The lists of the tickets are stored.
LEMMA WriteKeeps ==
  ASSUME TInv, NEW q \in Requests, Busy(q), NEW c \in Head(request[q].todo), Write(q, c)
  PROVE  TInv'
<1> DEFINE r == request[q]  L == LeftOf(r.todo)  todo == Following(r.todo, c, {})  M == LeftOf(todo)
<1>1. /\ c.do = "write"
      /\ ticket' = [t \in Tickets |-> IF t \in DOMAIN r.lists /\ Exists(t)
                                      THEN [ticket[t] EXCEPT !.links = r.lists[t]] ELSE ticket[t]]
      /\ Done(q, c) /\ UNCHANGED <<linked, begun, doubt>>
  BY DEF Write
<1>2. /\ c \in L /\ L \subseteq Call /\ Meant(r, c) /\ ~Has(L, "read") /\ ~Checking(L)
      /\ r \in Request /\ r.todo \in Todos /\ r.todo # <<>> /\ Sound(r.todo)
      /\ r.items \subseteq Items /\ DOMAIN r.lists \subseteq r.tickets
      /\ \A t \in DOMAIN r.lists : r.lists[t] \subseteq Items
  BY <1>1, HeadFacts, BusyFacts, ListsFacts
<1>3. M \subseteq L /\ L \ {c} \subseteq M
  BY <1>2, FollowingFacts
<1>4. Goes(q, todo, TRUE)
  BY <1>1, DoneThen DEF TInv
<1>5. /\ ticket \in [Tickets -> [state : {"unborn", "open", "trash", "gone"}, links : SUBSET Items]]
      /\ linked \in [Items -> Tickets \cup {None}] /\ doubt \subseteq Items
  BY DEF TInv, TypeOK
<1>6. ASSUME NEW t \in Tickets
      PROVE  /\ ticket'[t] \in [state : {"unborn", "open", "trash", "gone"}, links : SUBSET Items]
             /\ ticket'[t].state = ticket[t].state
             /\ ticket'[t].links = IF t \in DOMAIN r.lists /\ Exists(t) THEN r.lists[t] ELSE ticket[t].links
             /\ t \notin DOMAIN r.lists => ticket'[t] = ticket[t]
  BY <1>1, <1>2, <1>5
<1>7. Touches(q)
  <2>1. ticket' \in [Tickets -> [state : {"unborn", "open", "trash", "gone"}, links : SUBSET Items]]
    BY <1>1, <1>6
  <2>2. \A t \in Tickets : t \notin r.tickets => ticket'[t] = ticket[t]
    BY <1>2, <1>6
  <2>3. ASSUME NEW i \in Items \ (doubt \cup r.items), NEW t \in Tickets
        PROVE  i \in ticket'[t].links <=> i \in ticket[t].links
    <3>1. \A u \in DOMAIN r.lists : i \in r.lists[u] <=> i \in ticket[u].links
      BY <1>1, <1>2 DEF TInv, Others, Spares, Has
    <3> QED BY <1>6, <3>1
  <2>4. Blank(ticket) => Blank(ticket')
    BY <1>6 DEF Blank, Exists
  <2> QED BY <1>1, <1>5, <2>1, <2>2, <2>3, <2>4 DEF Touches
<1> HIDE DEF M, todo, L
<1>8. ASSUME NEW i \in r.items \ doubt'
      PROVE  Knows(r, TRUE, M, i, linked'[i], ticket') /\ Comes(r, M, i, linked'[i], ticket')
  <2>1. Knows(r, r.dirty, L, i, linked[i], ticket) /\ Comes(r, L, i, linked[i], ticket)
    BY <1>1 DEF TInv, Plans, L
  <2>2. ~Due(L, "check", i) /\ ~Has(M, "read") /\ ~Checking(M)
    BY <1>2, <1>3 DEF Due, Has, Checking
  <2>3. Settles(r, L, i, linked[i], ticket)
    BY <1>2, <2>1, <2>2 DEF Comes
  <2>4. /\ Has(L, "write")
        /\ Has(M, "insert") <=> Has(L, "insert")
        /\ Has(M, "delete") <=> Has(L, "delete")
    BY <1>1, <1>2, <1>3 DEF Has
  <2>5. DOMAIN r.lists \subseteq Tickets /\ \A t \in DOMAIN r.lists : ticket[t].state \in {"open", "trash"}
    BY <1>2, <2>1, <2>4, RequestFacts DEF Knows
  <2>6. Knows(r, TRUE, M, i, linked'[i], ticket')
    BY <1>6, <2>2, <2>5 DEF Knows
  <2>7. \A t \in Tickets : ListedAfter(r, M, i, t, ticket') <=> ListedAfter(r, L, i, t, ticket)
    BY <1>6, <2>4, <2>5 DEF ListedAfter, Exists
  <2>8. /\ Due(M, "link", i) <=> Due(L, "link", i)
        /\ Due(M, "look free", i) <=> Due(L, "look free", i)
        /\ Due(M, "unlink", i) <=> Due(L, "unlink", i)
        /\ Due(M, "look", i) <=> Due(L, "look", i)
    BY <1>1, <1>3 DEF Due
  <2>9. TicketAfter(r, M, i, linked[i]) = TicketAfter(r, L, i, linked[i])
    BY <2>8 DEF TicketAfter
  <2>10. Settles(r, M, i, linked'[i], ticket')
    BY <1>1, <2>3, <2>7, <2>8, <2>9 DEF Settles
  <2> QED BY <2>6, <2>10 DEF Comes
<1> QED BY <1>1, <1>4, <1>7, <1>8, DoneKeeps DEF M, todo

\* A new ticket is stored with its list.
LEMMA InsertKeeps ==
  ASSUME TInv, NEW q \in Requests, Busy(q), NEW c \in Head(request[q].todo), Insert(q, c)
  PROVE  TInv'
<1> DEFINE r == request[q]  L == LeftOf(r.todo)  todo == Following(r.todo, c, {})  M == LeftOf(todo)
<1>1. /\ c.do = "insert"
      /\ ticket' = [t \in Tickets |-> IF t \in DOMAIN r.lists
                                      THEN [state |-> "open", links |-> r.lists[t]] ELSE ticket[t]]
      /\ Done(q, c) /\ UNCHANGED <<linked, begun, doubt>>
  BY DEF Insert
<1>2. /\ c \in L /\ L \subseteq Call /\ Meant(r, c) /\ ~Has(L, "read")
      /\ r \in Request /\ r.todo \in Todos /\ r.todo # <<>> /\ Sound(r.todo)
      /\ r.items \subseteq Items /\ DOMAIN r.lists \subseteq r.tickets
      /\ \A t \in DOMAIN r.lists : r.lists[t] \subseteq Items
  BY <1>1, HeadFacts, BusyFacts, ListsFacts
<1>3. M \subseteq L /\ L \ {c} \subseteq M
  BY <1>2, FollowingFacts
<1>4. Goes(q, todo, TRUE)
  BY <1>1, DoneThen DEF TInv
<1>5. /\ ticket \in [Tickets -> [state : {"unborn", "open", "trash", "gone"}, links : SUBSET Items]]
      /\ linked \in [Items -> Tickets \cup {None}] /\ doubt \subseteq Items
  BY DEF TInv, TypeOK
<1>6. ASSUME NEW t \in Tickets
      PROVE  /\ ticket'[t] \in [state : {"unborn", "open", "trash", "gone"}, links : SUBSET Items]
             /\ t \in DOMAIN r.lists => ticket'[t].state = "open" /\ ticket'[t].links = r.lists[t]
             /\ t \notin DOMAIN r.lists => ticket'[t] = ticket[t]
  BY <1>1, <1>2, <1>5
<1>7. Touches(q)
  <2>1. ticket' \in [Tickets -> [state : {"unborn", "open", "trash", "gone"}, links : SUBSET Items]]
    BY <1>1, <1>6
  <2>2. \A t \in Tickets : t \notin r.tickets => ticket'[t] = ticket[t]
    BY <1>2, <1>6
  <2>3. ASSUME NEW i \in Items \ (doubt \cup r.items), NEW t \in Tickets
        PROVE  i \in ticket'[t].links <=> i \in ticket[t].links
    <3>1. \A u \in DOMAIN r.lists : i \in r.lists[u] <=> i \in ticket[u].links
      BY <1>1, <1>2 DEF TInv, Others, Spares, Has
    <3> QED BY <1>6, <3>1
  <2>4. Blank(ticket) => Blank(ticket')
    BY <1>6 DEF Blank
  <2> QED BY <1>1, <1>5, <2>1, <2>2, <2>3, <2>4 DEF Touches
<1> HIDE DEF M, todo, L
<1>8. ASSUME NEW i \in r.items \ doubt'
      PROVE  Knows(r, TRUE, M, i, linked'[i], ticket') /\ Comes(r, M, i, linked'[i], ticket')
  <2>1. Knows(r, r.dirty, L, i, linked[i], ticket) /\ Comes(r, L, i, linked[i], ticket)
    BY <1>1 DEF TInv, Plans, L
  <2>2. ~Has(M, "read") /\ (Checking(M) => Checking(L)) /\ (Has(M, "write") => Has(L, "write"))
    BY <1>2, <1>3 DEF Has, Checking
  <2>3. /\ Has(L, "insert")
        /\ Has(M, "write") <=> Has(L, "write")
        /\ Has(M, "delete") <=> Has(L, "delete")
    BY <1>1, <1>2, <1>3 DEF Has
  <2>4. DOMAIN r.lists \subseteq Tickets /\ r.tickets \subseteq Tickets
    BY <1>2, RequestFacts
  <2>5. ASSUME Has(M, "write"), NEW t \in DOMAIN r.lists PROVE ticket'[t].state \in {"open", "trash"}
    BY <1>6, <2>4, <2>5
  <2>6. ASSUME r.op = "create", Checking(M), NEW t \in Tickets
        PROVE  linked[i] = t <=> t \notin r.tickets /\ i \in ticket'[t].links
    <3>1. linked[i] = t <=> t \notin r.tickets /\ i \in ticket[t].links
      BY <2>1, <2>2, <2>6 DEF Knows
    <3> QED BY <1>2, <1>6, <3>1
  <2>7. Knows(r, TRUE, M, i, linked'[i], ticket')
    BY <1>1, <2>2, <2>5, <2>6 DEF Knows
  <2>8. \A t \in Tickets : ListedAfter(r, M, i, t, ticket') <=> ListedAfter(r, L, i, t, ticket)
    BY <1>6, <2>3 DEF ListedAfter
  <2>9. /\ Due(M, "link", i) <=> Due(L, "link", i)
        /\ Due(M, "look free", i) <=> Due(L, "look free", i)
        /\ Due(M, "unlink", i) <=> Due(L, "unlink", i)
        /\ Due(M, "look", i) <=> Due(L, "look", i)
        /\ Due(M, "check", i) <=> Due(L, "check", i)
    BY <1>1, <1>3 DEF Due
  <2>10. TicketAfter(r, M, i, linked[i]) = TicketAfter(r, L, i, linked[i])
    BY <2>9 DEF TicketAfter
  <2>11. Settles(r, L, i, linked[i], ticket) => Settles(r, M, i, linked'[i], ticket')
    BY <1>1, <2>8, <2>9, <2>10 DEF Settles
  <2>12. Comes(r, M, i, linked'[i], ticket')
    BY <1>1, <1>2, <2>1, <2>9, <2>11 DEF Comes
  <2> QED BY <2>7, <2>12
<1> QED BY <1>1, <1>4, <1>7, <1>8, DoneKeeps DEF M, todo

\* The tickets of the request are deleted.
LEMMA DeleteKeeps ==
  ASSUME TInv, NEW q \in Requests, Busy(q), NEW c \in Head(request[q].todo), Delete(q, c)
  PROVE  TInv'
<1> DEFINE r == request[q]  L == LeftOf(r.todo)  todo == Following(r.todo, c, {})  M == LeftOf(todo)
<1>1. /\ c.do = "delete"
      /\ ticket' = [t \in Tickets |-> IF t \in r.tickets
                                      THEN [state |-> "gone", links |-> {}] ELSE ticket[t]]
      /\ Done(q, c) /\ UNCHANGED <<linked, begun, doubt>>
  BY DEF Delete
<1>2. /\ c \in L /\ L \subseteq Call /\ Meant(r, c) /\ ~Has(L, "read") /\ ~Checking(L)
      /\ \A e \in L : Meant(r, e)
      /\ r \in Request /\ r.todo \in Todos /\ r.todo # <<>> /\ Sound(r.todo)
      /\ r.items \subseteq Items
  BY <1>1, HeadFacts, BusyFacts
<1>3. M \subseteq L /\ L \ {c} \subseteq M
  BY <1>2, FollowingFacts
<1>4. Goes(q, todo, TRUE)
  BY <1>1, DoneThen DEF TInv
<1>5. /\ ticket \in [Tickets -> [state : {"unborn", "open", "trash", "gone"}, links : SUBSET Items]]
      /\ linked \in [Items -> Tickets \cup {None}] /\ doubt \subseteq Items
  BY DEF TInv, TypeOK
<1>6. r.op \in {"create", "purge"} /\ ~Has(L, "insert") /\ ~Has(L, "write")
  BY <1>1, <1>2 DEF Meant, Has
<1>7. ASSUME NEW t \in Tickets
      PROVE  /\ ticket'[t] \in [state : {"unborn", "open", "trash", "gone"}, links : SUBSET Items]
             /\ t \in r.tickets => ticket'[t].links = {}
             /\ t \notin r.tickets => ticket'[t] = ticket[t]
  BY <1>1, <1>5
<1>8. Touches(q)
  <2>1. ticket' \in [Tickets -> [state : {"unborn", "open", "trash", "gone"}, links : SUBSET Items]]
    BY <1>1, <1>7
  <2>2. ASSUME NEW i \in Items \ (doubt \cup r.items), NEW t \in Tickets
        PROVE  i \in ticket'[t].links <=> i \in ticket[t].links
    <3>1. \A u \in r.tickets : i \notin ticket[u].links
      BY <1>6 DEF TInv, Others, Spares
    <3> QED BY <1>7, <3>1
  <2>3. Blank(ticket) => Blank(ticket')
    BY <1>7 DEF Blank
  <2> QED BY <1>1, <1>5, <1>7, <2>1, <2>2, <2>3 DEF Touches
<1> HIDE DEF M, todo, L
<1>9. ASSUME NEW i \in r.items \ doubt'
      PROVE  Knows(r, TRUE, M, i, linked'[i], ticket') /\ Comes(r, M, i, linked'[i], ticket')
  <2>1. Knows(r, r.dirty, L, i, linked[i], ticket) /\ Comes(r, L, i, linked[i], ticket)
    BY <1>1 DEF TInv, Plans, L
  <2>2. ~Due(L, "check", i) /\ ~Has(M, "read") /\ ~Checking(M) /\ ~Has(M, "write") /\ ~Has(M, "insert")
    BY <1>2, <1>3, <1>6 DEF Due, Has, Checking
  <2>3. Settles(r, L, i, linked[i], ticket)
    BY <1>2, <2>1, <2>2 DEF Comes
  <2>4. Has(L, "delete")
    BY <1>1, <1>2 DEF Has
  <2>5. Knows(r, TRUE, M, i, linked'[i], ticket')
    BY <2>2 DEF Knows
  <2>6. \A t \in Tickets : ListedAfter(r, M, i, t, ticket') <=> ListedAfter(r, L, i, t, ticket)
    BY <1>6, <1>7, <2>2, <2>4 DEF ListedAfter
  <2>7. /\ Due(M, "link", i) <=> Due(L, "link", i)
        /\ Due(M, "look free", i) <=> Due(L, "look free", i)
        /\ Due(M, "unlink", i) <=> Due(L, "unlink", i)
        /\ Due(M, "look", i) <=> Due(L, "look", i)
    BY <1>1, <1>3 DEF Due
  <2>8. TicketAfter(r, M, i, linked[i]) = TicketAfter(r, L, i, linked[i])
    BY <2>7 DEF TicketAfter
  <2>9. Settles(r, M, i, linked'[i], ticket')
    BY <1>1, <2>3, <2>6, <2>7, <2>8 DEF Settles
  <2> QED BY <2>5, <2>9 DEF Comes
<1> QED BY <1>1, <1>4, <1>8, <1>9, DoneKeeps DEF M, todo

\* A call that is only logged leaves its items in doubt.
LEMMA SkipKeeps ==
  ASSUME TInv, NEW q \in Requests, Busy(q), NEW c \in Head(request[q].todo), Skip(q, c)
  PROVE  TInv'
<1> DEFINE r == request[q]  L == LeftOf(r.todo)  todo == Following(r.todo, c, {})  M == LeftOf(todo)
<1>1. /\ c.do \in {"link", "look", "look free", "unlink"} /\ Go(q, Then(q, c, {}))
      /\ doubt' = doubt \cup c.at /\ UNCHANGED <<ticket, linked, begun>>
  BY DEF Skip
<1>2. /\ c \in Call /\ c \in L /\ L \subseteq Call /\ Meant(r, c) /\ ~Has(L, "read") /\ ~Checking(L)
      /\ r \in Request /\ r.todo \in Todos /\ r.todo # <<>> /\ Sound(r.todo)
      /\ r.items \subseteq Items /\ r.dirty \in BOOLEAN
  BY <1>1, HeadFacts, BusyFacts
<1>3. M \subseteq L /\ L \ {c} \subseteq M
  BY <1>2, FollowingFacts
<1>4. Goes(q, todo, r.dirty)
  BY <1>1, GoThen DEF TInv
<1>5. c.at \subseteq Items
  BY <1>2 DEF Call
<1>6. Touches(q)
  BY <1>1, <1>5 DEF Touches, TInv, TypeOK
<1> HIDE DEF M, todo, L
<1>7. ASSUME NEW i \in r.items \ doubt'
      PROVE  Knows(r, r.dirty, M, i, linked'[i], ticket') /\ Comes(r, M, i, linked'[i], ticket')
  <2>1. Knows(r, r.dirty, L, i, linked[i], ticket) /\ Comes(r, L, i, linked[i], ticket)
    BY <1>1 DEF TInv, Plans, L
  <2>2. ~Due(L, "check", i) /\ ~Has(M, "read") /\ ~Checking(M)
    BY <1>2, <1>3 DEF Due, Has, Checking
  <2>3. Settles(r, L, i, linked[i], ticket)
    BY <1>2, <2>1, <2>2 DEF Comes
  <2>4. /\ Has(M, "write") <=> Has(L, "write")
        /\ Has(M, "insert") <=> Has(L, "insert")
        /\ Has(M, "delete") <=> Has(L, "delete")
    BY <1>1, <1>3 DEF Has
  <2>5. Knows(r, r.dirty, M, i, linked[i], ticket)
    BY <2>1, <2>2, <2>4 DEF Knows
  <2>6. \A t \in Tickets : ListedAfter(r, M, i, t, ticket) <=> ListedAfter(r, L, i, t, ticket)
    BY <2>4 DEF ListedAfter
  <2>7. i \notin c.at
    BY <1>1
  <2>8. /\ Due(M, "link", i) <=> Due(L, "link", i)
        /\ Due(M, "look free", i) <=> Due(L, "look free", i)
        /\ Due(M, "unlink", i) <=> Due(L, "unlink", i)
        /\ Due(M, "look", i) <=> Due(L, "look", i)
    BY <1>3, <2>7 DEF Due
  <2>9. TicketAfter(r, M, i, linked[i]) = TicketAfter(r, L, i, linked[i])
    BY <2>8 DEF TicketAfter
  <2>10. Settles(r, M, i, linked[i], ticket)
    BY <2>3, <2>6, <2>8, <2>9 DEF Settles
  <2> QED BY <1>1, <2>5, <2>10 DEF Comes
<1> QED BY <1>1, <1>2, <1>4, <1>6, <1>7, DoneKeeps DEF M, todo

\* A request that breaks off before it has stored anything leaves the sides as they were.
LEMMA DropKeeps ==
  ASSUME TInv, NEW q \in Requests, Busy(q), UNCHANGED <<ticket, linked, begun>>,
         request' = [request EXCEPT ![q] = Idle],
         doubt' = doubt \cup IF request[q].dirty THEN request[q].items ELSE {}
  PROVE  TInv'
<1> DEFINE r == request[q]
<1>1. r.items \subseteq Items /\ r.dirty \in BOOLEAN /\ request \in [Requests -> Request]
  BY BusyFacts DEF TInv, TypeOK
<1>2. doubt \subseteq doubt' /\ doubt' \subseteq Items
  BY <1>1 DEF TInv, TypeOK
<1>3. Touches(q)
  BY <1>2 DEF Touches, TInv, TypeOK
<1>4. ASSUME NEW i \in r.items \ doubt' PROVE Agrees(i, linked'[i], ticket')
  <2>1. ~r.dirty /\ i \notin doubt
    BY <1>4
  <2>2. Agrees(i, linked[i], ticket)
    BY <1>4, <2>1 DEF TInv, Plans, Knows
  <2> QED BY <2>2
<1>5. /\ request' \in [Requests -> Request] /\ request'[q] = Idle
      /\ \A p \in Requests \ {q} : request'[p] = request[p]
  BY <1>1, IdleFacts
<1> QED BY <1>3, <1>4, <1>5, StepKeeps

LEMMA BreakKeeps ==
  ASSUME TInv, NEW q \in Requests, Busy(q), NEW c \in Head(request[q].todo), Break(q, c)
  PROVE  TInv'
<1>1. request' = [request EXCEPT ![q] = Idle]
  BY IdleFacts DEF Break, Go
<1> QED BY <1>1, DropKeeps DEF Break

LEMMA FailKeeps ==
  ASSUME TInv, NEW q \in Requests, Fail(q)
  PROVE  TInv'
<1>1. request' = [request EXCEPT ![q] = Idle]
  BY IdleFacts DEF Fail, Go
<1> QED BY <1>1, DropKeeps DEF Fail

\* The items of a call are free.
LEMMA CheckKeeps ==
  ASSUME TInv, NEW q \in Requests, Busy(q), NEW c \in Head(request[q].todo), c.do = "check",
         \A i \in c.at : Free(request[q], i, linked[i]),
         Go(q, Then(q, c, {})), UNCHANGED <<ticket, linked, begun, doubt>>
  PROVE  TInv'
<1> DEFINE r == request[q]  L == LeftOf(r.todo)  todo == Following(r.todo, c, {})  M == LeftOf(todo)
<1>2. /\ c \in Call /\ c \in L /\ L \subseteq Call /\ Meant(r, c) /\ ~Has(L, "read")
      /\ r \in Request /\ r.todo \in Todos /\ r.todo # <<>> /\ Sound(r.todo)
      /\ r.items \subseteq Items /\ r.dirty \in BOOLEAN /\ r.add \subseteq Items \X r.tickets
  BY HeadFacts, BusyFacts
<1>3. M \subseteq L /\ L \ {c} \subseteq M
  BY <1>2, FollowingFacts
<1>4. Goes(q, todo, r.dirty)
  BY GoThen DEF TInv
<1>5. Touches(q)
  BY DEF Touches, TInv, TypeOK
<1>6. ASSUME NEW i \in c.at PROVE Safe(r, i, linked[i])
  <2>1. Target(r.add, i) \in r.tickets
    BY <1>2, TargetFacts DEF Meant
  <2>2. Free(r, i, linked[i])
    OBVIOUS
  <2>3. linked[i] = None \/ linked[i] = Target(r.add, i)
    BY <2>2 DEF Free
  <2> QED BY <2>1, <2>3 DEF Safe
<1> HIDE DEF M, todo, L
<1>7. ASSUME NEW i \in r.items \ doubt'
      PROVE  Knows(r, r.dirty, M, i, linked'[i], ticket') /\ Comes(r, M, i, linked'[i], ticket')
  <2>1. Knows(r, r.dirty, L, i, linked[i], ticket) /\ Comes(r, L, i, linked[i], ticket)
    BY DEF TInv, Plans, L
  <2>2. /\ Has(M, "write") <=> Has(L, "write")
        /\ Has(M, "insert") <=> Has(L, "insert")
        /\ Has(M, "delete") <=> Has(L, "delete")
        /\ ~Has(M, "read") /\ (Checking(M) => Checking(L))
    BY <1>2, <1>3 DEF Has, Checking
  <2>3. Knows(r, r.dirty, M, i, linked[i], ticket)
    BY <2>1, <2>2 DEF Knows
  <2>4. \A t \in Tickets : ListedAfter(r, M, i, t, ticket) <=> ListedAfter(r, L, i, t, ticket)
    BY <2>2 DEF ListedAfter
  <2>5. /\ Due(M, "link", i) <=> Due(L, "link", i)
        /\ Due(M, "look free", i) <=> Due(L, "look free", i)
        /\ Due(M, "unlink", i) <=> Due(L, "unlink", i)
        /\ Due(M, "look", i) <=> Due(L, "look", i)
        /\ i \notin c.at => (Due(L, "check", i) => Due(M, "check", i))
    BY <1>3 DEF Due
  <2>6. TicketAfter(r, M, i, linked[i]) = TicketAfter(r, L, i, linked[i])
    BY <2>5 DEF TicketAfter
  <2>7. Settles(r, L, i, linked[i], ticket) => Settles(r, M, i, linked[i], ticket)
    BY <2>4, <2>5, <2>6 DEF Settles
  <2>8. Comes(r, M, i, linked[i], ticket)
    BY <1>2, <2>1, <2>5, <2>7 DEF Comes
  <2> QED BY <2>3, <2>8
<1> QED BY <1>2, <1>4, <1>5, <1>6, <1>7, DoneKeeps DEF M, todo

\* An item is not free: the ticket that was created is deleted, anything else ends.
LEMMA RefuseKeeps ==
  ASSUME TInv, NEW q \in Requests, Busy(q), NEW c \in Head(request[q].todo), c.do = "check",
         Go(q, [request[q] EXCEPT !.todo =
                  IF request[q].op = "create" THEN <<One("delete")>> ELSE <<>>]),
         UNCHANGED <<ticket, linked, begun, doubt>>
  PROVE  TInv'
<1> DEFINE r == request[q]  L == LeftOf(r.todo)
<1>1. /\ c \in Call /\ c \in L /\ L \subseteq Call /\ Meant(r, c) /\ ~Has(L, "read")
      /\ r \in Request /\ r.todo \in Todos /\ r.todo # <<>> /\ Sound(r.todo)
      /\ r.items \subseteq Items /\ r.dirty \in BOOLEAN /\ r.add \subseteq Items \X r.tickets
      /\ Linked(r.add) \subseteq r.items /\ DOMAIN r.lists \subseteq r.tickets /\ r.op # "none"
      /\ request \in [Requests -> Request]
  BY HeadFacts, BusyFacts DEF TInv, TypeOK
<1>2. Has(L, "check")
  BY <1>1 DEF Has
<1>3. CASE r.op # "create"
  <2>1. ~r.dirty
    BY <1>1, <1>3 DEF Meant
  <2>2. <<>> \in Todos
    BY DEF Todos
  <2>3. [r EXCEPT !.todo = <<>>].todo = <<>>
    BY <1>1, <2>2, WithTodo
  <2>4. request' = [request EXCEPT ![q] = Idle]
    BY <1>3, <2>3 DEF Go
  <2> QED BY <2>1, <2>4, DropKeeps
<1>4. CASE r.op = "create"
  <2> DEFINE d == [do |-> "delete", at |-> {}]
             s == [r EXCEPT !.todo = <<{d}>>]
             M == LeftOf(<<{d}>>)
  <2>1. d \in Call /\ One("delete") = {d}
    BY DEF Call, One
  <2> HIDE DEF d
  <2>2. <<{d}>> \in Todos /\ <<{d}>> # <<>>
    BY <2>1 DEF Todos
  <2>3. /\ s \in Request /\ s.todo = <<{d}>> /\ s.dirty = r.dirty
        /\ s.op = r.op /\ s.tickets = r.tickets /\ s.items = r.items /\ s.lists = r.lists
        /\ s.add = r.add /\ s.remove = r.remove /\ s.met = r.met
    BY <1>1, <2>2, WithTodo
  <2>4. request' = [request EXCEPT ![q] = s]
    BY <1>4, <2>1, <2>2, <2>3 DEF Go
  <2> HIDE DEF s
  <2>5. request' \in [Requests -> Request] /\ request'[q] = s /\ \A p \in Requests \ {q} : request'[p] = request[p]
    BY <1>1, <2>3, <2>4
  <2>6. M = {d}
    <3>1. DOMAIN <<{d}>> = {1} /\ <<{d}>>[1] = {d}
      OBVIOUS
    <3> QED BY <3>1 DEF LeftOf
  <2>7. d.do = "delete" /\ d.at = {}
    BY DEF d
  <2> HIDE DEF M
  <2>8. /\ ~Has(M, "read") /\ ~Has(M, "write") /\ ~Has(M, "insert") /\ Has(M, "delete") /\ ~Checking(M)
        /\ \A do, i : ~Due(M, do, i)
    BY <2>6, <2>7 DEF Has, Due, Checking
  <2>9. Touches(q)
    BY DEF Touches, TInv, TypeOK
  <2>10. Sound(s.todo)
    <3>1. DOMAIN <<{d}>> = {1} /\ <<{d}>>[1] = {d}
      OBVIOUS
    <3> QED BY <2>3, <2>7, <3>1 DEF Sound, InOrder
  <2>11. Shaped(s)
    <3>1. Meant(s, d)
      BY <1>4, <2>3, <2>7, <2>8 DEF Meant, M
    <3>2. s.add \cup s.remove \subseteq Items \X s.tickets
      BY <2>3, BusyFacts
    <3>3. LeftOf(s.todo) = {d}
      BY <2>3, <2>6 DEF M
    <3> QED BY <1>1, <2>3, <2>10, <3>1, <3>2, <3>3 DEF Shaped
  <2>12. ASSUME NEW i \in Items PROVE Owns(s, i, linked'[i])
    <3>1. LeftOf(s.todo) = M
      BY <2>3 DEF M
    <3> QED BY <1>4, <2>3, <2>8, <3>1 DEF Owns
  <2>13. ASSUME NEW i \in s.items \ doubt'
         PROVE  Knows(s, s.dirty, M, i, linked'[i], ticket') /\ Comes(s, M, i, linked'[i], ticket')
    <3>1. Knows(r, r.dirty, L, i, linked[i], ticket)
      BY <2>3, <2>13 DEF TInv, Plans
    <3>2. \A t \in Tickets : linked[i] = t <=> t \notin r.tickets /\ i \in ticket[t].links
      BY <1>2, <1>4, <3>1 DEF Knows, Checking
    <3>3. Knows(s, s.dirty, M, i, linked[i], ticket)
      BY <2>3, <2>8, <3>1 DEF Knows
    <3>4. TicketAfter(s, M, i, linked[i]) = linked[i]
      BY <2>8 DEF TicketAfter
    <3>5. \A t \in Tickets : ListedAfter(s, M, i, t, ticket) <=> t \notin r.tickets /\ i \in ticket[t].links
      BY <2>3, <2>8 DEF ListedAfter
    <3>6. Comes(s, M, i, linked[i], ticket)
      BY <2>8, <3>2, <3>4, <3>5 DEF Comes, Settles
    <3> QED BY <3>3, <3>6
  <2>14. ASSUME NEW i \in Items \ (doubt' \cup s.items) PROVE Spares(s, i, linked'[i], ticket')
    <3>1. Spares(r, i, linked[i], ticket)
      BY <2>3, <2>14 DEF TInv, Others
    <3>2. LeftOf(s.todo) = M
      BY <2>3 DEF M
    <3> QED BY <2>3, <2>8, <3>1, <3>2 DEF Spares
  <2>15. Continues(q)
    <3>1. LeftOf(s.todo) = M /\ s.todo # <<>>
      BY <2>2, <2>3 DEF M
    <3> QED BY <2>3, <2>5, <2>11, <2>12, <2>13, <2>14, <3>1 DEF Continues
  <2> QED BY <2>5, <2>9, <2>15, StepKeeps
<1> QED BY <1>3, <1>4

-----------------------------------------------------------------------------
(* The calls that a request is going to make.                              *)

LEMMA PlacesFacts ==
  /\ \A g \in Places : g \subseteq Items
  /\ \A i \in Items : \E g \in Places : i \in g
  /\ \A g \in Places : \A i, j \in g : i \in Issues => i = j
<1>1. \A g \in Places :
        \/ \E c \in {ConnectionOf[r] : r \in Records} : g = {r \in Records : ConnectionOf[r] = c}
        \/ \E x \in Issues : g = {x}
  BY DEF Places
<1>2. \A g \in Places : g \subseteq Records \/ \E x \in Issues : g = {x}
  BY <1>1
<1>3. \A g \in Places : \A i, j \in g : i \in Issues => i = j
  BY <1>2, TicketAssumption
<1>4. ASSUME NEW i \in Records PROVE \E g \in Places : i \in g
  <2>1. {r \in Records : ConnectionOf[r] = ConnectionOf[i]} \in Places
    BY DEF Places
  <2> QED BY <2>1
<1>5. ASSUME NEW i \in Issues PROVE \E g \in Places : i \in g
  <2>1. {i} \in Places
    BY DEF Places
  <2> QED BY <2>1
<1> QED BY <1>2, <1>3, <1>4, <1>5 DEF Items

\* The calls C of one kind go over the items S, the issues one by one.
Covers(C, do, S) ==
  /\ C \in SUBSET Call
  /\ \A e \in C : e.do = do /\ e.at \subseteq S
  /\ \A i : Due(C, do, i) <=> i \in S
  /\ S \subseteq Issues => \A e \in C : \A i, j \in e.at : i = j

LEMMA CallsFacts ==
  ASSUME NEW do \in {"check", "break", "link", "look", "look free", "unlink", "read", "write",
                     "insert", "delete"}, NEW S \in SUBSET Items
  PROVE  Covers(Calls(do, S), do, S)
<1> DEFINE C == Calls(do, S)
<1>1. \A e \in C : \E g \in Places : g \cap S # {} /\ e = [do |-> do, at |-> S \cap g]
  BY DEF Calls
<1>2. \A g \in Places : g \cap S # {} => [do |-> do, at |-> S \cap g] \in C
  BY DEF Calls
<1> HIDE DEF C
<1>3. ASSUME NEW e \in C PROVE e.do = do /\ e.at \subseteq S /\ e \in Call
  <2>1. PICK g \in Places : e = [do |-> do, at |-> S \cap g]
    BY <1>1
  <2>2. S \cap g \in SUBSET Items /\ S \cap g \subseteq S
    OBVIOUS
  <2>3. [do |-> do, at |-> S \cap g] \in Call
    BY <2>2 DEF Call
  <2> QED BY <2>1, <2>2, <2>3
<1>4. C \in SUBSET Call
  BY <1>3
<1>5. ASSUME NEW i \in S PROVE Due(C, do, i)
  <2>1. PICK g \in Places : i \in g
    BY PlacesFacts
  <2>2. [do |-> do, at |-> S \cap g] \in C
    BY <1>2, <2>1
  <2> QED BY <2>1, <2>2 DEF Due
<1>6. \A i : Due(C, do, i) <=> i \in S
  BY <1>3, <1>5 DEF Due
<1>7. S \subseteq Issues => \A e \in C : \A i, j \in e.at : i = j
  <2> SUFFICES ASSUME S \subseteq Issues, NEW e \in C, NEW i \in e.at, NEW j \in e.at PROVE i = j
    OBVIOUS
  <2>1. PICK g \in Places : e = [do |-> do, at |-> S \cap g]
    BY <1>1
  <2> QED BY <2>1, PlacesFacts
<1> QED BY <1>3, <1>4, <1>6, <1>7 DEF C, Covers

LEMMA OneFacts ==
  ASSUME NEW do \in {"check", "break", "link", "look", "look free", "unlink", "read", "write",
                     "insert", "delete"}
  PROVE  /\ One(do) \in SUBSET Call /\ One(do) # {} /\ <<One(do)>> = Some(One(do))
         /\ \A e \in One(do) : e.do = do /\ e.at = {}
         /\ \A d : Has(One(do), d) <=> d = do
         /\ \A d, i : ~Due(One(do), d, i)
<1> DEFINE c == [do |-> do, at |-> {}]
<1>0. c \in Call /\ c.do = do /\ c.at = {} /\ One(do) = {c}
  BY DEF One, Call
<1> HIDE DEF c
<1>1. One(do) \in SUBSET Call /\ One(do) # {} /\ \A e \in One(do) : e.do = do /\ e.at = {}
  BY <1>0
<1>2. <<One(do)>> = Some(One(do))
  BY <1>1 DEF Some
<1>3. \A d : Has(One(do), d) <=> d = do
  BY <1>1 DEF Has
<1>4. \A d, i : ~Due(One(do), d, i)
  BY <1>1 DEF Due
<1> QED BY <1>1, <1>2, <1>3, <1>4

\* Calls of two kinds of sequences, one after the other.
LEMMA Union ==
  ASSUME NEW A, NEW B
  PROVE  /\ \A d : Has(A \cup B, d) <=> Has(A, d) \/ Has(B, d)
         /\ \A d, i : Due(A \cup B, d, i) <=> Due(A, d, i) \/ Due(B, d, i)
BY DEF Has, Due

\* A sequence to be made of others: well ordered, with the calls L.
Part(s, L) == s \in Todos /\ Sound(s) /\ LeftOf(s) = L /\ L \subseteq Call

LEMMA JoinFacts ==
  ASSUME NEW s, NEW u, NEW A, NEW B, Part(s, A), Part(u, B),
         \/ ~Checking(B)
         \/ \A c \in A : c.do \in {"check", "break", "insert"}
  PROVE  Part(s \o u, A \cup B)
<1>1. s \in Todos /\ u \in Todos /\ Sound(s) /\ Sound(u) /\ LeftOf(s) = A /\ LeftOf(u) = B
  BY DEF Part
<1>2. s \o u \in Todos
  BY <1>1, ConcatFacts
<1>3. LeftOf(s \o u) = A \cup B
  BY <1>1, LeftConcat
<1>4. Sound(s \o u)
  BY <1>1, SoundConcat
<1> QED BY <1>2, <1>3, <1>4 DEF Part

LEMMA SomePart ==
  ASSUME NEW C \in SUBSET Call,
         \/ \A c \in C : c.do \in {"check", "break", "insert"}
         \/ \A c \in C : c.do \notin {"check", "break"}
  PROVE  Part(Some(C), C)
BY SomeFacts, SoundSome DEF Part

\* An issue is linked to its ticket or unlinked from it as the row of the ticket tells.
LEMMA ReadKeeps ==
  ASSUME TInv, NEW q \in Requests, Busy(q), NEW c \in Head(request[q].todo), Read(q, c)
  PROVE  TInv'
<1> DEFINE r == request[q]  L == LeftOf(r.todo)
           t == CHOOSE u \in r.tickets : TRUE
           new == IF r.add = {} THEN ticket[t].links \ r.items ELSE ticket[t].links \cup r.items
           write == IF Open(t) /\ new # ticket[t].links THEN One("write") ELSE {}
           put == Calls(IF r.add = {} THEN "unlink" ELSE "link", r.items)
           todo == Some(write) \o Some(put)
           rows == [u \in {t} |-> new]
           s == [r EXCEPT !.lists = rows, !.todo = todo]
           lost == IF ~Open(t) /\ r.add = {} /\ new # ticket[t].links THEN r.items ELSE {}
<1>1. /\ c.do = "read" /\ UNCHANGED <<ticket, linked, begun>> /\ doubt' = doubt \cup lost
      /\ IF Open(t) \/ r.add = {} THEN Go(q, s) ELSE Go(q, Idle)
  BY DEF Read
<1>2. /\ c \in Call /\ c \in L /\ Meant(r, c)
      /\ r \in Request /\ r.todo \in Todos /\ r.todo # <<>> /\ r.lists \in Lists
      /\ r.items \subseteq Items /\ r.tickets \subseteq Tickets /\ r.op # "none"
      /\ r.add \cup r.remove \subseteq Items \X r.tickets /\ Linked(r.add) \subseteq r.items
      /\ request \in [Requests -> Request]
      /\ ticket \in [Tickets -> [state : {"unborn", "open", "trash", "gone"}, links : SUBSET Items]]
  BY HeadFacts, BusyFacts DEF TInv, TypeOK
<1>3. r.op = "issue" /\ r.dirty = FALSE /\ r.todo = <<{c}>> /\ AboutIssue(r)
  <2>1. r.dirty \in BOOLEAN
    BY BusyFacts
  <2> QED BY <1>1, <1>2, <2>1 DEF Meant
<1>4. PICK x \in Issues : /\ r.tickets = {t} /\ r.items = {x}
                          /\ \/ r.add = {<<x, t>>} /\ r.remove = {}
                             \/ r.add = {} /\ r.remove = {<<x, t>>}
  <2>1. PICK v \in Tickets, x \in Issues :
          /\ r.tickets = {v} /\ r.items = {x}
          /\ \/ r.add = {<<x, v>>} /\ r.remove = {}
             \/ r.add = {} /\ r.remove = {<<x, v>>}
    BY <1>3 DEF AboutIssue
  <2>2. t = v
    BY <2>1
  <2> QED BY <2>1, <2>2
<1>5. t \in Tickets /\ x \in Items /\ t # None
  BY <1>2, <1>4, TicketAssumption DEF Items
<1> HIDE DEF t
<1>6. L = {c} /\ Has(L, "read") /\ ~Due(L, "check", x)
  <2>1. DOMAIN <<{c}>> = {1} /\ <<{c}>>[1] = {c}
    OBVIOUS
  <2>2. L = {c}
    BY <1>3, <2>1 DEF LeftOf
  <2> QED BY <1>1, <2>2 DEF Has, Due
<1>7. x \notin doubt => /\ Agrees(x, linked[x], ticket)
                        /\ r.add # {} => linked[x] = None
                        /\ r.remove # {} => linked[x] = t
  <2>1. SUFFICES ASSUME x \notin doubt PROVE Knows(r, r.dirty, L, x, linked[x], ticket)
    BY <1>3, <1>4, <1>6 DEF Knows
  <2>2. x \in r.items
    BY <1>4
  <2> QED BY <2>1, <2>2 DEF TInv, Plans
<1>8. Safe(r, x, linked[x])
  <2>1. r.op # "record" /\ x \in r.items
    BY <1>3, <1>4
  <2> QED BY <1>5, <1>6, <2>1 DEF TInv, Owning, Owns
<1>9. /\ new \subseteq Items /\ (x \in new <=> r.add # {})
      /\ \A i \in Items : i # x => (i \in new <=> i \in ticket[t].links)
  BY <1>2, <1>4, <1>5
<1>10. lost \subseteq {x} /\ (x \notin lost => Open(t) \/ r.add # {} \/ new = ticket[t].links)
  BY <1>4
<1> HIDE DEF new, L
<1>11. Touches(q)
  <2>1. doubt \subseteq doubt' /\ doubt' \subseteq Items
    BY <1>1, <1>5, <1>10 DEF TInv, TypeOK
  <2> HIDE DEF lost
  <2> QED BY <1>1, <2>1 DEF Touches, TInv, TypeOK
<1> HIDE DEF lost
<1>12. CASE ~Open(t) /\ r.add # {}
  <2>1. request' = [request EXCEPT ![q] = Idle]
    BY <1>1, <1>12, IdleFacts DEF Go
  <2>2. /\ request' \in [Requests -> Request] /\ request'[q] = Idle
        /\ \A p \in Requests \ {q} : request'[p] = request[p]
    BY <1>2, <2>1, IdleFacts
  <2>3. \A i \in r.items \ doubt' : Agrees(i, linked'[i], ticket')
    BY <1>1, <1>4, <1>7
  <2> QED BY <1>11, <2>2, <2>3, StepKeeps
<1>13. CASE Open(t) \/ r.add = {}
  <2>1. /\ write \in SUBSET Call /\ (\A e \in write : e.do = "write" /\ e.at = {})
        /\ \A d : Has(write, d) <=> d = "write" /\ Open(t) /\ new # ticket[t].links
    <3>1. CASE Open(t) /\ new # ticket[t].links
      BY <3>1, OneFacts
    <3>2. CASE ~(Open(t) /\ new # ticket[t].links)
      BY <3>2 DEF Has
    <3> QED BY <3>1, <3>2
  <2> HIDE DEF write
  <2>2. r.items \in SUBSET Items
    BY <1>2
  <2>3. /\ put \in SUBSET Call
        /\ \A e \in put : e.at \subseteq r.items /\ e.do = IF r.add = {} THEN "unlink" ELSE "link"
        /\ \A i : Due(put, "link", i) <=> r.add # {} /\ i \in r.items
        /\ \A i : Due(put, "unlink", i) <=> r.add = {} /\ i \in r.items
    <3> DEFINE S == r.items
    <3> HIDE DEF S
    <3>1. CASE r.add = {}
      <4>1. put = Calls("unlink", S)
        BY <3>1 DEF S
      <4>2. S \in SUBSET Items
        BY <2>2 DEF S
      <4>3. Covers(put, "unlink", S)
        BY <4>1, <4>2, CallsFacts
      <4> HIDE DEF put
      <4>4. \A i : ~Due(put, "link", i)
        BY <4>3 DEF Covers, Due
      <4> QED BY <3>1, <4>3, <4>4 DEF S, Covers
    <3>2. CASE r.add # {}
      <4>1. put = Calls("link", S)
        BY <3>2 DEF S
      <4>2. S \in SUBSET Items
        BY <2>2 DEF S
      <4>3. Covers(put, "link", S)
        BY <4>1, <4>2, CallsFacts
      <4> HIDE DEF put
      <4>4. \A i : ~Due(put, "unlink", i)
        BY <4>3 DEF Covers, Due
      <4> QED BY <3>2, <4>3, <4>4 DEF S, Covers
    <3> QED BY <3>1, <3>2
  <2> HIDE DEF put
  <2> DEFINE M == write \cup put
  <2>4. Part(todo, M)
    <3>1. Part(Some(write), write)
      BY <2>1, SomePart
    <3>2. Part(Some(put), put) /\ ~Checking(put)
      BY <2>3, SomePart DEF Checking, Has
    <3> QED BY <3>1, <3>2, JoinFacts
  <2>5. /\ \A i : Due(M, "link", i) <=> r.add # {} /\ i \in r.items
        /\ \A i : Due(M, "unlink", i) <=> r.add = {} /\ i \in r.items
        /\ \A i : ~Due(M, "check", i) /\ ~Due(M, "look", i) /\ ~Due(M, "look free", i)
        /\ Has(M, "write") <=> Open(t) /\ new # ticket[t].links
        /\ ~Has(M, "read") /\ ~Has(M, "insert") /\ ~Has(M, "delete") /\ ~Checking(M)
    <3> HIDE DEF r
    <3>1. \A e \in M : e.do \in {"write", "link", "unlink"}
      BY <2>1, <2>3
    <3>2. \A i : Due(M, "link", i) <=> Due(put, "link", i)
      BY <2>1 DEF Due
    <3>3. \A i : Due(M, "unlink", i) <=> Due(put, "unlink", i)
      BY <2>1 DEF Due
    <3>4. Has(M, "write") <=> Has(write, "write")
      BY <2>3 DEF Has
    <3> HIDE DEF M
    <3>5. \A i : ~Due(M, "check", i) /\ ~Due(M, "look", i) /\ ~Due(M, "look free", i)
      BY <3>1 DEF Due
    <3>6. ~Has(M, "read") /\ ~Has(M, "insert") /\ ~Has(M, "delete") /\ ~Checking(M)
      BY <3>1 DEF Has, Checking
    <3>7. Has(M, "write") <=> Open(t) /\ new # ticket[t].links
      BY <2>1, <3>4
    <3> QED BY <2>3, <3>2, <3>3, <3>5, <3>6, <3>7
  <2>6. \A e \in M : \/ e.do = "write"
                     \/ e.do = "link" /\ r.add # {} /\ e.at \subseteq r.items
                     \/ e.do = "unlink" /\ r.add = {} /\ e.at \subseteq r.items
    BY <2>1, <2>3
  <2> HIDE DEF M
  <2>7. todo \in Todos /\ Sound(todo) /\ LeftOf(todo) = M /\ todo # <<>>
    <3>1. Due(M, "link", x) \/ Due(M, "unlink", x)
      BY <1>4, <2>5
    <3>2. M # {}
      BY <3>1 DEF Due
    <3>3. LeftOf(<<>>) = {}
      BY DEF LeftOf
    <3> HIDE DEF todo
    <3> QED BY <2>4, <3>2, <3>3 DEF Part
  <2> HIDE DEF todo
  <2>8. rows \in Lists /\ DOMAIN rows = {t} /\ rows[t] = new
    <3>1. {t} \in SUBSET Tickets /\ rows \in [{t} -> SUBSET Items]
      BY <1>5, <1>9
    <3> QED BY <3>1, ListsFacts
  <2> HIDE DEF rows
  <2>9. /\ s \in Request /\ s.todo = todo /\ s.lists = rows /\ s.dirty = FALSE
        /\ s.op = "issue" /\ s.tickets = {t} /\ s.items = {x}
        /\ s.add = r.add /\ s.remove = r.remove /\ s.met = r.met
    <3> HIDE DEF r
    <3>2. r \in Request /\ todo \in Todos /\ rows \in Lists
      BY <1>2, <2>7, <2>8
    <3>1. Relisted(s, r, rows, todo)
      BY <3>2, WithLists
    <3> HIDE DEF s
    <3> QED BY <1>3, <1>4, <3>1 DEF Relisted
  <2>10. request' = [request EXCEPT ![q] = s]
    BY <1>1, <1>13, <2>7, <2>9 DEF Go
  <2> HIDE DEF s
  <2>11. request' \in [Requests -> Request] /\ request'[q] = s /\ \A p \in Requests \ {q} : request'[p] = request[p]
    BY <1>2, <2>9, <2>10
  <2>12. Shaped(s)
    <3>1. Linked(r.add) = IF r.add = {} THEN {} ELSE {x}
      BY <1>4 DEF Linked
    <3>2. ASSUME NEW e \in M PROVE Meant(s, e)
      BY <1>4, <2>6, <2>9, <3>1 DEF Meant
    <3>3. s.add \cup s.remove \subseteq Items \X s.tickets /\ Linked(s.add) \subseteq s.items
      BY <1>2, <1>4, <2>9
    <3> QED BY <2>7, <2>8, <2>9, <3>2, <3>3 DEF Shaped
  <2>13. ASSUME NEW i \in Items PROVE Owns(s, i, linked'[i])
    <3>1. Due(M, "link", i) \/ Due(M, "unlink", i) => i = x
      BY <1>4, <2>5
    <3>2. linked' = linked /\ Safe(s, x, linked[x])
      BY <1>1, <1>4, <1>8, <2>9 DEF Safe
    <3> QED BY <2>5, <2>7, <2>9, <3>1, <3>2 DEF Owns
  <2>14. ASSUME NEW i \in s.items \ doubt'
         PROVE  Knows(s, s.dirty, M, i, linked'[i], ticket') /\ Comes(s, M, i, linked'[i], ticket')
    <3>1. i = x /\ x \notin doubt /\ x \notin lost
      BY <1>1, <2>9, <2>14
    <3>2. /\ Agrees(x, linked[x], ticket)
          /\ r.add # {} => linked[x] = None
          /\ r.add = {} => linked[x] = t
      BY <1>4, <1>7, <3>1
    <3>3. Knows(s, s.dirty, M, x, linked[x], ticket)
      <4>1. Has(M, "write") => ticket[t].state \in {"open", "trash"}
        BY <2>5 DEF Open
      <4> QED BY <2>5, <2>8, <2>9, <3>2, <4>1 DEF Knows
    <3>4. ASSUME r.add # {} PROVE Comes(s, M, x, linked[x], ticket)
      <4>1. x \notin ticket[t].links /\ x \in new
        BY <1>5, <1>9, <3>2, <3>4 DEF Agrees
      <4>2. Has(M, "write")
        BY <1>13, <2>5, <3>4, <4>1
      <4>3. Target(s.add, x) = t
        BY <1>4, <1>5, <2>9, <3>4 DEF Target
      <4>4. TicketAfter(s, M, x, linked[x]) = t
        BY <1>4, <2>5, <3>4, <4>3 DEF TicketAfter
      <4>5. \A u \in Tickets : ListedAfter(s, M, x, u, ticket) <=> u = t
        <5> TAKE u \in Tickets
        <5>1. ListedAfter(s, M, x, u, ticket) <=> IF u = t THEN x \in new ELSE x \in ticket[u].links
          BY <2>5, <2>8, <2>9, <4>2 DEF ListedAfter
        <5>2. x \notin ticket[u].links
          BY <3>2, <3>4, TicketAssumption DEF Agrees
        <5> QED BY <4>1, <5>1, <5>2
      <4>6. Settles(s, M, x, linked[x], ticket)
        BY <2>5, <4>4, <4>5 DEF Settles
      <4> QED BY <4>6 DEF Comes
    <3>5. ASSUME r.add = {} PROVE Comes(s, M, x, linked[x], ticket)
      <4>1. x \in ticket[t].links /\ x \notin new
        BY <1>5, <1>9, <3>2, <3>5 DEF Agrees
      <4>2. Has(M, "write")
        BY <1>10, <2>5, <3>1, <3>5, <4>1
      <4>3. TicketAfter(s, M, x, linked[x]) = None
        BY <1>4, <2>5, <3>5 DEF TicketAfter
      <4>4. \A u \in Tickets : ~ListedAfter(s, M, x, u, ticket)
        BY <2>5, <2>8, <2>9, <3>2, <3>5, <4>1, <4>2 DEF ListedAfter, Agrees
      <4>5. \A u \in Tickets : u # None
        BY TicketAssumption
      <4>6. \A u \in Tickets : TicketAfter(s, M, x, linked[x]) = u <=> ListedAfter(s, M, x, u, ticket)
        BY <4>3, <4>4, <4>5
      <4>7. ~Due(M, "link", x) /\ ~Due(M, "look free", x)
        BY <2>5, <3>5
      <4>8. Settles(s, M, x, linked[x], ticket)
        BY <4>6, <4>7 DEF Settles
      <4> QED BY <4>8 DEF Comes
    <3>6. Comes(s, M, x, linked[x], ticket)
      BY <3>4, <3>5
    <3> QED BY <1>1, <3>1, <3>3, <3>6
  <2>15. ASSUME NEW i \in Items \ (doubt' \cup s.items) PROVE Spares(s, i, linked'[i], ticket')
    <3>1. i # x
      BY <2>9, <2>15
    <3>2. i \in new <=> i \in ticket[t].links
      BY <1>9, <3>1
    <3> QED BY <1>1, <2>8, <2>9, <3>2 DEF Spares
  <2>16. Continues(q)
    BY <1>3, <1>4, <2>7, <2>9, <2>11, <2>12, <2>13, <2>14, <2>15 DEF Continues
  <2> QED BY <1>11, <2>11, <2>16, StepKeeps
<1> QED BY <1>12, <1>13

-----------------------------------------------------------------------------
(* A request that meets another changes in nothing else.                   *)

LEMMA WidenedShape ==
  ASSUME NEW r, NEW s, NEW I, Widened(s, r, I), Shaped(r)
  PROVE  Shaped(s)
<1>1. /\ s.todo = r.todo /\ s.dirty = r.dirty /\ s.op = r.op /\ s.tickets = r.tickets
      /\ s.items = r.items /\ s.lists = r.lists /\ s.add = r.add /\ s.remove = r.remove
      /\ r.met \subseteq s.met
  BY DEF Widened
<1>2. AboutIssue(r) => AboutIssue(s)
  BY <1>1 DEF AboutIssue
<1>3. ASSUME NEW c, Meant(r, c) PROVE Meant(s, c)
  BY <1>1, <1>2, <1>3 DEF Meant
<1> QED BY <1>1, <1>3 DEF Shaped

LEMMA WidenedPlan ==
  ASSUME NEW r, NEW s, NEW I, Widened(s, r, I), NEW L, NEW i, NEW v, NEW tk,
         Knows(r, r.dirty, L, i, v, tk), Comes(r, L, i, v, tk)
  PROVE  Knows(s, r.dirty, L, i, v, tk) /\ Comes(s, L, i, v, tk)
<1>1. \A t \in Tickets : ListedAfter(s, L, i, t, tk) <=> ListedAfter(r, L, i, t, tk)
  BY DEF ListedAfter, Widened
<1>2. TicketAfter(s, L, i, v) = TicketAfter(r, L, i, v)
  BY DEF TicketAfter, Widened
<1>3. Knows(s, r.dirty, L, i, v, tk)
  BY DEF Knows, Widened
<1>4. Settles(r, L, i, v, tk) => Settles(s, L, i, v, tk)
  BY <1>1, <1>2 DEF Settles
<1>5. Free(s, i, v) => Free(r, i, v)
  BY DEF Free, Widened
<1>6. Comes(s, L, i, v, tk)
  BY <1>4, <1>5 DEF Comes
<1> QED BY <1>3, <1>6

-----------------------------------------------------------------------------
(* The beginning of the requests.                                          *)

\* A request that is about to begin.
Opened(r, op, T, I, lists, add, remove, todo) ==
  /\ r.op = op /\ r.tickets = T /\ r.items = I /\ r.lists = lists
  /\ r.add = add /\ r.remove = remove /\ r.todo = todo /\ r.dirty = FALSE

Starts(r, unsafe) ==
  /\ Shaped(r)
  /\ \A i \in Items : Owns(r, i, linked[i])
  /\ \A i \in r.items \ unsafe : Agrees(i, linked[i], ticket) =>
       /\ Knows(r, FALSE, LeftOf(r.todo), i, linked[i], ticket)
       /\ Comes(r, LeftOf(r.todo), i, linked[i], ticket)
  /\ \A i \in Items \ r.items : Spares(r, i, linked[i], ticket)

LEMMA BeginKeeps ==
  ASSUME TInv, NEW q \in Requests, ~Busy(q), begun < MaxRequests,
         NEW op, op \in {"create", "update", "batch", "task", "record", "issue", "agent link",
                         "agent create", "purge"},
         NEW T \in SUBSET Tickets, NEW I \in SUBSET Items, NEW lists \in Lists, NEW add \in Pairs,
         NEW remove \in Pairs, NEW todo \in Todos, NEW unsafe \in SUBSET Items,
         Begin(q, op, T, I, lists, add, remove, todo, unsafe),
         \A r \in Request : Opened(r, op, T, I, lists, add, remove, todo) => Starts(r, unsafe)
  PROVE  TInv'
<1> DEFINE others == {p \in Requests \ {q} : Meets(p, T, I)}
           theirs == UNION {request[p].items : p \in others}
           new == [op |-> op, tickets |-> T, items |-> I, lists |-> lists, add |-> add,
                   remove |-> remove, todo |-> todo, met |-> theirs, dirty |-> FALSE]
           raced == IF others = {} THEN {} ELSE I \cup theirs
           next(p) == CASE p = q         -> new
                        [] p \in others  -> [request[p] EXCEPT !.met = @ \cup I]
                        [] OTHER         -> request[p]
<1>1. /\ todo # <<>> /\ begun' = begun + 1 /\ UNCHANGED <<ticket, linked>>
      /\ doubt' = doubt \cup unsafe \cup raced
      /\ request' = [p \in Requests |-> next(p)]
  BY DEF Begin
<1>0. begun' \in 0 .. MaxRequests
  <2>1. begun \in 0 .. MaxRequests
    BY DEF TInv, TypeOK
  <2>2. begun' = begun + 1 /\ MaxRequests \in Nat /\ begun < MaxRequests
    BY <1>1, BoundAssumption
  <2> QED BY ONLY <2>1, <2>2
<1>2. \A p \in Requests : /\ request[p] \in Request /\ request[p].items \subseteq Items
                          /\ request[p].met \subseteq doubt /\ doubt \subseteq Items
                          /\ p \in others <=> p # q /\ Near(request[p], new) /\ Busy(p)
  <2>1. \A p \in Requests : p \in others <=> p # q /\ Near(request[p], new) /\ Busy(p)
    BY DEF Meets, Near
  <2> QED BY <2>1, BusyFacts DEF TInv, TypeOK
<1>3. \A p \in Requests : Near(request[p], new) => Busy(p)
  <2> TAKE p \in Requests
  <2>1. new.items = I /\ new.tickets = T
    OBVIOUS
  <2> QED BY <2>1, BusyFacts DEF Near
<1>4. theirs \subseteq Items /\ \A p \in others : request[p].items \subseteq theirs
  BY <1>2
<1>5. /\ others = {} => raced = {} /\ theirs = {}
      /\ others # {} => raced = I \cup theirs
      /\ raced \subseteq Items
  BY <1>4
<1> HIDE DEF raced, theirs
<1>6. new \in Request /\ Opened(new, op, T, I, lists, add, remove, todo) /\ new.met = theirs
  <2>1. new \in [op : {"none", "create", "update", "batch", "task", "record", "issue", "agent link",
                       "agent create", "purge"},
                 tickets : SUBSET Tickets, items : SUBSET Items, lists : Lists, add : Pairs,
                 remove : Pairs, todo : Todos, met : SUBSET Items, dirty : BOOLEAN]
    BY <1>4
  <2> QED BY <2>1 DEF Request, Lists, Pairs, Todos, Opened
<1> HIDE DEF new, others
<1>7. Starts(new, unsafe)
  BY <1>6
<1>8. /\ new.items = I /\ new.tickets = T /\ new.todo = todo /\ new.dirty = FALSE /\ new.op = op
      /\ new.met = theirs
  BY <1>6 DEF Opened
<1>9. request'[q] = new
  <2>1. next(q) = new
    BY <1>2
  <2> HIDE DEF next
  <2> QED BY <1>1, <2>1
<1>10. \A p \in Requests \ {q} : request'[p] = IF p \in others THEN [request[p] EXCEPT !.met = @ \cup I]
                                                               ELSE request[p]
  BY <1>1
<1> HIDE DEF next
<1>11. ASSUME NEW p \in Requests \ {q}
       PROVE  Widened(request'[p], request[p], IF p \in others THEN I ELSE {})
  <2>1. CASE p \in others
    <3>1. request'[p] = [request[p] EXCEPT !.met = @ \cup I]
      BY <1>10, <2>1
    <3>2. request[p] \in Request
      BY <1>2
    <3>3. Widened([request[p] EXCEPT !.met = @ \cup I], request[p], I)
      BY <3>2, WithMet
    <3> QED BY <2>1, <3>1, <3>3
  <2>2. CASE p \notin others
    BY <1>2, <1>10, <2>2 DEF Widened
  <2> QED BY <2>1, <2>2
<1>12. request' \in [Requests -> Request]
  <2>1. \A p \in Requests : request'[p] = next(p)
    BY <1>1
  <2>2. \A p \in Requests : request'[p] \in Request
    BY <1>6, <1>9, <1>11 DEF Widened
  <2> QED BY <1>1, <2>1, <2>2
<1>13. doubt \cup unsafe \cup raced \subseteq Items /\ doubt \subseteq doubt' /\ doubt' \subseteq Items
  BY <1>1, <1>2, <1>5
<1>14. \A p \in Requests \ {q} : Busy(p) <=> request'[p].todo # <<>>
  BY <1>11 DEF Widened, Busy
<1>15. TypeOK'
  <2>1. \A p \in Requests : request'[p].todo = <<>> <=> request'[p] = Idle
    <3>1. request'[q].todo # <<>> /\ request'[q] # Idle
      BY <1>1, <1>8, <1>9, IdleFacts
    <3>2. ASSUME NEW p \in Requests \ {q}, request'[p].todo = <<>> PROVE request'[p] = Idle
      <4>1. ~Busy(p)
        BY <1>14, <3>2
      <4>2. p \notin others /\ request[p] = Idle
        BY <1>2, <4>1, BusyFacts
      <4> QED BY <1>10, <4>2
    <3> QED BY <3>1, <3>2, IdleFacts
  <2> QED BY <1>0, <1>1, <1>12, <1>13, <2>1 DEF TInv, TypeOK
<1>16. Shapes'
  <2> SUFFICES ASSUME NEW p \in Requests, request'[p].todo # <<>> PROVE Shaped(request'[p])
    BY DEF Shapes, Busy, Shaped
  <2>1. CASE p = q
    BY <1>7, <1>9, <2>1 DEF Starts
  <2>2. CASE p # q
    <3>1. Shaped(request[p])
      BY <1>14, <2>2, BusyFacts
    <3>2. Widened(request'[p], request[p], IF p \in others THEN I ELSE {})
      BY <1>11, <2>2
    <3> QED BY <3>1, <3>2, WidenedShape
  <2> QED BY <2>1, <2>2
<1>17. Meeting'
  <2>1. ASSUME NEW p \in Requests PROVE request'[p].met \subseteq doubt'
    <3>1. CASE p = q
      BY <1>1, <1>5, <1>8, <1>9, <3>1
    <3>2. CASE p # q
      <4>1. request'[p].met = request[p].met \cup (IF p \in others THEN I ELSE {})
        BY <1>11, <3>2 DEF Widened
      <4>2. p \in others => I \subseteq doubt'
        BY <1>1, <1>5
      <4> QED BY <1>2, <1>13, <4>1, <4>2
    <3> QED BY <3>1, <3>2
  <2>2. ASSUME NEW p \in Requests, NEW s \in Requests \ {p}, Near(request'[s], request'[p])
        PROVE  request'[s].items \subseteq doubt' /\ request'[s].items \subseteq request'[p].met
    <3>1. CASE p # q /\ s # q
      <4>1. Near(request[s], request[p])
        BY <1>11, <2>2, <3>1 DEF Near, Widened
      <4>2. request[s].items \subseteq doubt /\ request[s].items \subseteq request[p].met
        BY <4>1 DEF TInv, Meeting
      <4> QED BY <1>11, <1>13, <3>1, <4>2 DEF Widened
    <3>2. CASE p = q
      <4>1. s # q /\ Near(request[s], new)
        BY <1>9, <1>11, <2>2, <3>2 DEF Near, Widened
      <4>2. s \in others
        BY <1>2, <1>3, <4>1
      <4> QED BY <1>1, <1>4, <1>5, <1>8, <1>9, <1>11, <3>2, <4>1, <4>2 DEF Widened
    <3>3. CASE s = q
      <4>1. p # q /\ Near(request[p], new)
        BY <1>9, <1>11, <2>2, <3>3 DEF Near, Widened
      <4>2. p \in others
        BY <1>2, <1>3, <4>1
      <4> QED BY <1>1, <1>5, <1>8, <1>9, <1>11, <3>3, <4>1, <4>2 DEF Widened
    <3> QED BY <3>1, <3>2, <3>3
  <2> QED BY <2>1, <2>2 DEF Meeting
<1>18. Owning'
  <2> SUFFICES ASSUME NEW p \in Requests, NEW i \in Items, request'[p].todo # <<>>
               PROVE  Owns(request'[p], i, linked'[i])
    BY DEF Owning, Busy, Owns
  <2>1. CASE p = q
    BY <1>1, <1>7, <1>9, <2>1 DEF Starts
  <2>2. CASE p # q
    <3>1. Owns(request[p], i, linked[i])
      BY <1>14, <2>2 DEF TInv, Owning
    <3> QED BY <1>1, <1>11, <2>2, <3>1 DEF Owns, Safe, Widened
  <2> QED BY <2>1, <2>2
<1>19. BothSidesAgree'
  <2> SUFFICES ASSUME NEW i \in Items \ doubt', \A p \in Requests : i \notin request'[p].items
               PROVE  Agrees(i, linked'[i], ticket')
    BY DEF BothSidesAgree, Agrees
  <2>1. \A p \in Requests : i \notin request[p].items
    <3>1. i \notin request[q].items
      BY BusyFacts
    <3> QED BY <1>11, <3>1 DEF Widened
  <2> QED BY <1>1, <1>13, <2>1 DEF TInv, BothSidesAgree, Agrees
<1>20. ASSUME NEW i \in I \ doubt' PROVE Agrees(i, linked[i], ticket)
  <2>1. ASSUME NEW p \in Requests, i \in request[p].items PROVE FALSE
    <3>1. p # q /\ Near(request[p], new)
      BY <1>8, <1>20, <2>1, BusyFacts DEF Near
    <3>2. p \in others
      BY <1>2, <1>3, <3>1
    <3> QED BY <1>1, <1>5, <1>20, <3>2
  <2> QED BY <1>13, <1>20, <2>1 DEF TInv, BothSidesAgree, Agrees
<1>21. Plans'
  <2> SUFFICES ASSUME NEW p \in Requests, request'[p].todo # <<>>, NEW i \in request'[p].items \ doubt'
               PROVE  LET r == request'[p]  L == LeftOf(r.todo) IN
                      Knows(r, r.dirty, L, i, linked'[i], ticket') /\ Comes(r, L, i, linked'[i], ticket')
    BY DEF Plans, Busy, Knows, Comes, Settles, Agrees, ListedAfter
  <2>1. CASE p = q
    <3>1. i \in I \ unsafe /\ Agrees(i, linked[i], ticket)
      BY <1>1, <1>8, <1>9, <1>20, <2>1
    <3> QED BY <1>1, <1>7, <1>8, <1>9, <2>1, <3>1 DEF Starts
  <2>2. CASE p # q
    <3> DEFINE r == request[p]  s == request'[p]  L == LeftOf(r.todo)
    <3>1. Widened(s, r, IF p \in others THEN I ELSE {})
      BY <1>11, <2>2
    <3>2. Busy(p) /\ i \in r.items \ doubt
      BY <1>13, <1>14, <2>2, <3>1 DEF Widened
    <3>3. Knows(r, r.dirty, L, i, linked[i], ticket) /\ Comes(r, L, i, linked[i], ticket)
      BY <3>2 DEF TInv, Plans
    <3>4. s.todo = r.todo /\ s.dirty = r.dirty
      BY <3>1 DEF Widened
    <3> HIDE DEF r, s, L
    <3>5. Knows(s, r.dirty, L, i, linked[i], ticket) /\ Comes(s, L, i, linked[i], ticket)
      BY <3>1, <3>3, WidenedPlan
    <3> QED BY <1>1, <3>4, <3>5 DEF L, s
  <2> QED BY <2>1, <2>2
<1>22. Others'
  <2> SUFFICES ASSUME NEW p \in Requests, request'[p].todo # <<>>,
                      NEW i \in Items \ (doubt' \cup request'[p].items)
               PROVE  Spares(request'[p], i, linked'[i], ticket')
    BY DEF Others, Busy, Spares
  <2>1. CASE p = q
    BY <1>1, <1>7, <1>9, <2>1 DEF Starts
  <2>2. CASE p # q
    <3>1. Widened(request'[p], request[p], IF p \in others THEN I ELSE {})
      BY <1>11, <2>2
    <3>2. Busy(p) /\ i \in Items \ (doubt \cup request[p].items)
      BY <1>13, <1>14, <2>2, <3>1 DEF Widened
    <3>3. Spares(request[p], i, linked[i], ticket)
      BY <3>2 DEF TInv, Others
    <3> QED BY <1>1, <3>1, <3>3 DEF Widened, Spares
  <2> QED BY <2>1, <2>2
<1>23. Blank(ticket')
  BY <1>1 DEF TInv
<1> QED BY <1>15, <1>16, <1>17, <1>18, <1>19, <1>21, <1>22, <1>23 DEF TInv

-----------------------------------------------------------------------------
(* The calls of the handlers that check the items and synchronise them.    *)

\* The checks of the items that get a ticket.
Checkers(C, add) ==
  /\ \A e \in C : (e.do = "check" /\ e.at \subseteq Linked(add)) \/ e.do = "break"
  /\ \A i : Due(C, "check", i) <=> i \in Linked(add)

LEMMA ChecksFacts ==
  ASSUME NEW add \in Pairs, NEW remove \in Pairs
  PROVE  LET C == LeftOf(Checks(add, remove)) IN Part(Checks(add, remove), C) /\ Checkers(C, add)
<1> DEFINE A == Linked(add) \cap Issues
           B == Linked(add) \cap Records
           mixed == A # {} /\ Linked(add \cup remove) \cap Records # {}
           K == IF mixed THEN One("break") ELSE {}
           CA == Calls("check", A)
           CB == Calls("check", B)
<1>1. A \in SUBSET Items /\ B \in SUBSET Items /\ A \cup B = Linked(add)
  <2>1. Linked(add) \subseteq Items
    BY DEF Linked, Pairs
  <2> QED BY <2>1 DEF Items
<1>2. Checks(add, remove) = Some(CA) \o Some(CB \cup K)
  BY DEF Checks
<1> HIDE DEF A, B, mixed
<1>3. K \in SUBSET Call /\ \A e \in K : e.do = "break"
  BY OneFacts
<1>4. Covers(CA, "check", A) /\ Covers(CB, "check", B)
  BY <1>1, CallsFacts
<1> HIDE DEF CA, CB, K
<1>5. Part(Some(CA), CA)
  BY <1>4, SomePart DEF Covers
<1>6. Part(Some(CB \cup K), CB \cup K)
  <2>1. CB \cup K \in SUBSET Call /\ \A e \in CB \cup K : e.do \in {"check", "break", "insert"}
    BY <1>3, <1>4 DEF Covers
  <2> QED BY <2>1, SomePart
<1> DEFINE C == CA \cup (CB \cup K)
<1>7. Part(Checks(add, remove), C)
  <2>1. \A e \in CA : e.do \in {"check", "break", "insert"}
    BY <1>4 DEF Covers
  <2> QED BY <1>2, <1>5, <1>6, <2>1, JoinFacts
<1>8. \A e \in C : (e.do = "check" /\ e.at \subseteq Linked(add)) \/ e.do = "break"
  BY <1>1, <1>3, <1>4 DEF Covers
<1>9. \A i : Due(C, "check", i) <=> i \in Linked(add)
  <2> TAKE i
  <2>1. Due(C, "check", i) <=> Due(CA, "check", i) \/ Due(CB, "check", i)
    BY <1>3 DEF Due
  <2> QED BY <1>1, <1>4, <2>1 DEF Covers
<1> HIDE DEF C
<1>10. LeftOf(Checks(add, remove)) = C
  BY <1>7 DEF Part
<1> QED BY <1>7, <1>8, <1>9, <1>10 DEF Checkers

\* The calls that bring the items in line.
Syncers(S, add, remove) ==
  /\ \A e \in S : \/ e.do = "link" /\ e.at \subseteq Linked(add)
                  \/ e.do = "look free" /\ e.at \subseteq Linked(add) /\ \A i, j \in e.at : i = j
                  \/ e.do = "look" /\ e.at \subseteq Linked(remove)
  /\ \A i : Due(S, "link", i) <=> i \in Linked(add) \cap Records
  /\ \A i : Due(S, "look free", i) <=> i \in Linked(add) \cap Issues
  /\ \A i : Due(S, "look", i) <=> i \in Linked(remove)

LEMMA SyncFacts ==
  ASSUME NEW add \in Pairs, NEW remove \in Pairs
  PROVE  LET S == LeftOf(Sync(add, remove)) IN Part(Sync(add, remove), S) /\ Syncers(S, add, remove)
<1> DEFINE A == Linked(add) \cap Records
           B == Linked(remove) \cap Records
           C == Linked(add) \cap Issues
           D == Linked(remove) \cap Issues
           CA == Calls("link", A)
           CB == Calls("look", B)
           CC == Calls("look free", C)
           CD == Calls("look", D)
<1>1. /\ A \in SUBSET Items /\ B \in SUBSET Items /\ C \in SUBSET Items /\ D \in SUBSET Items
      /\ B \cup D = Linked(remove) /\ A \subseteq Linked(add) /\ C \subseteq Linked(add) /\ C \subseteq Issues
  <2>1. Linked(add) \subseteq Items /\ Linked(remove) \subseteq Items
    BY DEF Linked, Pairs
  <2> QED BY <2>1 DEF Items
<1>2. Sync(add, remove) = ((Some(CA) \o Some(CB)) \o Some(CC)) \o Some(CD)
  BY DEF Sync
<1>0. A = Linked(add) \cap Records /\ C = Linked(add) \cap Issues
  OBVIOUS
<1> HIDE DEF A, B, C, D
<1>3. Covers(CA, "link", A) /\ Covers(CB, "look", B) /\ Covers(CC, "look free", C) /\ Covers(CD, "look", D)
  <2>1. Covers(CA, "link", A)
    BY <1>1, CallsFacts
  <2>2. Covers(CB, "look", B)
    BY <1>1, CallsFacts
  <2>3. Covers(CC, "look free", C)
    BY <1>1, CallsFacts
  <2>4. Covers(CD, "look", D)
    BY <1>1, CallsFacts
  <2> QED BY <2>1, <2>2, <2>3, <2>4
<1> HIDE DEF CA, CB, CC, CD
<1>4. /\ CA \in SUBSET Call /\ \A e \in CA : e.do \notin {"check", "break"}
      /\ CB \in SUBSET Call /\ \A e \in CB : e.do \notin {"check", "break"}
      /\ CC \in SUBSET Call /\ \A e \in CC : e.do \notin {"check", "break"}
      /\ CD \in SUBSET Call /\ \A e \in CD : e.do \notin {"check", "break"}
  BY <1>3 DEF Covers
<1>5. /\ Part(Some(CA), CA) /\ Part(Some(CB), CB) /\ Part(Some(CC), CC) /\ Part(Some(CD), CD)
      /\ ~Checking(CB) /\ ~Checking(CC) /\ ~Checking(CD)
  BY <1>4, SomePart DEF Checking, Has
<1> DEFINE S == ((CA \cup CB) \cup CC) \cup CD
<1>6. Part(Sync(add, remove), S)
  <2>1. Part(Some(CA) \o Some(CB), CA \cup CB)
    BY <1>5, JoinFacts
  <2>2. Part((Some(CA) \o Some(CB)) \o Some(CC), (CA \cup CB) \cup CC)
    BY <1>5, <2>1, JoinFacts
  <2>3. Part(((Some(CA) \o Some(CB)) \o Some(CC)) \o Some(CD), S)
    BY <1>5, <2>2, JoinFacts
  <2> QED BY <1>2, <2>3
<1>7. \A e \in S : \/ e.do = "link" /\ e.at \subseteq Linked(add)
                   \/ e.do = "look free" /\ e.at \subseteq Linked(add) /\ \A i, j \in e.at : i = j
                   \/ e.do = "look" /\ e.at \subseteq Linked(remove)
  BY <1>1, <1>3 DEF Covers
<1>8. ASSUME NEW i
      PROVE  /\ Due(S, "link", i) <=> i \in A
             /\ Due(S, "look free", i) <=> i \in C
             /\ Due(S, "look", i) <=> i \in B \cup D
  <2>1. Due(S, "link", i) <=> Due(CA, "link", i)
    BY <1>3 DEF Covers, Due
  <2>2. Due(S, "look free", i) <=> Due(CC, "look free", i)
    BY <1>3 DEF Covers, Due
  <2>3. Due(S, "look", i) <=> Due(CB, "look", i) \/ Due(CD, "look", i)
    BY <1>3 DEF Covers, Due
  <2> QED BY <1>3, <2>1, <2>2, <2>3 DEF Covers
<1> HIDE DEF S
<1>9. LeftOf(Sync(add, remove)) = S
  BY <1>6 DEF Part
<1>10. Syncers(S, add, remove)
  BY <1>0, <1>1, <1>7, <1>8 DEF Syncers
<1> QED BY <1>6, <1>9, <1>10

\* The calls L are those checks, these calls and W, which stores the rows of tickets.
Syncing(L, add, remove, W) ==
  /\ \A e \in L : \/ e.do = "check" /\ e.at \subseteq Linked(add)
                  \/ e.do = "break"
                  \/ e.do = "link" /\ e.at \subseteq Linked(add)
                  \/ e.do = "look free" /\ e.at \subseteq Linked(add) /\ \A i, j \in e.at : i = j
                  \/ e.do = "look" /\ e.at \subseteq Linked(remove)
                  \/ e \in W
  /\ \A i : /\ Due(L, "check", i) <=> i \in Linked(add)
            /\ Due(L, "link", i) <=> i \in Linked(add) \cap Records
            /\ Due(L, "look free", i) <=> i \in Linked(add) \cap Issues
            /\ Due(L, "look", i) <=> i \in Linked(remove)
            /\ ~Due(L, "unlink", i)
  /\ Has(L, "write") <=> Has(W, "write")
  /\ Has(L, "insert") <=> Has(W, "insert")
  /\ ~Has(L, "read") /\ ~Has(L, "delete")

LEMMA SyncingFacts ==
  ASSUME NEW add \in Pairs, NEW remove \in Pairs, NEW W \in SUBSET Call,
         \A e \in W : e.do \in {"write", "insert"}
  PROVE  LET L == (LeftOf(Checks(add, remove)) \cup LeftOf(Sync(add, remove))) \cup W IN
         Syncing(L, add, remove, W)
<1> DEFINE C == LeftOf(Checks(add, remove))
           S == LeftOf(Sync(add, remove))
           L == (C \cup S) \cup W
<1>1. Checkers(C, add) /\ Syncers(S, add, remove)
  BY ChecksFacts, SyncFacts
<1> HIDE DEF C, S
<1>2. \A e \in C : (e.do = "check" /\ e.at \subseteq Linked(add)) \/ e.do = "break"
  BY <1>1 DEF Checkers
<1>3. \A e \in S : \/ e.do = "link" /\ e.at \subseteq Linked(add)
                   \/ e.do = "look free" /\ e.at \subseteq Linked(add) /\ \A i, j \in e.at : i = j
                   \/ e.do = "look" /\ e.at \subseteq Linked(remove)
  BY <1>1 DEF Syncers
<1>4. ASSUME NEW i
      PROVE  /\ Due(L, "check", i) <=> i \in Linked(add)
             /\ Due(L, "link", i) <=> i \in Linked(add) \cap Records
             /\ Due(L, "look free", i) <=> i \in Linked(add) \cap Issues
             /\ Due(L, "look", i) <=> i \in Linked(remove)
             /\ ~Due(L, "unlink", i)
  <2>1. Due(L, "check", i) <=> Due(C, "check", i)
    BY <1>3 DEF Due
  <2>2. Due(L, "link", i) <=> Due(S, "link", i)
    BY <1>2 DEF Due
  <2>3. Due(L, "look free", i) <=> Due(S, "look free", i)
    BY <1>2 DEF Due
  <2>4. Due(L, "look", i) <=> Due(S, "look", i)
    BY <1>2 DEF Due
  <2>5. ~Due(L, "unlink", i)
    BY <1>2, <1>3 DEF Due
  <2> QED BY <1>1, <2>1, <2>2, <2>3, <2>4, <2>5 DEF Checkers, Syncers
<1>5. /\ Has(L, "write") <=> Has(W, "write")
      /\ Has(L, "insert") <=> Has(W, "insert")
      /\ ~Has(L, "read") /\ ~Has(L, "delete")
  BY <1>2, <1>3 DEF Has
<1>6. \A e \in L : \/ e.do = "check" /\ e.at \subseteq Linked(add)
                   \/ e.do = "break"
                   \/ e.do = "link" /\ e.at \subseteq Linked(add)
                   \/ e.do = "look free" /\ e.at \subseteq Linked(add) /\ \A i, j \in e.at : i = j
                   \/ e.do = "look" /\ e.at \subseteq Linked(remove)
                   \/ e \in W
  BY <1>2, <1>3
<1> HIDE DEF L
<1>7. Syncing(L, add, remove, W)
  BY <1>4, <1>5, <1>6 DEF Syncing
<1> QED BY <1>7 DEF L, C, S

\* A request that checks and synchronises its items: what is left to show is that the
\* links will be the lists that it stores.
LEMMA SyncStarts ==
  ASSUME NEW r \in Request, NEW W, NEW unsafe, Syncing(LeftOf(r.todo), r.add, r.remove, W),
         r.op \in {"create", "update", "batch", "task", "agent link"}, r.dirty = FALSE, Sound(r.todo),
         r.add \cup r.remove \subseteq Items \X r.tickets, Linked(r.add \cup r.remove) \subseteq r.items,
         DOMAIN r.lists \subseteq r.tickets,
         \A e \in W : (e.do = "write" /\ r.op # "create") \/ (e.do = "insert" /\ r.op = "create"),
         Has(W, "write") => \A t \in DOMAIN r.lists : ticket[t].state \in {"open", "trash"},
         r.op = "create" => \A t \in r.tickets : ticket[t].links = {},
         \A i \in Items \ r.items : \A t \in DOMAIN r.lists :
           i \in r.lists[t] <=> i \in ticket[t].links,
         \A i \in r.items \ unsafe : Agrees(i, linked[i], ticket) =>
           \/ /\ i \in Linked(r.add)
              /\ Free(r, i, linked[i]) =>
                   /\ i \notin Linked(r.remove)
                   /\ \A t \in Tickets : Target(r.add, i) = t <=> ListedAfter(r, LeftOf(r.todo), i, t, ticket)
           \/ /\ i \notin Linked(r.add) /\ i \in Linked(r.remove) /\ <<i, linked[i]>> \in r.remove
              /\ \A t \in Tickets : ~ListedAfter(r, LeftOf(r.todo), i, t, ticket)
  PROVE  Starts(r, unsafe)
<1> DEFINE L == LeftOf(r.todo)
<1>1. Syncing(L, r.add, r.remove, W)
  OBVIOUS
<1>2. Linked(r.add) \subseteq r.items /\ Linked(r.remove) \subseteq r.items /\ r.items \subseteq Items
  BY RequestFacts DEF Linked
<1>3. Shaped(r)
  <2>1. ASSUME NEW e \in L PROVE Meant(r, e)
    <3>1. \/ e.do = "check" /\ e.at \subseteq Linked(r.add)
          \/ e.do = "break"
          \/ e.do = "link" /\ e.at \subseteq Linked(r.add)
          \/ e.do = "look free" /\ e.at \subseteq Linked(r.add) /\ \A i, j \in e.at : i = j
          \/ e.do = "look" /\ e.at \subseteq Linked(r.remove)
          \/ e.do = "write" /\ r.op # "create"
          \/ e.do = "insert" /\ r.op = "create"
      BY <1>1 DEF Syncing
    <3> HIDE DEF L
    <3> QED BY <1>2, <3>1 DEF Meant
  <2> QED BY <1>2, <2>1 DEF Shaped
<1> HIDE DEF L
<1>4. ASSUME NEW i \in Items PROVE Owns(r, i, linked[i])
  BY <1>1 DEF Owns, Syncing, L
<1>5. ASSUME NEW i \in Items \ r.items PROVE Spares(r, i, linked[i], ticket)
  BY DEF Spares
<1>6. ASSUME NEW i \in r.items \ unsafe, Agrees(i, linked[i], ticket)
      PROVE  Knows(r, FALSE, L, i, linked[i], ticket) /\ Comes(r, L, i, linked[i], ticket)
  <2>1. ~Has(L, "read") /\ (Has(L, "write") <=> Has(W, "write"))
    BY <1>1 DEF Syncing
  <2>2. /\ Due(L, "check", i) <=> i \in Linked(r.add)
        /\ Due(L, "link", i) <=> i \in Linked(r.add) \cap Records
        /\ Due(L, "look free", i) <=> i \in Linked(r.add) \cap Issues
        /\ Due(L, "look", i) <=> i \in Linked(r.remove)
        /\ ~Due(L, "unlink", i)
    BY <1>1 DEF Syncing
  <2>3. r.op = "create" => \A t \in Tickets : linked[i] = t <=> t \notin r.tickets /\ i \in ticket[t].links
    BY <1>6 DEF Agrees
  <2>4. Knows(r, FALSE, L, i, linked[i], ticket)
    BY <1>6, <2>1, <2>3 DEF Knows
  <2>5. ASSUME Due(L, "check", i) => Free(r, i, linked[i]) PROVE Settles(r, L, i, linked[i], ticket)
    <3>1. CASE /\ i \in Linked(r.add) /\ i \notin Linked(r.remove)
               /\ \A t \in Tickets : Target(r.add, i) = t <=> ListedAfter(r, L, i, t, ticket)
      <4>1. i \in Records \/ (i \in Issues /\ linked[i] = None)
        BY <1>2, <2>2, <2>5, <3>1 DEF Free, Items
      <4>2. TicketAfter(r, L, i, linked[i]) = Target(r.add, i)
        BY <2>2, <3>1, <4>1 DEF TicketAfter
      <4> QED BY <2>2, <3>1, <4>2 DEF Settles
    <3>2. CASE /\ i \notin Linked(r.add) /\ i \in Linked(r.remove) /\ <<i, linked[i]>> \in r.remove
               /\ \A t \in Tickets : ~ListedAfter(r, L, i, t, ticket)
      <4>1. TicketAfter(r, L, i, linked[i]) = None
        BY <2>2, <3>2 DEF TicketAfter
      <4>2. \A t \in Tickets : t # None
        BY TicketAssumption
      <4> QED BY <2>2, <3>2, <4>1, <4>2 DEF Settles
    <3> QED BY <1>6, <2>2, <2>5, <3>1, <3>2 DEF L
  <2> QED BY <2>4, <2>5 DEF Comes
<1> QED BY <1>3, <1>4, <1>5, <1>6 DEF Starts, L

\* The items S go to the ticket t.
Targets(pairs, S, t) ==
  /\ pairs \in Pairs /\ pairs \subseteq Items \X {t} /\ Linked(pairs) = S
  /\ \A i \in S : Target(pairs, i) = t /\ <<i, t>> \in pairs

LEMMA PairsOf ==
  ASSUME NEW S \in SUBSET Items, NEW t \in Tickets
  PROVE  Targets({<<i, t>> : i \in S}, S, t)
<1> DEFINE pairs == {<<i, t>> : i \in S}
<1>1. \A i, u : <<i, u>> \in pairs <=> i \in S /\ u = t
  OBVIOUS
<1>2. pairs \subseteq Items \X {t}
  OBVIOUS
<1>3. \A p \in pairs : p[1] \in S
  OBVIOUS
<1>4. \A i \in S : <<i, t>> \in pairs /\ <<i, t>>[1] = i
  BY <1>1
<1> HIDE DEF pairs
<1>5. Linked(pairs) = S
  BY <1>3, <1>4 DEF Linked
<1>6. \A i \in S : Target(pairs, i) = t
  BY <1>1 DEF Target
<1>7. pairs \in Pairs
  BY <1>2 DEF Pairs
<1> QED BY <1>1, <1>2, <1>5, <1>6, <1>7 DEF pairs, Targets

LEMMA OneList ==
  ASSUME NEW S \in SUBSET Items, NEW t \in Tickets
  PROVE  LET lists == [u \in {t} |-> S] IN
         lists \in Lists /\ DOMAIN lists = {t} /\ \A u \in DOMAIN lists : lists[u] = S
<1>1. {t} \in SUBSET Tickets /\ [u \in {t} |-> S] \in [{t} -> SUBSET Items]
  OBVIOUS
<1> QED BY <1>1, ListsFacts

LEMMA UpdateKeeps ==
  ASSUME TInv, NEW q \in Requests, ~Busy(q), begun < MaxRequests, NEW t \in Tickets,
         NEW new \in SUBSET Items, Update(q, t, new)
  PROVE  TInv'
<1> DEFINE old == ticket[t].links
           up == new \ old
           down == old \ new
           add == {<<i, t>> : i \in up}
           remove == {<<i, t>> : i \in down}
           I == Linked(add \cup remove)
           lists == [u \in {t} |-> new]
           W == One("write")
           todo == (Checks(add, remove) \o <<W>>) \o Sync(add, remove)
           C == LeftOf(Checks(add, remove))
           S == LeftOf(Sync(add, remove))
<1>1. Open(t) /\ Begin(q, "update", {t}, I, lists, add, remove, todo, {})
  BY DEF Update
<1>2. old \subseteq Items /\ up \in SUBSET Items /\ down \in SUBSET Items
  BY DEF TInv, TypeOK
<1>3. /\ up \cap down = {} /\ (\A i \in up : i \in new /\ i \notin ticket[t].links)
      /\ \A i \in down : i \notin new /\ i \in ticket[t].links
      /\ \A i : i \notin up /\ i \notin down => (i \in new <=> i \in ticket[t].links)
  OBVIOUS
<1> HIDE DEF up, down
<1>0. Targets(add, up, t) /\ Targets(remove, down, t)
  BY <1>2, PairsOf
<1> HIDE DEF add, remove
<1>4. /\ add \in Pairs /\ add \subseteq Items \X {t} /\ Linked(add) = up
      /\ \A i \in up : Target(add, i) = t
  BY <1>0 DEF Targets
<1>5. /\ remove \in Pairs /\ remove \subseteq Items \X {t} /\ Linked(remove) = down
      /\ \A i \in down : <<i, t>> \in remove
  BY <1>0 DEF Targets
<1>6. I = up \cup down
  BY <1>4, <1>5 DEF Linked
<1>7. lists \in Lists /\ DOMAIN lists = {t} /\ \A u \in DOMAIN lists : lists[u] = new
  BY OneList
<1> HIDE DEF I, lists
<1>8. W \in SUBSET Call /\ (\A e \in W : e.do = "write") /\ <<W>> = Some(W) /\ Has(W, "write") /\ ~Has(W, "insert")
  BY OneFacts
<1> HIDE DEF W
<1>9. Part(Checks(add, remove), C) /\ Part(Sync(add, remove), S) /\ Checkers(C, add) /\ Syncers(S, add, remove)
  BY <1>4, <1>5, ChecksFacts, SyncFacts
<1>10. Syncing((C \cup S) \cup W, add, remove, W)
  BY <1>4, <1>5, <1>8, SyncingFacts
<1> HIDE DEF C, S
<1>11. Part(todo, (C \cup W) \cup S)
  <2>1. Part(<<W>>, W) /\ ~Checking(W)
    BY <1>8, SomePart DEF Checking, Has
  <2>2. ~Checking(S)
    BY <1>9 DEF Syncers, Checking, Has
  <2>3. Part(Checks(add, remove) \o <<W>>, C \cup W)
    BY <1>9, <2>1, JoinFacts
  <2> QED BY <1>9, <2>2, <2>3, JoinFacts
<1> DEFINE L == (C \cup W) \cup S
<1>12. Syncing(L, add, remove, W)
  <2>1. L = (C \cup S) \cup W
    OBVIOUS
  <2> QED BY <1>10, <2>1
<1> HIDE DEF L, todo
<1>13. todo \in Todos /\ Sound(todo) /\ LeftOf(todo) = L
  BY <1>11 DEF Part, L
<1>14. ASSUME NEW r \in Request, Opened(r, "update", {t}, I, lists, add, remove, todo)
       PROVE  Starts(r, {})
  <2>1. /\ r.op = "update" /\ r.tickets = {t} /\ r.items = I /\ r.lists = lists
        /\ r.add = add /\ r.remove = remove /\ r.todo = todo /\ r.dirty = FALSE
    BY <1>14 DEF Opened
  <2>2. Syncing(LeftOf(r.todo), r.add, r.remove, W)
    BY <1>12, <1>13, <2>1
  <2>3. ASSUME NEW i \in r.items, Agrees(i, linked[i], ticket)
        PROVE  \/ /\ i \in Linked(r.add)
                  /\ Free(r, i, linked[i]) =>
                       /\ i \notin Linked(r.remove)
                       /\ \A u \in Tickets : Target(r.add, i) = u <=> ListedAfter(r, LeftOf(r.todo), i, u, ticket)
               \/ /\ i \notin Linked(r.add) /\ i \in Linked(r.remove) /\ <<i, linked[i]>> \in r.remove
                  /\ \A u \in Tickets : ~ListedAfter(r, LeftOf(r.todo), i, u, ticket)
    <3>1. \A u \in Tickets : ListedAfter(r, LeftOf(r.todo), i, u, ticket)
                               <=> IF u = t THEN i \in new ELSE linked[i] = u
      BY <1>7, <1>8, <1>12, <1>13, <2>1, <2>3 DEF ListedAfter, Syncing, Agrees
    <3>2. CASE i \in up
      <4>1. Free(r, i, linked[i]) => linked[i] \in {None, t}
        BY <1>4, <2>1, <3>2 DEF Free
      <4> QED BY <1>3, <1>4, <1>5, <2>1, <3>1, <3>2, <4>1, TicketAssumption
    <3>3. CASE i \in down
      <4>1. linked[i] = t
        BY <1>3, <2>3, <3>3 DEF Agrees
      <4> QED BY <1>3, <1>4, <1>5, <2>1, <3>1, <3>3, <4>1
    <3> QED BY <1>6, <2>1, <3>2, <3>3
  <2>4. \A i \in Items \ r.items : \A u \in DOMAIN r.lists : i \in r.lists[u] <=> i \in ticket[u].links
    BY <1>3, <1>6, <1>7, <2>1
  <2>5. \A u \in DOMAIN r.lists : ticket[u].state \in {"open", "trash"}
    BY <1>1, <1>7, <2>1 DEF Open
  <2>6. /\ r.add \cup r.remove \subseteq Items \X r.tickets /\ Linked(r.add \cup r.remove) \subseteq r.items
        /\ DOMAIN r.lists \subseteq r.tickets
        /\ \A e \in W : e.do = "write" /\ r.op # "create"
    BY <1>4, <1>5, <1>7, <1>8, <2>1 DEF I
  <2> QED BY <1>13, <2>1, <2>2, <2>3, <2>4, <2>5, <2>6, SyncStarts
<1>15. I \in SUBSET Items /\ {t} \in SUBSET Tickets
  BY <1>2, <1>6
<1> QED BY <1>1, <1>4, <1>5, <1>7, <1>13, <1>14, <1>15, BeginKeeps

\* The items S get the ticket t, which lists them from then on.
LEMMA LinkingStarts ==
  ASSUME NEW r \in Request, NEW W, NEW t \in Tickets, NEW S \in SUBSET Items,
         Syncing(LeftOf(r.todo), r.add, r.remove, W),
         r.op \in {"create", "task", "agent link"}, r.dirty = FALSE, Sound(r.todo),
         r.tickets = {t}, r.items = S, Targets(r.add, S, t), r.remove = {}, DOMAIN r.lists = {t},
         \A i \in Items : i \in r.lists[t] <=> i \in S \/ i \in ticket[t].links,
         \A e \in W : (e.do = "write" /\ r.op # "create") \/ (e.do = "insert" /\ r.op = "create"),
         Has(W, "write") \/ Has(W, "insert") \/ S \subseteq ticket[t].links,
         Has(W, "write") => ticket[t].state \in {"open", "trash"},
         r.op = "create" => ticket[t].links = {}
  PROVE  Starts(r, {})
<1> DEFINE L == LeftOf(r.todo)
<1>1. /\ r.add \in Pairs /\ r.add \subseteq Items \X {t} /\ Linked(r.add) = S
      /\ \A i \in S : Target(r.add, i) = t
  BY DEF Targets
<1>2. Linked(r.remove) = {}
  BY DEF Linked
<1>3. /\ Has(L, "write") <=> Has(W, "write")
      /\ Has(L, "insert") <=> Has(W, "insert")
      /\ ~Has(L, "delete")
  BY DEF Syncing
<1> HIDE DEF L
<1>4. ASSUME NEW i \in r.items, Agrees(i, linked[i], ticket)
      PROVE  /\ i \in Linked(r.add)
             /\ Free(r, i, linked[i]) =>
                  /\ i \notin Linked(r.remove)
                  /\ \A u \in Tickets : Target(r.add, i) = u <=> ListedAfter(r, L, i, u, ticket)
  <2>1. i \in S /\ i \in Items /\ Target(r.add, i) = t
    BY <1>1
  <2>2. \A u \in Tickets : ListedAfter(r, L, i, u, ticket) <=> IF u = t THEN TRUE ELSE linked[i] = u
    BY <1>3, <1>4, <2>1 DEF ListedAfter, Agrees
  <2>3. Free(r, i, linked[i]) => linked[i] \in {None, t}
    BY <2>1 DEF Free
  <2> QED BY <1>1, <1>2, <2>1, <2>2, <2>3, TicketAssumption
<1>5. \A i \in Items \ r.items : \A u \in DOMAIN r.lists : i \in r.lists[u] <=> i \in ticket[u].links
  OBVIOUS
<1>6. /\ r.add \cup r.remove \subseteq Items \X r.tickets
      /\ DOMAIN r.lists \subseteq r.tickets
      /\ Linked(r.add \cup r.remove) \subseteq r.items
  <2>1. r.add \cup r.remove = r.add
    OBVIOUS
  <2> QED BY <1>1, <2>1
<1> QED BY <1>4, <1>5, <1>6, SyncStarts DEF L

LEMMA NoPairs == {} \in Pairs /\ Linked({}) = {}
BY DEF Pairs, Linked

LEMMA CreateKeeps ==
  ASSUME TInv, NEW q \in Requests, ~Busy(q), begun < MaxRequests, NEW t \in Tickets,
         NEW new \in SUBSET Items, Create(q, t, new)
  PROVE  TInv'
<1> DEFINE add == {<<i, t>> : i \in new}
           none == {}
           lists == [u \in {t} |-> new]
           W == One("insert")
           todo == (<<W>> \o Checks(add, none)) \o Sync(add, none)
           C == LeftOf(Checks(add, none))
           S == LeftOf(Sync(add, none))
<1>1. Unborn(t) /\ Begin(q, "create", {t}, new, lists, add, none, todo, {})
  BY DEF Create
<1>2. Targets(add, new, t) /\ none \in Pairs
  BY PairsOf, NoPairs
<1>3. add \in Pairs
  BY <1>2 DEF Targets
<1>4. lists \in Lists /\ DOMAIN lists = {t} /\ lists[t] = new
  BY OneList
<1>5. none = {}
  OBVIOUS
<1> HIDE DEF add, none, lists
<1>6. W \in SUBSET Call /\ (\A e \in W : e.do = "insert") /\ <<W>> = Some(W) /\ Has(W, "insert") /\ ~Has(W, "write")
  BY OneFacts
<1> HIDE DEF W
<1>7. Part(Checks(add, none), C) /\ Part(Sync(add, none), S) /\ Checkers(C, add) /\ Syncers(S, add, none)
  BY <1>2, <1>3, ChecksFacts, SyncFacts
<1>8. Syncing((C \cup S) \cup W, add, none, W)
  BY <1>2, <1>3, <1>6, SyncingFacts
<1> HIDE DEF C, S
<1>9. Part(todo, (W \cup C) \cup S)
  <2>1. Part(<<W>>, W) /\ \A e \in W : e.do \in {"check", "break", "insert"}
    BY <1>6, SomePart
  <2>2. ~Checking(S)
    BY <1>7 DEF Syncers, Checking, Has
  <2>3. Part(<<W>> \o Checks(add, none), W \cup C)
    BY <1>7, <2>1, JoinFacts
  <2> QED BY <1>7, <2>2, <2>3, JoinFacts
<1> DEFINE L == (W \cup C) \cup S
<1>10. Syncing(L, add, none, W)
  <2>1. L = (C \cup S) \cup W
    OBVIOUS
  <2> QED BY <1>8, <2>1
<1> HIDE DEF L, todo
<1>11. todo \in Todos /\ Sound(todo) /\ LeftOf(todo) = L
  BY <1>9 DEF Part, L
<1>12. ASSUME NEW r \in Request, Opened(r, "create", {t}, new, lists, add, none, todo)
       PROVE  Starts(r, {})
  <2>1. /\ r.op = "create" /\ r.tickets = {t} /\ r.items = new /\ r.lists = lists
        /\ r.add = add /\ r.remove = none /\ r.todo = todo /\ r.dirty = FALSE
    BY <1>12 DEF Opened
  <2>2. Syncing(LeftOf(r.todo), r.add, r.remove, W) /\ Sound(r.todo)
    BY <1>10, <1>11, <2>1
  <2>3. ticket[t].links = {}
    BY <1>1 DEF TInv, Blank, Unborn
  <2>4. /\ Targets(r.add, new, t) /\ r.remove = {} /\ DOMAIN r.lists = {t}
        /\ \A i \in Items : i \in r.lists[t] <=> i \in new \/ i \in ticket[t].links
    BY <1>2, <1>4, <1>5, <2>1, <2>3
  <2> QED BY <1>6, <2>1, <2>2, <2>3, <2>4, LinkingStarts
<1>13. {t} \in SUBSET Tickets /\ {} \in SUBSET Items
  OBVIOUS
<1> QED BY <1>1, <1>2, <1>3, <1>4, <1>11, <1>12, <1>13, BeginKeeps

LEMMA CreateTaskKeeps ==
  ASSUME TInv, NEW q \in Requests, ~Busy(q), begun < MaxRequests, NEW x \in Records,
         NEW t \in Tickets, CreateTask(q, x, t)
  PROVE  TInv'
<1> DEFINE add == {<<x, t>>}
           none == {}
           new == ticket[t].links \cup {x}
           lists == [u \in {t} |-> new]
           W == One("write")
           todo == (Checks(add, none) \o <<W>>) \o Sync(add, none)
           C == LeftOf(Checks(add, none))
           S == LeftOf(Sync(add, none))
<1>1. Open(t) /\ Begin(q, "task", {t}, {x}, lists, add, none, todo, {})
  BY DEF CreateTask
<1>0. {x} \in SUBSET Items /\ new \in SUBSET Items
  BY DEF TInv, TypeOK, Items
<1>2. Targets(add, {x}, t) /\ none \in Pairs
  <2>1. add = {<<i, t>> : i \in {x}}
    OBVIOUS
  <2> QED BY <1>0, <2>1, PairsOf, NoPairs
<1>3. add \in Pairs
  BY <1>2 DEF Targets
<1>4. lists \in Lists /\ DOMAIN lists = {t} /\ lists[t] = new
  BY <1>0, OneList
<1>5. none = {}
  OBVIOUS
<1> HIDE DEF add, none, lists
<1>6. W \in SUBSET Call /\ (\A e \in W : e.do = "write") /\ <<W>> = Some(W) /\ Has(W, "write") /\ ~Has(W, "insert")
  BY OneFacts
<1> HIDE DEF W
<1>7. Part(Checks(add, none), C) /\ Part(Sync(add, none), S) /\ Checkers(C, add) /\ Syncers(S, add, none)
  BY <1>2, <1>3, ChecksFacts, SyncFacts
<1>8. Syncing((C \cup S) \cup W, add, none, W)
  BY <1>2, <1>3, <1>6, SyncingFacts
<1> HIDE DEF C, S
<1>9. Part(todo, (C \cup W) \cup S)
  <2>1. Part(<<W>>, W) /\ ~Checking(W)
    BY <1>6, SomePart DEF Checking, Has
  <2>2. ~Checking(S)
    BY <1>7 DEF Syncers, Checking, Has
  <2>3. Part(Checks(add, none) \o <<W>>, C \cup W)
    BY <1>7, <2>1, JoinFacts
  <2> QED BY <1>7, <2>2, <2>3, JoinFacts
<1> DEFINE L == (C \cup W) \cup S
<1>10. Syncing(L, add, none, W)
  <2>1. L = (C \cup S) \cup W
    OBVIOUS
  <2> QED BY <1>8, <2>1
<1> HIDE DEF L, todo
<1>11. todo \in Todos /\ Sound(todo) /\ LeftOf(todo) = L
  BY <1>9 DEF Part, L
<1>12. ASSUME NEW r \in Request, Opened(r, "task", {t}, {x}, lists, add, none, todo)
       PROVE  Starts(r, {})
  <2>1. /\ r.op = "task" /\ r.tickets = {t} /\ r.items = {x} /\ r.lists = lists
        /\ r.add = add /\ r.remove = none /\ r.todo = todo /\ r.dirty = FALSE
    BY <1>12 DEF Opened
  <2>2. Syncing(LeftOf(r.todo), r.add, r.remove, W) /\ Sound(r.todo)
    BY <1>10, <1>11, <2>1
  <2>3. ticket[t].state \in {"open", "trash"}
    BY <1>1 DEF Open
  <2>4. /\ Targets(r.add, {x}, t) /\ r.remove = {} /\ DOMAIN r.lists = {t}
        /\ \A i \in Items : i \in r.lists[t] <=> i \in {x} \/ i \in ticket[t].links
    BY <1>2, <1>4, <1>5, <2>1
  <2> QED BY <1>0, <1>6, <2>1, <2>2, <2>3, <2>4, LinkingStarts
<1>13. {t} \in SUBSET Tickets /\ {} \in SUBSET Items
  OBVIOUS
<1> QED BY <1>0, <1>1, <1>2, <1>3, <1>4, <1>11, <1>12, <1>13, BeginKeeps

LEMMA AgentLinkKeeps ==
  ASSUME TInv, NEW q \in Requests, ~Busy(q), begun < MaxRequests, NEW x \in Items,
         NEW t \in Tickets, AgentLink(q, x, t)
  PROVE  TInv'
<1> DEFINE add == {<<x, t>>}
           none == {}
           new == ticket[t].links \cup {x}
           lists == [u \in {t} |-> new]
           W == IF x \in ticket[t].links THEN {} ELSE One("write")
           todo == (Checks(add, none) \o Sync(add, none)) \o Some(W)
           C == LeftOf(Checks(add, none))
           S == LeftOf(Sync(add, none))
<1>6. /\ W \in SUBSET Call /\ \A e \in W : e.do = "write"
      /\ Some(W) = IF x \in ticket[t].links THEN <<>> ELSE <<One("write")>>
      /\ x \in ticket[t].links \/ Has(W, "write")
  <2>1. CASE x \in ticket[t].links
    BY <2>1 DEF Some
  <2>2. CASE x \notin ticket[t].links
    BY <2>2, OneFacts
  <2> QED BY <2>1, <2>2
<1>1. Open(t) /\ Begin(q, "agent link", {t}, {x}, lists, add, none, todo, {})
  <2>1. todo = (Checks(add, none) \o Sync(add, none))
               \o (IF x \in ticket[t].links THEN <<>> ELSE <<One("write")>>)
    BY <1>6
  <2> HIDE DEF todo, W
  <2> QED BY <2>1 DEF AgentLink
<1>0. {x} \in SUBSET Items /\ new \in SUBSET Items
  BY DEF TInv, TypeOK
<1>2. Targets(add, {x}, t) /\ none \in Pairs
  <2>1. add = {<<i, t>> : i \in {x}}
    OBVIOUS
  <2> QED BY <1>0, <2>1, PairsOf, NoPairs
<1>3. add \in Pairs
  BY <1>2 DEF Targets
<1>4. lists \in Lists /\ DOMAIN lists = {t} /\ lists[t] = new
  BY <1>0, OneList
<1>5. none = {}
  OBVIOUS
<1> HIDE DEF add, none, lists, W
<1>7. Part(Checks(add, none), C) /\ Part(Sync(add, none), S) /\ Checkers(C, add) /\ Syncers(S, add, none)
  BY <1>2, <1>3, ChecksFacts, SyncFacts
<1>8. Syncing((C \cup S) \cup W, add, none, W)
  BY <1>2, <1>3, <1>6, SyncingFacts
<1> HIDE DEF C, S
<1> DEFINE L == (C \cup S) \cup W
<1>9. Part(todo, L)
  <2>1. Part(Some(W), W) /\ ~Checking(W)
    BY <1>6, SomePart DEF Checking, Has
  <2>2. ~Checking(S)
    BY <1>7 DEF Syncers, Checking, Has
  <2>3. Part(Checks(add, none) \o Sync(add, none), C \cup S)
    BY <1>7, <2>2, JoinFacts
  <2> QED BY <2>1, <2>3, JoinFacts
<1> HIDE DEF L, todo
<1>11. todo \in Todos /\ Sound(todo) /\ LeftOf(todo) = L
  BY <1>9 DEF Part
<1>12. ASSUME NEW r \in Request, Opened(r, "agent link", {t}, {x}, lists, add, none, todo)
       PROVE  Starts(r, {})
  <2>1. /\ r.op = "agent link" /\ r.tickets = {t} /\ r.items = {x} /\ r.lists = lists
        /\ r.add = add /\ r.remove = none /\ r.todo = todo /\ r.dirty = FALSE
    BY <1>12 DEF Opened
  <2>2. Syncing(LeftOf(r.todo), r.add, r.remove, W) /\ Sound(r.todo)
    BY <1>8, <1>11, <2>1 DEF L
  <2>3. ticket[t].state \in {"open", "trash"}
    BY <1>1 DEF Open
  <2>4. /\ Targets(r.add, {x}, t) /\ r.remove = {} /\ DOMAIN r.lists = {t}
        /\ \A i \in Items : i \in r.lists[t] <=> i \in {x} \/ i \in ticket[t].links
    BY <1>2, <1>4, <1>5, <2>1
  <2>5. Has(W, "write") \/ Has(W, "insert") \/ {x} \subseteq ticket[t].links
    BY <1>6
  <2> QED BY <1>0, <1>6, <2>1, <2>2, <2>3, <2>4, <2>5, LinkingStarts
<1>13. {t} \in SUBSET Tickets /\ {} \in SUBSET Items
  OBVIOUS
<1> QED BY <1>0, <1>1, <1>2, <1>3, <1>4, <1>11, <1>12, <1>13, BeginKeeps

\* The row of a ticket is stored and then the link of an item.
LEMMA PairPart ==
  ASSUME NEW A \in SUBSET Call, NEW B \in SUBSET Call, A # {}, B # {},
         \A e \in A \cup B : e.do \notin {"check", "break"}
  PROVE  Part(<<A, B>>, A \cup B)
<1> DEFINE s == <<A, B>>
<1>1. s \in Todos /\ DOMAIN s = {1, 2} /\ s[1] = A /\ s[2] = B
  BY DEF Todos
<1> HIDE DEF s
<1>2. LeftOf(s) = A \cup B
  BY <1>1 DEF LeftOf
<1>3. Sound(s)
  BY <1>1 DEF Sound, InOrder
<1>4. Part(s, A \cup B)
  BY <1>1, <1>2, <1>3 DEF Part
<1> QED BY <1>4 DEF s

LEMMA OneOf ==
  /\ One("write") # {} /\ \A e \in One("write") : e.do = "write"
  /\ One("insert") # {} /\ \A e \in One("insert") : e.do = "insert"
  /\ One("read") # {} /\ \A e \in One("read") : e.do = "read"
  /\ One("delete") # {} /\ \A e \in One("delete") : e.do = "delete"
BY DEF One

\* The ticket t gets the item x by the calls W, and then x gets t by the calls K.
Putting(r, W, K, x, t, unsafe) ==
  /\ LeftOf(r.todo) = W \cup K /\ Sound(r.todo) /\ Covers(K, "link", {x})
  /\ r.dirty = FALSE /\ r.tickets = {t} /\ r.items = {x} /\ r.remove = {} /\ DOMAIN r.lists = {t}
  /\ Targets(r.add, {x}, t)
  /\ \A i \in Items : i \in r.lists[t] <=> i = x \/ i \in ticket[t].links
  /\ \/ r.op = "record" /\ W = One("write") /\ ticket[t].state = "open"
     \/ r.op = "agent create" /\ W = One("insert") /\ linked[x] = None
  /\ x \in unsafe \/ linked[x] \in {None, t}

LEMMA PutStarts ==
  ASSUME NEW r \in Request, NEW W, NEW K, NEW x \in Items, NEW t \in Tickets, NEW unsafe,
         Putting(r, W, K, x, t, unsafe)
  PROVE  Starts(r, unsafe)
<1>0. /\ LeftOf(r.todo) = W \cup K /\ Sound(r.todo) /\ Covers(K, "link", {x})
      /\ r.dirty = FALSE /\ r.tickets = {t} /\ r.items = {x} /\ r.remove = {} /\ DOMAIN r.lists = {t}
      /\ Targets(r.add, {x}, t)
      /\ \A i \in Items : i \in r.lists[t] <=> i = x \/ i \in ticket[t].links
      /\ \/ r.op = "record" /\ W = One("write") /\ ticket[t].state = "open"
         \/ r.op = "agent create" /\ W = One("insert") /\ linked[x] = None
      /\ x \in unsafe \/ linked[x] \in {None, t}
  BY DEF Putting
<1> USE <1>0
<1> DEFINE L == W \cup K
<1>1. /\ r.add \in Pairs /\ r.add \subseteq Items \X {t} /\ Linked(r.add) = {x} /\ Target(r.add, x) = t
  BY DEF Targets
<1>2. \A e \in W : (e.do = "write" /\ r.op = "record") \/ (e.do = "insert" /\ r.op = "agent create")
  BY OneOf
<1>3. \A e \in K : e.do = "link" /\ e.at \subseteq {x}
  BY DEF Covers
<1>4. Has(W, "write") \/ Has(W, "insert")
  BY OneOf DEF Has
<1>5. /\ \A i : Due(L, "link", i) <=> i = x
      /\ \A i : ~Due(L, "check", i) /\ ~Due(L, "unlink", i) /\ ~Due(L, "look", i) /\ ~Due(L, "look free", i)
      /\ ~Has(L, "read") /\ ~Has(L, "delete") /\ ~Checking(L)
      /\ Has(L, "write") \/ Has(L, "insert")
      /\ Has(L, "write") => ticket[t].state \in {"open", "trash"}
  <2>1. \A i : Due(L, "link", i) <=> Due(K, "link", i)
    BY <1>2 DEF Due
  <2>2. \A i : Due(K, "link", i) <=> i = x
    BY DEF Covers
  <2>3. \A i : ~Due(L, "check", i) /\ ~Due(L, "unlink", i) /\ ~Due(L, "look", i) /\ ~Due(L, "look free", i)
    BY <1>2, <1>3 DEF Due
  <2>4. ~Has(L, "read") /\ ~Has(L, "delete") /\ ~Checking(L)
    BY <1>2, <1>3 DEF Has, Checking
  <2>5. Has(L, "write") \/ Has(L, "insert")
    BY <1>4 DEF Has
  <2>6. Has(L, "write") => r.op = "record"
    BY <1>2, <1>3 DEF Has
  <2> QED BY <2>1, <2>2, <2>3, <2>4, <2>5, <2>6
<1>6. \A e \in L : Meant(r, e)
  BY <1>1, <1>2, <1>3 DEF Meant
<1> HIDE DEF L
<1>7. Shaped(r)
  <2>1. r.add \cup r.remove \subseteq Items \X r.tickets /\ Linked(r.add) \subseteq r.items
    BY <1>1
  <2> QED BY <1>6, <2>1 DEF Shaped, L
<1>8. ASSUME NEW i \in Items PROVE Owns(r, i, linked[i])
  BY <1>5, <1>8 DEF Owns, Safe, L
<1>9. ASSUME NEW i \in Items \ r.items PROVE Spares(r, i, linked[i], ticket)
  BY <1>9 DEF Spares
<1>10. ASSUME NEW i \in r.items \ unsafe, Agrees(i, linked[i], ticket)
       PROVE  Knows(r, FALSE, L, i, linked[i], ticket) /\ Comes(r, L, i, linked[i], ticket)
  <2>1. i = x /\ linked[x] \in {None, t}
    BY <1>10
  <2>2. Knows(r, FALSE, L, x, linked[x], ticket)
    BY <1>5, <1>10, <2>1 DEF Knows
  <2>3. TicketAfter(r, L, x, linked[x]) = t
    BY <1>1, <1>5 DEF TicketAfter
  <2>4. \A u \in Tickets : ListedAfter(r, L, x, u, ticket) <=> IF u = t THEN TRUE ELSE linked[x] = u
    BY <1>5, <1>10, <2>1 DEF ListedAfter, Agrees
  <2>5. Settles(r, L, x, linked[x], ticket)
    BY <1>5, <2>1, <2>3, <2>4, TicketAssumption DEF Settles
  <2> QED BY <2>1, <2>2, <2>5 DEF Comes
<1> QED BY <1>7, <1>8, <1>9, <1>10 DEF Starts, L

LEMMA PutRecordKeeps ==
  ASSUME TInv, NEW q \in Requests, ~Busy(q), begun < MaxRequests, NEW x \in Records,
         NEW t \in Tickets, PutRecord(q, x, t)
  PROVE  TInv'
<1> DEFINE add == {<<x, t>>}
           none == {}
           new == ticket[t].links \cup {x}
           lists == [u \in {t} |-> new]
           W == One("write")
           K == Calls("link", {x})
           todo == <<W, K>>
           unsafe == IF linked[x] \in {None, t} THEN {} ELSE {x}
<1>1. Open(t) /\ Begin(q, "record", {t}, {x}, lists, add, none, todo, unsafe)
  BY DEF PutRecord
<1>2. {x} \in SUBSET Items /\ new \in SUBSET Items /\ unsafe \in SUBSET Items /\ x \in Items
  BY DEF TInv, TypeOK, Items
<1>3. Targets(add, {x}, t) /\ none \in Pairs
  <2>1. add = {<<i, t>> : i \in {x}}
    OBVIOUS
  <2> QED BY <1>2, <2>1, PairsOf, NoPairs
<1>4. add \in Pairs
  BY <1>3 DEF Targets
<1>5. lists \in Lists /\ DOMAIN lists = {t} /\ lists[t] = new
  BY <1>2, OneList
<1>6. none = {} /\ (x \in unsafe \/ linked[x] \in {None, t}) /\ W = One("write")
  OBVIOUS
<1>7. Covers(K, "link", {x})
  BY <1>2, CallsFacts
<1>8. W \in SUBSET Call /\ W # {} /\ \A e \in W : e.do = "write"
  BY OneFacts
<1> HIDE DEF add, none, lists, unsafe, W, K
<1>9. Part(todo, W \cup K)
  <2>1. K \in SUBSET Call /\ K # {} /\ \A e \in K : e.do = "link"
    BY <1>7 DEF Covers, Due
  <2> QED BY <1>8, <2>1, PairPart
<1> HIDE DEF todo
<1>10. todo \in Todos /\ Sound(todo) /\ LeftOf(todo) = W \cup K
  BY <1>9 DEF Part
<1>11. ASSUME NEW r \in Request, Opened(r, "record", {t}, {x}, lists, add, none, todo)
       PROVE  Starts(r, unsafe)
  <2>1. /\ r.op = "record" /\ r.tickets = {t} /\ r.items = {x} /\ r.lists = lists
        /\ r.add = add /\ r.remove = none /\ r.todo = todo /\ r.dirty = FALSE
    BY <1>11 DEF Opened
  <2>2. LeftOf(r.todo) = W \cup K /\ Sound(r.todo)
    BY <1>10, <2>1
  <2>3. ticket[t].state = "open"
    BY <1>1 DEF Open
  <2>4. /\ Targets(r.add, {x}, t) /\ r.remove = {} /\ DOMAIN r.lists = {t}
        /\ \A i \in Items : i \in r.lists[t] <=> i = x \/ i \in ticket[t].links
    BY <1>3, <1>5, <1>6, <2>1
  <2>5. Putting(r, W, K, x, t, unsafe)
    BY <1>6, <1>7, <2>1, <2>2, <2>3, <2>4 DEF Putting
  <2> QED BY <1>2, <2>5, PutStarts
<1>12. {t} \in SUBSET Tickets
  OBVIOUS
<1> QED BY <1>1, <1>2, <1>3, <1>4, <1>5, <1>10, <1>11, <1>12, BeginKeeps

LEMMA AgentCreateKeeps ==
  ASSUME TInv, NEW q \in Requests, ~Busy(q), begun < MaxRequests, NEW x \in Items,
         NEW t \in Tickets, AgentCreate(q, x, t)
  PROVE  TInv'
<1> DEFINE add == {<<x, t>>}
           none == {}
           new == {x}
           lists == [u \in {t} |-> new]
           W == One("insert")
           K == Calls("link", {x})
           todo == <<W, K>>
<1>1. Unborn(t) /\ linked[x] = None /\ Begin(q, "agent create", {t}, {x}, lists, add, none, todo, {})
  BY DEF AgentCreate, InsertAndLink
<1>2. {x} \in SUBSET Items /\ new \in SUBSET Items
  OBVIOUS
<1>3. Targets(add, {x}, t) /\ none \in Pairs
  <2>1. add = {<<i, t>> : i \in {x}}
    OBVIOUS
  <2> QED BY <1>2, <2>1, PairsOf, NoPairs
<1>4. add \in Pairs
  BY <1>3 DEF Targets
<1>5. lists \in Lists /\ DOMAIN lists = {t} /\ lists[t] = new
  BY <1>2, OneList
<1>6. none = {} /\ W = One("insert")
  OBVIOUS
<1>7. Covers(K, "link", {x})
  BY <1>2, CallsFacts
<1>8. W \in SUBSET Call /\ W # {} /\ \A e \in W : e.do = "insert"
  BY OneFacts
<1> HIDE DEF add, none, lists, W, K
<1>9. Part(todo, W \cup K)
  <2>1. K \in SUBSET Call /\ K # {} /\ \A e \in K : e.do = "link"
    BY <1>7 DEF Covers, Due
  <2> QED BY <1>8, <2>1, PairPart
<1> HIDE DEF todo
<1>10. todo \in Todos /\ Sound(todo) /\ LeftOf(todo) = W \cup K
  BY <1>9 DEF Part
<1>11. ASSUME NEW r \in Request, Opened(r, "agent create", {t}, {x}, lists, add, none, todo)
       PROVE  Starts(r, {})
  <2>1. /\ r.op = "agent create" /\ r.tickets = {t} /\ r.items = {x} /\ r.lists = lists
        /\ r.add = add /\ r.remove = none /\ r.todo = todo /\ r.dirty = FALSE
    BY <1>11 DEF Opened
  <2>2. LeftOf(r.todo) = W \cup K /\ Sound(r.todo)
    BY <1>10, <2>1
  <2>3. ticket[t].links = {}
    BY <1>1 DEF TInv, Blank, Unborn
  <2>4. /\ Targets(r.add, {x}, t) /\ r.remove = {} /\ DOMAIN r.lists = {t}
        /\ \A i \in Items : i \in r.lists[t] <=> i = x \/ i \in ticket[t].links
    BY <1>3, <1>5, <1>6, <2>1, <2>3
  <2>5. Putting(r, W, K, x, t, {})
    BY <1>1, <1>6, <1>7, <2>1, <2>2, <2>4 DEF Putting
  <2> QED BY <2>5, PutStarts
<1>12. {t} \in SUBSET Tickets /\ {} \in SUBSET Items
  OBVIOUS
<1> QED BY <1>1, <1>2, <1>3, <1>4, <1>5, <1>10, <1>11, <1>12, BeginKeeps

\* An issue gets a ticket or loses the one that it has.
LEMMA IssueStarts ==
  ASSUME NEW r \in Request, NEW x \in Issues, NEW t \in Tickets,
         r.op = "issue", r.tickets = {t}, r.items = {x}, r.lists = <<>>, r.todo = <<One("read")>>,
         r.dirty = FALSE,
         \/ r.add = {<<x, t>>} /\ r.remove = {} /\ linked[x] = None
         \/ r.add = {} /\ r.remove = {<<x, t>>} /\ linked[x] = t
  PROVE  Starts(r, {})
<1> DEFINE L == LeftOf(r.todo)
<1>1. /\ One("read") \in SUBSET Call /\ <<One("read")>> = Some(One("read"))
      /\ \A e \in One("read") : e.do = "read" /\ e.at = {}
  BY OneFacts
<1>2. Part(r.todo, One("read"))
  BY <1>1, SomePart
<1>3. L = One("read") /\ Sound(r.todo)
  BY <1>2 DEF Part
<1>4. ASSUME NEW e \in L PROVE r.todo = <<{e}>>
  <2>1. One("read") = {e}
    BY <1>3, <1>4 DEF One
  <2> QED BY <2>1
<1>5. AboutIssue(r)
  BY DEF AboutIssue
<1>6. ASSUME NEW e \in L PROVE Meant(r, e)
  BY <1>1, <1>3, <1>4, <1>5 DEF Meant
<1>7. /\ x \in Items /\ r.add \cup r.remove \subseteq Items \X r.tickets /\ Linked(r.add) \subseteq r.items
      /\ DOMAIN r.lists = {}
  BY DEF Linked, Items
<1>8. Shaped(r)
  BY <1>3, <1>6, <1>7 DEF Shaped
<1>9. /\ \A d, i : ~Due(L, d, i)
      /\ ~Has(L, "write") /\ ~Has(L, "insert") /\ ~Checking(L) /\ Has(L, "read")
  <2>1. \A e \in L : e.do = "read" /\ e.at = {}
    BY <1>1, <1>3
  <2>2. Has(L, "read") /\ ~Has(L, "write") /\ ~Has(L, "insert") /\ ~Checking(L)
    BY <1>3, <2>1, OneOf DEF Has, Checking
  <2>3. \A d, i : ~Due(L, d, i)
    BY <2>1 DEF Due
  <2> QED BY <2>2, <2>3
<1> HIDE DEF L
<1>10. ASSUME NEW i \in Items PROVE Owns(r, i, linked[i])
  BY <1>9 DEF Owns, Safe, L
<1>11. ASSUME NEW i \in Items \ r.items PROVE Spares(r, i, linked[i], ticket)
  BY <1>9 DEF Spares, L
<1>12. ASSUME NEW i \in r.items, Agrees(i, linked[i], ticket)
       PROVE  Knows(r, FALSE, L, i, linked[i], ticket) /\ Comes(r, L, i, linked[i], ticket)
  <2>1. Knows(r, FALSE, L, i, linked[i], ticket)
    BY <1>9, <1>12 DEF Knows
  <2> QED BY <1>9, <2>1 DEF Comes
<1> QED BY <1>8, <1>10, <1>11, <1>12 DEF Starts, L

LEMMA LinkIssueKeeps ==
  ASSUME TInv, NEW q \in Requests, ~Busy(q), begun < MaxRequests, NEW x \in Issues,
         NEW t \in Tickets, LinkIssue(q, x, t)
  PROVE  TInv'
<1> DEFINE add == {<<x, t>>}
           none == {}
           todo == <<One("read")>>
           lists == <<>>
<1>1. linked[x] = None /\ Begin(q, "issue", {t}, {x}, lists, add, none, todo, {})
  BY DEF LinkIssue
<1>2. {x} \in SUBSET Items /\ {t} \in SUBSET Tickets /\ {} \in SUBSET Items
  BY DEF Items
<1>3. add \in Pairs /\ none \in Pairs /\ lists \in Lists
  BY <1>2, ListsFacts DEF Pairs
<1>4. todo \in Todos
  <2>1. One("read") \in SUBSET Call
    BY OneFacts
  <2> QED BY <2>1 DEF Todos
<1>5. add = {<<x, t>>} /\ none = {} /\ todo = <<One("read")>> /\ lists = <<>>
  OBVIOUS
<1> HIDE DEF add, none, todo, lists
<1>6. ASSUME NEW r \in Request, Opened(r, "issue", {t}, {x}, lists, add, none, todo)
      PROVE  Starts(r, {})
  <2>1. /\ r.op = "issue" /\ r.tickets = {t} /\ r.items = {x} /\ r.lists = lists
        /\ r.add = add /\ r.remove = none /\ r.todo = todo /\ r.dirty = FALSE
    BY <1>6 DEF Opened
  <2> QED BY <1>1, <1>5, <2>1, IssueStarts
<1> QED BY <1>1, <1>2, <1>3, <1>4, <1>6, BeginKeeps

LEMMA UnlinkIssueKeeps ==
  ASSUME TInv, NEW q \in Requests, ~Busy(q), begun < MaxRequests, NEW x \in Issues, UnlinkIssue(q, x)
  PROVE  TInv'
<1> DEFINE t == linked[x]
           remove == {<<x, t>>}
           none == {}
           todo == <<One("read")>>
           lists == <<>>
<1>1. linked[x] # None /\ Begin(q, "issue", {t}, {x}, lists, none, remove, todo, {})
  BY DEF UnlinkIssue
<1>2. x \in Items /\ t \in Tickets
  BY <1>1 DEF TInv, TypeOK, Items
<1>3. {x} \in SUBSET Items /\ {t} \in SUBSET Tickets /\ {} \in SUBSET Items
  BY <1>2
<1>4. remove \in Pairs /\ none \in Pairs /\ lists \in Lists
  BY <1>2, ListsFacts DEF Pairs
<1>5. todo \in Todos
  <2>1. One("read") \in SUBSET Call
    BY OneFacts
  <2> QED BY <2>1 DEF Todos
<1>6. remove = {<<x, t>>} /\ none = {} /\ todo = <<One("read")>> /\ lists = <<>> /\ t = linked[x]
  OBVIOUS
<1> HIDE DEF remove, none, todo, lists, t
<1>7. ASSUME NEW r \in Request, Opened(r, "issue", {t}, {x}, lists, none, remove, todo)
      PROVE  Starts(r, {})
  <2>1. /\ r.op = "issue" /\ r.tickets = {t} /\ r.items = {x} /\ r.lists = lists
        /\ r.add = none /\ r.remove = remove /\ r.todo = todo /\ r.dirty = FALSE
    BY <1>7 DEF Opened
  <2> QED BY <1>2, <1>6, <2>1, IssueStarts
<1> QED BY <1>1, <1>3, <1>4, <1>5, <1>7, BeginKeeps

\* Every listed item is looked at, and every item with a ticket of the trash is one of the request's.
LEMMA PurgeKeeps ==
  ASSUME TInv, NEW q \in Requests, ~Busy(q), begun < MaxRequests, Purge(q)
  PROVE  TInv'
<1> DEFINE T == {t \in Tickets : ticket[t].state = "trash"}
           listed == UNION {ticket[t].links : t \in T}
           at == UNION {g \in Places : g \cap listed \cap Records # {}}
           issues == IF listed \cap Issues = {} THEN {} ELSE {[do |-> "look", at |-> listed \cap Issues]}
           I == listed \cup {i \in Items : linked[i] \in T}
           none == {}
           lists == <<>>
           remove == Items \X T
           C == Calls("look", at)
           W == One("delete")
           todo == (Some(C) \o Some(issues)) \o <<W>>
           L == (C \cup issues) \cup W
<1>1. Begin(q, "purge", T, I, lists, none, remove, todo, {})
  BY DEF Purge
<1>2. /\ T \in SUBSET Tickets /\ listed \subseteq Items /\ I \in SUBSET Items
      /\ \A i \in listed : \E t \in T : i \in ticket[t].links
      /\ \A t \in T : ticket[t].links \subseteq listed
      /\ listed \subseteq I /\ \A i \in Items : linked[i] \in T => i \in I
  BY DEF TInv, TypeOK
<1>3. remove \in Pairs /\ none \in Pairs /\ lists \in Lists
  BY <1>2, NoPairs, ListsFacts DEF Pairs
<1>4. \A i, u : <<i, u>> \in remove <=> i \in Items /\ u \in T
  OBVIOUS
<1>5. none = {} /\ lists = <<>> /\ remove \subseteq Items \X T
  OBVIOUS
<1>6. at \in SUBSET Items /\ listed \cap Records \subseteq at
  <2>1. at \subseteq Items
    BY PlacesFacts
  <2>2. ASSUME NEW i \in listed \cap Records PROVE i \in at
    <3>1. PICK g \in Places : i \in g
      BY <1>2, PlacesFacts
    <3> QED BY <3>1
  <2> QED BY <2>1, <2>2
<1> HIDE DEF T, listed, at, I, none, lists, remove
<1>7. Covers(C, "look", at)
  BY <1>6, CallsFacts
<1>8. /\ issues \in SUBSET Call /\ (\A e \in issues : e.do = "look")
      /\ \A i \in listed \cap Issues : Due(issues, "look", i)
  <2>1. CASE listed \cap Issues = {}
    BY <2>1
  <2>2. CASE listed \cap Issues # {}
    <3> DEFINE c == [do |-> "look", at |-> listed \cap Issues]
    <3>1. c \in Call /\ c.do = "look" /\ c.at = listed \cap Issues
      BY <1>2 DEF Call
    <3> HIDE DEF c
    <3>2. issues = {c}
      BY <2>2 DEF c
    <3> QED BY <3>1, <3>2 DEF Due
  <2> QED BY <2>1, <2>2
<1>9. W \in SUBSET Call /\ W # {} /\ (\A e \in W : e.do = "delete") /\ <<W>> = Some(W)
  BY OneFacts, OneOf
<1> HIDE DEF C, issues, W
<1>10. C \in SUBSET Call /\ \A e \in C : e.do = "look"
  BY <1>7 DEF Covers
<1>11. Part(todo, L)
  <2>1. Part(Some(C), C)
    BY <1>10, SomePart
  <2>2. Part(Some(issues), issues) /\ ~Checking(issues)
    BY <1>8, SomePart DEF Checking, Has
  <2>3. Part(<<W>>, W) /\ ~Checking(W)
    <3>1. Part(Some(W), W)
      BY <1>9, SomePart
    <3> QED BY <1>9, <3>1 DEF Checking, Has
  <2>4. Part(Some(C) \o Some(issues), C \cup issues)
    BY <2>1, <2>2, JoinFacts
  <2> QED BY <2>3, <2>4, JoinFacts
<1> HIDE DEF todo
<1>12. todo \in Todos /\ Sound(todo) /\ LeftOf(todo) = L
  BY <1>11 DEF Part
<1>13. /\ \A e \in L : e.do \in {"look", "delete"}
       /\ Has(L, "delete")
       /\ \A i \in listed : Due(L, "look", i)
  <2>1. ASSUME NEW i \in listed PROVE Due(L, "look", i)
    <3>1. Due(C, "look", i) \/ Due(issues, "look", i)
      BY <1>2, <1>6, <1>7, <1>8 DEF Covers, Items
    <3> QED BY <3>1 DEF Due
  <2> QED BY <1>8, <1>9, <1>10, <2>1 DEF Has
<1> HIDE DEF L
<1>14. /\ ~Has(L, "read") /\ ~Has(L, "write") /\ ~Has(L, "insert") /\ ~Checking(L)
       /\ \A i : ~Due(L, "link", i) /\ ~Due(L, "unlink", i) /\ ~Due(L, "check", i) /\ ~Due(L, "look free", i)
  BY <1>13 DEF Has, Due, Checking
<1>15. ASSUME NEW r \in Request, Opened(r, "purge", T, I, lists, none, remove, todo)
       PROVE  Starts(r, {})
  <2>1. /\ r.op = "purge" /\ r.tickets = T /\ r.items = I /\ r.lists = <<>>
        /\ r.add = {} /\ r.remove = remove /\ LeftOf(r.todo) = L /\ Sound(r.todo) /\ r.dirty = FALSE
    BY <1>5, <1>12, <1>15 DEF Opened
  <2>2. Shaped(r)
    <3>1. ASSUME NEW e \in L PROVE Meant(r, e)
      BY <1>13, <1>14, <2>1 DEF Meant
    <3>2. Linked(r.add) = {} /\ DOMAIN r.lists = {}
      BY <2>1 DEF Linked
    <3> QED BY <1>5, <2>1, <3>1, <3>2 DEF Shaped
  <2>3. ASSUME NEW i \in Items PROVE Owns(r, i, linked[i])
    BY <1>2, <1>14, <2>1 DEF Owns
  <2>4. ASSUME NEW i \in r.items, Agrees(i, linked[i], ticket)
        PROVE  Knows(r, FALSE, L, i, linked[i], ticket) /\ Comes(r, L, i, linked[i], ticket)
    <3>1. i \in Items
      BY <1>2, <2>1
    <3>2. Knows(r, FALSE, L, i, linked[i], ticket)
      BY <1>14, <2>1, <2>4 DEF Knows
    <3>3. \A t \in Tickets : ListedAfter(r, L, i, t, ticket) <=> t \notin T /\ i \in ticket[t].links
      BY <1>13, <1>14, <2>1 DEF ListedAfter
    <3>4. TicketAfter(r, L, i, linked[i]) = IF linked[i] \in T THEN None ELSE linked[i]
      <4>1. linked[i] \in T => Due(L, "look", i)
        BY <1>2, <1>13, <2>4 DEF Agrees
      <4> QED BY <1>4, <1>14, <2>1, <3>1, <4>1 DEF TicketAfter
    <3>5. \A t \in Tickets : TicketAfter(r, L, i, linked[i]) = t <=> ListedAfter(r, L, i, t, ticket)
      BY <2>4, <3>3, <3>4, TicketAssumption DEF Agrees
    <3>6. Settles(r, L, i, linked[i], ticket)
      BY <1>14, <3>5 DEF Settles
    <3> QED BY <3>2, <3>6 DEF Comes
  <2>5. ASSUME NEW i \in Items \ r.items PROVE Spares(r, i, linked[i], ticket)
    BY <1>2, <1>14, <2>1, <2>5 DEF Spares
  <2> QED BY <2>1, <2>2, <2>3, <2>4, <2>5 DEF Starts
<1>16. {} \in SUBSET Items
  OBVIOUS
<1> QED BY <1>1, <1>2, <1>3, <1>12, <1>15, <1>16, BeginKeeps

\* A pair that is the only one of its item is kept.
LEMMA KeptFacts ==
  ASSUME NEW T, NEW pairs, pairs \subseteq Items \X T, NEW order \in Orders(T)
  PROVE  /\ Kept(pairs, order) \subseteq pairs
         /\ \A i \in Items, t \in T :
              <<i, t>> \in pairs /\ (\A u \in T : <<i, u>> \in pairs => u = t) => <<i, t>> \in Kept(pairs, order)
<1>1. \A t \in T : order[t] \in Nat
  BY DEF Orders
<1>2. ASSUME NEW i \in Items, NEW t \in T, <<i, t>> \in pairs, \A u \in T : <<i, u>> \in pairs => u = t
      PROVE  <<i, t>> \in Kept(pairs, order)
  <2>1. order[t] <= order[t]
    BY <1>1
  <2>2. ASSUME NEW o \in pairs, o[1] = i PROVE o[2] = t
    <3>1. o = <<i, o[2]>> /\ o[2] \in T
      BY <2>2
    <3> QED BY <1>2, <3>1
  <2> QED BY <1>2, <2>1, <2>2 DEF Kept
<1> QED BY <1>2 DEF Kept

\* What a batch stores about the items is what it synchronises, but for an issue that is
\* added twice.
LEMMA BatchKeeps ==
  ASSUME TInv, NEW q \in Requests, ~Busy(q), begun < MaxRequests, NEW T \in Batches,
         NEW new \in [T -> SUBSET Items], Batch(q, new)
  PROVE  TInv'
<1> DEFINE added == UNION {{<<i, t>> : i \in new[t] \ ticket[t].links} : t \in T}
           removed == UNION {{<<i, t>> : i \in ticket[t].links \ new[t]} : t \in T}
           I == Linked(added \cup removed)
           unsafe == Twice(added)
           W == One("write")
<1>1. DOMAIN new = T
  OBVIOUS
<1>2. PICK order \in Orders(T) :
        Begin(q, "batch", T, I, new, Kept(added, order), Kept(removed, order),
              Checks(Kept(added, order), Kept(removed, order))
              \o Sync(Kept(added, order), Kept(removed, order)) \o <<One("write")>>, unsafe)
  BY <1>1 DEF Batch
<1>3. \A t \in T : ticket[t].state \in {"open", "trash"}
  BY <1>1 DEF Batch, Exists
<1> DEFINE add == Kept(added, order)
           remove == Kept(removed, order)
           todo == (Checks(add, remove) \o Sync(add, remove)) \o <<W>>
           L == (LeftOf(Checks(add, remove)) \cup LeftOf(Sync(add, remove))) \cup W
<1>4. Begin(q, "batch", T, I, new, add, remove, todo, unsafe)
  BY <1>2
<1>5. T \in SUBSET Tickets /\ new \in Lists /\ \A t \in T : new[t] \subseteq Items /\ ticket[t].links \subseteq Items
  BY BatchAssumption, ListsFacts DEF TInv, TypeOK
<1>6. /\ \A i, t : <<i, t>> \in added <=> t \in T /\ i \in new[t] \ ticket[t].links
      /\ \A i, t : <<i, t>> \in removed <=> t \in T /\ i \in ticket[t].links \ new[t]
  OBVIOUS
<1>7. added \subseteq Items \X T /\ removed \subseteq Items \X T
  BY <1>5
<1>8. /\ \A i : i \in I <=> (\E t \in T : <<i, t>> \in added) \/ (\E t \in T : <<i, t>> \in removed)
      /\ I \in SUBSET Items /\ unsafe \in SUBSET Items
  <2>1. ASSUME NEW i \in I
        PROVE  i \in Items /\ ((\E t \in T : <<i, t>> \in added) \/ (\E t \in T : <<i, t>> \in removed))
    <3>1. PICK p \in added \cup removed : p[1] = i
      BY DEF Linked
    <3>2. p = <<i, p[2]>> /\ i \in Items /\ p[2] \in T
      BY <1>7, <3>1
    <3> QED BY <3>1, <3>2
  <2>2. ASSUME NEW i, NEW t \in T, <<i, t>> \in added \cup removed PROVE i \in I
    <3>1. <<i, t>>[1] = i
      OBVIOUS
    <3> QED BY <2>2, <3>1 DEF Linked
  <2> QED BY <2>1, <2>2 DEF Twice
<1>9. ASSUME NEW i \in Items \ unsafe, NEW t \in T, NEW u \in T, <<i, t>> \in added, <<i, u>> \in added
      PROVE  t = u
  BY <1>5, <1>9 DEF Twice
<1> HIDE DEF added, removed, I, unsafe
<1>10. /\ add \subseteq added /\ remove \subseteq removed
       /\ \A i \in Items, t \in T :
            <<i, t>> \in added /\ (\A u \in T : <<i, u>> \in added => u = t) => <<i, t>> \in add
       /\ \A i \in Items, t \in T :
            <<i, t>> \in removed /\ (\A u \in T : <<i, u>> \in removed => u = t) => <<i, t>> \in remove
  BY <1>7, KeptFacts
<1> HIDE DEF add, remove
<1>11. add \in Pairs /\ remove \in Pairs /\ add \cup remove \subseteq Items \X T
  BY <1>5, <1>7, <1>10 DEF Pairs
<1>12. /\ \A i : i \in Linked(add) <=> i \in Items /\ \E t \in T : <<i, t>> \in add
       /\ \A i : i \in Linked(remove) <=> i \in Items /\ \E t \in T : <<i, t>> \in remove
       /\ Linked(add \cup remove) \subseteq I
  <2>1. ASSUME NEW P, P \subseteq Items \X T, NEW i
        PROVE  i \in Linked(P) <=> i \in Items /\ \E t \in T : <<i, t>> \in P
    <3>1. ASSUME i \in Linked(P) PROVE i \in Items /\ \E t \in T : <<i, t>> \in P
      <4>1. PICK p \in P : p[1] = i
        BY <3>1 DEF Linked
      <4>2. p = <<i, p[2]>> /\ i \in Items /\ p[2] \in T
        BY <2>1, <4>1
      <4> QED BY <4>1, <4>2
    <3>2. ASSUME NEW t \in T, <<i, t>> \in P PROVE i \in Linked(P)
      <4>1. <<i, t>>[1] = i
        OBVIOUS
      <4> QED BY <3>2, <4>1 DEF Linked
    <3> QED BY <3>1, <3>2
  <2>2. add \subseteq Items \X T /\ remove \subseteq Items \X T
    BY <1>11
  <2>3. \A i : i \in Linked(add \cup remove) <=> i \in Items /\ \E t \in T : <<i, t>> \in add \cup remove
    BY <1>11, <2>1
  <2> QED BY <1>8, <1>10, <2>1, <2>2, <2>3
<1>13. W \in SUBSET Call /\ (\A e \in W : e.do = "write") /\ <<W>> = Some(W) /\ Has(W, "write")
  BY OneFacts, OneOf DEF Has
<1> HIDE DEF W
<1>14. Syncing(L, add, remove, W)
  BY <1>11, <1>13, SyncingFacts
<1>15. Part(todo, L)
  <2>1. Part(Checks(add, remove), LeftOf(Checks(add, remove)))
        /\ \A e \in LeftOf(Checks(add, remove)) : e.do \in {"check", "break", "insert"}
    BY <1>11, ChecksFacts DEF Checkers
  <2>2. Part(Sync(add, remove), LeftOf(Sync(add, remove)))
    BY <1>11, SyncFacts
  <2>3. Part(<<W>>, W) /\ ~Checking(W)
    <3>1. Part(Some(W), W)
      BY <1>13, SomePart
    <3> QED BY <1>13, <3>1 DEF Checking, Has
  <2>4. Part(Checks(add, remove) \o Sync(add, remove),
             LeftOf(Checks(add, remove)) \cup LeftOf(Sync(add, remove)))
    BY <2>1, <2>2, JoinFacts
  <2> QED BY <2>3, <2>4, JoinFacts
<1> HIDE DEF todo
<1>16. todo \in Todos /\ Sound(todo) /\ LeftOf(todo) = L
  BY <1>15 DEF Part
<1> HIDE DEF L
<1>17. Has(L, "write") /\ ~Has(L, "delete")
  BY <1>13, <1>14 DEF Syncing
<1>18. ASSUME NEW r \in Request, Opened(r, "batch", T, I, new, add, remove, todo)
       PROVE  Starts(r, unsafe)
  <2>1. /\ r.op = "batch" /\ r.tickets = T /\ r.items = I /\ r.lists = new
        /\ r.add = add /\ r.remove = remove /\ LeftOf(r.todo) = L /\ Sound(r.todo) /\ r.dirty = FALSE
    BY <1>16, <1>18 DEF Opened
  <2>2. \A i, t : ListedAfter(r, L, i, t, ticket) <=> IF t \in T THEN i \in new[t] ELSE i \in ticket[t].links
    BY <1>1, <1>17, <2>1 DEF ListedAfter
  <2>3. \A i \in Items \ I : \A t \in T : i \in new[t] <=> i \in ticket[t].links
    BY <1>6, <1>8
  <2>4. ASSUME NEW i \in I \ unsafe, Agrees(i, linked[i], ticket), i \in Linked(add), Free(r, i, linked[i])
        PROVE  /\ i \notin Linked(remove)
               /\ \A t \in Tickets : Target(r.add, i) = t <=> ListedAfter(r, L, i, t, ticket)
    <3>1. PICK t \in T : i \in Items /\ <<i, t>> \in add
      BY <1>12, <2>4
    <3>2. Target(r.add, i) = t
      <4>1. Linked(r.add) = Linked(add) /\ r.add \subseteq Items \X r.tickets
        BY <1>11, <2>1
      <4>2. <<i, Target(r.add, i)>> \in r.add /\ Target(r.add, i) \in r.tickets
        BY <2>4, <4>1, TargetFacts
      <4> QED BY <1>9, <1>10, <2>1, <3>1, <4>2
    <3>3. i \in new[t] /\ i \notin ticket[t].links
      BY <1>6, <1>10, <3>1
    <3>4. linked[i] = None
      BY <1>5, <2>4, <3>2, <3>3 DEF Free, Agrees
    <3>5. \A u \in Tickets : i \notin ticket[u].links
      BY <2>4, <3>4, TicketAssumption DEF Agrees
    <3>6. i \notin Linked(remove)
      BY <1>5, <1>6, <1>10, <1>12, <3>5
    <3>7. \A u \in T : i \in new[u] => u = t
      BY <1>5, <1>6, <1>9, <1>10, <3>1, <3>5
    <3> QED BY <1>5, <2>2, <3>2, <3>3, <3>5, <3>6, <3>7
  <2>5. ASSUME NEW i \in I \ unsafe, Agrees(i, linked[i], ticket), i \notin Linked(add)
        PROVE  /\ i \in Linked(remove) /\ <<i, linked[i]>> \in remove
               /\ \A t \in Tickets : ~ListedAfter(r, L, i, t, ticket)
    <3>1. i \in Items
      BY <1>8
    <3>2. \A t \in T : <<i, t>> \notin added
      BY <1>9, <1>10, <1>12, <2>5, <3>1
    <3>3. PICK v \in T : <<i, v>> \in removed
      BY <1>8, <3>2
    <3>4. i \in ticket[v].links /\ i \notin new[v]
      BY <1>6, <3>3
    <3>5. linked[i] = v /\ \A u \in Tickets : i \in ticket[u].links => u = v
      BY <1>5, <2>5, <3>4 DEF Agrees
    <3>6. <<i, v>> \in remove
      BY <1>5, <1>6, <1>10, <3>1, <3>3, <3>5
    <3>7. \A u \in T : i \notin new[u]
      BY <1>5, <1>6, <3>2, <3>4, <3>5
    <3> QED BY <1>12, <2>2, <3>1, <3>5, <3>6, <3>7
  <2> HIDE DEF Starts
  <2> QED BY <1>1, <1>3, <1>11, <1>12, <1>13, <1>14, <2>1, <2>3, <2>4, <2>5, SyncStarts
<1> QED BY <1>4, <1>5, <1>8, <1>11, <1>16, <1>18, BeginKeeps

-----------------------------------------------------------------------------
(* Every step of the system.                                               *)

\* Nothing but the trash: lists and links stay as they are, and no ticket comes or goes.
LEMMA StillKeeps ==
  ASSUME TInv, UNCHANGED <<linked, request, begun, doubt>>,
         ticket' \in [Tickets -> [state : {"unborn", "open", "trash", "gone"}, links : SUBSET Items]],
         \A t \in Tickets :
           /\ ticket'[t].links = ticket[t].links
           /\ ticket[t].state \in {"open", "trash"} <=> ticket'[t].state \in {"open", "trash"}
  PROVE  TInv'
<1>1. TypeOK'
  BY DEF TInv, TypeOK
<1>2. Shapes' /\ Meeting' /\ Owning'
  <2>1. Shapes'
    BY DEF TInv, Shapes, Busy
  <2>2. Meeting'
    BY DEF TInv, Meeting
  <2>3. Owning'
    BY DEF TInv, Owning, Busy
  <2> QED BY <2>1, <2>2, <2>3
<1>3. BothSidesAgree'
  BY DEF TInv, BothSidesAgree
<1>4. Plans'
  <2> SUFFICES ASSUME NEW q \in Requests, request'[q].todo # <<>>, NEW i \in request'[q].items \ doubt'
               PROVE  LET r == request'[q]  L == LeftOf(r.todo) IN
                      Knows(r, r.dirty, L, i, linked'[i], ticket') /\ Comes(r, L, i, linked'[i], ticket')
    BY DEF Plans, Busy, Knows, Comes, Settles, Agrees, ListedAfter
  <2> DEFINE r == request[q]  L == LeftOf(r.todo)
  <2>1. Knows(r, r.dirty, L, i, linked[i], ticket) /\ Comes(r, L, i, linked[i], ticket)
    BY DEF TInv, Plans, Busy
  <2>2. DOMAIN r.lists \subseteq Tickets
    BY BusyFacts DEF Busy
  <2> HIDE DEF r, L
  <2>3. Knows(r, r.dirty, L, i, linked[i], ticket')
    BY <2>1, <2>2 DEF Knows, Agrees
  <2>4. \A t \in Tickets : ListedAfter(r, L, i, t, ticket') <=> ListedAfter(r, L, i, t, ticket)
    BY DEF ListedAfter
  <2>5. Comes(r, L, i, linked[i], ticket')
    BY <2>1, <2>4 DEF Comes, Settles
  <2> QED BY <2>3, <2>5 DEF r, L
<1>5. Others'
  <2> SUFFICES ASSUME NEW q \in Requests, request[q].todo # <<>>, NEW i \in Items \ (doubt \cup request[q].items)
               PROVE  Spares(request[q], i, linked[i], ticket')
    BY DEF Others, Busy, Spares
  <2>1. Spares(request[q], i, linked[i], ticket)
    BY DEF TInv, Others, Busy
  <2>2. DOMAIN request[q].lists \subseteq Tickets /\ request[q].tickets \subseteq Tickets
    BY BusyFacts DEF Busy
  <2> QED BY <2>1, <2>2 DEF Spares
<1>6. Blank(ticket')
  BY DEF TInv, TypeOK, Blank
<1> QED BY <1>1, <1>2, <1>3, <1>4, <1>5, <1>6 DEF TInv

LEMMA TrashKeeps ==
  ASSUME TInv, NEW t \in Tickets, Trash(t) \/ Restore(t)
  PROVE  TInv'
<1>1. PICK s \in {"open", "trash"} :
        /\ ticket[t].state \in {"open", "trash"} /\ ticket' = [ticket EXCEPT ![t].state = s]
        /\ UNCHANGED <<linked, request, begun, doubt>>
  BY DEF Trash, Restore, Open
<1>2. ticket \in [Tickets -> [state : {"unborn", "open", "trash", "gone"}, links : SUBSET Items]]
  BY DEF TInv, TypeOK
<1>3. /\ ticket' \in [Tickets -> [state : {"unborn", "open", "trash", "gone"}, links : SUBSET Items]]
      /\ \A u \in Tickets : ticket'[u].links = ticket[u].links
      /\ \A u \in Tickets : ticket[u].state \in {"open", "trash"} <=> ticket'[u].state \in {"open", "trash"}
  BY <1>1, <1>2
<1> QED BY <1>1, <1>3, StillKeeps

LEMMA ArriveKeeps ==
  ASSUME TInv, NEW q \in Requests, Arrive(q)
  PROVE  TInv'
<1>1. ~Busy(q) /\ begun < MaxRequests
  BY DEF Arrive
<1>2. CASE \E t \in Tickets, new \in SUBSET Items : Create(q, t, new) \/ Update(q, t, new)
  BY <1>1, <1>2, CreateKeeps, UpdateKeeps
<1>3. CASE \E T \in Batches : \E new \in [T -> SUBSET Items] : Batch(q, new)
  BY <1>1, <1>3, BatchKeeps
<1>4. CASE \E r \in Records, t \in Tickets : CreateTask(q, r, t) \/ PutRecord(q, r, t)
  BY <1>1, <1>4, CreateTaskKeeps, PutRecordKeeps
<1>5. CASE \E x \in Issues : UnlinkIssue(q, x) \/ \E t \in Tickets : LinkIssue(q, x, t)
  BY <1>1, <1>5, UnlinkIssueKeeps, LinkIssueKeeps
<1>6. CASE \E i \in Items, t \in Tickets : AgentLink(q, i, t) \/ AgentCreate(q, i, t)
  BY <1>1, <1>6, AgentLinkKeeps, AgentCreateKeeps
<1>7. CASE Purge(q)
  BY <1>1, <1>7, PurgeKeeps
<1> QED BY <1>2, <1>3, <1>4, <1>5, <1>6, <1>7 DEF Arrive

LEMMA CallKeeps ==
  ASSUME TInv, NEW q \in Requests, Step(q)
  PROVE  TInv'
<1>1. PICK c \in Head(request[q].todo) :
        \/ Check(q, c) \/ Break(q, c) \/ Link(q, c) \/ Look(q, c) \/ LookFree(q, c) \/ Unlink(q, c)
        \/ Write(q, c) \/ Insert(q, c) \/ Delete(q, c) \/ Read(q, c) \/ Skip(q, c)
  BY DEF Step
<1>2. Busy(q)
  BY DEF Step
<1>3. CASE Check(q, c)
  <2> DEFINE free == \A i \in c.at : linked[i] \in {None} \cup IF i \in Issues THEN {}
                                                              ELSE {Target(request[q].add, i)}
  <2>1. c.do = "check" /\ UNCHANGED <<ticket, linked, begun, doubt>>
    BY <1>3 DEF Check
  <2>2. \/ free /\ Go(q, Then(q, c, {}))
        \/ Go(q, [request[q] EXCEPT !.todo =
                    IF request[q].op = "create" THEN <<One("delete")>> ELSE <<>>])
    BY <1>3 DEF Check
  <2>3. CASE free /\ Go(q, Then(q, c, {}))
    <3>1. \A i \in c.at : Free(request[q], i, linked[i])
      BY <2>3 DEF Free
    <3> QED BY <1>2, <2>1, <2>3, <3>1, CheckKeeps
  <2>4. CASE Go(q, [request[q] EXCEPT !.todo =
                      IF request[q].op = "create" THEN <<One("delete")>> ELSE <<>>])
    BY <1>2, <2>1, <2>4, RefuseKeeps
  <2> QED BY <2>2, <2>3, <2>4
<1>4. CASE Break(q, c) \/ Read(q, c) \/ Skip(q, c)
  BY <1>2, <1>4, BreakKeeps, ReadKeeps, SkipKeeps
<1>5. CASE Link(q, c) \/ Look(q, c) \/ LookFree(q, c) \/ Unlink(q, c)
  BY <1>2, <1>5, LinkKeeps, LookKeeps, LookFreeKeeps, UnlinkKeeps
<1>6. CASE Write(q, c) \/ Insert(q, c) \/ Delete(q, c)
  BY <1>2, <1>6, WriteKeeps, InsertKeeps, DeleteKeeps
<1> QED BY <1>1, <1>3, <1>4, <1>5, <1>6

LEMMA LinksNext ==
  ASSUME TInv, [Next]_vars
  PROVE  TInv'
<1>1. CASE \E q \in Requests : Arrive(q) \/ Step(q) \/ Fail(q)
  BY <1>1, ArriveKeeps, CallKeeps, FailKeeps
<1>2. CASE \E t \in Tickets : Trash(t) \/ Restore(t)
  BY <1>2, TrashKeeps
<1>3. CASE UNCHANGED vars
  <2>1. UNCHANGED <<ticket, linked, request, begun, doubt>>
    BY <1>3 DEF vars
  <2>2. ticket' \in [Tickets -> [state : {"unborn", "open", "trash", "gone"}, links : SUBSET Items]]
    BY <2>1 DEF TInv, TypeOK
  <2> QED BY <2>1, <2>2, StillKeeps
<1> QED BY <1>1, <1>2, <1>3 DEF Next

LEMMA LinksInit ==
  ASSUME Init
  PROVE  TInv
<1>1. PICK state \in [Tickets -> {"unborn", "open", "trash"}] :
        /\ linked \in [Items -> {t \in Tickets : state[t] # "unborn"} \cup {None}]
        /\ ticket = [t \in Tickets |-> [state |-> state[t], links |-> {i \in Items : linked[i] = t}]]
  BY DEF Init
<1>2. /\ request = [q \in Requests |-> Idle] /\ begun = 0 /\ doubt = {}
      /\ \A q \in Requests : request[q] = Idle /\ ~Busy(q)
  BY IdleFacts DEF Init, Busy
<1>3. \A t \in Tickets : ticket[t].state = state[t] /\ ticket[t].links = {i \in Items : linked[i] = t}
  BY <1>1
<1>4. TypeOK
  BY <1>1, <1>2, IdleFacts, BoundAssumption DEF TypeOK
<1>5. Shapes /\ Owning /\ Plans /\ Others
  BY <1>2 DEF Shapes, Owning, Plans, Others
<1>6. Meeting
  BY <1>2, IdleFacts DEF Meeting, Near
<1>7. BothSidesAgree
  BY <1>3 DEF BothSidesAgree
<1>8. Blank(ticket)
  BY <1>1, <1>3, TicketAssumption DEF Blank
<1> QED BY <1>4, <1>5, <1>6, <1>7, <1>8 DEF TInv

\* The calls that change the link of an item, after the checks.
LEMMA OwnCall ==
  ASSUME TInv, NEW q \in Requests, Busy(q), NEW c \in Head(request[q].todo),
         c.do \in {"link", "unlink"}, Done(q, c), NEW i \in c.at, i \in Items, linked[i] # None
  PROVE  /\ request'[q] # request[q]
         /\ linked[i] \in request[q].tickets \/ i \in request[q].met \/ request[q].op = "record"
<1> DEFINE r == request[q]  L == LeftOf(r.todo)
<1>1. c \in L /\ ~Checking(L)
  BY HeadFacts
<1>2. (Due(L, "link", i) \/ Due(L, "unlink", i)) /\ ~Due(L, "check", i)
  BY <1>1 DEF Due, Checking, Has
<1>3. Owns(r, i, linked[i])
  BY DEF TInv, Owning
<1>4. linked[i] \in r.tickets \/ i \in r.met \/ r.op = "record"
  BY <1>2, <1>3 DEF Owns, Safe
<1>5. Goes(q, Following(r.todo, c, {}), TRUE)
  BY DoneThen DEF TInv
<1>6. r.todo # <<>> /\ Following(r.todo, c, {}) # r.todo
  <2>1. r.todo \in Todos /\ r.todo # <<>> /\ Sound(r.todo) /\ {} \in SUBSET Call
    BY BusyFacts
  <2> QED BY <2>1, FollowingFacts
<1>7. request'[q] # r
  BY <1>5, <1>6, IdleFacts DEF Goes
<1> QED BY <1>4, <1>7

LEMMA LinksStay ==
  ASSUME [Next]_vars,
         ~ \E q \in Requests : Busy(q) /\ \E c \in Head(request[q].todo) : Link(q, c) \/ Unlink(q, c)
  PROVE  linked' = linked
<1>1. ASSUME NEW q \in Requests, Arrive(q) PROVE linked' = linked
  <2>1. \A t \in Tickets, new \in SUBSET Items : Create(q, t, new) \/ Update(q, t, new) => linked' = linked
    BY DEF Create, Update, Begin
  <2>2. \A T \in Batches : \A new \in [T -> SUBSET Items] : Batch(q, new) => linked' = linked
    BY DEF Batch, Begin
  <2>3. \A r \in Records, t \in Tickets : CreateTask(q, r, t) \/ PutRecord(q, r, t) => linked' = linked
    BY DEF CreateTask, PutRecord, Begin
  <2>4. \A x \in Issues : UnlinkIssue(q, x) \/ (\E t \in Tickets : LinkIssue(q, x, t)) => linked' = linked
    BY DEF UnlinkIssue, LinkIssue, Begin
  <2>5. \A i \in Items, t \in Tickets : AgentLink(q, i, t) \/ AgentCreate(q, i, t) => linked' = linked
    BY DEF AgentLink, AgentCreate, Begin
  <2>6. Purge(q) => linked' = linked
    BY DEF Purge, Begin
  <2> QED BY <1>1, <2>1, <2>2, <2>3, <2>4, <2>5, <2>6 DEF Arrive
<1>2. ASSUME NEW q \in Requests, Step(q) PROVE linked' = linked
  <2>1. PICK c \in Head(request[q].todo) :
          \/ Check(q, c) \/ Break(q, c) \/ Look(q, c) \/ LookFree(q, c)
          \/ Write(q, c) \/ Insert(q, c) \/ Delete(q, c) \/ Read(q, c) \/ Skip(q, c)
    BY <1>2 DEF Step
  <2>2. Check(q, c) \/ Break(q, c) \/ Look(q, c) \/ LookFree(q, c) => linked' = linked
    BY DEF Check, Break, Look, LookFree
  <2>3. Write(q, c) \/ Insert(q, c) \/ Delete(q, c) \/ Read(q, c) \/ Skip(q, c) => linked' = linked
    BY DEF Write, Insert, Delete, Read, Skip
  <2> QED BY <2>1, <2>2, <2>3
<1>3. ASSUME NEW q \in Requests, Fail(q) PROVE linked' = linked
  BY <1>3 DEF Fail
<1>4. ASSUME NEW t \in Tickets, Trash(t) \/ Restore(t) PROVE linked' = linked
  BY <1>4 DEF Trash, Restore
<1> QED BY <1>1, <1>2, <1>3, <1>4 DEF Next, vars

-----------------------------------------------------------------------------
(* The theorems.                                                           *)

\* The inductive invariant holds of every behaviour.
THEOREM LinksInvariance == Spec => []TInv
<1>1. Init => TInv
  BY LinksInit
<1>2. TInv /\ [Next]_vars => TInv'
  BY LinksNext
<1> QED BY <1>1, <1>2, PTL DEF Spec

\* The variables keep their types: a request that has nothing left to do is over.
THEOREM LinkTypes == Spec => []TypeOK
<1>1. TInv => TypeOK
  BY DEF TInv
<1> QED BY <1>1, LinksInvariance, PTL

\* Whatever is created, updated, linked, unlinked, purged or fails at once, in any order of
\* the calls: the two sides of a link agree, but for the items named in doubt (the handlers
\* with check_ticket_link_changes and sync_links_in_connection).
THEOREM SidesAgree == Spec => []BothSidesAgree
<1>1. TInv => BothSidesAgree
  BY DEF TInv
<1> QED BY <1>1, LinksInvariance, PTL

\* A link is taken from a ticket by a request about this ticket only, by the page that puts a
\* record unasked, or in a race for the item (sync_links_in_connection, _clear_links).
THEOREM LinksOwned == Spec => OwnLinks
<1>1. ASSUME TInv, [Next]_vars, NEW i \in Items, linked[i] # None, linked'[i] # linked[i]
      PROVE  \E q \in Requests : /\ request'[q] # request[q]
                                 /\ \/ linked[i] \in request[q].tickets
                                    \/ i \in request[q].met
                                    \/ request[q].op = "record"
  <2>1. PICK q \in Requests : Busy(q) /\ \E c \in Head(request[q].todo) : Link(q, c) \/ Unlink(q, c)
    BY <1>1, LinksStay
  <2>2. PICK c \in Head(request[q].todo) : Link(q, c) \/ Unlink(q, c)
    BY <2>1
  <2>3. c.do \in {"link", "unlink"} /\ Done(q, c) /\ i \in c.at
    BY <1>1, <2>2 DEF Link, Unlink
  <2> QED BY <1>1, <2>1, <2>3, OwnCall
<1>2. TInv /\ [Next]_vars =>
        [\A i \in Items : linked[i] # None /\ linked'[i] # linked[i] =>
           \E q \in Requests : /\ request'[q] # request[q]
                               /\ \/ linked[i] \in request[q].tickets
                                  \/ i \in request[q].met
                                  \/ request[q].op = "record"]_vars
  BY <1>1
<1> QED BY <1>2, LinksInvariance, PTL DEF Spec, OwnLinks
=============================================================================
