---------------------------- MODULE ChatTasksProofs ----------------------------
(***************************************************************************)
(* Proofs about the chat of a session (ChatTasks.tla), for any posts,      *)
(* waiting requests and lengths of the streams, in a project and in the    *)
(* portal, with locks that expire and processes that die.                  *)
(***************************************************************************)
EXTENDS ChatTasks, FiniteSetTheorems, TLAPS

-----------------------------------------------------------------------------
(* The inductive invariant.                                                *)

\* What has been recorded by the place a post has reached; only the portal yields
\* again once it was interrupted, so only there a generator is ever destroyed.
Placed(p) ==
  /\ post[p].pc \in {"new", "check", "validate", "clear", "lock", "ask", "drop", "record"}
       => ~post[p].recorded /\ ~post[p].lost
  /\ post[p].pc \in {"item", "last"} => post[p].recorded
  /\ post[p].pc \in {"read"} \cup Yields => post[p].stream
  /\ post[p].failed => post[p].recorded
  /\ At(p, "drop") => portal \/ post[p].stream
  /\ At(p, "release") => post[p].recorded \/ post[p].lost
  /\ post[p].lost /\ ~post[p].recorded => post[p].pc \in {"release", "ended", "crashed"}
  /\ ~portal => /\ post[p].pc \in Yields => post[p].exits = 0
                /\ ~At(p, "destroyed")

\* The reply is in the session: recorded by the generator, or by the validation,
\* which ends the post.
Turned(p) == ~post[p].lost /\ (post[p].recorded \/ At(p, "ended"))

\* The session holds the reply of a post exactly when the post says so, and once.
Counted(p) ==
  /\ Turned(p) => \E i \in DOMAIN log : Turns(p) = {i}
  /\ ~Turned(p) => Turns(p) = {}

Over(p) == post[p].pc \in {"ended", "destroyed", "crashed"}

\* A stream that a reader found running can only have come to these places.
Streamed(p) ==
  /\ Over(p) \/ post[p].pc \in {"read", "release"} \cup Yields
  /\ post[p].pc \in {"release", "ended"} => post[p].recorded \/ post[p].lost

Watched ==
  \A g \in Readers : \A p \in reader[g].saw :
    /\ Streamed(p)
    /\ ~disturbed /\ reader[g].pc = "fetch" => Over(p)

Alive == ~disturbed => \A p \in Posts : ~At(p, "crashed")

CInv ==
  /\ TypeOK /\ (\A p \in Posts : Placed(p) /\ Counted(p))
  /\ LockGuards /\ Alive /\ Watched

-----------------------------------------------------------------------------
(* The log.                                                                *)

\* A message appended to the session is a turn of its own post at most.
LEMMA AppendTurns ==
  ASSUME NEW l \in Seq(Entries), NEW e \in Entries,
         NEW p \in Posts
  PROVE  LET T(s) == {i \in DOMAIN s : s[i] = [post |-> p, kind |-> "turn"]}
         IN  /\ Append(l, e) \in Seq(Entries)
             /\ Len(l) \in Nat /\ Len(Append(l, e)) = Len(l) + 1
             /\ DOMAIN l = 1 .. Len(l) /\ DOMAIN Append(l, e) = 1 .. Len(l) + 1
             /\ T(l) \subseteq 1 .. Len(l)
             /\ T(Append(l, e)) = T(l) \cup IF e = [post |-> p, kind |-> "turn"]
                                            THEN {Len(l) + 1} ELSE {}
  OBVIOUS

-----------------------------------------------------------------------------
(* What the step of a post does, in the terms of the invariant.            *)

Alone(p) == /\ \A q \in Posts \ {p} : post'[q] = post[q]
            /\ portal' = portal /\ reader' = reader /\ (disturbed => disturbed')

Counts(p) ==
  \/ log' = log /\ (Turned(p)' <=> Turned(p))
  \/ Record(p, TRUE) /\ ~Turned(p) /\ Turned(p)'
  \/ \E kind \in {"question", "break"} :
       log' = Append(log, [post |-> p, kind |-> kind]) /\ (Turned(p)' <=> Turned(p))

Locks(p) ==
  \/ disturbed'
  \/ lock' = lock /\ (InProgress(p)' <=> InProgress(p)) /\ ~At(p, "destroyed")'
  \/ lock' = lock /\ InProgress(p) /\ At(p, "destroyed")'
  \/ lock' = p /\ InProgress(p)' /\ \A q \in Posts : ~InProgress(q)
  \/ lock' = None /\ InProgress(p) /\ ~InProgress(p)'

Advances(p) ==
  /\ ~Over(p) /\ (post[p].recorded => post'[p].recorded)
  /\ Streamed(p) => Streamed(p)'
  /\ At(p, "crashed")' => disturbed'

Effect(p) ==
  /\ TypeOK' /\ Alone(p) /\ Placed(p)' /\ Counts(p) /\ Locks(p) /\ Advances(p)

LEMMA EffectKeeps ==
  ASSUME CInv, NEW p \in Posts, Effect(p)
  PROVE  CInv'
<1> USE DEF CInv, Effect
<1>1. \A q \in Posts : q # p =>
        /\ Placed(q)' <=> Placed(q)
        /\ Turned(q)' <=> Turned(q)
        /\ InProgress(q)' <=> InProgress(q)
        /\ Over(q)' <=> Over(q)
        /\ Streamed(q)' <=> Streamed(q)
        /\ \A pc \in Pcs : At(q, pc)' <=> At(q, pc)
  BY DEF Alone, Placed, Turned, InProgress, Over, Streamed, At
<1>2. ASSUME NEW q \in Posts
      PROVE  /\ Turns(q) \subseteq Turns(q)' /\ DOMAIN log \subseteq DOMAIN log'
             /\ Turns(q) \subseteq DOMAIN log
             /\ \/ Turns(q)' = Turns(q) /\ (Turned(q)' <=> Turned(q))
                \/ /\ q = p /\ ~Turned(q) /\ Turned(q)'
                   /\ \E i \in DOMAIN log' : Turns(q)' = Turns(q) \cup {i}
  <2>1. CASE log' = log /\ (Turned(p)' <=> Turned(p))
    BY <1>1, <2>1 DEF Turns
  <2>2. CASE Record(p, TRUE) /\ ~Turned(p) /\ Turned(p)'
    <3>1. log \in Seq(Entries) /\ [post |-> p, kind |-> "turn"] \in Entries
      BY DEF TypeOK, Entries
    <3>2. CASE q = p
      BY <2>2, <3>1, <3>2, AppendTurns DEF Record, Turns
    <3>3. CASE q # p
      BY <1>1, <2>2, <3>1, <3>3, AppendTurns DEF Record, Turns
    <3> QED BY <3>2, <3>3
  <2>3. ASSUME NEW kind \in {"question", "break"},
               log' = Append(log, [post |-> p, kind |-> kind]), Turned(p)' <=> Turned(p)
        PROVE  /\ Turns(q)' = Turns(q) /\ DOMAIN log \subseteq DOMAIN log'
               /\ Turns(q) \subseteq DOMAIN log /\ (Turned(q)' <=> Turned(q))
    <3>1. /\ log \in Seq(Entries) /\ [post |-> p, kind |-> kind] \in Entries
          /\ [post |-> p, kind |-> kind] # [post |-> q, kind |-> "turn"]
      BY DEF TypeOK, Entries
    <3> QED BY <1>1, <2>3, <3>1, AppendTurns DEF Turns
  <2> QED BY <2>1, <2>2, <2>3 DEF Counts
<1>3. \A q \in Posts : Placed(q)' /\ Counted(q)'
  <2> SUFFICES ASSUME NEW q \in Posts PROVE Placed(q)' /\ Counted(q)'
    OBVIOUS
  <2>1. Placed(q)'
    BY <1>1
  <2>2. Counted(q)'
    BY <1>2 DEF Counted
  <2> QED BY <2>1, <2>2
<1>4. LockGuards'
  <2> SUFFICES ASSUME ~disturbed', NEW q \in Posts
               PROVE  /\ InProgress(q)' => lock' = q
                      /\ lock' = q => InProgress(q)' \/ At(q, "destroyed")'
    BY DEF LockGuards
  <2>1. \A x \in Posts : /\ InProgress(x) => lock = x
                         /\ lock = x => InProgress(x) \/ At(x, "destroyed")
    BY DEF LockGuards, Alone
  <2>2. ~At(p, "destroyed")
    BY DEF Advances, Over, At
  <2>3. q # p => (At(q, "destroyed")' <=> At(q, "destroyed"))
    BY <1>1, <2>2 DEF At, Pcs
  <2> QED BY <1>1, <2>1, <2>2, <2>3, NoneAssumption DEF Locks, TypeOK
<1>5. Alive'
  BY <1>1 DEF Alive, Alone, Advances, Pcs
<1>6. Watched'
  <2> SUFFICES ASSUME NEW g \in Readers, NEW q \in reader[g].saw
               PROVE  Streamed(q)' /\ (~disturbed' /\ reader[g].pc = "fetch" => Over(q)')
    BY DEF Watched, Alone
  <2>1. q \in Posts /\ Streamed(q) /\ (~disturbed' /\ reader[g].pc = "fetch" => Over(q))
    BY DEF Watched, TypeOK, Alone
  <2> QED BY <1>1, <2>1 DEF Advances
<1> QED BY <1>3, <1>4, <1>5, <1>6

-----------------------------------------------------------------------------
(* The steps of a post have such an effect.                                *)

\* A post is somewhere else; where it is over, what its thread knew is gone.
Moved(p, pc) ==
  /\ post' \in [Posts -> Post]
  /\ \A q \in Posts \ {p} : post'[q] = post[q]
  /\ post'[p].pc = pc
  /\ post'[p].recorded = post[p].recorded /\ post'[p].lost = post[p].lost
  /\ post'[p].failed => post[p].failed
  /\ \/ pc \in {"ended", "refused", "destroyed", "crashed"}
     \/ post'[p].stream = post[p].stream /\ post'[p].exits = post[p].exits

LEMMA MoveFacts ==
  ASSUME TypeOK, NEW p \in Posts, NEW pc \in Pcs,
         Goto(p, pc) \/ (Leave(p, pc) /\ pc \in {"ended", "refused", "destroyed", "crashed"})
  PROVE  Moved(p, pc)
<1>1. post[p] \in Post /\ 0 \in 0 .. MaxLines /\ 0 \in 0 .. 2
  BY LinesAssumption DEF TypeOK
<1>2. CASE Goto(p, pc)
  <2>1. post'[p] = [post[p] EXCEPT !.pc = pc]
    BY <1>2 DEF TypeOK, Goto
  <2>2. post'[p] \in Post
    BY <1>1, <2>1 DEF Post
  <2>3. post' \in [Posts -> Post] /\ \A q \in Posts \ {p} : post'[q] = post[q]
    BY <1>2, <2>1, <2>2 DEF TypeOK, Goto
  <2> QED BY <1>1, <2>1, <2>3 DEF Post, Moved
<1>3. CASE Leave(p, pc) /\ pc \in {"ended", "refused", "destroyed", "crashed"}
  <2>1. post'[p] = [post[p] EXCEPT !.pc = pc, !.stream = FALSE, !.clear = FALSE, !.lines = 0,
                      !.failed = FALSE, !.exits = 0]
    BY <1>3 DEF TypeOK, Leave
  <2>2. post'[p] \in Post
    BY <1>1, <2>1 DEF Post
  <2>3. post' \in [Posts -> Post] /\ \A q \in Posts \ {p} : post'[q] = post[q]
    BY <1>3, <2>1, <2>2 DEF TypeOK, Leave
  <2> QED BY <1>1, <1>3, <2>1, <2>3 DEF Post, Moved
<1> QED BY <1>2, <1>3

LEMMA LogFacts ==
  ASSUME TypeOK, NEW p \in Posts,
         \/ log' = log
         \/ \E kind \in {"turn", "question", "break"} : log' = Append(log, [post |-> p, kind |-> kind])
  PROVE  log' \in Seq(Entries)
<1>1. \A kind \in {"turn", "question", "break"} : [post |-> p, kind |-> kind] \in Entries
  BY DEF Entries
<1>2. log \in Seq(Entries) /\ \A e \in Entries : Append(log, e) \in Seq(Entries)
  BY DEF TypeOK
<1> QED BY <1>1, <1>2

\* What the database makes of a reply.
LEMMA RecordLog ==
  ASSUME TypeOK, NEW p \in Posts, NEW stored \in BOOLEAN, Record(p, stored)
  PROVE  /\ log' \in Seq(Entries)
         /\ stored => Record(p, TRUE)
         /\ ~stored => log' = log \/ log' = Append(log, [post |-> p, kind |-> "question"])
BY LogFacts DEF Record

LEMMA BeginEffect ==
  ASSUME CInv, NEW p \in Posts, Begin(p)
  PROVE  Effect(p)
<1> USE DEF CInv, Begin, At
<1>1. PICK pc \in {"check", "validate"} : Goto(p, pc)
  OBVIOUS
<1>2. Moved(p, pc)
  BY <1>1, MoveFacts DEF Pcs
<1>3. TypeOK' /\ Alone(p)
  BY <1>2 DEF TypeOK, Alone, Moved
<1>4. Placed(p)' /\ Advances(p)
  BY <1>1, <1>2 DEF Placed, Yields, Advances, Over, Streamed, Moved
<1>5. Counts(p) /\ Locks(p)
  BY <1>1, <1>2 DEF Counts, Turned, Placed, Locks, InProgress, Yields, Moved
<1> QED BY <1>3, <1>4, <1>5 DEF Effect

LEMMA CheckEffect ==
  ASSUME CInv, NEW p \in Posts, Check(p)
  PROVE  Effect(p)
<1> USE DEF CInv, Check, At
<1>1. PICK pc \in {"refused", "lock", "validate"} : IF pc = "refused" THEN Leave(p, pc) ELSE Goto(p, pc)
  OBVIOUS
<1>2. Moved(p, pc)
  BY <1>1, MoveFacts DEF Pcs
<1>3. TypeOK' /\ Alone(p)
  BY <1>2 DEF TypeOK, Alone, Moved
<1>4. Placed(p)' /\ Advances(p)
  BY <1>1, <1>2 DEF Placed, Yields, Advances, Over, Streamed, Moved
<1>5. Counts(p) /\ Locks(p)
  BY <1>1, <1>2 DEF Counts, Turned, Placed, Locks, InProgress, Yields, Moved
<1> QED BY <1>3, <1>4, <1>5 DEF Effect

LEMMA ValidateEffect ==
  ASSUME CInv, NEW p \in Posts, Validate(p)
  PROVE  Effect(p)
<1> USE DEF CInv, Validate, At
<1>1. ASSUME NEW pc \in {"clear", "check", "lock", "refused"}, log' = log,
             IF pc = "refused" THEN Leave(p, pc) ELSE Goto(p, pc)
      PROVE  Effect(p)
  <2>1. Moved(p, pc)
    BY <1>1, MoveFacts DEF Pcs
  <2>2. TypeOK' /\ Alone(p)
    BY <1>1, <2>1 DEF TypeOK, Alone, Moved
  <2>3. Placed(p)' /\ Advances(p)
    BY <1>1, <2>1 DEF Placed, Yields, Advances, Over, Streamed, Moved
  <2>4. Counts(p) /\ Locks(p)
    BY <1>1, <2>1 DEF Counts, Turned, Placed, Locks, InProgress, Yields, Moved
  <2> QED BY <2>2, <2>3, <2>4 DEF Effect
<1>2. ASSUME NEW stored \in BOOLEAN, Record(p, stored),
             post' = [post EXCEPT ![p].lost = ~stored, ![p].pc = "ended"]
      PROVE  Effect(p)
  <2>1. post[p] \in Post /\ post'[p] = [post[p] EXCEPT !.lost = ~stored, !.pc = "ended"]
    BY <1>2 DEF TypeOK
  <2>2. post'[p] \in Post /\ post'[p].pc = "ended" /\ post'[p].lost = ~stored
        /\ post'[p].recorded = post[p].recorded /\ post'[p].failed = post[p].failed
    BY <2>1 DEF Post, Pcs
  <2>3. post' \in [Posts -> Post] /\ \A q \in Posts \ {p} : post'[q] = post[q]
    BY <1>2, <2>2 DEF TypeOK
  <2>4. TypeOK' /\ Alone(p)
    <3>1. log' \in Seq(Entries)
      BY <1>2, RecordLog
    <3>2. UNCHANGED <<portal, lock, reader, disturbed>>
      OBVIOUS
    <3> QED BY <2>3, <3>1, <3>2 DEF TypeOK, Alone
  <2>5. Placed(p)' /\ Advances(p)
    BY <2>2, <2>3 DEF Placed, Yields, Advances, Over, Streamed
  <2>6. Counts(p)
    BY <1>2, <2>2, RecordLog DEF Counts, Turned, Placed
  <2>7. Locks(p)
    BY <2>2 DEF Locks, InProgress, Yields
  <2> QED BY <2>4, <2>5, <2>6, <2>7 DEF Effect
<1> QED BY <1>1, <1>2

LEMMA ClearContextEffect ==
  ASSUME CInv, NEW p \in Posts, ClearContext(p)
  PROVE  Effect(p)
<1> USE DEF CInv, ClearContext, At
<1>1. PICK pc \in {"check", "lock", "refused"} :
        IF pc = "refused" THEN Leave(p, pc) /\ log' = log
        ELSE Goto(p, pc) /\ log' = Append(log, [post |-> p, kind |-> "break"])
  OBVIOUS
<1>2. Moved(p, pc)
  BY <1>1, MoveFacts DEF Pcs
<1>3. TypeOK' /\ Alone(p)
  BY <1>1, <1>2, LogFacts DEF TypeOK, Alone, Moved
<1>4. Placed(p)' /\ Advances(p)
  BY <1>1, <1>2 DEF Placed, Yields, Advances, Over, Streamed, Moved
<1>5. Counts(p) /\ Locks(p)
  BY <1>1, <1>2 DEF Counts, Turned, Placed, Locks, InProgress, Yields, Moved
<1> QED BY <1>3, <1>4, <1>5 DEF Effect

LEMMA AskEffect ==
  ASSUME CInv, NEW p \in Posts, Ask(p)
  PROVE  Effect(p)
<1> USE DEF CInv, Ask, At
<1>1. PICK pc \in {"read", "drop", "record"} :
        /\ Goto(p, pc)
        /\ IF post[p].stream THEN pc # "record" ELSE pc # "read" /\ (portal <=> pc = "drop")
  OBVIOUS
<1>2. Moved(p, pc)
  BY <1>1, MoveFacts DEF Pcs
<1>3. TypeOK' /\ Alone(p)
  BY <1>2 DEF TypeOK, Alone, Moved
<1>4. Placed(p)' /\ Advances(p)
  BY <1>1, <1>2 DEF Placed, Yields, Advances, Over, Streamed, Moved
<1>5. Counts(p) /\ Locks(p)
  BY <1>1, <1>2 DEF Counts, Turned, Placed, Locks, InProgress, Yields, Moved
<1> QED BY <1>3, <1>4, <1>5 DEF Effect

LEMMA SetLockEffect ==
  ASSUME CInv, NEW p \in Posts, SetLock(p)
  PROVE  Effect(p)
<1> USE DEF CInv, SetLock, At
<1>1. Moved(p, "ask")
  BY MoveFacts DEF Pcs
<1>2. TypeOK' /\ Alone(p)
  BY <1>1 DEF TypeOK, Alone, Moved
<1>3. Placed(p)' /\ Advances(p)
  BY <1>1 DEF Placed, Yields, Advances, Over, Streamed, Moved
<1>4. Counts(p) /\ Locks(p)
  BY <1>1 DEF Counts, Turned, Locks, InProgress, Moved
<1> QED BY <1>2, <1>3, <1>4 DEF Effect

LEMMA DropEffect ==
  ASSUME CInv, NEW p \in Posts, Drop(p)
  PROVE  Effect(p)
<1> USE DEF CInv, Drop, At
<1>1. Moved(p, "record")
  BY MoveFacts DEF Pcs
<1>2. TypeOK' /\ Alone(p)
  BY <1>1 DEF TypeOK, Alone, Moved
<1>3. Placed(p)' /\ Advances(p)
  BY <1>1 DEF Placed, Yields, Advances, Over, Streamed, Moved
<1>4. Counts(p)
  BY <1>1 DEF Counts, Turned, Moved
<1>5. Locks(p)
  BY <1>1 DEF Placed, Locks, InProgress, Yields, Moved, Alone
<1> QED BY <1>2, <1>3, <1>4, <1>5 DEF Effect

LEMMA ReleaseEffect ==
  ASSUME CInv, NEW p \in Posts, Release(p)
  PROVE  Effect(p)
<1> USE DEF CInv, Release, At
<1>1. Moved(p, "ended")
  BY MoveFacts DEF Pcs
<1>2. TypeOK' /\ Alone(p)
  BY <1>1 DEF TypeOK, Alone, Moved
<1>3. Placed(p)' /\ Advances(p)
  BY <1>1 DEF Placed, Yields, Advances, Over, Streamed, Moved
<1>4. Counts(p) /\ Locks(p)
  BY <1>1 DEF Counts, Turned, Placed, Locks, InProgress, Yields, Moved
<1> QED BY <1>2, <1>3, <1>4 DEF Effect

\* The reply of a post is recorded where it is, or refused by the database.
Recorded(p, pc, stored, r) ==
  /\ Record(p, stored) /\ post' = [post EXCEPT ![p] = r]
  /\ r.pc = pc /\ r.recorded /\ r.lost = ~stored
  /\ r.stream = post[p].stream /\ r.exits = post[p].exits /\ r.lines = post[p].lines

LEMMA RecordForFacts ==
  ASSUME TypeOK, NEW p \in Posts, NEW pc \in Pcs, NEW failed \in BOOLEAN, RecordFor(p, pc, failed)
  PROVE  \E stored \in BOOLEAN, r \in Post : Recorded(p, pc, stored, r)
<1>1. PICK stored \in BOOLEAN :
        /\ Record(p, stored)
        /\ post' = [post EXCEPT ![p].recorded = TRUE, ![p].lost = ~stored,
                      ![p].failed = failed, ![p].pc = pc]
  BY DEF RecordFor
<1> DEFINE r == [post[p] EXCEPT !.recorded = TRUE, !.lost = ~stored, !.failed = failed, !.pc = pc]
<1>2. post[p] \in Post /\ r \in Post
  BY DEF TypeOK, Post
<1>3. /\ r.pc = pc /\ r.recorded /\ r.lost = ~stored
      /\ r.stream = post[p].stream /\ r.exits = post[p].exits /\ r.lines = post[p].lines
  BY <1>2 DEF Post
<1>4. post' = [post EXCEPT ![p] = r]
  BY <1>1 DEF TypeOK
<1>5. Recorded(p, pc, stored, r)
  BY <1>1, <1>3, <1>4 DEF Recorded
<1> HIDE DEF r
<1> QED BY <1>2, <1>5

LEMMA RecordReplyEffect ==
  ASSUME CInv, NEW p \in Posts, RecordReply(p)
  PROVE  Effect(p)
<1> USE DEF CInv, RecordReply, At
<1> DEFINE pc == IF portal \/ post[p].stream THEN "ended" ELSE "release"
<1>1. PICK stored \in BOOLEAN, r \in Post : Recorded(p, pc, stored, r)
  <2>1. pc \in Pcs
    BY DEF Pcs
  <2>2. RecordFor(p, pc, FALSE)
    OBVIOUS
  <2> HIDE DEF pc
  <2> QED BY ONLY <2>1, <2>2, TypeOK, p \in Posts, RecordForFacts
<1> USE DEF Recorded
<1>2. post' \in [Posts -> Post] /\ post'[p] = r /\ \A q \in Posts \ {p} : post'[q] = post[q]
  BY <1>1 DEF TypeOK
<1>3. TypeOK' /\ Alone(p)
  BY <1>1, <1>2, RecordLog DEF TypeOK, Alone
<1>4. Placed(p)' /\ Advances(p)
  BY <1>1, <1>2 DEF Placed, Yields, Advances, Over, Streamed
<1>5. Counts(p)
  BY <1>1, <1>2, RecordLog DEF Counts, Turned, Placed
<1>6. Locks(p)
  BY <1>1, <1>2 DEF Locks, InProgress, Yields
<1> QED BY <1>3, <1>4, <1>5, <1>6 DEF Effect

\* In the chat of a project a generator that was closed yields no more.
LEMMA OnwardFacts ==
  ASSUME CInv, NEW p \in Posts, NEW exits \in 0 .. 2, NEW pc \in {"yielded", "item", "last", "read", "release"}
  PROVE  LET on == Onward(p, pc, exits)
         IN  /\ on \in {"read", "release"} \cup Yields
             /\ pc \in {"read", "yielded"} => on \in {"read", "yielded"}
             /\ pc = "release" => on = "release"
             /\ ~portal /\ on \in Yields => exits = 0
  BY DEF Onward, Yields, CInv, TypeOK

\* A line of the stream, whatever it brings: the reply is recorded at most once.
LEMMA ReadEffect ==
  ASSUME CInv, NEW p \in Posts,
         NEW pc \in {"yielded", "item", "last", "release"}, NEW r \in Post,
         At(p, "read"), post' = [post EXCEPT ![p] = r],
         r.pc = Offer(p, pc), r.stream = post[p].stream, r.exits = post[p].exits,
         \/ r.recorded = post[p].recorded /\ r.lost = post[p].lost /\ log' = log
         \/ ~post[p].recorded /\ ~r.recorded /\ r.lost /\ pc = "release" /\ log' = log
         \/ /\ ~post[p].recorded /\ r.recorded
            /\ \E stored \in BOOLEAN : Record(p, stored) /\ r.lost = ~stored,
         pc \in {"item", "last"} => r.recorded,
         pc = "release" => r.recorded \/ r.lost, r.failed => r.recorded,
         UNCHANGED <<portal, lock, reader, disturbed>>
  PROVE  Effect(p)
<1> USE DEF CInv, At
<1>1. post'[p] = r /\ \A q \in Posts \ {p} : post'[q] = post[q]
  BY DEF TypeOK
<1>2. /\ r.pc \in {"read", "release"} \cup Yields
      /\ pc = "yielded" => r.pc \in {"read", "yielded"}
      /\ pc = "release" => r.pc = "release"
      /\ ~portal /\ r.pc \in Yields => r.exits = 0
  BY OnwardFacts DEF Offer, TypeOK, Post
<1>3. TypeOK' /\ Alone(p)
  <2>1. log' \in Seq(Entries)
    BY RecordLog DEF TypeOK
  <2> QED BY <1>1, <2>1 DEF TypeOK, Alone
<1>4. ~post[p].recorded => ~post[p].lost
  BY DEF Placed
<1>5. Placed(p)'
  BY <1>1, <1>2, <1>4 DEF Placed, Yields
<1>6. Counts(p)
  <2>1. CASE r.recorded = post[p].recorded /\ r.lost = post[p].lost /\ log' = log
    BY <1>1, <1>2, <2>1 DEF Counts, Turned, Yields
  <2>2. CASE ~post[p].recorded /\ ~r.recorded /\ r.lost /\ log' = log
    BY <1>1, <2>2 DEF Counts, Turned
  <2>3. ASSUME ~post[p].recorded, r.recorded, NEW stored \in BOOLEAN, Record(p, stored), r.lost = ~stored
        PROVE  Counts(p)
    BY <1>1, <2>3, RecordLog DEF Counts, Turned
  <2> QED BY <2>1, <2>2, <2>3
<1>7. Locks(p)
  BY <1>1, <1>2 DEF Locks, InProgress, Yields
<1>8. Advances(p)
  BY <1>1, <1>2, <1>5 DEF Advances, Over, Streamed, Placed, Yields
<1> QED BY <1>3, <1>5, <1>6, <1>7, <1>8 DEF Effect

\* From one place in the generator to another, at most interrupted once more.
LEMMA GoOnEffect ==
  ASSUME CInv, NEW p \in Posts, NEW pc \in {"read", "last", "release"}, NEW r \in Post,
         post[p].pc \in Yields, pc # "read" => post[p].recorded,
         post' = [post EXCEPT ![p] = r],
         r.pc = Onward(p, pc, r.exits), r.stream = post[p].stream,
         r.recorded = post[p].recorded, r.lost = post[p].lost, r.failed = post[p].failed,
         UNCHANGED <<portal, lock, log, reader, disturbed>>
  PROVE  Effect(p)
<1> USE DEF CInv, At
<1>1. r.exits \in 0 .. 2
  BY DEF Post
<1>2. /\ r.pc \in {"read", "release"} \cup Yields
      /\ pc = "read" => r.pc \in {"read", "yielded"}
      /\ ~portal /\ r.pc \in Yields => r.exits = 0
  BY <1>1, OnwardFacts
<1>3. post' \in [Posts -> Post] /\ post'[p] = r /\ \A q \in Posts \ {p} : post'[q] = post[q]
  BY DEF TypeOK
<1>4. TypeOK' /\ Alone(p)
  BY <1>3 DEF TypeOK, Alone
<1>5. Placed(p)'
  BY <1>2, <1>3 DEF Placed, Yields
<1>6. Counts(p)
  BY <1>2, <1>3 DEF Counts, Turned, Yields
<1>7. Locks(p) /\ Advances(p)
  BY <1>2, <1>3 DEF Locks, Advances, InProgress, Over, Streamed, Yields
<1> QED BY <1>4, <1>5, <1>6, <1>7 DEF Effect

LEMMA StreamEffect ==
  ASSUME CInv, NEW p \in Posts, Stream(p)
  PROVE  Effect(p)
<1> USE DEF CInv
<1>1. post[p] \in Post /\ post[p].lines \in 0 .. MaxLines /\ MaxLines \in Nat
  BY LinesAssumption DEF TypeOK, Post
<1>2. \A pc \in {"yielded", "item", "last", "release"} : Offer(p, pc) \in Pcs
  BY <1>1, OnwardFacts DEF Offer, Pcs, Yields, Post
<1>3. CASE ReadLine(p)
  <2> DEFINE r == [post[p] EXCEPT !.lines = @ - 1, !.pc = Offer(p, "yielded")]
  <2>1. r \in Post
    <3>1. post[p].lines - 1 \in 0 .. MaxLines
      BY <1>1, <1>3 DEF ReadLine
    <3> QED BY <1>1, <1>2, <3>1 DEF Post
  <2>2. post' = [post EXCEPT ![p] = r] /\ r.recorded = post[p].recorded /\ r.lost = post[p].lost
        /\ r.failed = post[p].failed /\ r.pc = Offer(p, "yielded") /\ r.stream = post[p].stream /\ r.exits = post[p].exits
    BY <1>1, <1>3 DEF ReadLine, TypeOK, Post
  <2> QED BY <1>3, <2>1, <2>2, ReadEffect DEF ReadLine, Placed
<1>4. CASE ReadResults(p) \/ ReadError(p)
  <2> DEFINE pc == Offer(p, "yielded")
  <2>1. PICK stored \in BOOLEAN, r \in Post : Recorded(p, pc, stored, r)
    <3>1. pc \in Pcs /\ (RecordFor(p, pc, FALSE) \/ RecordFor(p, pc, TRUE))
      BY <1>2, <1>4 DEF ReadResults, ReadError
    <3> HIDE DEF pc
    <3> QED BY <3>1, RecordForFacts
  <2>2. /\ At(p, "read") /\ ~post[p].recorded /\ UNCHANGED <<portal, lock, reader, disturbed>>
    BY <1>4 DEF ReadResults, ReadError
  <2> QED BY <2>1, <2>2, ReadEffect DEF Recorded
<1>6. CASE ReadBreaks(p)
  <2>1. CASE post[p].recorded
    <3> DEFINE r == [post[p] EXCEPT !.pc = Offer(p, "last")]
    <3>1. r \in Post
      BY <1>1, <1>2 DEF Post
    <3>2. post' = [post EXCEPT ![p] = r] /\ r.recorded /\ r.lost = post[p].lost /\ log' = log
          /\ r.pc = Offer(p, "last") /\ r.stream = post[p].stream /\ r.exits = post[p].exits
      BY <1>1, <1>6, <2>1 DEF ReadBreaks, TypeOK, Post, Goto
    <3> QED BY <1>6, <2>1, <3>1, <3>2, ReadEffect DEF ReadBreaks
  <2>2. CASE ~post[p].recorded
    <3> DEFINE pc == Offer(p, "item")
    <3>1. PICK stored \in BOOLEAN, r \in Post : Recorded(p, pc, stored, r)
      <4>1. pc \in Pcs /\ RecordFor(p, pc, FALSE)
        BY <1>2, <1>6, <2>2 DEF ReadBreaks
      <4> HIDE DEF pc
      <4> QED BY <4>1, RecordForFacts
    <3>2. /\ At(p, "read") /\ UNCHANGED <<portal, lock, reader, disturbed>>
      BY <1>6 DEF ReadBreaks
    <3> QED BY <2>2, <3>1, <3>2, ReadEffect DEF Recorded
  <2> QED BY <2>1, <2>2
<1>7. CASE ReadEnd(p)
  <2> DEFINE lost == post[p].lost \/ ~post[p].recorded
             r == [post[p] EXCEPT !.lost = lost, !.pc = "release"]
  <2>1. r \in Post /\ Offer(p, "release") = "release" /\ lost \in BOOLEAN
    BY <1>1 DEF Post, Pcs, Offer, Onward, Yields
  <2>2. post' = [post EXCEPT ![p] = r] /\ log' = log /\ At(p, "read")
        /\ UNCHANGED <<portal, lock, reader, disturbed>>
    BY <1>7 DEF ReadEnd, TypeOK
  <2>3. r.recorded = post[p].recorded /\ r.lost = lost
        /\ r.failed = post[p].failed /\ r.pc = "release" /\ r.stream = post[p].stream /\ r.exits = post[p].exits
    BY <1>1 DEF Post
  <2>4. post[p].recorded => lost = post[p].lost
    BY <1>1 DEF Post
  <2>5. post[p].failed => post[p].recorded
    BY DEF Placed
  <2>6. ~post[p].recorded => lost
    OBVIOUS
  <2>7. post[p].recorded \in BOOLEAN
    BY <1>1 DEF Post
  <2> HIDE DEF r, lost
  <2> QED BY <2>1, <2>2, <2>3, <2>4, <2>5, <2>6, <2>7, ReadEffect
<1>8. ASSUME post[p].pc \in Yields
      PROVE  /\ After(post[p].pc) \in {"read", "last", "release"}
             /\ After(post[p].pc) # "read" => post[p].recorded
  BY <1>8 DEF After, Yields, Placed
<1>9. CASE Resume(p)
  <2> DEFINE pc == IF At(p, "yielded") /\ post[p].failed THEN "last" ELSE After(post[p].pc)
             r  == [post[p] EXCEPT !.pc = pc]
  <2>1. /\ post[p].pc \in Yields /\ post[p].exits = 0
        /\ pc \in {"read", "last", "release"} /\ (pc # "read" => post[p].recorded)
    BY <1>8, <1>9 DEF Resume, Placed
  <2> HIDE DEF pc
  <2>2. /\ r \in Post /\ r.pc = pc /\ r.exits = 0 /\ r.stream = post[p].stream
        /\ r.recorded = post[p].recorded /\ r.lost = post[p].lost /\ r.failed = post[p].failed
    BY <1>1, <2>1 DEF Post, Pcs, Yields
  <2>3. post' = [post EXCEPT ![p] = r] /\ UNCHANGED <<portal, lock, log, reader, disturbed>>
    BY <1>9 DEF Resume, Goto, pc, TypeOK
  <2>4. Onward(p, pc, r.exits) = pc
    BY <2>2 DEF Onward
  <2> HIDE DEF r
  <2> QED BY <2>1, <2>2, <2>3, <2>4, GoOnEffect
<1>10. CASE Interrupt(p)
  <2> DEFINE pc == After(post[p].pc)
             r  == [post[p] EXCEPT !.exits = @ + 1, !.pc = Onward(p, pc, post[p].exits + 1)]
  <2>1. /\ post[p].pc \in Yields /\ post[p].exits + 1 \in 0 .. 2
        /\ pc \in {"read", "last", "release"} /\ (pc # "read" => post[p].recorded)
    BY <1>1, <1>8, <1>10 DEF Interrupt, Post
  <2> HIDE DEF pc
  <2>2. Onward(p, pc, post[p].exits + 1) \in Pcs
    BY <2>1, OnwardFacts DEF Pcs, Yields
  <2>3. /\ r \in Post /\ r.pc = Onward(p, pc, r.exits) /\ r.stream = post[p].stream
        /\ r.recorded = post[p].recorded /\ r.lost = post[p].lost /\ r.failed = post[p].failed
    BY <1>1, <2>1, <2>2 DEF Post
  <2>4. post' = [post EXCEPT ![p] = r] /\ UNCHANGED <<portal, lock, log, reader, disturbed>>
    BY <1>10 DEF Interrupt, pc, TypeOK
  <2> HIDE DEF r
  <2> QED BY <2>1, <2>3, <2>4, GoOnEffect
<1>11. CASE Destroy(p)
  <2> USE DEF Destroy, At
  <2>1. Moved(p, "destroyed")
    BY <1>11, MoveFacts DEF Pcs
  <2>2. TypeOK' /\ Alone(p)
    BY <1>11, <2>1 DEF TypeOK, Alone, Moved
  <2>3. Placed(p)' /\ Advances(p)
    BY <1>11, <2>1 DEF Placed, Yields, Advances, Over, Streamed, Moved
  <2>4. Counts(p) /\ Locks(p)
    BY <1>11, <2>1 DEF Counts, Turned, Yields, Locks, InProgress, Moved
  <2> QED BY <2>2, <2>3, <2>4 DEF Effect
<1> QED BY <1>3, <1>4, <1>6, <1>7, <1>9, <1>10, <1>11 DEF Stream

LEMMA CrashEffect ==
  ASSUME CInv, NEW p \in Posts, Crash(p)
  PROVE  Effect(p)
<1> USE DEF CInv, Crash, At
<1>1. Moved(p, "crashed")
  BY MoveFacts DEF Pcs
<1>2. TypeOK' /\ Alone(p)
  BY <1>1 DEF TypeOK, Alone, Moved
<1>3. Placed(p)' /\ Advances(p)
  BY <1>1 DEF Placed, Yields, Advances, Over, Streamed, Moved
<1>4. Counts(p) /\ Locks(p)
  BY <1>1 DEF Counts, Turned, Locks, Moved
<1> QED BY <1>2, <1>3, <1>4 DEF Effect

-----------------------------------------------------------------------------
(* The steps that are no step of a post.                                   *)

LEMMA ExpireStep == CInv /\ Expire => CInv'
<1> SUFFICES ASSUME CInv, Expire PROVE CInv'
  OBVIOUS
<1> USE DEF CInv, Expire
<1>1. TypeOK' /\ \A p \in Posts : Placed(p)' /\ Counted(p)'
  BY DEF TypeOK, Placed, Counted, Turned, Turns, At
<1>2. LockGuards' /\ Alive'
  BY DEF LockGuards, Alive
<1>3. Watched'
  BY DEF Watched, Streamed, Over, At
<1> QED BY <1>1, <1>2, <1>3

\* The lock is gone when no stream is in progress any more.
LEMMA ReaderStep ==
  ASSUME CInv, NEW g \in Readers, BeginGet(g) \/ SeeNoLock(g) \/ FetchLast(g)
  PROVE  CInv'
<1> USE DEF CInv
<1>1. UNCHANGED <<portal, lock, log, post, disturbed>>
  BY DEF BeginGet, SeeNoLock, FetchLast
<1>3. TypeOK'
  <2>1. CASE BeginGet(g)
    BY <1>1, <2>1 DEF TypeOK, BeginGet, Streaming
  <2>2. CASE SeeNoLock(g)
    BY <1>1, <2>2 DEF TypeOK, SeeNoLock
  <2>3. CASE FetchLast(g)
    BY <1>1, <2>3 DEF TypeOK, FetchLast
  <2> QED BY <2>1, <2>2, <2>3
<1>4. /\ \A p \in Posts : Placed(p)' /\ Counted(p)'
      /\ LockGuards' /\ Alive'
  BY <1>1 DEF Placed, Counted, Turned, Turns, LockGuards, Alive, InProgress, At
<1>5. \A f \in Readers \ {g} : reader'[f] = reader[f]
  BY DEF BeginGet, SeeNoLock, FetchLast, TypeOK
<1>6. \A p \in Posts : (Streamed(p)' <=> Streamed(p)) /\ (Over(p)' <=> Over(p))
  BY <1>1 DEF Streamed, Over
<1>7. \A f \in Readers : reader[f].saw \subseteq Posts
  BY DEF TypeOK
<1>8. \/ reader'[g].pc = "wait" /\ reader'[g].saw = Streaming
      \/ reader'[g].pc = "fetch" /\ lock = None /\ reader'[g].saw = reader[g].saw
      \/ reader'[g].pc = "done" /\ reader'[g].saw = {}
  BY DEF BeginGet, SeeNoLock, FetchLast, TypeOK
<1>9. Watched'
  <2>1. \A p \in Streaming : p \in Posts /\ Streamed(p)
    BY DEF Streaming, Streamed, Yields
  <2>2. ASSUME ~disturbed, lock = None, NEW p \in reader[g].saw PROVE Over(p)
    <3>1. p \in Posts /\ Streamed(p) /\ ~InProgress(p)
      BY <1>7, <2>2, NoneAssumption DEF Watched, LockGuards
    <3> QED BY <3>1 DEF Streamed, InProgress
  <2>3. \A p \in reader'[g].saw :
          p \in Posts /\ Streamed(p) /\ (~disturbed /\ reader'[g].pc = "fetch" => Over(p))
    BY <1>7, <1>8, <2>1, <2>2 DEF Watched
  <2>4. \A f \in Readers \ {g} : \A p \in reader[f].saw :
          p \in Posts /\ Streamed(p) /\ (~disturbed /\ reader[f].pc = "fetch" => Over(p))
    BY <1>7 DEF Watched
  <2> QED BY <1>1, <1>5, <1>6, <2>3, <2>4 DEF Watched
<1> QED BY <1>3, <1>4, <1>9

-----------------------------------------------------------------------------
(* The theorems.                                                           *)

LEMMA ChatInit == Init => CInv
<1> SUFFICES ASSUME Init PROVE CInv
  OBVIOUS
<1> USE DEF Init
<1>1. post \in [Posts -> Post] /\ \A p \in Posts : post[p].pc = "new" /\ ~post[p].recorded /\ ~post[p].lost /\ ~post[p].failed
  <2>1. \A p \in Posts : post[p] \in [pc : {"new"}, stream : BOOLEAN, clear : BOOLEAN,
                             lines : {MaxLines}, recorded : {FALSE}, lost : {FALSE}, failed : {FALSE}, exits : {0}]
    OBVIOUS
  <2>2. \A p \in Posts : post[p] \in Post /\ post[p].pc = "new" /\ ~post[p].recorded /\ ~post[p].lost /\ ~post[p].failed
    <3> TAKE p \in Posts
    <3>1. MaxLines \in 0 .. MaxLines
      BY LinesAssumption
    <3>2. PICK s \in BOOLEAN, c \in BOOLEAN :
            post[p] = [pc |-> "new", stream |-> s, clear |-> c, lines |-> MaxLines,
                       recorded |-> FALSE, lost |-> FALSE, failed |-> FALSE, exits |-> 0]
      BY <2>1
    <3>3. post[p].pc = "new" /\ ~post[p].recorded /\ ~post[p].lost /\ ~post[p].failed
      BY <3>2
    <3>4. post[p] \in Post
      BY <3>1, <3>2 DEF Post, Pcs
    <3> QED BY <3>3, <3>4
  <2>3. post = [p \in Posts |-> post[p]]
    OBVIOUS
  <2> QED BY <2>2, <2>3
<1>2. DOMAIN log = {} /\ log \in Seq(Entries)
  OBVIOUS
<1>3. TypeOK
  BY <1>1, <1>2 DEF TypeOK
<1>4. \A p \in Posts : Placed(p) /\ Counted(p)
  BY <1>1, <1>2 DEF Placed, Counted, Turned, Turns, At, Yields
<1>5. LockGuards /\ Alive /\ Watched
  BY <1>1, NoneAssumption DEF LockGuards, Alive, Watched, InProgress, Yields, At
<1> QED BY <1>3, <1>4, <1>5 DEF CInv

LEMMA ChatNext == CInv /\ [Next]_vars => CInv'
<1> SUFFICES ASSUME CInv, [Next]_vars PROVE CInv'
  OBVIOUS
<1>1. CASE UNCHANGED vars
  BY <1>1 DEF vars, CInv, TypeOK, Placed, Counted, Turned, Turns, LockGuards, Alive, Watched,
         InProgress, Streamed, Over, At
<1>2. ASSUME NEW p \in Posts, Begin(p) \/ Proceed(p) \/ Crash(p) PROVE CInv'
  <2>1. Effect(p)
    BY <1>2, BeginEffect, CheckEffect, ValidateEffect, ClearContextEffect, SetLockEffect, AskEffect,
       DropEffect, RecordReplyEffect, ReleaseEffect, StreamEffect, CrashEffect DEF Proceed
  <2> QED BY <2>1, EffectKeeps
<1>3. CASE Expire
  BY <1>3, ExpireStep
<1>4. ASSUME NEW g \in Readers, BeginGet(g) \/ SeeNoLock(g) \/ FetchLast(g) PROVE CInv'
  BY <1>4, ReaderStep
<1> QED BY <1>1, <1>2, <1>3, <1>4 DEF Next

\* All of it holds in every state of the session.
THEOREM ChatInvariance == Spec => []CInv
  BY ChatInit, ChatNext, PTL DEF Spec

\* The variables keep their types.
THEOREM ChatTypes == Spec => []TypeOK
<1>1. CInv => TypeOK
  BY DEF CInv
<1> QED BY <1>1, ChatInvariance, PTL

\* No reply is recorded twice, whatever breaks while the reply is streamed, and a
\* post of a project that has ended has its reply unless the stream brought none or
\* the database refused it; then it has none.
THEOREM OneReply == Spec => []OneReplyEach
<1>1. CInv => OneReplyEach
  <2> SUFFICES ASSUME CInv, NEW p \in Posts
               PROVE  /\ Cardinality(Turns(p)) <= 1
                      /\ ~portal /\ post[p].pc \in {"ended", "destroyed"} =>
                           Cardinality(Turns(p)) = IF post[p].lost THEN 0 ELSE 1
    BY DEF OneReplyEach, Concluded
  <2>1. CASE Turned(p)
    <3>1. PICK i : Turns(p) = {i}
      BY <2>1 DEF CInv, Counted
    <3>2. Cardinality(Turns(p)) = 1
      BY <3>1, FS_Singleton
    <3> QED BY <2>1, <3>2 DEF Turned
  <2>2. CASE ~Turned(p)
    <3>1. Turns(p) = {}
      BY <2>2 DEF CInv, Counted
    <3>2. Cardinality(Turns(p)) = 0
      BY <3>1, FS_EmptySet
    <3> QED BY <2>2, <3>2 DEF CInv, Placed, Turned, At
  <2> QED BY <2>1, <2>2
<1> QED BY <1>1, ChatInvariance, PTL

\* The session is locked exactly while a reply is on its way, as long as no lock
\* expired, no process died and no two posts were let in at once.
THEOREM LockIsExact == Spec => []LockGuards
<1>1. CInv => LockGuards
  BY DEF CInv
<1> QED BY <1>1, ChatInvariance, PTL

\* The reply of a stream is there when a request that waited for it answers, unless it
\* is lost or the generator was destroyed.
THEOREM ReaderWaits == Spec => GetWaits
<1> DEFINE There(g) == \A p \in reader[g].saw :
                         \/ At(p, "destroyed") /\ ~post[p].recorded
                         \/ post[p].lost
                         \/ Turns(p) # {}
<1>1. ASSUME CInv, ~disturbed, NEW g \in Readers, reader[g].pc = "fetch"
      PROVE  There(g)
  <2> SUFFICES ASSUME NEW p \in reader[g].saw, ~post[p].lost,
                      ~ (At(p, "destroyed") /\ ~post[p].recorded)
               PROVE  Turns(p) # {}
    OBVIOUS
  <2>1. p \in Posts /\ Over(p) /\ Streamed(p) /\ ~At(p, "crashed")
    BY <1>1 DEF CInv, TypeOK, Watched, Alive
  <2>2. Turned(p)
    BY <2>1 DEF Over, Streamed, Turned, At
  <2> QED BY <1>1, <2>1, <2>2 DEF CInv, Counted
<1> DEFINE Waits == ~disturbed => \A g \in Readers :
                      reader[g].pc = "fetch" /\ reader'[g].pc = "done" => There(g)
<1>2. ASSUME CInv, [Next]_vars PROVE [Waits]_vars
  <2> HIDE DEF There
  <2> QED BY <1>1, <1>2
<1> QED BY <1>2, ChatInvariance, PTL DEF Spec, GetWaits

-----------------------------------------------------------------------------
(* Every step of a post takes it nearer to its end.                        *)

\* The rank in terms of what it depends on.
RankOf(inPortal, pc, lines, recorded) ==
  LET rounds == 4 * (lines + IF recorded THEN 0 ELSE 1)
  IN  CASE pc = "new"       -> rounds + 20
        [] pc = "validate"  -> rounds + IF inPortal THEN 19 ELSE 17
        [] pc = "clear"     -> rounds + IF inPortal THEN 18 ELSE 16
        [] pc = "check"     -> rounds + IF inPortal THEN 17 ELSE 18
        [] pc = "lock"      -> rounds + 15
        [] pc = "ask"       -> rounds + 14
        [] pc = "yielded"   -> rounds + 10
        [] pc = "read"      -> rounds + 8
        [] pc = "item"      -> 8
        [] pc = "last"      -> 7
        [] pc = "drop"      -> 6
        [] pc = "record"    -> 4
        [] pc = "release"   -> 2
        [] OTHER            -> 0

LEMMA RankFacts ==
  ASSUME CInv, NEW p \in Posts, portal' = portal
  PROVE  /\ Rank(p) = RankOf(portal, post[p].pc, post[p].lines, post[p].recorded)
         /\ Rank(p)' = RankOf(portal, post'[p].pc, post'[p].lines, post'[p].recorded)
         /\ post[p].lines \in Nat /\ post[p].recorded \in BOOLEAN
<1>1. /\ Rank(p) = RankOf(portal, post[p].pc, post[p].lines, post[p].recorded)
      /\ Rank(p)' = RankOf(portal, post'[p].pc, post'[p].lines, post'[p].recorded)
  BY DEF Rank, RankOf, At
<1>2. post[p].lines \in 0 .. MaxLines /\ MaxLines \in Nat /\ post[p].recorded \in BOOLEAN
  BY LinesAssumption DEF CInv, TypeOK, Post
<1> QED BY <1>1, <1>2

\* A step that goes on without reading, nor recording.
LEMMA MoveNears ==
  ASSUME CInv, NEW p \in Posts, NEW pc \in Pcs, Goto(p, pc), portal' = portal,
         RankOf(portal, pc, post[p].lines, post[p].recorded)
           < RankOf(portal, post[p].pc, post[p].lines, post[p].recorded)
  PROVE  Rank(p)' < Rank(p)
<1>1. /\ post'[p].pc = pc /\ post'[p].lines = post[p].lines
      /\ post'[p].recorded = post[p].recorded
  <2>1. post[p] \in Post /\ post'[p] = [post[p] EXCEPT !.pc = pc]
    BY DEF CInv, TypeOK, Goto
  <2> QED BY <2>1 DEF Post
<1> QED BY <1>1, RankFacts

\* A step that ends it.
LEMMA EndNears ==
  ASSUME CInv, NEW p \in Posts, portal' = portal,
         post'[p].pc \in {"ended", "refused", "destroyed", "crashed"},
         post[p].pc \notin {"ended", "refused", "destroyed", "crashed"}
  PROVE  Rank(p)' < Rank(p)
<1>1. post[p].pc \in Pcs
  BY DEF CInv, TypeOK, Post
<1>2. RankOf(portal, post'[p].pc, post'[p].lines, post'[p].recorded) = 0
  BY DEF RankOf
<1>3. RankOf(portal, post[p].pc, post[p].lines, post[p].recorded) > 0
  BY <1>1, RankFacts DEF RankOf, Pcs, Yields
<1> QED BY <1>2, <1>3, RankFacts

LEMMA PostNears ==
  ASSUME CInv, NEW p \in Posts,
         \/ Begin(p) \/ Check(p) \/ Validate(p) \/ ClearContext(p) \/ SetLock(p) \/ Ask(p)
         \/ Drop(p) \/ Release(p) \/ ReadEnd(p) \/ Destroy(p) \/ Crash(p)
  PROVE  Rank(p)' < Rank(p)
<1> USE DEF At
<1>1. portal' = portal
  BY DEF Begin, Check, Validate, ClearContext, SetLock, Ask, Drop, Release, ReadEnd, Destroy, Crash
<1>2. post[p].lines \in Nat /\ post[p].recorded \in BOOLEAN /\ post[p].pc \in Pcs
  BY <1>1, RankFacts DEF CInv, TypeOK, Post
<1>3. ASSUME NEW pc \in Pcs, Goto(p, pc),
             RankOf(portal, pc, post[p].lines, post[p].recorded)
               < RankOf(portal, post[p].pc, post[p].lines, post[p].recorded)
      PROVE  Rank(p)' < Rank(p)
  BY <1>1, <1>3, MoveNears
<1>4. ASSUME NEW pc \in {"ended", "refused", "destroyed", "crashed"}, Leave(p, pc),
             post[p].pc \notin {"ended", "refused", "destroyed", "crashed"}
      PROVE  Rank(p)' < Rank(p)
  <2>1. post'[p].pc = pc
    BY <1>4, MoveFacts DEF CInv, Pcs, Moved
  <2> QED BY <1>1, <1>4, <2>1, EndNears
<1>5. CASE Begin(p)
  BY <1>2, <1>3, <1>5 DEF Begin, RankOf, Pcs
<1>6. CASE Check(p)
  BY <1>2, <1>3, <1>4, <1>6 DEF Check, RankOf, Pcs
<1>7. CASE Validate(p)
  <2>1. CASE \/ Goto(p, IF post[p].clear THEN "clear" ELSE IF portal THEN "check" ELSE "lock")
             \/ Leave(p, "refused")
    BY <1>2, <1>3, <1>4, <1>7, <2>1 DEF Validate, RankOf, Pcs
  <2>2. ASSUME NEW stored \in BOOLEAN, post' = [post EXCEPT ![p].lost = ~stored, ![p].pc = "ended"]
        PROVE  Rank(p)' < Rank(p)
    <3>1. post'[p].pc = "ended"
      BY <2>2 DEF CInv, TypeOK, Post
    <3> QED BY <1>1, <1>7, <3>1, EndNears DEF Validate
  <2> QED BY <1>7, <2>1, <2>2 DEF Validate
<1>8. CASE ClearContext(p)
  BY <1>2, <1>3, <1>4, <1>8 DEF ClearContext, RankOf, Pcs
<1>9. CASE SetLock(p)
  BY <1>2, <1>3, <1>9 DEF SetLock, RankOf, Pcs
<1>10. CASE Ask(p)
  BY <1>2, <1>3, <1>10 DEF Ask, RankOf, Pcs
<1>11. CASE Drop(p)
  BY <1>2, <1>3, <1>11 DEF Drop, RankOf, Pcs, CInv, Placed
<1>12. CASE Release(p)
  BY <1>4, <1>12 DEF Release
<1>13. CASE ReadEnd(p)
  <2>1. post'[p].pc = "release" /\ post'[p].lines = post[p].lines
        /\ post'[p].recorded = post[p].recorded
    BY <1>13 DEF ReadEnd, CInv, TypeOK, Post
  <2>2. post[p].pc = "read" /\ Rank(p)' = RankOf(portal, "release", post[p].lines, post[p].recorded)
        /\ Rank(p) = RankOf(portal, "read", post[p].lines, post[p].recorded)
    BY <1>1, <1>13, <2>1, RankFacts DEF ReadEnd
  <2> QED BY <1>2, <2>2 DEF RankOf
<1>14. CASE Destroy(p)
  BY <1>4, <1>14 DEF Destroy, Yields
<1>15. CASE Crash(p)
  <2>1. post[p].pc \notin {"new", "ended", "refused", "destroyed", "crashed"} /\ Leave(p, "crashed")
    BY <1>15 DEF Crash
  <2> QED BY <1>4, <2>1
<1> QED BY <1>5, <1>6, <1>7, <1>8, <1>9, <1>10, <1>11, <1>12, <1>13, <1>14, <1>15

\* A line that is read, or the reply that is recorded, is worth four steps.
LEMMA StreamNears ==
  ASSUME CInv, NEW p \in Posts,
         \/ RecordReply(p) \/ ReadLine(p) \/ ReadResults(p) \/ ReadError(p) \/ ReadBreaks(p)
         \/ Resume(p) \/ Interrupt(p)
  PROVE  Rank(p)' < Rank(p)
<1> USE DEF At
<1>1. portal' = portal
  BY DEF RecordReply, ReadLine, ReadResults, ReadError, ReadBreaks, Resume, Interrupt
<1>2. /\ post[p].lines \in Nat /\ post[p].recorded \in BOOLEAN /\ post[p].pc \in Pcs
      /\ post[p] \in Post /\ post \in [Posts -> Post] /\ post[p].exits \in 0 .. 2
  BY <1>1, RankFacts DEF CInv, TypeOK, Post
<1>3. ASSUME RankOf(portal, post'[p].pc, post'[p].lines, post'[p].recorded)
               < RankOf(portal, post[p].pc, post[p].lines, post[p].recorded)
      PROVE  Rank(p)' < Rank(p)
  BY <1>1, <1>3, RankFacts
<1>4. /\ Offer(p, "yielded") \in {"yielded", "read"}
      /\ Offer(p, "item") \in {"item", "release"} /\ Offer(p, "last") \in {"last", "release"}
  BY DEF Offer, Onward, Yields
<1>10. ASSUME NEW pc \in Pcs, NEW failed \in BOOLEAN, RecordFor(p, pc, failed)
       PROVE  post'[p].pc = pc /\ post'[p].recorded /\ post'[p].lines = post[p].lines
  <2>1. PICK stored \in BOOLEAN, r \in Post : Recorded(p, pc, stored, r)
    BY <1>10, RecordForFacts DEF CInv
  <2> QED BY <1>2, <2>1 DEF Recorded
<1>5. CASE RecordReply(p)
  <2>1. /\ post'[p].pc \in {"ended", "release"} /\ post'[p].recorded
        /\ post'[p].lines = post[p].lines
    BY <1>5, <1>10 DEF RecordReply, Pcs
  <2> QED BY <1>2, <1>3, <1>5, <2>1 DEF RecordReply, RankOf
<1>6. CASE ReadLine(p)
  <2>1. /\ post'[p].pc \in {"yielded", "read"} /\ post'[p].recorded = post[p].recorded
        /\ post'[p].lines = post[p].lines - 1 /\ post[p].lines > 0
    BY <1>2, <1>4, <1>6 DEF ReadLine, Post
  <2> QED BY <1>2, <1>3, <1>6, <2>1 DEF ReadLine, RankOf
<1>7. CASE ReadResults(p) \/ ReadError(p)
  <2>1. /\ post'[p].pc \in {"yielded", "read"} /\ post'[p].recorded /\ ~post[p].recorded
        /\ post'[p].lines = post[p].lines /\ post[p].pc = "read"
    <3>1. CASE RecordFor(p, Offer(p, "yielded"), FALSE)
      BY <1>4, <1>7, <1>10, <3>1 DEF ReadResults, ReadError, Pcs, Yields
    <3>2. CASE RecordFor(p, Offer(p, "yielded"), TRUE)
      BY <1>4, <1>7, <1>10, <3>2 DEF ReadResults, ReadError, Pcs, Yields
    <3> QED BY <1>7, <3>1, <3>2 DEF ReadResults, ReadError
  <2> QED BY <1>2, <1>3, <2>1 DEF RankOf
<1>8. CASE ReadBreaks(p)
  <2>1. CASE post[p].recorded
    <3>1. /\ post'[p].pc \in {"last", "release"} /\ post'[p].recorded
          /\ post'[p].lines = post[p].lines /\ post[p].pc = "read"
      BY <1>2, <1>4, <1>8, <2>1 DEF ReadBreaks, Goto, Post
    <3> QED BY <1>2, <1>3, <2>1, <3>1 DEF RankOf
  <2>2. CASE ~post[p].recorded
    <3>1. /\ post'[p].pc \in {"item", "release"} /\ post'[p].recorded
          /\ post'[p].lines = post[p].lines /\ post[p].pc = "read"
      BY <1>4, <1>8, <1>10, <2>2 DEF ReadBreaks, Pcs, Yields
    <3> QED BY <1>2, <1>3, <2>2, <3>1 DEF RankOf
  <2> QED BY <2>1, <2>2
<1>9. CASE Resume(p) \/ Interrupt(p)
  <2>1. /\ post[p].pc \in Yields /\ post'[p].recorded = post[p].recorded
        /\ post'[p].lines = post[p].lines
        /\ \/ post[p].pc = "yielded" /\ post'[p].pc \in {"read", "last"}
           \/ post[p].pc = "item" /\ post'[p].pc \in {"last", "release"} /\ post[p].recorded
           \/ post[p].pc = "last" /\ post'[p].pc = "release" /\ post[p].recorded
    BY <1>2, <1>9 DEF Resume, Interrupt, Goto, Onward, After, Yields, Post, CInv, Placed
  <2> QED BY <1>2, <1>3, <2>1 DEF RankOf
<1> QED BY <1>5, <1>6, <1>7, <1>8, <1>9

\* No step of anyone takes a post further away from its end, its own take it nearer,
\* however long the streams are: a post takes finitely many steps.
THEOREM PostsNearTheirEnd == Spec => NearsEnd
<1> DEFINE Nearer == \A p \in Posts : post'[p] # post[p] => Rank(p)' < Rank(p)
<1>1. ASSUME CInv, [Next]_vars PROVE [Nearer]_vars
  <2>1. ASSUME NEW p \in Posts, Begin(p) \/ Proceed(p) \/ Crash(p) PROVE Nearer
    <3>1. Rank(p)' < Rank(p)
      BY <1>1, <2>1, PostNears, StreamNears DEF Proceed, Stream
    <3>2. \A q \in Posts \ {p} : post'[q] = post[q]
      BY <1>1, <2>1, BeginEffect, CheckEffect, ValidateEffect, ClearContextEffect, SetLockEffect, AskEffect,
         DropEffect, RecordReplyEffect, ReleaseEffect, StreamEffect, CrashEffect DEF Proceed, Effect, Alone
    <3> QED BY <3>1, <3>2
  <2>2. ASSUME Expire \/ \E g \in Readers : BeginGet(g) \/ SeeNoLock(g) \/ FetchLast(g)
        PROVE  Nearer
    BY <2>2 DEF Expire, BeginGet, SeeNoLock, FetchLast
  <2> QED BY <1>1, <2>1, <2>2 DEF Next
<1> QED BY <1>1, ChatInvariance, PTL DEF Spec, NearsEnd
=============================================================================
