------------------------------ MODULE ChatTasks ------------------------------
(***************************************************************************)
(* The chat with the AI in one session: ChatView of seahub/chats/view.py   *)
(* with the generator process_stream_ai_reply of seahub/chats/utils.py,    *)
(* and their twins of the portal, PortalChatView of                        *)
(* seahub/portal/chat/apis.py with process_portal_stream_ai_reply of       *)
(* seahub/portal/chat/utils.py.  The variable portal tells which is meant. *)
(*                                                                         *)
(* A message that is posted becomes a task: an entry of the cache, the     *)
(* lock of the session, that is looked up and set in two calls, expires    *)
(* after AI_REPLY_TIMEOUT seconds and is deleted by whoever gets there.    *)
(* The reply is streamed: the generator reads lines from the AI service    *)
(* and yields them to the web server, which closes it when the client has  *)
(* gone.                                                                   *)
(***************************************************************************)
EXTENDS Naturals, Sequences, FiniteSets

CONSTANTS
  Posts,     \* messages posted to the session
  Readers,   \* requests that wait for the reply of the running task
  Portals,   \* TRUE: the chat of the portal, FALSE: the one of a project
  MaxLines,  \* bound of the model: lines of a stream besides its results
  CanExpire, \* replies may take longer than the lock lives
  CanCrash,  \* web processes may die
  None       \* no task

ASSUME FlagAssumption == Portals \subseteq BOOLEAN /\ CanExpire \in BOOLEAN /\ CanCrash \in BOOLEAN
ASSUME LinesAssumption == MaxLines \in Nat
ASSUME NoneAssumption == None \notin Posts

VARIABLES
  portal,    \* the chat is the one of the portal
  lock,      \* the post whose task is in the cache, or None
  log,       \* the messages of the session: turns (question and reply), questions left
             \* without a reply, and context breaks
  post,      \* per post: where it is in its request
  reader,    \* per reader: where it is, the streams it found running
  disturbed  \* a lock has expired, a process died, or two tasks ran at once

vars == <<portal, lock, log, post, reader, disturbed>>

\* The places where the generator yields, and where it goes on from there.
Yields == {"yielded", "item", "last"}

\* Faulty variant for the checks: a stream that broke is read again.
AfterRetrying(pc) == CASE pc = "yielded" -> "read" [] pc = "item" -> "last" [] pc = "last" -> "read"

After(pc) == CASE pc = "yielded" -> "read" [] pc = "item" -> "last" [] pc = "last" -> "release"

Pcs == {"new", "check", "validate", "clear", "lock", "ask", "read", "drop", "record", "release",
        "ended", "refused", "destroyed", "crashed"} \cup Yields

Post == [pc : Pcs, stream : BOOLEAN, clear : BOOLEAN, lines : 0 .. MaxLines,
         recorded : BOOLEAN,    \* has_recorded_result
         lost : BOOLEAN,        \* the stream had no results, or the database did not take them
         failed : BOOLEAN,      \* error_msg is set
         exits : 0 .. 2]        \* GeneratorExit raised in the generator so far

Entries == [post : Posts, kind : {"turn", "question", "break"}]

TypeOK ==
  /\ portal \in Portals
  /\ lock \in Posts \cup {None}
  /\ log \in Seq(Entries)
  /\ post \in [Posts -> Post]
  /\ reader \in [Readers -> [pc : {"new", "wait", "fetch", "done"}, saw : SUBSET Posts]]
  /\ disturbed \in BOOLEAN

Init ==
  /\ portal \in Portals
  /\ lock = None
  /\ log = <<>>
  /\ post \in [Posts -> [pc : {"new"}, stream : BOOLEAN, clear : BOOLEAN, lines : {MaxLines},
                         recorded : {FALSE}, lost : {FALSE}, failed : {FALSE}, exits : {0}]]
  /\ reader = [g \in Readers |-> [pc |-> "new", saw |-> {}]]
  /\ disturbed = FALSE

At(p, pc) == post[p].pc = pc

Goto(p, pc) == post' = [post EXCEPT ![p].pc = pc]

\* The thread of a post, or its generator, is gone, and with it what it knew; recorded
\* and lost are kept for the properties.
Leave(p, pc) ==
  post' = [post EXCEPT ![p].pc = pc, ![p].stream = FALSE, ![p].clear = FALSE,
             ![p].lines = 0, ![p].failed = FALSE, ![p].exits = 0]

\* record_message_to_db, build_portal_message_result: the question is stored, then the
\* reply.  Errors of the database are logged and swallowed: whoever called goes on as
\* if both had been stored.
Record(p, stored) ==
  \/ stored /\ log' = Append(log, [post |-> p, kind |-> "turn"])
  \/ ~stored /\ log' \in {log, Append(log, [post |-> p, kind |-> "question"])}

\* The reply, or a text in its place, is recorded in the stream of a post.
RecordFor(p, pc, failed) ==
  \E stored \in BOOLEAN :
    /\ Record(p, stored)
    /\ post' = [post EXCEPT ![p].recorded = TRUE, ![p].lost = ~stored,
                  ![p].failed = failed, ![p].pc = pc]

\* Its task has been put into the cache and not been taken out by itself yet.
InProgress(p) == post[p].pc \in {"ask", "read", "drop", "release"} \cup Yields
                 \/ (At(p, "record") /\ ~portal /\ ~post[p].stream)

-----------------------------------------------------------------------------
(* A post up to its task.  The portal looks at the lock last.              *)

Begin(p) ==
  /\ At(p, "new")
  /\ Goto(p, IF portal THEN "validate" ELSE "check")
  /\ UNCHANGED <<portal, lock, log, reader, disturbed>>

Check(p) ==
  /\ At(p, "check")
  /\ IF lock # None THEN Leave(p, "refused")
     ELSE Goto(p, IF portal THEN "lock" ELSE "validate")
  /\ UNCHANGED <<portal, lock, log, reader, disturbed>>

\* Limits, images and the input validation: what is turned down is recorded with the
\* reason as its reply.  Without a message id nothing is recorded.
Validate(p) ==
  /\ At(p, "validate")
  /\ \/ /\ \/ Goto(p, IF post[p].clear THEN "clear" ELSE IF portal THEN "check" ELSE "lock")
           \/ Leave(p, "refused")
        /\ UNCHANGED log
     \/ \E stored \in BOOLEAN :
          Record(p, stored) /\ post' = [post EXCEPT ![p].lost = ~stored, ![p].pc = "ended"]
  /\ UNCHANGED <<portal, lock, reader, disturbed>>

\* Faulty variant for the checks: a kind of message the table does not have.
ClearContextUnknownRole(p) ==
  /\ At(p, "clear")
  /\ log' = Append(log, [post |-> p, kind |-> "clear"])
  /\ Goto(p, IF portal THEN "check" ELSE "lock")
  /\ UNCHANGED <<portal, lock, reader, disturbed>>

\* An error of the database is not caught here: the request fails.
ClearContext(p) ==
  /\ At(p, "clear")
  /\ \/ /\ log' = Append(log, [post |-> p, kind |-> "break"])
        /\ Goto(p, IF portal THEN "check" ELSE "lock")
     \/ Leave(p, "refused") /\ UNCHANGED log
  /\ UNCHANGED <<portal, lock, reader, disturbed>>

\* cache.set does not look whether there is a task by now.
SetLock(p) ==
  /\ At(p, "lock")
  /\ lock' = p
  /\ Goto(p, "ask")
  /\ disturbed' = (disturbed \/ \E q \in Posts : InProgress(q))
  /\ UNCHANGED <<portal, log, reader>>

\* get_ai_reply opens the stream, or fails; without a stream it returns the
\* reply or a text in its place.
\* Faulty variant for the checks: the lock is deleted when the response has been
\* made, not when the stream is over.
AskUnlocking(p) ==
  /\ At(p, "ask")
  /\ IF post[p].stream THEN Goto(p, "read") \/ Goto(p, "drop")
     ELSE Goto(p, IF portal THEN "drop" ELSE "record")
  /\ lock' = IF post[p].stream THEN None ELSE lock
  /\ UNCHANGED <<portal, log, reader, disturbed>>

Ask(p) ==
  /\ At(p, "ask")
  /\ IF post[p].stream THEN Goto(p, "read") \/ Goto(p, "drop")
     ELSE Goto(p, IF portal THEN "drop" ELSE "record")
  /\ UNCHANGED <<portal, lock, log, reader, disturbed>>

\* The lock is deleted before the reply is recorded where the stream could not
\* be opened and by the portal without a stream, and after it otherwise.
Drop(p) ==
  /\ At(p, "drop")
  /\ lock' = None
  /\ Goto(p, "record")
  /\ UNCHANGED <<portal, log, reader, disturbed>>

RecordReply(p) ==
  /\ At(p, "record")
  /\ RecordFor(p, IF portal \/ post[p].stream THEN "ended" ELSE "release", FALSE)
  /\ UNCHANGED <<portal, lock, reader, disturbed>>

Release(p) ==
  /\ At(p, "release")
  /\ lock' = None
  /\ Leave(p, "ended")
  /\ UNCHANGED <<portal, log, reader, disturbed>>

-----------------------------------------------------------------------------
(* The generator.                                                          *)

\* Once it was closed the generator of a project yields no more.
Onward(p, pc, exits) ==
  IF portal \/ exits = 0 \/ pc \notin Yields THEN pc
  ELSE IF pc = "yielded" THEN "read" ELSE "release"

Offer(p, pc) == Onward(p, pc, post[p].exits)

ReadLine(p) ==
  /\ At(p, "read") /\ post[p].lines > 0
  /\ post' = [post EXCEPT ![p].lines = @ - 1, ![p].pc = Offer(p, "yielded")]
  /\ UNCHANGED <<portal, lock, log, reader, disturbed>>

\* The service sends its results, or an error line, once in a stream.
ReadResults(p) ==
  /\ At(p, "read") /\ ~post[p].recorded
  /\ RecordFor(p, Offer(p, "yielded"), FALSE)
  /\ UNCHANGED <<portal, lock, reader, disturbed>>

\* An error line of the AI service is recorded as the reply by the portal; the
\* other generator trips over it (it records the text as if it were a reply).
ReadError(p) ==
  /\ portal /\ At(p, "read") /\ ~post[p].recorded
  /\ RecordFor(p, Offer(p, "yielded"), TRUE)
  /\ UNCHANGED <<portal, lock, reader, disturbed>>

\* Faulty variant for the checks: the text is recorded also after the results.
ReadBreaksRecording(p) ==
  /\ At(p, "read")
  /\ RecordFor(p, Offer(p, "item"), post[p].failed)
  /\ UNCHANGED <<portal, lock, reader, disturbed>>

\* The connection breaks: a text in place of the reply, unless there is one.
ReadBreaks(p) ==
  /\ At(p, "read")
  /\ IF post[p].recorded
     THEN Goto(p, Offer(p, "last")) /\ UNCHANGED log
     ELSE RecordFor(p, Offer(p, "item"), FALSE)
  /\ UNCHANGED <<portal, lock, reader, disturbed>>

\* The stream is over, perhaps without results: it was cut off, or it was the body of
\* an answer that is no stream (get_ai_reply looks for status 500 only).  Then nothing
\* is recorded.
ReadEnd(p) ==
  /\ At(p, "read")
  /\ post' = [post EXCEPT ![p].lost = @ \/ ~post[p].recorded, ![p].pc = "release"]
  /\ UNCHANGED <<portal, lock, log, reader, disturbed>>

\* The web server has sent the item and asks for the next one; after an error
\* line the generator raises an error of its own.
Resume(p) ==
  /\ post[p].pc \in Yields /\ post[p].exits = 0
  /\ Goto(p, IF At(p, "yielded") /\ post[p].failed THEN "last" ELSE After(post[p].pc))
  /\ UNCHANGED <<portal, lock, log, reader, disturbed>>

\* Faulty variant for the checks: the generator ends when the client has gone.
InterruptEnding(p) ==
  /\ post[p].pc \in Yields /\ post[p].exits < 2
  /\ post' = [post EXCEPT ![p].exits = @ + 1, ![p].pc = "ended"]
  /\ UNCHANGED <<portal, lock, log, reader, disturbed>>

\* The client has gone: the web server closes the generator, which is told so
\* where it yields.  It goes on; if it yields again it is closed once more, by
\* its destructor.
Interrupt(p) ==
  /\ post[p].pc \in Yields /\ post[p].exits < 2
  /\ post' = [post EXCEPT ![p].exits = @ + 1,
                ![p].pc = Onward(p, After(post[p].pc), post[p].exits + 1)]
  /\ UNCHANGED <<portal, lock, log, reader, disturbed>>

\* Python does not resume a generator that yielded in its destructor.
Destroy(p) ==
  /\ post[p].pc \in Yields /\ post[p].exits = 2
  /\ Leave(p, "destroyed")
  /\ UNCHANGED <<portal, lock, log, reader, disturbed>>

Stream(p) ==
  \/ ReadLine(p) \/ ReadResults(p) \/ ReadError(p) \/ ReadBreaks(p) \/ ReadEnd(p)
  \/ Resume(p) \/ Interrupt(p) \/ Destroy(p)

-----------------------------------------------------------------------------
(* The cache, the processes, and the requests that wait for a reply.       *)

Expire ==
  /\ CanExpire /\ lock # None
  /\ lock' = None
  /\ disturbed' = TRUE
  /\ UNCHANGED <<portal, log, post, reader>>

Crash(p) ==
  /\ CanCrash /\ post[p].pc \notin {"new", "ended", "refused", "destroyed", "crashed"}
  /\ Leave(p, "crashed")
  /\ disturbed' = TRUE
  /\ UNCHANGED <<portal, lock, log, reader>>

Streaming == {p \in Posts : post[p].pc \in {"read"} \cup Yields}

BeginGet(g) ==
  /\ reader[g].pc = "new"
  /\ reader' = [reader EXCEPT ![g].pc = "wait", ![g].saw = Streaming]
  /\ UNCHANGED <<portal, lock, log, post, disturbed>>

\* The lock is looked up every tenth of a second, until there is none.
SeeNoLock(g) ==
  /\ reader[g].pc = "wait" /\ lock = None
  /\ reader' = [reader EXCEPT ![g].pc = "fetch"]
  /\ UNCHANGED <<portal, lock, log, post, disturbed>>

\* The last message of the session is the answer, whatever it is.
FetchLast(g) ==
  /\ reader[g].pc = "fetch"
  /\ reader' = [reader EXCEPT ![g].pc = "done", ![g].saw = {}]
  /\ UNCHANGED <<portal, lock, log, post, disturbed>>

-----------------------------------------------------------------------------
Proceed(p) ==
  \/ Check(p) \/ Validate(p) \/ ClearContext(p) \/ SetLock(p) \/ Ask(p)
  \/ Drop(p) \/ RecordReply(p) \/ Release(p) \/ Stream(p)

Next ==
  \/ \E p \in Posts : Begin(p) \/ Proceed(p) \/ Crash(p)
  \/ Expire
  \/ \E g \in Readers : BeginGet(g) \/ SeeNoLock(g) \/ FetchLast(g)

Spec == Init /\ [][Next]_vars

-----------------------------------------------------------------------------
(* Properties.                                                             *)

Turns(p) == {i \in DOMAIN log : log[i] = [post |-> p, kind |-> "turn"]}

\* A post whose thread has done with it has its question and one reply in the
\* session, also if the client has gone in the middle of the stream ("continues to
\* receive data even client interrupts the stream", the comment of both generators,
\* seahub/portal/chat/utils.py:405); unless the stream brought no results, or the
\* database refused them.
Concluded ==
  \A p \in Posts : post[p].pc \in {"ended", "destroyed"} =>
    Cardinality(Turns(p)) = IF post[p].lost THEN 0 ELSE 1

\* The reply of a post is never recorded twice: not when the stream breaks after
\* its results, when the client goes, when the database refused the reply, or when an
\* error line is followed by the error the generator raises for it.  And in the chat
\* of a project it is lost in two cases only, a stream that ends without results and a
\* database that refuses them: not because the client goes, the connection breaks, the
\* stream cannot be opened or the question is turned down.
OneReplyEach ==
  /\ \A p \in Posts : Cardinality(Turns(p)) <= 1
  /\ ~portal => Concluded

\* As long as no lock expired, no process died and no two posts were let in at
\* once, the session is locked exactly while its task is in progress: no other
\* request takes the lock away, and no way out of the stream leaves it behind but
\* the destruction of the generator, which has no way out.
LockGuards ==
  ~disturbed => \A p \in Posts : /\ InProgress(p) => lock = p
                                 /\ lock = p => InProgress(p) \/ At(p, "destroyed")

\* A request that waits for the reply of a stream answers when it is there, unless
\* the generator was destroyed before there was one or the reply is lost: no other
\* post, context break or way out of the stream lets it answer with an older message.
GetWaits ==
  [][~disturbed => \A g \in Readers : reader[g].pc = "fetch" /\ reader'[g].pc = "done" =>
       \A p \in reader[g].saw : \/ At(p, "destroyed") /\ ~post[p].recorded
                                \/ post[p].lost
                                \/ Turns(p) # {}]_vars

\* How many steps a post may have before it: the lines and the results still to
\* come make the rounds of its generator, which comes to rest where it yields.
Rank(p) ==
  LET rounds == 4 * (post[p].lines + IF post[p].recorded THEN 0 ELSE 1)
  IN  CASE At(p, "new")       -> rounds + 20
        [] At(p, "validate")  -> rounds + IF portal THEN 19 ELSE 17
        [] At(p, "clear")     -> rounds + IF portal THEN 18 ELSE 16
        [] At(p, "check")     -> rounds + IF portal THEN 17 ELSE 18
        [] At(p, "lock")      -> rounds + 15
        [] At(p, "ask")       -> rounds + 14
        [] At(p, "yielded")   -> rounds + 10
        [] At(p, "read")      -> rounds + 8
        [] At(p, "item")      -> 8
        [] At(p, "last")      -> 7
        [] At(p, "drop")      -> 6
        [] At(p, "record")    -> 4
        [] At(p, "release")   -> 2
        [] OTHER              -> 0

\* No step of anyone takes a post further away from its end, its own take it nearer.
NearsEnd == [][\A p \in Posts : post'[p] # post[p] => Rank(p)' < Rank(p)]_vars

\* A post comes to an end, whatever the client and the AI service do: every step of
\* it takes it nearer to its end, and until it has ended there is always one it can
\* take, whoever holds the lock.
EndsInTime ==
  /\ [](\A p \in Posts : Rank(p) > 0 /\ ~At(p, "new") => ENABLED Proceed(p))
  /\ NearsEnd
=============================================================================
