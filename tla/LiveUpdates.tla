----------------------------- MODULE LiveUpdates -----------------------------
(***************************************************************************)
(* The one web socket of a page: frontend/src/utils/websocket-service.js,  *)
(* with its users, the providers of connections                            *)
(* (project/main-panel/connections/hooks/connections.js) and of            *)
(* notifications (components/common/notification/hooks/notification.js).   *)
(*                                                                         *)
(* A component that is mounted listens to the socket and, when it belongs  *)
(* to a project, subscribes to it; every subscription needs a token, which *)
(* is asked of the web server and may come back after the socket, the      *)
(* component or the session has gone.  A socket that closes is opened      *)
(* again by a timer, at most maxReconnectAttempts times in a row.          *)
(*                                                                         *)
(* An event of a socket that is no longer this.socket changes nothing      *)
(* (isCurrentSocket), so only the current socket is kept here.             *)
(***************************************************************************)
EXTENDS Naturals, FiniteSets

CONSTANTS
  Projects,      \* projects with live updates
  Components,    \* components that use the socket
  ProjectOf,     \* the project of each component, None on the home page
  None,          \* no project
  MaxAttempts,   \* maxReconnectAttempts (5 in the code)
  MaxFailures,   \* bound: sockets that fail or are dropped
  MaxLogouts,    \* bound: logout notices
  MaxMounts      \* bound: mounts

ASSUME ComponentsAssumption ==
  /\ None \notin Projects
  /\ IsFiniteSet(Components)
  /\ ProjectOf \in [Components -> Projects \cup {None}]
ASSUME BoundAssumption ==
  MaxAttempts \in Nat /\ MaxFailures \in Nat /\ MaxLogouts \in Nat /\ MaxMounts \in Nat

VARIABLES
  ready,      \* readyState of this.socket; "null" when there is none
  again,      \* shouldReconnect
  attempts,   \* reconnectAttempts
  timers,     \* reconnect timers that have not fired
  held,       \* reconnectTimer holds one of them
  keys,       \* the keys of subscriptions
  count,      \* the values of subscriptions, 0 for a project without an entry
  listeners,  \* components whose handler is a listener
  loop,       \* the loop of resubscribeActiveProjects of this socket
  asked,      \* tokens awaited by subscribe, per project
  server,     \* projects the server pushes through this socket
  mounted,    \* components that are mounted
  budget,     \* failures, logouts and mounts so far
  refused,    \* projects whose last token was refused
  stray,      \* projects left while a token for them was awaited
  cut,        \* components that a logout, or one cut by it, unsubscribed
  shut,       \* nobody has used the socket since the last logout
  doubled     \* a timer was started while another one was pending

clientVars == <<ready, again, attempts, timers, held, keys, count, listeners, loop, asked>>
vars == <<ready, again, attempts, timers, held, keys, count, listeners, loop, asked,
          server, mounted, budget, refused, stray, cut, shut, doubled>>

Members(p) == {c \in Components : ProjectOf[c] = p}

\* The loop awaits the token of "at" and has been past the projects of "past".
NoLoop == [at |-> None, past |-> {}]

TypeOK ==
  /\ ready \in {"null", "connecting", "open", "closing"}
  /\ again \in BOOLEAN /\ held \in BOOLEAN /\ shut \in BOOLEAN /\ doubled \in BOOLEAN
  /\ attempts \in 0..MaxFailures /\ timers \in 0..MaxFailures
  /\ keys \subseteq Projects
  /\ count \in [Projects -> 0..MaxMounts]
  /\ \A p \in Projects : count[p] > 0 <=> p \in keys
  /\ loop \in [at : Projects \cup {None}, past : SUBSET Projects]
  /\ loop.at = None => loop.past = {}
  /\ asked \in [Projects -> 0..MaxMounts]
  /\ server \subseteq Projects /\ refused \subseteq Projects /\ stray \subseteq Projects
  /\ listeners \subseteq Components /\ mounted \subseteq Components /\ cut \subseteq Components
  /\ budget \in [failures : 0..MaxFailures, logouts : 0..MaxLogouts, mounts : 0..MaxMounts]
  /\ held => timers > 0

Init ==
  /\ ready = "null" /\ again = TRUE /\ attempts = 0 /\ timers = 0 /\ held = FALSE
  /\ keys = {} /\ count = [p \in Projects |-> 0] /\ listeners = {}
  /\ loop = NoLoop /\ asked = [p \in Projects |-> 0]
  /\ server = {} /\ mounted = {}
  /\ budget = [failures |-> 0, logouts |-> 0, mounts |-> 0]
  /\ refused = {} /\ stray = {} /\ cut = {} /\ shut = FALSE /\ doubled = FALSE

-----------------------------------------------------------------------------
(* The client *)

\* connect(): a socket is made only when there is none.
Connect ==
  IF ready = "null"
  THEN ready' = "connecting" /\ loop' = NoLoop /\ server' = {}
  ELSE UNCHANGED <<ready, loop, server>>

\* reconnect(): the handle of a timer that is still pending is overwritten.
Reconnect ==
  IF attempts >= MaxAttempts
  THEN UNCHANGED <<timers, held, doubled>>
  ELSE timers' = timers + 1 /\ held' = TRUE /\ doubled' = (doubled \/ timers > 0)

\* The next step of the loop over the live Map: entries added meanwhile are visited, in
\* whatever order.
LoopsFrom(past) ==
  IF keys \subseteq past THEN {NoLoop}
  ELSE {[at |-> p, past |-> past \cup {p}] : p \in keys \ past}

\* A deleted entry that is set again is a new one for the loop.
LoopWithout(ps) == [loop EXCEPT !.past = @ \ ps]

Looping == loop # NoLoop

\* Tokens under way that will subscribe the current socket to p.
Awaited(p) == asked[p] > 0 \/ loop.at = p

\* subscribe(p), called with the project of a component that mounts.
Subscribe(p) ==
  /\ count' = [count EXCEPT ![p] = @ + 1]
  /\ keys' = keys \cup {p}
  /\ stray' = stray \ {p}
  /\ IF count[p] = 0 /\ ready = "open"
     THEN asked' = [asked EXCEPT ![p] = @ + 1] /\ refused' = refused \ {p}
     ELSE UNCHANGED <<asked, refused>>

\* Faulty variant for the checks: the last subscription is only counted down.
UnsubscribeKeepingEntry(p) ==
  /\ count' = [count EXCEPT ![p] = IF @ = 0 THEN 0 ELSE @ - 1]
  /\ UNCHANGED <<keys, loop, server, stray>>

\* Faulty variant for the checks: the server is not told.
UnsubscribeInSilence(p) ==
  IF count[p] <= 1
  THEN /\ count' = [count EXCEPT ![p] = 0]
       /\ keys' = keys \ {p}
       /\ loop' = LoopWithout({p})
       /\ stray' = IF Awaited(p) THEN stray \cup {p} ELSE stray
       /\ UNCHANGED server
  ELSE /\ count' = [count EXCEPT ![p] = @ - 1]
       /\ UNCHANGED <<keys, loop, server, stray>>

\* unsubscribe(p): nobody asks whether a token for p is under way.
Unsubscribe(p) ==
  IF count[p] <= 1
  THEN /\ count' = [count EXCEPT ![p] = 0]
       /\ keys' = keys \ {p}
       /\ loop' = LoopWithout({p})
       /\ server' = IF ready = "open" THEN server \ {p} ELSE server
       /\ stray' = IF Awaited(p) THEN stray \cup {p} ELSE stray
  ELSE /\ count' = [count EXCEPT ![p] = @ - 1]
       /\ UNCHANGED <<keys, loop, server, stray>>

\* Faulty variant for the checks: a reconnect timer is left running.
CloseKeepingTimer ==
  /\ again' = FALSE
  /\ ready' = "null" /\ loop' = NoLoop /\ server' = {}
  /\ keys' = {} /\ count' = [p \in Projects |-> 0] /\ listeners' = {}
  /\ stray' = stray \cup {p \in Projects : asked[p] > 0}
  /\ UNCHANGED <<attempts, asked, timers, held>>

\* close(): the timer in reconnectTimer is cleared, every subscription and listener dropped.
Close ==
  /\ again' = FALSE
  /\ timers' = IF held THEN timers - 1 ELSE timers
  /\ held' = FALSE
  /\ ready' = "null" /\ loop' = NoLoop /\ server' = {}
  /\ keys' = {} /\ count' = [p \in Projects |-> 0] /\ listeners' = {}
  /\ stray' = stray \cup {p \in Projects : asked[p] > 0}
  /\ UNCHANGED <<attempts, asked>>

-----------------------------------------------------------------------------
(* The components *)

\* A provider mounts: it adds its listener and subscribes, or only connects.
Mount(c) ==
  /\ c \notin mounted /\ budget.mounts < MaxMounts
  /\ mounted' = mounted \cup {c} /\ listeners' = listeners \cup {c}
  /\ budget' = [budget EXCEPT !.mounts = @ + 1]
  /\ again' = TRUE /\ shut' = FALSE /\ doubled' = (doubled /\ timers > 0)
  /\ cut' = cut \ {c}
  /\ Connect
  /\ IF ProjectOf[c] = None
     THEN UNCHANGED <<count, keys, asked, refused, stray>>
     ELSE Subscribe(ProjectOf[c])
  /\ UNCHANGED <<attempts, timers, held>>

\* A provider unmounts: it removes its listener and unsubscribes.  One that a logout has
\* unsubscribed already takes the place of another component of the project.
Unmount(c) ==
  /\ c \in mounted
  /\ mounted' = mounted \ {c} /\ listeners' = listeners \ {c}
  /\ cut' = IF c \in cut THEN (cut \cup (Members(ProjectOf[c]) \cap mounted)) \ {c} ELSE cut
  /\ IF ProjectOf[c] = None
     THEN UNCHANGED <<count, keys, loop, server, stray>>
     ELSE Unsubscribe(ProjectOf[c])
  /\ UNCHANGED <<ready, again, attempts, timers, held, asked, budget, refused, shut, doubled>>

\* A logout notice reaches a listener, which closes the socket for everybody.
Logout ==
  /\ ready = "open" /\ listeners # {} /\ budget.logouts < MaxLogouts
  /\ budget' = [budget EXCEPT !.logouts = @ + 1]
  /\ Close
  /\ cut' = cut \cup mounted /\ shut' = TRUE
  /\ UNCHANGED <<mounted, refused, doubled>>

-----------------------------------------------------------------------------
(* The browser and the servers *)

\* Faulty variant for the checks: only the first project is subscribed again.
OpenedAskingForOne ==
  /\ ready = "connecting"
  /\ ready' = "open" /\ attempts' = 0
  /\ loop' \in {IF l = NoLoop THEN l ELSE [l EXCEPT !.past = Projects] : l \in LoopsFrom({})}
  /\ refused' = {}
  /\ UNCHANGED <<again, timers, held, keys, count, listeners, asked, server, mounted,
                 budget, stray, cut, shut, doubled>>

\* onopen: every project with a subscription is asked for again.
Opened ==
  /\ ready = "connecting"
  /\ ready' = "open" /\ attempts' = 0
  /\ loop' \in LoopsFrom({}) /\ refused' = {}
  /\ UNCHANGED <<again, timers, held, keys, count, listeners, asked, server, mounted,
                 budget, stray, cut, shut, doubled>>

\* The closing handshake begins: readyState is CLOSING until onclose.
Closing ==
  /\ ready = "open" /\ budget.failures < MaxFailures
  /\ ready' = "closing"
  /\ budget' = [budget EXCEPT !.failures = @ + 1]
  /\ UNCHANGED <<again, attempts, timers, held, keys, count, listeners, loop, asked, server,
                 mounted, refused, stray, cut, shut, doubled>>

\* Faulty variant for the checks: a socket that never opened is not tried again.
ClosedUnlessOpened ==
  /\ ready # "null"
  /\ IF ready = "closing"
     THEN UNCHANGED budget
     ELSE /\ budget.failures < MaxFailures
          /\ budget' = [budget EXCEPT !.failures = @ + 1]
  /\ ready' = "null" /\ loop' = NoLoop /\ server' = {}
  /\ IF again /\ ready # "connecting" THEN Reconnect ELSE UNCHANGED <<timers, held, doubled>>
  /\ UNCHANGED <<again, attempts, keys, count, listeners, asked, mounted, refused, stray,
                 cut, shut>>

\* onclose, of a socket that could not be opened, was dropped or was closed.
Closed ==
  /\ ready # "null"
  /\ IF ready = "closing"
     THEN UNCHANGED budget
     ELSE /\ budget.failures < MaxFailures
          /\ budget' = [budget EXCEPT !.failures = @ + 1]
  /\ ready' = "null" /\ loop' = NoLoop /\ server' = {}
  /\ IF again THEN Reconnect ELSE UNCHANGED <<timers, held, doubled>>
  /\ UNCHANGED <<again, attempts, keys, count, listeners, asked, mounted, refused, stray,
                 cut, shut>>

\* A reconnect timer fires, whichever of those pending.
TimerFires ==
  /\ timers > 0
  /\ timers' = timers - 1 /\ held' = FALSE /\ attempts' = attempts + 1
  /\ Connect
  /\ UNCHANGED <<again, keys, count, listeners, asked, mounted, budget, refused, stray, cut,
                 shut, doubled>>

\* The token asked by subscribe arrives: it is sent through whatever socket is open now.
TokenForSubscribe(p) ==
  /\ asked[p] > 0
  /\ asked' = [asked EXCEPT ![p] = @ - 1]
  /\ \E granted \in BOOLEAN :
       IF granted
       THEN /\ server' = IF ready = "open" THEN server \cup {p} ELSE server
            /\ refused' = IF ready = "open" THEN refused \ {p} ELSE refused
       ELSE refused' = refused \cup {p} /\ UNCHANGED server
  /\ UNCHANGED <<ready, again, attempts, timers, held, keys, count, listeners, loop, mounted,
                 budget, stray, cut, shut, doubled>>

\* The token asked by the loop arrives: it is sent, or not, and the loop goes on.
TokenForLoop ==
  /\ Looping
  /\ \E granted \in BOOLEAN :
       IF granted
       THEN /\ server' = IF ready = "open" THEN server \cup {loop.at} ELSE server
            /\ refused' = IF ready = "open" THEN refused \ {loop.at} ELSE refused
       ELSE refused' = refused \cup {loop.at} /\ UNCHANGED server
  /\ loop' \in LoopsFrom(loop.past)
  /\ UNCHANGED <<ready, again, attempts, timers, held, keys, count, listeners, asked, mounted,
                 budget, stray, cut, shut, doubled>>

Token(p) == TokenForSubscribe(p) \/ (loop.at = p /\ TokenForLoop)
Users == \E c \in Components : Mount(c) \/ Unmount(c)
Next ==
  \/ Users \/ Logout
  \/ Opened \/ Closing \/ Closed \/ TimerFires
  \/ \E p \in Projects : TokenForSubscribe(p)
  \/ TokenForLoop

\* Timers fire, requests for tokens are answered, and a socket that is connecting or closing
\* comes to an end; nobody has to mount, unmount or log out.
Fairness ==
  /\ WF_vars(Opened) /\ WF_vars(ready = "closing" /\ Closed) /\ WF_vars(TimerFires)
  /\ WF_vars(TokenForLoop) /\ \A p \in Projects : WF_vars(TokenForSubscribe(p))

Spec == Init /\ [][Next]_vars /\ Fairness

-----------------------------------------------------------------------------
(* Properties *)

\* Components that nothing has unsubscribed behind their back.
Live == mounted \ cut

\* The server pushes the updates of c's project to c.
Heard(c) ==
  /\ c \in listeners /\ ready = "open"
  /\ ProjectOf[c] \in server \cup {None}

\* A mounted component hears its project: it listens, its project is counted at least once
\* for each such component, and when the socket is open either the server pushes the project
\* or a token for it is under way, or was refused.  Reconnecting, remounting, and tokens that
\* outlive a socket never lose a subscription (subscribe, onopen, resubscribeActiveProjects).
Subscribed ==
  /\ Live \subseteq listeners
  /\ \A p \in Projects : count[p] >= Cardinality(Live \cap Members(p))
  /\ ready = "open" =>
       \A p \in keys :
         \/ p \in server \cup refused
         \/ Awaited(p)
         \/ Looping /\ p \notin loop.past

\* The server pushes only projects somebody subscribes to, except one that was left while a
\* token for it was awaited: unsubscribe and close do not cancel it, and subscribe
\* does not look at the count again (lines 155-157).
NoStray == ready = "open" => server \subseteq keys \cup stray

\* After a logout the page opens no socket until somebody mounts, unless two timers had been
\* started: close clears only the last of them (lines 182-185, 209).
StaysShut == shut /\ ~doubled => ready = "null" /\ timers = 0

\* The client has stopped trying: five attempts in a row failed.
GaveUp == ready = "null" /\ timers = 0 /\ attempts >= MaxAttempts

\* A component that stays mounted is heard in the end, whatever fails before: the socket is
\* opened again and the project subscribed again, unless the client gives up or the token
\* is refused.
HeardAgain ==
  \A c \in Components :
    c \in Live ~> \/ Heard(c)
                  \/ c \notin Live
                  \/ ProjectOf[c] \in refused
                  \/ GaveUp
=============================================================================
