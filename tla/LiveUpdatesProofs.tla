-------------------------- MODULE LiveUpdatesProofs --------------------------
(***************************************************************************)
(* Proofs about the web socket of a page, for any projects, components and *)
(* bounds (LiveUpdates.tla).                                               *)
(***************************************************************************)
EXTENDS LiveUpdates, FiniteSetTheorems, TLAPS

-----------------------------------------------------------------------------
(* The inductive invariant.                                                *)

\* Every timer and every attempt stands for a failure; every token and every
\* subscription for a mount.
Bounded ==
  /\ attempts + timers + (IF ready = "closing" THEN 1 ELSE 0) <= budget.failures
  /\ \A p \in Projects : asked[p] <= budget.mounts /\ count[p] <= budget.mounts

TypeInv == TypeOK /\ Bounded

\* A timer that is alone is the one reconnectTimer holds.
Alone == ~doubled => timers <= 1 /\ (timers = 1 => held)

\* Every token under way is for a project that is subscribed, or was left meanwhile.
TokensKnown ==
  /\ ready = "connecting" => server = {}
  /\ \A p \in Projects : Awaited(p) => p \in keys \cup stray

ShutInv == Alone /\ StaysShut
StrayInv == TokensKnown /\ NoStray

IInv == TypeInv /\ ShutInv /\ StrayInv /\ Subscribed

-----------------------------------------------------------------------------
(* Types and bounds.                                                       *)

USE DEF TypeInv

LEMMA InitTypes == Init => TypeInv
<1> SUFFICES ASSUME Init PROVE TypeInv
  OBVIOUS
<1>1. Bounded
  BY BoundAssumption DEF Init, Bounded
<1>2. budget \in [failures : 0..MaxFailures, logouts : 0..MaxLogouts, mounts : 0..MaxMounts]
  BY BoundAssumption DEF Init
<1>3. loop \in [at : Projects \cup {None}, past : SUBSET Projects]
      /\ (loop.at = None => loop.past = {})
  BY DEF Init, NoLoop
<1>4. again \in BOOLEAN /\ held \in BOOLEAN /\ shut \in BOOLEAN /\ doubled \in BOOLEAN
  BY DEF Init
<1>5. /\ count \in [Projects -> 0..MaxMounts] /\ asked \in [Projects -> 0..MaxMounts]
      /\ keys \subseteq Projects /\ \A p \in Projects : count[p] > 0 <=> p \in keys
  BY BoundAssumption DEF Init
<1>6. attempts \in 0..MaxFailures /\ timers \in 0..MaxFailures /\ (held => timers > 0)
  BY BoundAssumption DEF Init
<1>7. /\ ready \in {"null", "connecting", "open", "closing"}
      /\ server \subseteq Projects /\ refused \subseteq Projects /\ stray \subseteq Projects
      /\ listeners \subseteq Components /\ mounted \subseteq Components /\ cut \subseteq Components
  BY DEF Init
<1> QED
  BY <1>1, <1>2, <1>3, <1>4, <1>5, <1>6, <1>7 DEF TypeOK

LEMMA LoopTypes ==
  ASSUME TypeInv, NEW past \in SUBSET Projects, NEW l \in LoopsFrom(past)
  PROVE  /\ l \in [at : Projects \cup {None}, past : SUBSET Projects]
         /\ l.at = None => l.past = {}
BY ComponentsAssumption DEF TypeOK, LoopsFrom, NoLoop

LEMMA MountTypes ==
  ASSUME TypeInv, NEW c \in Components, Mount(c) PROVE TypeInv'
<1> USE ComponentsAssumption, BoundAssumption
<1>1. ready' \in {"null", "connecting", "open", "closing"}
      /\ loop' \in [at : Projects \cup {None}, past : SUBSET Projects] /\ (loop'.at = None => loop'.past = {})
      /\ server' \subseteq Projects
      /\ (ready' = "closing" <=> ready = "closing")
  BY DEF Mount, Connect, TypeOK, NoLoop
<1>2. budget' \in [failures : 0..MaxFailures, logouts : 0..MaxLogouts, mounts : 0..MaxMounts]
      /\ budget'.mounts = budget.mounts + 1 /\ budget'.failures = budget.failures
  BY DEF Mount, TypeOK
<1>3. /\ keys' \subseteq Projects /\ count' \in [Projects -> 0..MaxMounts]
      /\ \A p \in Projects : count'[p] > 0 <=> p \in keys'
      /\ asked' \in [Projects -> 0..MaxMounts]
      /\ refused' \subseteq Projects /\ stray' \subseteq Projects
      /\ \A p \in Projects : asked'[p] <= budget.mounts + 1 /\ count'[p] <= budget.mounts + 1
  <2>1. CASE ProjectOf[c] = None
    BY <2>1 DEF Mount, TypeOK, Bounded
  <2>2. CASE ProjectOf[c] # None
    <3> DEFINE p0 == ProjectOf[c]
    <3>1. p0 \in Projects /\ Subscribe(p0) /\ budget.mounts < MaxMounts
      BY <2>2 DEF Mount
    <3> HIDE DEF p0
    <3>2. /\ count' \in [Projects -> 0..MaxMounts]
          /\ \A p \in Projects : count'[p] <= budget.mounts + 1
          /\ \A p \in Projects : count'[p] > 0 <=> p \in keys'
          /\ keys' \subseteq Projects /\ stray' \subseteq Projects
      BY <3>1 DEF Subscribe, TypeOK, Bounded
    <3>3. /\ asked' \in [Projects -> 0..MaxMounts] /\ refused' \subseteq Projects
          /\ \A p \in Projects : asked'[p] <= budget.mounts + 1
      <4>1. asked' \in [Projects -> 0..MaxMounts]
            /\ \A p \in Projects : asked'[p] <= budget.mounts + 1
        BY <3>1 DEF Subscribe, TypeOK, Bounded
      <4>2. refused' \subseteq Projects
        BY <3>1 DEF Subscribe, TypeOK
      <4> QED BY <4>1, <4>2
    <3> QED BY <3>1, <3>2, <3>3
  <2> QED BY <2>1, <2>2
<1> QED
  BY <1>1, <1>2, <1>3 DEF Mount, TypeOK, Bounded

LEMMA UnmountTypes ==
  ASSUME TypeInv, NEW c \in Components, Unmount(c) PROVE TypeInv'
<1> USE ComponentsAssumption, BoundAssumption
<1>1. /\ keys' \subseteq Projects /\ count' \in [Projects -> 0..MaxMounts]
      /\ \A p \in Projects : count'[p] > 0 <=> p \in keys'
      /\ loop' \in [at : Projects \cup {None}, past : SUBSET Projects] /\ (loop'.at = None => loop'.past = {})
      /\ server' \subseteq Projects /\ stray' \subseteq Projects
      /\ \A p \in Projects : count'[p] <= budget.mounts
  <2>1. CASE ProjectOf[c] = None
    BY <2>1 DEF Unmount, TypeOK, Bounded
  <2>2. CASE ProjectOf[c] # None
    <3> DEFINE p0 == ProjectOf[c]
    <3>1. p0 \in Projects /\ Unsubscribe(p0)
      BY <2>2 DEF Unmount
    <3> HIDE DEF p0
    <3> QED BY <3>1 DEF Unsubscribe, LoopWithout, TypeOK, Bounded
  <2> QED BY <2>1, <2>2
<1> QED
  BY <1>1 DEF Unmount, TypeOK, Bounded, Members

LEMMA LogoutTypes == ASSUME TypeInv, Logout PROVE TypeInv'
<1>1. timers' \in 0..MaxFailures /\ timers' <= timers
  BY BoundAssumption DEF Logout, Close, TypeOK
<1>2. loop' \in [at : Projects \cup {None}, past : SUBSET Projects]
      /\ (loop'.at = None => loop'.past = {})
  BY DEF Logout, Close, NoLoop
<1>3. /\ budget' \in [failures : 0..MaxFailures, logouts : 0..MaxLogouts, mounts : 0..MaxMounts]
      /\ budget'.failures = budget.failures /\ budget'.mounts = budget.mounts
  BY BoundAssumption DEF Logout, TypeOK
<1>4. Bounded'
  BY <1>1, <1>3, BoundAssumption DEF Logout, Close, TypeOK, Bounded
<1>5. again' \in BOOLEAN /\ held' \in BOOLEAN /\ shut' \in BOOLEAN /\ doubled' \in BOOLEAN /\ ~held'
  BY DEF Logout, Close, TypeOK
<1>6. /\ count' \in [Projects -> 0..MaxMounts] /\ asked' \in [Projects -> 0..MaxMounts]
      /\ keys' \subseteq Projects /\ \A p \in Projects : count'[p] > 0 <=> p \in keys'
  BY BoundAssumption DEF Logout, Close, TypeOK
<1>7. /\ ready' \in {"null", "connecting", "open", "closing"} /\ attempts' \in 0..MaxFailures
      /\ server' \subseteq Projects /\ refused' \subseteq Projects /\ stray' \subseteq Projects
      /\ listeners' \subseteq Components /\ mounted' \subseteq Components /\ cut' \subseteq Components
  BY DEF Logout, Close, TypeOK
<1> QED
  BY <1>1, <1>2, <1>3, <1>4, <1>5, <1>6, <1>7 DEF TypeOK

LEMMA ServerTypes ==
  ASSUME TypeInv, Opened \/ Closing \/ Closed \/ TimerFires PROVE TypeInv'
<1> USE ComponentsAssumption, BoundAssumption
<1>1. CASE Opened
  <2>1. loop' \in [at : Projects \cup {None}, past : SUBSET Projects] /\ (loop'.at = None => loop'.past = {})
    BY <1>1, LoopTypes DEF Opened
  <2> QED BY <1>1, <2>1 DEF Opened, TypeOK, Bounded
<1>2. CASE Closing
  BY <1>2 DEF Closing, TypeOK, Bounded
<1>3. CASE Closed
  <2>1. /\ budget' \in [failures : 0..MaxFailures, logouts : 0..MaxLogouts, mounts : 0..MaxMounts]
        /\ budget'.mounts = budget.mounts
        /\ attempts + timers + 1 <= budget'.failures
    BY <1>3 DEF Closed, TypeOK, Bounded
  <2>2. /\ timers' \in 0..MaxFailures /\ held' \in BOOLEAN /\ doubled' \in BOOLEAN
        /\ (held' => timers' > 0) /\ attempts + timers' <= budget'.failures
    <3>1. CASE again /\ attempts < MaxAttempts
      <4>1. timers' = timers + 1 /\ held' = TRUE /\ doubled' = (doubled \/ timers > 0)
        <5>1. Reconnect /\ ~(attempts >= MaxAttempts)
          BY <1>3, <3>1, BoundAssumption DEF Closed, TypeOK
        <5> QED BY <5>1 DEF Reconnect
      <4>2. doubled' \in BOOLEAN
        BY <4>1, Zenon
      <4> QED BY <4>1, <4>2, <2>1 DEF TypeOK
    <3>2. CASE ~(again /\ attempts < MaxAttempts)
      <4>1. UNCHANGED <<timers, held, doubled>>
        BY <1>3, <3>2 DEF Closed, Reconnect, TypeOK
      <4> QED BY <4>1, <2>1 DEF TypeOK
    <3> QED BY <3>1, <3>2
  <2> QED BY <1>3, <2>1, <2>2 DEF Closed, TypeOK, Bounded, NoLoop
<1>4. CASE TimerFires
  <2>1. ready' \in {"null", "connecting", "open", "closing"}
        /\ loop' \in [at : Projects \cup {None}, past : SUBSET Projects] /\ (loop'.at = None => loop'.past = {})
        /\ server' \subseteq Projects /\ (ready' = "closing" <=> ready = "closing")
    BY <1>4 DEF TimerFires, Connect, TypeOK, NoLoop
  <2>2. timers > 0 /\ timers' = timers - 1 /\ attempts' = attempts + 1 /\ UNCHANGED budget
    BY <1>4 DEF TimerFires
  <2>3. attempts' + timers' + (IF ready' = "closing" THEN 1 ELSE 0) <= budget'.failures
    BY <2>1, <2>2 DEF TypeOK, Bounded
  <2>4. attempts' \in 0..MaxFailures /\ timers' \in 0..MaxFailures
    BY <2>2, <2>3 DEF TypeOK
  <2> QED BY <1>4, <2>1, <2>2, <2>3, <2>4 DEF TimerFires, TypeOK, Bounded
<1> QED BY <1>1, <1>2, <1>3, <1>4

LEMMA TokenTypes ==
  ASSUME TypeInv, TokenForLoop \/ \E p \in Projects : TokenForSubscribe(p) PROVE TypeInv'
<1> USE ComponentsAssumption, BoundAssumption
<1>1. CASE TokenForLoop
  <2>1. loop' \in [at : Projects \cup {None}, past : SUBSET Projects] /\ (loop'.at = None => loop'.past = {})
    BY <1>1, LoopTypes DEF TokenForLoop, TypeOK
  <2>2. loop.at \in Projects
    BY <1>1 DEF TokenForLoop, Looping, NoLoop, TypeOK
  <2>3. server' \subseteq Projects /\ refused' \subseteq Projects
    BY <1>1, <2>2 DEF TokenForLoop, TypeOK
  <2> QED BY <1>1, <2>1, <2>3 DEF TokenForLoop, TypeOK, Bounded
<1>2. ASSUME NEW p \in Projects, TokenForSubscribe(p) PROVE TypeInv'
  BY <1>2 DEF TokenForSubscribe, TypeOK, Bounded
<1> QED BY <1>1, <1>2

LEMMA NextTypes == ASSUME TypeInv, [Next]_vars PROVE TypeInv'
<1>1. CASE Users
  BY <1>1, MountTypes, UnmountTypes DEF Users
<1>2. CASE Logout
  BY <1>2, LogoutTypes
<1>3. CASE Opened \/ Closing \/ Closed \/ TimerFires
  BY <1>3, ServerTypes
<1>4. CASE TokenForLoop \/ \E p \in Projects : TokenForSubscribe(p)
  BY <1>4, TokenTypes
<1>5. CASE UNCHANGED vars
  BY <1>5 DEF vars, TypeOK, Bounded
<1> QED BY <1>1, <1>2, <1>3, <1>4, <1>5 DEF Next

-----------------------------------------------------------------------------
(* Timers and logouts.                                                     *)

LEMMA InitShut == Init => ShutInv
BY DEF Init, ShutInv, Alone, StaysShut

LEMMA MountShut ==
  ASSUME TypeInv, ShutInv, NEW c \in Components, Mount(c) PROVE ShutInv'
<1>1. shut' = FALSE /\ doubled' = (doubled /\ timers > 0) /\ UNCHANGED <<timers, held>>
  BY DEF Mount
<1>2. CASE ~doubled
  BY <1>1, <1>2 DEF ShutInv, Alone, StaysShut
<1>3. CASE timers = 0
  BY <1>1, <1>3 DEF ShutInv, Alone, StaysShut
<1>4. CASE doubled /\ timers # 0
  <2>1. timers > 0
    BY <1>4 DEF TypeOK
  <2>2. doubled'
    BY <1>1, <1>4, <2>1, Zenon
  <2> QED BY <1>1, <2>2 DEF ShutInv, Alone, StaysShut
<1> QED BY <1>2, <1>3, <1>4

LEMMA LogoutShut == ASSUME TypeInv, ShutInv, Logout PROVE ShutInv'
<1>1. /\ ready' = "null" /\ held' = FALSE /\ UNCHANGED doubled
      /\ timers' = IF held THEN timers - 1 ELSE timers
  BY DEF Logout, Close
<1>2. ~doubled => timers' = 0
  BY <1>1 DEF TypeOK, ShutInv, Alone
<1> QED BY <1>1, <1>2 DEF ShutInv, Alone, StaysShut

LEMMA ClosedShut == ASSUME TypeInv, ShutInv, Closed PROVE ShutInv'
<1>1. ready' = "null" /\ ready # "null" /\ UNCHANGED shut
  BY DEF Closed
<1>2. CASE UNCHANGED <<timers, held, doubled>>
  BY <1>1, <1>2 DEF ShutInv, Alone, StaysShut
<1>3. CASE timers' = timers + 1 /\ held' = TRUE /\ doubled' = (doubled \/ timers > 0)
  <2>1. doubled => doubled'
    BY <1>3, Zenon
  <2>2. ~doubled' => ~(timers > 0)
    BY <1>3, Zenon
  <2>3. Alone'
    BY <1>3, <2>2 DEF TypeOK, Alone
  <2>4. shut => doubled
    BY <1>1 DEF ShutInv, StaysShut
  <2> QED BY <1>1, <2>1, <2>3, <2>4 DEF ShutInv, StaysShut
<1> QED BY <1>2, <1>3 DEF Closed, Reconnect

LEMMA TimerShut == ASSUME TypeInv, ShutInv, TimerFires PROVE ShutInv'
<1>1. timers > 0 /\ timers' = timers - 1 /\ UNCHANGED <<shut, doubled>>
  BY DEF TimerFires
<1>2. shut => doubled
  BY <1>1 DEF ShutInv, StaysShut, TypeOK
<1>3. ~doubled => timers' = 0
  BY <1>1 DEF ShutInv, Alone, TypeOK
<1> QED BY <1>1, <1>2, <1>3 DEF ShutInv, Alone, StaysShut

LEMMA NextShut == ASSUME TypeInv, ShutInv, [Next]_vars PROVE ShutInv'
<1>1. ASSUME NEW c \in Components, Mount(c) PROVE ShutInv'
  BY <1>1, MountShut
<1>2. CASE Logout
  BY <1>2, LogoutShut
<1>3. CASE Closed
  BY <1>3, ClosedShut
<1>4. CASE TimerFires
  BY <1>4, TimerShut
<1>5. CASE Opened \/ Closing
  <2>1. ready # "null" /\ UNCHANGED <<timers, held, shut, doubled>>
    BY <1>5 DEF Opened, Closing
  <2> QED BY <2>1 DEF ShutInv, Alone, StaysShut
<1>6. CASE UNCHANGED <<ready, timers, held, shut, doubled>>
  BY <1>6 DEF ShutInv, Alone, StaysShut
<1>7. ASSUME NEW c \in Components, Unmount(c) PROVE UNCHANGED <<ready, timers, held, shut, doubled>>
  BY <1>7 DEF Unmount
<1>8. TokenForLoop \/ (\E p \in Projects : TokenForSubscribe(p)) \/ UNCHANGED vars
        => UNCHANGED <<ready, timers, held, shut, doubled>>
  BY DEF TokenForLoop, TokenForSubscribe, vars
<1> QED BY <1>1, <1>2, <1>3, <1>4, <1>5, <1>6, <1>7, <1>8 DEF Next, Users

-----------------------------------------------------------------------------
(* What the server pushes.                                                 *)

LEMMA InitStray == ASSUME Init PROVE StrayInv
BY ComponentsAssumption DEF Init, StrayInv, TokensKnown, NoStray, Awaited, NoLoop

LEMMA MountStray ==
  ASSUME TypeInv, StrayInv, NEW c \in Components, Mount(c) PROVE StrayInv'
<1>1. /\ ready' = "connecting" => server' = {}
      /\ ready' = "open" => ready = "open" /\ server' = server
      /\ loop'.at = loop.at \/ loop'.at = None
  BY DEF Mount, Connect, StrayInv, TokensKnown, NoLoop
<1>2. CASE ProjectOf[c] = None
  <2>1. UNCHANGED <<keys, asked, stray>>
    BY <1>2 DEF Mount
  <2> QED BY <1>1, <2>1, ComponentsAssumption DEF StrayInv, TokensKnown, NoStray, Awaited
<1>3. CASE ProjectOf[c] # None
  <2> DEFINE p0 == ProjectOf[c]
  <2>1. p0 \in Projects /\ keys' = keys \cup {p0} /\ stray' = stray \ {p0}
    BY <1>3, ComponentsAssumption DEF Mount, Subscribe
  <2>2. \A p \in Projects \ {p0} : asked'[p] = asked[p]
    BY <1>3 DEF Mount, Subscribe, TypeOK
  <2> HIDE DEF p0
  <2>3. keys \cup stray \subseteq keys' \cup stray'
    BY <2>1
  <2>4. \A p \in Projects : Awaited(p)' => p \in keys' \cup stray'
    BY <1>1, <2>1, <2>2, <2>3, ComponentsAssumption DEF StrayInv, TokensKnown, Awaited
  <2> QED BY <1>1, <2>3, <2>4 DEF StrayInv, TokensKnown, NoStray
<1> QED BY <1>2, <1>3

LEMMA UnmountStray ==
  ASSUME TypeInv, StrayInv, NEW c \in Components, Unmount(c) PROVE StrayInv'
<1>1. UNCHANGED <<ready, asked>>
  BY DEF Unmount
<1>2. CASE ProjectOf[c] = None
  BY <1>1, <1>2 DEF Unmount, StrayInv, TokensKnown, NoStray, Awaited
<1>3. CASE ProjectOf[c] # None
  <2> DEFINE p0 == ProjectOf[c]
  <2>1. p0 \in Projects /\ Unsubscribe(p0)
    BY <1>3, ComponentsAssumption DEF Unmount
  <2> HIDE DEF p0
  <2>2. CASE count[p0] <= 1
    <3>1. /\ keys' = keys \ {p0} /\ loop'.at = loop.at
          /\ server' = IF ready = "open" THEN server \ {p0} ELSE server
          /\ stray' = IF Awaited(p0) THEN stray \cup {p0} ELSE stray
      BY <2>1, <2>2 DEF Unsubscribe, LoopWithout, TypeOK
    <3>2. \A p \in Projects : Awaited(p)' <=> Awaited(p)
      BY <1>1, <3>1 DEF Awaited
    <3> QED BY <1>1, <3>1, <3>2, <2>1 DEF StrayInv, TokensKnown, NoStray
  <2>3. CASE ~(count[p0] <= 1)
    BY <1>1, <2>1, <2>3 DEF Unsubscribe, StrayInv, TokensKnown, NoStray, Awaited
  <2> QED BY <2>2, <2>3
<1> QED BY <1>2, <1>3

LEMMA TokenStray ==
  ASSUME TypeInv, StrayInv, TokenForLoop \/ \E p \in Projects : TokenForSubscribe(p)
  PROVE  StrayInv'
<1>1. UNCHANGED <<ready, keys, stray>>
  BY DEF TokenForLoop, TokenForSubscribe
<1>2. CASE TokenForLoop
  <2>1. loop.at \in Projects /\ loop.at \in keys \cup stray
    BY <1>2 DEF TokenForLoop, Looping, NoLoop, TypeOK, StrayInv, TokensKnown, Awaited
  <2>2. server' \in {server, server \cup {loop.at}} /\ UNCHANGED asked
        /\ (ready # "open" => server' = server)
    BY <1>2 DEF TokenForLoop
  <2>3. loop'.at = None \/ loop'.at \in keys
    BY <1>2 DEF TokenForLoop, LoopsFrom, NoLoop
  <2>4. \A p \in Projects : Awaited(p)' => p \in keys \cup stray
    BY <2>2, <2>3, ComponentsAssumption DEF Awaited, StrayInv, TokensKnown
  <2> QED BY <1>1, <2>1, <2>2, <2>4 DEF StrayInv, TokensKnown, NoStray
<1>3. ASSUME NEW p \in Projects, TokenForSubscribe(p) PROVE StrayInv'
  <2>1. Awaited(p) /\ p \in keys \cup stray
    BY <1>3 DEF TokenForSubscribe, StrayInv, TokensKnown, Awaited
  <2>2. /\ server' \in {server, server \cup {p}} /\ UNCHANGED loop
        /\ ready # "open" => server' = server
        /\ asked' = [asked EXCEPT ![p] = @ - 1]
    BY <1>3 DEF TokenForSubscribe
  <2>3. \A q \in Projects : Awaited(q)' => Awaited(q)
    BY <2>1, <2>2 DEF Awaited, TypeOK
  <2> QED BY <1>1, <2>1, <2>2, <2>3 DEF StrayInv, TokensKnown, NoStray
<1> QED BY <1>2, <1>3

LEMMA ServerStray ==
  ASSUME TypeInv, StrayInv, Logout \/ Opened \/ Closing \/ Closed \/ TimerFires
  PROVE  StrayInv'
<1>1. CASE Logout
  <2>1. /\ ready' = "null" /\ loop' = NoLoop /\ keys' = {} /\ UNCHANGED asked
        /\ stray' = stray \cup {p \in Projects : asked[p] > 0}
    BY <1>1 DEF Logout, Close
  <2> QED BY <2>1, ComponentsAssumption DEF StrayInv, TokensKnown, NoStray, Awaited, NoLoop
<1>2. CASE Opened
  <2>1. /\ server = {} /\ ready' = "open" /\ UNCHANGED <<asked, server, keys, stray>>
        /\ loop'.at = None \/ loop'.at \in keys
    BY <1>2 DEF Opened, LoopsFrom, NoLoop, StrayInv, TokensKnown
  <2> QED BY <2>1, ComponentsAssumption DEF StrayInv, TokensKnown, NoStray, Awaited
<1>3. CASE Closing
  BY <1>3 DEF Closing, StrayInv, TokensKnown, NoStray, Awaited
<1>4. CASE Closed
  <2>1. ready' = "null" /\ loop' = NoLoop /\ UNCHANGED <<keys, asked, stray>>
    BY <1>4 DEF Closed
  <2> QED BY <2>1, ComponentsAssumption DEF StrayInv, TokensKnown, NoStray, Awaited, NoLoop
<1>5. CASE TimerFires
  <2>1. /\ ready' = "connecting" => server' = {}
        /\ ready' = "open" => ready = "open" /\ server' = server
        /\ loop'.at = loop.at \/ loop'.at = None
        /\ UNCHANGED <<keys, asked, stray>>
    BY <1>5 DEF TimerFires, Connect, StrayInv, TokensKnown, NoLoop
  <2> QED BY <2>1, ComponentsAssumption DEF StrayInv, TokensKnown, NoStray, Awaited
<1> QED BY <1>1, <1>2, <1>3, <1>4, <1>5

LEMMA NextStray == ASSUME TypeInv, StrayInv, [Next]_vars PROVE StrayInv'
<1>1. CASE Users
  BY <1>1, MountStray, UnmountStray DEF Users
<1>2. CASE Logout \/ Opened \/ Closing \/ Closed \/ TimerFires
  BY <1>2, ServerStray
<1>3. CASE TokenForLoop \/ \E p \in Projects : TokenForSubscribe(p)
  BY <1>3, TokenStray
<1>4. CASE UNCHANGED vars
  BY <1>4 DEF vars, StrayInv, TokensKnown, NoStray, Awaited
<1> QED BY <1>1, <1>2, <1>3, <1>4 DEF Next

-----------------------------------------------------------------------------
(* What a component hears.                                                 *)

\* The three parts of Subscribed.
Listening == Live \subseteq listeners
Counted == \A p \in Projects : count[p] >= Cardinality(Live \cap Members(p))
Served ==
  ready = "open" =>
    \A p \in keys : p \in server \cup refused \/ Awaited(p) \/ (Looping /\ p \notin loop.past)

LEMMA SubscribedParts == Subscribed <=> Listening /\ Counted /\ Served
BY DEF Subscribed, Listening, Counted, Served

LEMMA LiveFinite ==
  ASSUME TypeInv, NEW p
  PROVE  IsFiniteSet(Live \cap Members(p)) /\ Cardinality(Live \cap Members(p)) \in Nat
<1>1. Live \cap Members(p) \subseteq Components
  BY DEF TypeOK, Live
<1> QED BY <1>1, ComponentsAssumption, FS_Subset, FS_CardinalityType

LEMMA CountNat == ASSUME TypeInv, NEW p \in Projects PROVE count[p] \in Nat
<1>1. count[p] \in 0..MaxMounts
  BY DEF TypeOK
<1> QED BY <1>1, BoundAssumption

LEMMA CountedAt ==
  ASSUME Counted, NEW p \in Projects PROVE count[p] >= Cardinality(Live \cap Members(p))
BY DEF Counted

LEMMA InitSubscribed == ASSUME Init PROVE Subscribed
<1>1. Live = {}
  BY DEF Init, Live
<1>2. \A p : Cardinality(Live \cap Members(p)) = 0
  BY <1>1, FS_EmptySet
<1> QED BY <1>1, <1>2 DEF Init, Subscribed

LEMMA MountSubscribed ==
  ASSUME TypeInv, Subscribed, NEW c \in Components, Mount(c) PROVE Subscribed'
<1>1. Listening /\ Counted /\ Served
  BY SubscribedParts
<1>2. c \notin Live /\ Live' = Live \cup {c}
  BY DEF Mount, Live
<1>3. Listening'
  BY <1>1, <1>2 DEF Mount, Listening
<1>4. Counted'
  <2> SUFFICES ASSUME NEW p \in Projects PROVE count'[p] >= Cardinality(Live' \cap Members(p))
    BY DEF Counted, Members
  <2>1. CASE ProjectOf[c] = p
    <3>1. count'[p] = count[p] + 1
      BY <2>1, ComponentsAssumption DEF Mount, Subscribe, TypeOK
    <3>2. Live' \cap Members(p) = (Live \cap Members(p)) \cup {c} /\ c \notin Live \cap Members(p)
      BY <1>2, <2>1 DEF Members
    <3>3. Cardinality(Live' \cap Members(p)) = Cardinality(Live \cap Members(p)) + 1
      BY <3>2, LiveFinite, FS_AddElement
    <3> DEFINE n == Cardinality(Live \cap Members(p))
    <3>4. count[p] \in Nat /\ n \in Nat /\ count[p] >= n
      BY <1>1, CountNat, LiveFinite, CountedAt
    <3> HIDE DEF n
    <3>5. Cardinality(Live' \cap Members(p)) = n + 1
      BY <3>3 DEF n
    <3> QED BY <3>1, <3>4, <3>5
  <2>2. CASE ProjectOf[c] # p
    <3>1. Live' \cap Members(p) = Live \cap Members(p)
      BY <1>2, <2>2 DEF Members
    <3>2. count'[p] = count[p]
      BY <2>2 DEF Mount, Subscribe, TypeOK
    <3> QED BY <1>1, <3>1, <3>2 DEF Counted
  <2> QED BY <2>1, <2>2
<1>5. Served'
  <2> SUFFICES ASSUME ready' = "open", NEW p \in keys'
               PROVE  p \in server' \cup refused' \/ Awaited(p)' \/ (Looping' /\ p \notin loop'.past)
    BY DEF Served
  <2>1. ready = "open" /\ UNCHANGED <<loop, server>>
    BY DEF Mount, Connect
  <2>2. CASE ProjectOf[c] = None
    BY <1>1, <2>1, <2>2 DEF Mount, Served, Awaited, Looping
  <2>3. CASE ProjectOf[c] # None
    <3> DEFINE p0 == ProjectOf[c]
    <3>1. p0 \in Projects /\ Subscribe(p0)
      BY <2>3, ComponentsAssumption DEF Mount
    <3> HIDE DEF p0
    <3>2. CASE count[p0] = 0
      <4>1. asked' = [asked EXCEPT ![p0] = @ + 1] /\ refused' = refused \ {p0} /\ keys' = keys \cup {p0}
        BY <3>1, <3>2, <2>1 DEF Subscribe
      <4>2. CASE p = p0
        BY <4>1, <4>2, <3>1 DEF Awaited, TypeOK
      <4>3. CASE p # p0
        BY <1>1, <2>1, <4>1, <4>3, <3>1 DEF Served, Awaited, Looping, TypeOK
      <4> QED BY <4>2, <4>3
    <3>3. CASE count[p0] # 0
      <4>1. p0 \in keys
        BY <3>1, <3>3 DEF TypeOK
      <4>2. keys' = keys /\ UNCHANGED <<asked, refused>>
        BY <3>1, <3>3, <4>1 DEF Subscribe
      <4> QED BY <1>1, <2>1, <4>2 DEF Served, Awaited, Looping
    <3> QED BY <3>2, <3>3
  <2> QED BY <2>2, <2>3
<1> QED BY <1>3, <1>4, <1>5 DEF Subscribed, Listening, Counted, Served

LEMMA UnmountSubscribed ==
  ASSUME TypeInv, Subscribed, NEW c \in Components, Unmount(c) PROVE Subscribed'
<1>1. Listening /\ Counted /\ Served
  BY SubscribedParts
<1>2. Live' \subseteq Live \ {c}
  BY DEF Unmount, Live
<1>3. Listening'
  BY <1>1, <1>2 DEF Unmount, Listening
<1>4. Counted'
  <2> SUFFICES ASSUME NEW p \in Projects PROVE count'[p] >= Cardinality(Live' \cap Members(p))
    BY DEF Counted, Members
  <2> DEFINE n == Cardinality(Live \cap Members(p))
             m == Cardinality(Live' \cap Members(p))
  <2>1. m \in Nat /\ n \in Nat /\ m <= n
    <3>1. Live' \cap Members(p) \subseteq Live \cap Members(p)
      BY <1>2
    <3> QED BY <3>1, LiveFinite, FS_Subset, FS_CardinalityType
  <2>5. count[p] \in Nat /\ count[p] >= n
    BY <1>1, CountNat, CountedAt
  <2>2. CASE ProjectOf[c] # p
    <3>1. count'[p] = count[p]
      BY <2>2 DEF Unmount, Unsubscribe, TypeOK
    <3> HIDE DEF m, n
    <3>2. count'[p] >= m
      BY <2>1, <2>5, <3>1
    <3> QED BY <3>2 DEF m
  <2>3. CASE ProjectOf[c] = p /\ c \in cut
    <3>1. Live' \cap Members(p) = {}
      BY <2>3 DEF Unmount, Live, Members
    <3>2. count'[p] \in Nat
      BY <2>3, ComponentsAssumption DEF Unmount, Unsubscribe, TypeOK
    <3> QED BY <3>1, <3>2, FS_EmptySet
  <2>4. CASE ProjectOf[c] = p /\ c \notin cut
    <3>1. c \in Live \cap Members(p) /\ Live' \cap Members(p) = (Live \cap Members(p)) \ {c}
      BY <2>4 DEF Unmount, Live, Members
    <3>2. m = n - 1
      <4> DEFINE S == Live \cap Members(p)
      <4>1. IsFiniteSet(S) /\ c \in S
        BY <3>1, LiveFinite
      <4> HIDE DEF S
      <4>2. Cardinality(S \ {c}) = Cardinality(S) - 1
        BY <4>1, FS_RemoveElement
      <4> QED BY <3>1, <4>2 DEF S
    <3>3. count'[p] = IF count[p] <= 1 THEN 0 ELSE count[p] - 1
      BY <2>4, ComponentsAssumption DEF Unmount, Unsubscribe, TypeOK
    <3> HIDE DEF m, n
    <3>4. count'[p] >= m
      BY <2>1, <2>5, <3>2, <3>3
    <3> QED BY <3>4 DEF m
  <2> QED BY <2>2, <2>3, <2>4
<1>5. Served'
  <2>1. UNCHANGED <<ready, asked, refused>>
    BY DEF Unmount
  <2>2. CASE ProjectOf[c] = None
    BY <1>1, <2>1, <2>2 DEF Unmount, Served, Awaited, Looping
  <2>3. CASE ProjectOf[c] # None
    <3> DEFINE p0 == ProjectOf[c]
    <3>1. p0 \in Projects /\ Unsubscribe(p0)
      BY <2>3, ComponentsAssumption DEF Unmount
    <3> HIDE DEF p0
    <3>2. CASE count[p0] <= 1
      <4>1. /\ keys' = keys \ {p0} /\ server \ {p0} \subseteq server'
            /\ loop' = [loop EXCEPT !.past = @ \ {p0}]
        BY <3>1, <3>2 DEF Unsubscribe, LoopWithout
      <4>2. loop'.at = loop.at /\ loop'.past = loop.past \ {p0} /\ (Looping => Looping')
        BY <4>1, ComponentsAssumption DEF Looping, NoLoop, TypeOK
      <4> QED BY <1>1, <2>1, <4>1, <4>2 DEF Served, Awaited
    <3>3. CASE ~(count[p0] <= 1)
      BY <1>1, <2>1, <3>1, <3>3 DEF Unsubscribe, Served, Awaited, Looping
    <3> QED BY <3>2, <3>3
  <2> QED BY <2>2, <2>3
<1> QED BY <1>3, <1>4, <1>5 DEF Subscribed, Listening, Counted, Served

LEMMA TokenSubscribed ==
  ASSUME TypeInv, Subscribed, TokenForLoop \/ \E p \in Projects : TokenForSubscribe(p)
  PROVE  Subscribed'
<1>1. Listening /\ Counted /\ Served
  BY SubscribedParts
<1>2. UNCHANGED <<ready, keys, count, listeners, mounted, cut>>
  BY DEF TokenForLoop, TokenForSubscribe
<1>3. Listening' /\ Counted'
  BY <1>1, <1>2 DEF Listening, Counted, Live, Members
<1>4. Served'
  <2> SUFFICES ASSUME ready = "open", NEW p \in keys
               PROVE  p \in server' \cup refused' \/ Awaited(p)' \/ (Looping' /\ p \notin loop'.past)
    BY <1>2 DEF Served
  <2>1. CASE TokenForLoop
    <3>1. /\ loop.at \in server' \cup refused' /\ server \cup refused \subseteq server' \cup refused'
          /\ UNCHANGED asked /\ loop' \in LoopsFrom(loop.past)
      BY <2>1 DEF TokenForLoop
    <3>2. p \in loop.past \/ (Looping' /\ (loop'.at = p \/ p \notin loop'.past))
      BY <3>1, ComponentsAssumption DEF LoopsFrom, Looping, NoLoop, TypeOK
    <3> QED BY <1>1, <3>1, <3>2 DEF Served, Awaited
  <2>2. ASSUME NEW q \in Projects, TokenForSubscribe(q)
        PROVE  p \in server' \cup refused' \/ Awaited(p)' \/ (Looping' /\ p \notin loop'.past)
    <3>1. /\ q \in server' \cup refused' /\ server \cup refused \subseteq server' \cup refused'
          /\ UNCHANGED loop /\ asked' = [asked EXCEPT ![q] = @ - 1]
      BY <2>2 DEF TokenForSubscribe
    <3>2. p # q => asked'[p] = asked[p]
      BY <3>1 DEF TypeOK
    <3> QED BY <1>1, <3>1, <3>2 DEF Served, Awaited, Looping
  <2> QED BY <2>1, <2>2
<1> QED BY <1>3, <1>4 DEF Subscribed, Listening, Counted, Served

LEMMA ServerSubscribed ==
  ASSUME TypeInv, Subscribed, Logout \/ Opened \/ Closing \/ Closed \/ TimerFires
  PROVE  Subscribed'
<1>1. Listening /\ Counted /\ Served
  BY SubscribedParts
<1>2. CASE Logout
  <2>1. Live' = {}
    BY <1>2 DEF Logout, Live
  <2>2. \A p : Cardinality(Live' \cap Members(p)) = 0
    BY <2>1, FS_EmptySet
  <2>3. ready' = "null" /\ \A p \in Projects : count'[p] = 0
    BY <1>2 DEF Logout, Close
  <2> QED BY <2>1, <2>2, <2>3 DEF Subscribed, Members
<1>3. CASE Opened \/ Closing \/ Closed \/ TimerFires
  <2>1. UNCHANGED <<keys, count, listeners, mounted, cut>>
    BY <1>3 DEF Opened, Closing, Closed, TimerFires
  <2>2. Listening' /\ Counted'
    BY <1>1, <2>1 DEF Listening, Counted, Live, Members
  <2>3. Served'
    <3>1. CASE Opened
      BY <3>1, ComponentsAssumption DEF Opened, LoopsFrom, NoLoop, Looping, Served, Awaited, TypeOK
    <3>2. CASE Closing \/ Closed
      BY <3>2 DEF Closing, Closed, Served
    <3>3. CASE TimerFires
      BY <1>1, <3>3 DEF TimerFires, Connect, Served, Awaited, Looping
    <3> QED BY <1>3, <3>1, <3>2, <3>3
  <2> QED BY <2>2, <2>3 DEF Subscribed, Listening, Counted, Served
<1> QED BY <1>2, <1>3

LEMMA NextSubscribed == ASSUME TypeInv, Subscribed, [Next]_vars PROVE Subscribed'
<1>1. CASE Users
  BY <1>1, MountSubscribed, UnmountSubscribed DEF Users
<1>2. CASE Logout \/ Opened \/ Closing \/ Closed \/ TimerFires
  BY <1>2, ServerSubscribed
<1>3. CASE TokenForLoop \/ \E p \in Projects : TokenForSubscribe(p)
  BY <1>3, TokenSubscribed
<1>4. CASE UNCHANGED vars
  BY <1>4 DEF vars, Subscribed, Live, Members, Awaited, Looping
<1> QED BY <1>1, <1>2, <1>3, <1>4 DEF Next

-----------------------------------------------------------------------------
(* The theorems.                                                           *)

\* The inductive invariant holds of every behaviour.
THEOREM Invariance == Spec => []IInv
<1>1. Init => IInv
  BY InitTypes, InitShut, InitStray, InitSubscribed DEF IInv
<1>2. IInv /\ [Next]_vars => IInv'
  BY NextTypes, NextShut, NextStray, NextSubscribed DEF IInv
<1> QED BY <1>1, <1>2, PTL DEF Spec

\* The variables keep their types: an entry of subscriptions is counted at least once, and
\* the loop over them remembers nothing when it is over.
THEOREM TypeCorrect == Spec => []TypeOK
<1>1. IInv => TypeOK
  BY DEF IInv
<1> QED BY <1>1, Invariance, PTL

\* However often the socket fails, components come and go, and tokens are late: a mounted
\* component stays subscribed (subscribe, unsubscribe, onopen, resubscribeActiveProjects).
THEOREM StaysSubscribed == Spec => []Subscribed
<1>1. IInv => Subscribed
  BY DEF IInv
<1> QED BY <1>1, Invariance, PTL

\* The server pushes a project nobody subscribes to only if it was left while a token for it
\* was awaited.
THEOREM NothingElsePushed == Spec => []NoStray
<1>1. IInv => NoStray
  BY DEF IInv, StrayInv
<1> QED BY <1>1, Invariance, PTL

\* A logout is final until somebody mounts, unless two reconnect timers had been started.
THEOREM LogoutIsFinal == Spec => []StaysShut
<1>1. IInv => StaysShut
  BY DEF IInv, ShutInv
<1> QED BY <1>1, Invariance, PTL
=============================================================================
