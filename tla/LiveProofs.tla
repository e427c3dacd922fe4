------------------------------- MODULE LiveProofs -------------------------------
(***************************************************************************)
(* Proofs about what MCLive composes: the WebSocket provider, the Pyth     *)
(* link and the user index of backend-v2; the price trigger, the pending   *)
(* polls, the sources of signals and the submissions of the first bot.     *)
(* Each part has an inductive invariant over its own variables; a step of  *)
(* the composition is a step of one part, or leaves the part alone.        *)
(***************************************************************************)
EXTENDS MCLive, FiniteSetTheorems, TLAPS

LEMMA SpecSteps == Spec => Init /\ [][Next]_vars
  BY PTL DEF Spec

-----------------------------------------------------------------------------
\* WsProvider, for any number of subscribers, providers and attempts.

\* What is replaced is destroyed, what is not created yet is not there, and at most one
\* timer runs, for a provider that was created.  The counter of attempts is at most one:
\* createWsProvider resets it.
WsInv ==
  /\ Ws!TypeOK
  /\ Ws!OnlyCurrentLives
  /\ \A p \in Ws!Providers : p > current => wsSocket[p] = "none"
  /\ isReconnecting => current > 0
  /\ wsAttempts = IF isReconnecting THEN 1 ELSE 0
  /\ wsTimers = wsAttempts

LEMMA WsBounds == MaxWsAttempts \in Nat \ {0} /\ MaxProviders \in Nat \ {0}
  BY PartAssumptions DEF Ws!WsAssumption

LEMMA WsInit == Ws!Init => WsInv
<1> SUFFICES ASSUME Ws!Init PROVE WsInv
  OBVIOUS
<1>1. current \in 0 .. MaxProviders /\ wsAttempts \in 0 .. MaxWsAttempts + 1 /\ wsTimers \in Nat
  BY WsBounds DEF Ws!Init
<1>2. heardOn \in [Subscribers -> 0 .. MaxProviders]
  BY WsBounds DEF Ws!Init
<1>3. Ws!TypeOK
  BY <1>1, <1>2 DEF Ws!Init, Ws!TypeOK
<1>4. Ws!OnlyCurrentLives /\ \A p \in Ws!Providers : wsSocket[p] = "none"
  BY DEF Ws!Init, Ws!OnlyCurrentLives, Ws!Providers
<1> QED BY <1>3, <1>4 DEF Ws!Init, WsInv

\* A provider is created: the next number, when those before it are destroyed.
LEMMA Creates ==
  ASSUME WsInv, NEW others \in [Ws!Providers -> {"none", "open", "broken", "destroyed"}],
         \A p \in Ws!Providers : p <= current => others[p] = "destroyed",
         \A p \in Ws!Providers : p > current => others[p] = "none",
         Ws!Create(others)
  PROVE  /\ current' \in 1 .. MaxProviders /\ wsAttempts' = 0
         /\ wsSocket' \in [Ws!Providers -> {"none", "open", "broken", "destroyed"}]
         /\ Ws!OnlyCurrentLives'
         /\ (\A p \in Ws!Providers : p > current => wsSocket[p] = "none")'
<1>1. /\ current \in 0 .. MaxProviders /\ current < MaxProviders /\ current' = current + 1
      /\ wsAttempts' = 0
      /\ \E state \in {"open", "broken"} : wsSocket' = [others EXCEPT ![current + 1] = state]
  BY DEF Ws!Create, WsInv, Ws!TypeOK
<1>2. current' \in 1 .. MaxProviders /\ current \in Int
  BY <1>1, WsBounds
<1>3. PICK state \in {"open", "broken"} : wsSocket' = [others EXCEPT ![current + 1] = state]
  BY <1>1
<1>4. \A p \in Ws!Providers : p \in Int
  BY WsBounds DEF Ws!Providers
<1>5. Ws!OnlyCurrentLives'
  BY <1>1, <1>2, <1>3, <1>4 DEF Ws!OnlyCurrentLives
<1>6. (\A p \in Ws!Providers : p > current => wsSocket[p] = "none")'
  BY <1>1, <1>2, <1>3, <1>4
<1> QED BY <1>1, <1>2, <1>3, <1>5, <1>6

LEMMA WsSubscribes == ASSUME WsInv, NEW w \in Subscribers, Ws!Subscribe(w) PROVE WsInv'
<1>u. UNCHANGED <<isReconnecting, wsTimers, errors, gaveUp>>
  BY DEF Ws!Subscribe
<1>1. CASE current = 0
  <2>1. Ws!Create(wsSocket) /\ heardOn' = [heardOn EXCEPT ![w] = 1]
    BY <1>1 DEF Ws!Subscribe
  <2>2. /\ current' \in 1 .. MaxProviders /\ wsAttempts' = 0
        /\ wsSocket' \in [Ws!Providers -> {"none", "open", "broken", "destroyed"}]
        /\ Ws!OnlyCurrentLives'
        /\ (\A p \in Ws!Providers : p > current => wsSocket[p] = "none")'
    <3>1. \A p \in Ws!Providers : p > 0
      BY DEF Ws!Providers
    <3>2. wsSocket \in [Ws!Providers -> {"none", "open", "broken", "destroyed"}]
      BY DEF WsInv, Ws!TypeOK
    <3>3. \A p \in Ws!Providers : ~ (p <= current)
      BY <1>1 DEF Ws!Providers
    <3>4. PICK others : others = wsSocket
      OBVIOUS
    <3>5. \A p \in Ws!Providers : p > current => others[p] = "none"
      BY <3>4 DEF WsInv
    <3> QED BY <2>1, <3>2, <3>3, <3>4, <3>5, Creates
  <2>3. heardOn' \in [Subscribers -> 0 .. MaxProviders]
    BY <2>1, WsBounds DEF WsInv, Ws!TypeOK
  <2>4. ~ isReconnecting /\ wsTimers = 0
    BY <1>1 DEF WsInv, Ws!TypeOK
  <2>5. wsTimers' = 0 /\ ~ isReconnecting' /\ 0 \in 0 .. MaxWsAttempts + 1
    BY <1>u, <2>4, WsBounds
  <2>6. current' \in 0 .. MaxProviders
    BY <2>2, WsBounds
  <2> QED BY <1>u, <2>2, <2>3, <2>5, <2>6 DEF WsInv, Ws!TypeOK
<1>2. CASE current # 0
  <2>1. heardOn' = [heardOn EXCEPT ![w] = current] /\ UNCHANGED <<current, wsSocket, wsAttempts>>
    BY <1>2 DEF Ws!Subscribe
  <2>2. heardOn' \in [Subscribers -> 0 .. MaxProviders]
    BY <2>1 DEF WsInv, Ws!TypeOK
  <2> QED BY <1>u, <2>1, <2>2 DEF WsInv, Ws!TypeOK, Ws!OnlyCurrentLives
<1> QED BY <1>1, <1>2

LEMMA WsBreaks == ASSUME WsInv, NEW p \in Ws!Providers, Ws!Break(p) PROVE WsInv'
<1>1. /\ wsSocket[p] = "open" /\ wsSocket' = [wsSocket EXCEPT ![p] = "broken"]
      /\ UNCHANGED <<current, heardOn, wsAttempts, isReconnecting, wsTimers, errors, gaveUp>>
  BY DEF Ws!Break
<1>2. ~ (p < current) /\ ~ (p > current)
  BY <1>1 DEF WsInv, Ws!OnlyCurrentLives
<1>3. Ws!TypeOK'
  BY <1>1 DEF WsInv, Ws!TypeOK
<1>4. /\ Ws!OnlyCurrentLives'
      /\ (\A q \in Ws!Providers : q > current => wsSocket[q] = "none")'
  BY <1>1, <1>2 DEF WsInv, Ws!TypeOK, Ws!OnlyCurrentLives
<1> QED BY <1>1, <1>3, <1>4 DEF WsInv

LEMMA WsFails == ASSUME WsInv, NEW p \in Ws!Providers, Ws!Error(p) PROVE WsInv'
<1>1. /\ wsSocket[p] # "none" /\ errors' = errors \cup {p} /\ Ws!HandleDisconnect
      /\ UNCHANGED <<current, wsSocket, heardOn>>
  BY DEF Ws!Error
<1>2. current > 0
  <2>1. current \in Nat /\ p > 0
    BY WsBounds DEF WsInv, Ws!TypeOK, Ws!Providers
  <2> QED BY <1>1, <2>1 DEF WsInv
<1>3. Ws!OnlyCurrentLives' /\ (\A q \in Ws!Providers : q > current => wsSocket[q] = "none")'
  BY <1>1 DEF WsInv, Ws!OnlyCurrentLives
<1>4. CASE isReconnecting
  <2>1. UNCHANGED <<wsAttempts, isReconnecting, wsTimers, gaveUp>>
    BY <1>1, <1>4 DEF Ws!HandleDisconnect
  <2> QED BY <1>1, <1>3, <2>1 DEF WsInv, Ws!TypeOK
<1>5. CASE ~ isReconnecting
  <2>1. wsAttempts = 0 /\ wsTimers = 0 /\ ~ (wsAttempts + 1 > MaxWsAttempts)
    BY <1>5, WsBounds DEF WsInv
  <2>2. wsAttempts' = 1 /\ isReconnecting' = TRUE /\ wsTimers' = 1 /\ gaveUp' = gaveUp
    BY <1>1, <1>5, <2>1 DEF Ws!HandleDisconnect
  <2>3. 1 \in 0 .. MaxWsAttempts + 1
    BY WsBounds
  <2> QED BY <1>1, <1>2, <1>3, <2>2, <2>3 DEF WsInv, Ws!TypeOK
<1> QED BY <1>4, <1>5 DEF WsInv, Ws!TypeOK

LEMMA WsReconnects == ASSUME WsInv, Ws!Reconnect PROVE WsInv'
<1> DEFINE others == [wsSocket EXCEPT ![current] = "destroyed"]
<1>1. /\ wsTimers > 0 /\ wsTimers' = wsTimers - 1 /\ isReconnecting' = FALSE
      /\ Ws!Create(others) /\ UNCHANGED <<heardOn, errors, gaveUp>>
  BY DEF Ws!Reconnect
<1>2. wsTimers' = 0 /\ isReconnecting /\ current > 0
  BY <1>1 DEF WsInv
<1>3. current \in Ws!Providers
  BY <1>2, WsBounds DEF WsInv, Ws!TypeOK, Ws!Providers
<1>4. /\ others \in [Ws!Providers -> {"none", "open", "broken", "destroyed"}]
      /\ \A p \in Ws!Providers : p <= current => others[p] = "destroyed"
      /\ \A p \in Ws!Providers : p > current => others[p] = "none"
  BY <1>3, WsBounds DEF WsInv, Ws!TypeOK, Ws!OnlyCurrentLives, Ws!Providers
<1>5. PICK o \in [Ws!Providers -> {"none", "open", "broken", "destroyed"}] : o = others
  BY <1>4
<1>6. /\ current' \in 1 .. MaxProviders /\ wsAttempts' = 0
      /\ wsSocket' \in [Ws!Providers -> {"none", "open", "broken", "destroyed"}]
      /\ Ws!OnlyCurrentLives'
      /\ (\A p \in Ws!Providers : p > current => wsSocket[p] = "none")'
  <2> HIDE DEF others
  <2> QED BY <1>1, <1>4, <1>5, Creates
<1>7. /\ current' \in 0 .. MaxProviders /\ wsAttempts' \in 0 .. MaxWsAttempts + 1
      /\ wsTimers' \in Nat /\ isReconnecting' \in BOOLEAN
  <2>1. current' \in 0 .. MaxProviders
    BY <1>6, WsBounds
  <2>2. 0 \in 0 .. MaxWsAttempts + 1
    BY WsBounds
  <2>3. wsAttempts' = 0 /\ wsTimers' = 0 /\ isReconnecting' = FALSE
    BY <1>1, <1>2, <1>6
  <2> QED BY <2>1, <2>2, <2>3
<1>8. UNCHANGED <<heardOn, errors, gaveUp>>
  BY <1>1
<1>9. Ws!TypeOK'
  BY <1>6, <1>7, <1>8 DEF WsInv, Ws!TypeOK
<1> QED BY <1>1, <1>2, <1>6, <1>9 DEF WsInv

LEMMA WsNext == WsInv /\ [Ws!Next]_(Ws!vars) => WsInv'
<1> SUFFICES ASSUME WsInv, [Ws!Next]_(Ws!vars) PROVE WsInv'
  OBVIOUS
<1>1. CASE UNCHANGED Ws!vars
  BY <1>1 DEF Ws!vars, WsInv, Ws!TypeOK, Ws!OnlyCurrentLives
<1> QED BY <1>1, WsSubscribes, WsBreaks, WsFails, WsReconnects DEF Ws!Next

LEMMA ReplacedIsDestroyed == Ws!Spec => []Ws!OnlyCurrentLives
<1>1. WsInv => Ws!OnlyCurrentLives
  BY DEF WsInv
<1> QED BY <1>1, WsInit, WsNext, PTL DEF Ws!Spec

LEMMA WsPart == Spec => Ws!Spec
<1>1. Init => Ws!Init
  BY DEF Init
<1>2. [Next]_vars => [Ws!Next]_(Ws!vars)
  BY DEF Next, vars, wsVars, Ws!vars, FollowIndex, FollowWs, FollowPyth, FollowPrice,
         FollowPolls, FollowSources, FollowSubmit
<1> QED BY <1>1, <1>2, SpecSteps, PTL DEF Ws!Spec

-----------------------------------------------------------------------------
\* PythLink, for any number of connections and attempts.

\* At most one connection is alive, and then no backoff waits to make another.
PythInv ==
  /\ Pyth!TypeOK
  /\ timers \in {0, 1}
  /\ \A c, d \in Pyth!Conns : Pyth!Live(c) /\ Pyth!Live(d) => c = d
  /\ timers = 1 \/ ~ started => \A c \in Pyth!Conns : ~ Pyth!Live(c)
  /\ ~ started => timers = 0

LEMMA PythBounds == MaxPythAttempts \in Nat \ {0} /\ MaxConns \in Nat \ {0}
  BY PartAssumptions DEF Pyth!LinkAssumption

LEMMA PythInit == Pyth!Init => PythInv
<1> SUFFICES ASSUME Pyth!Init PROVE PythInv
  OBVIOUS
<1>1. made \in 0 .. MaxConns /\ ws \in 0 .. made /\ attempts \in 0 .. MaxPythAttempts
  BY PythBounds DEF Pyth!Init
<1>2. Pyth!TypeOK
  BY <1>1 DEF Pyth!Init, Pyth!TypeOK
<1> QED BY <1>2 DEF Pyth!Init, PythInv, Pyth!Live, Pyth!Conns

\* A connection is made when none is alive.
LEMMA Connects ==
  ASSUME PythInv, \A c \in Pyth!Conns : ~ Pyth!Live(c), Pyth!Connect
  PROVE  /\ made' \in 0 .. MaxConns /\ ws' \in 0 .. made'
         /\ socket' \in [Pyth!Conns -> {"none", "connecting", "open", "closing", "closed"}]
         /\ (\A c, d \in Pyth!Conns : Pyth!Live(c) /\ Pyth!Live(d) => c = d)'
<1>1. /\ made' = made + 1 /\ ws' = made + 1 /\ made < MaxConns /\ made \in 0 .. MaxConns
      /\ socket' = [socket EXCEPT ![made + 1] = "connecting"]
  BY DEF Pyth!Connect, PythInv, Pyth!TypeOK
<1>2. made' \in 0 .. MaxConns /\ ws' \in 0 .. made'
  BY <1>1, PythBounds
<1>3. \A c \in Pyth!Conns : Pyth!Live(c)' => c = made + 1
  BY <1>1 DEF Pyth!Live, PythInv, Pyth!TypeOK
<1> QED BY <1>1, <1>2, <1>3 DEF PythInv, Pyth!TypeOK

\* Nothing comes alive: what is alive is among what was.
LEMMA NothingComesAlive ==
  ASSUME PythInv, \A c \in Pyth!Conns : Pyth!Live(c)' => Pyth!Live(c), timers' = timers,
         started' = started
  PROVE  /\ (\A c, d \in Pyth!Conns : Pyth!Live(c) /\ Pyth!Live(d) => c = d)'
         /\ (timers = 1 \/ ~ started => \A c \in Pyth!Conns : ~ Pyth!Live(c))'
         /\ timers' \in {0, 1} /\ (~ started => timers = 0)'
  BY DEF PythInv

LEMMA PythNext == PythInv /\ [Pyth!Next]_(Pyth!vars) => PythInv'
<1> SUFFICES ASSUME PythInv, [Pyth!Next]_(Pyth!vars) PROVE PythInv'
  OBVIOUS
<1>1. CASE Pyth!Start
  <2>1. /\ ~ started /\ started' = TRUE /\ shouldReconnect' = TRUE /\ Pyth!Connect
        /\ UNCHANGED <<isConnected, attempts, timers, heartbeat, silent, stopped>>
    BY <1>1 DEF Pyth!Start
  <2>2. timers = 0 /\ \A c \in Pyth!Conns : ~ Pyth!Live(c)
    BY <2>1 DEF PythInv
  <2>3. /\ made' \in 0 .. MaxConns /\ ws' \in 0 .. made'
        /\ socket' \in [Pyth!Conns -> {"none", "connecting", "open", "closing", "closed"}]
        /\ (\A c, d \in Pyth!Conns : Pyth!Live(c) /\ Pyth!Live(d) => c = d)'
    BY <2>1, <2>2, Connects
  <2> QED BY <2>1, <2>2, <2>3 DEF PythInv, Pyth!TypeOK
<1>2. CASE Pyth!Stop
  <2>1. /\ stopped' = TRUE /\ shouldReconnect' = FALSE /\ heartbeat' = FALSE
        /\ isConnected' = FALSE /\ ws' = 0
        /\ socket' = [c \in Pyth!Conns |->
             IF c = ws /\ socket[c] \in {"connecting", "open"} THEN "closing" ELSE socket[c]]
        /\ UNCHANGED <<made, attempts, timers, silent, started>>
    BY <1>2 DEF Pyth!Stop
  <2>2. \A c \in Pyth!Conns : Pyth!Live(c)' => Pyth!Live(c)
    BY <2>1 DEF Pyth!Live
  <2>3. 0 \in 0 .. made
    BY PythBounds DEF PythInv, Pyth!TypeOK
  <2>4. Pyth!TypeOK'
    BY <2>1, <2>3 DEF PythInv, Pyth!TypeOK
  <2> QED BY <2>1, <2>2, <2>4, NothingComesAlive DEF PythInv
<1>3. CASE Pyth!BackoffOver
  <2>1. /\ timers > 0 /\ timers' = timers - 1
        /\ \/ Pyth!Connect
           \/ UNCHANGED <<made, ws, socket>>
        /\ UNCHANGED <<isConnected, shouldReconnect, attempts, heartbeat, silent, started,
                       stopped>>
    BY <1>3 DEF Pyth!BackoffOver, Pyth!flags
  <2>2. timers = 1 /\ timers' = 0 /\ started /\ \A c \in Pyth!Conns : ~ Pyth!Live(c)
    BY <2>1 DEF PythInv
  <2>3. /\ made' \in 0 .. MaxConns /\ ws' \in 0 .. made'
        /\ socket' \in [Pyth!Conns -> {"none", "connecting", "open", "closing", "closed"}]
        /\ (\A c, d \in Pyth!Conns : Pyth!Live(c) /\ Pyth!Live(d) => c = d)'
    <3>1. CASE Pyth!Connect
      BY <2>2, <3>1, Connects
    <3>2. CASE UNCHANGED <<made, ws, socket>>
      BY <3>2 DEF PythInv, Pyth!TypeOK, Pyth!Live
    <3> QED BY <2>1, <3>1, <3>2
  <2> QED BY <2>1, <2>2, <2>3 DEF PythInv, Pyth!TypeOK
<1>4. ASSUME NEW c \in Pyth!Conns, Pyth!Open(c) PROVE PythInv'
  <2>1. /\ socket[c] = "connecting" /\ socket' = [socket EXCEPT ![c] = "open"]
        /\ isConnected' = TRUE /\ attempts' = 0 /\ silent' = FALSE /\ heartbeat' = TRUE
        /\ UNCHANGED <<made, ws, shouldReconnect, timers, started, stopped>>
    BY <1>4 DEF Pyth!Open, Pyth!flags
  <2>2. \A d \in Pyth!Conns : Pyth!Live(d)' => Pyth!Live(d)
    BY <2>1 DEF Pyth!Live, PythInv, Pyth!TypeOK
  <2>3. 0 \in 0 .. MaxPythAttempts
    BY PythBounds
  <2>4. Pyth!TypeOK'
    BY <2>1, <2>3 DEF PythInv, Pyth!TypeOK
  <2> QED BY <2>1, <2>2, <2>4, NothingComesAlive DEF PythInv
<1>5. ASSUME NEW c \in Pyth!Conns, Pyth!Close(c) PROVE PythInv'
  <2>1. /\ Pyth!Live(c) /\ socket' = [socket EXCEPT ![c] = "closed"]
        /\ isConnected' = FALSE /\ heartbeat' = FALSE
        /\ \/ /\ attempts < MaxPythAttempts /\ attempts' = attempts + 1
              /\ timers' = timers + 1
           \/ UNCHANGED <<attempts, timers>>
        /\ UNCHANGED <<made, ws, shouldReconnect, silent, started, stopped>>
    BY <1>5 DEF Pyth!Close, Pyth!MayReconnect, Pyth!Live, Pyth!flags
  <2>2. timers = 0 /\ started
    BY <2>1 DEF PythInv
  <2>3. \A d \in Pyth!Conns : ~ Pyth!Live(d)'
    BY <2>1 DEF Pyth!Live, PythInv, Pyth!TypeOK
  <2>4. attempts' \in 0 .. MaxPythAttempts /\ timers' \in {0, 1}
    BY <2>1, <2>2, PythBounds DEF PythInv, Pyth!TypeOK
  <2>5. /\ socket' \in [Pyth!Conns -> {"none", "connecting", "open", "closing", "closed"}]
        /\ timers' \in Nat
    BY <2>1, <2>4 DEF PythInv, Pyth!TypeOK
  <2>6. /\ isConnected' = FALSE /\ heartbeat' = FALSE
        /\ UNCHANGED <<made, ws, shouldReconnect, silent, started, stopped>>
    BY <2>1
  <2>7. Pyth!TypeOK'
    BY <2>4, <2>5, <2>6 DEF PythInv, Pyth!TypeOK
  <2> QED BY <2>1, <2>2, <2>3, <2>4, <2>7 DEF PythInv
<1>6. CASE Pyth!Message \/ Pyth!Silence
  <2>1. /\ silent' \in BOOLEAN
        /\ UNCHANGED <<made, ws, socket, isConnected, shouldReconnect, attempts, timers,
                       heartbeat, started, stopped>>
    BY <1>6 DEF Pyth!Message, Pyth!Silence, Pyth!flags
  <2> QED BY <2>1 DEF PythInv, Pyth!TypeOK, Pyth!Live
<1>7. CASE Pyth!Heartbeat
  <2>1. /\ ws # 0 /\ socket' = [socket EXCEPT ![ws] = IF @ = "open" THEN "closing" ELSE @]
        /\ UNCHANGED <<made, ws, isConnected, shouldReconnect, attempts, timers, heartbeat,
                       silent, started, stopped>>
    BY <1>7 DEF Pyth!Heartbeat, Pyth!flags
  <2>2. ws \in Pyth!Conns
    BY <2>1, PythBounds DEF PythInv, Pyth!TypeOK, Pyth!Conns
  <2>3. \A d \in Pyth!Conns : Pyth!Live(d)' => Pyth!Live(d)
    BY <2>1, <2>2 DEF Pyth!Live, PythInv, Pyth!TypeOK
  <2>4. Pyth!TypeOK'
    BY <2>1, <2>2 DEF PythInv, Pyth!TypeOK
  <2> QED BY <2>1, <2>3, <2>4, NothingComesAlive DEF PythInv
<1>8. CASE UNCHANGED Pyth!vars
  BY <1>8 DEF Pyth!vars, PythInv, Pyth!TypeOK, Pyth!Live
<1> QED BY <1>1, <1>2, <1>3, <1>4, <1>5, <1>6, <1>7, <1>8 DEF Pyth!Next

\* What the instance counts is what FiniteSets counts.
LEMMA ConnsCounted == \A S : Pyth!Cardinality(S) = Cardinality(S)
  BY DEF Pyth!Cardinality, Cardinality

LEMMA OneIsAlive == Pyth!Spec => []Pyth!OneConnection
<1>1. PythInv => Pyth!OneConnection
  <2> SUFFICES ASSUME PythInv PROVE Pyth!OneConnection
    OBVIOUS
  <2> DEFINE alive == {c \in Pyth!Conns : Pyth!Live(c)}
  <2>1. CASE alive = {}
    <3>1. Cardinality(alive) = 0
      BY <2>1, FS_EmptySet
    <3>2. Cardinality(alive) + timers <= 1
      BY <3>1 DEF PythInv
    <3> QED BY <3>2, ConnsCounted DEF Pyth!OneConnection
  <2>2. CASE alive # {}
    <3>1. PICK c \in alive : alive = {c}
      BY <2>2 DEF PythInv
    <3>2. Cardinality(alive) = 1
      BY <3>1, FS_Singleton
    <3>3. timers = 0
      BY <3>1 DEF PythInv
    <3>4. Cardinality(alive) + timers <= 1
      BY <3>2, <3>3
    <3> QED BY <3>4, ConnsCounted DEF Pyth!OneConnection
  <2> QED BY <2>1, <2>2
<1> QED BY <1>1, PythInit, PythNext, PTL DEF Pyth!Spec

LEMMA PythPart == Spec => Pyth!Spec
<1>1. Init => Pyth!Init
  BY DEF Init
<1>2. [Next]_vars => [Pyth!Next]_(Pyth!vars)
  BY DEF Next, vars, pythVars, Pyth!vars, FollowIndex, FollowWs, FollowPyth, FollowPrice,
         FollowPolls, FollowSources, FollowSubmit
<1> QED BY <1>1, <1>2, SpecSteps, PTL DEF Pyth!Spec

\* However errors, close events, heartbeats, backoffs and stops interleave, a provider
\* that was replaced is destroyed, and at most one connection to Pyth lives or is to come.
THEOREM LinksAreSingle == Spec => []OneLink
  BY ReplacedIsDestroyed, WsPart, OneIsAlive, PythPart, PTL DEF OneLink

-----------------------------------------------------------------------------
\* UserIndex, ActiveRiskSet and PredictiveLoop, for any number of users, tokens,
\* refreshes and sweeps.

\* What a sweep knows of itself while it waits: whom it rescored already has a
\* lastRescoreTime no older than the sweep's own time, so the rate limit covers them.
SweepKnown(w) ==
  /\ w.pc = "idle" => w.done = {}
  /\ w.pc # "idle" => w.token \in Tokens /\ w.user \in Users
  /\ \A u \in w.done : lastRescore[u] >= w.now

IndexInv ==
  /\ Index!TypeOK
  /\ Index!MapsInverse
  /\ \A f \in Fetches : fetch[f].pc # "idle" => fetch[f].user \in Users
  /\ \A s \in Sweeps : SweepKnown(sweep[s])

LEMMA IndexBounds ==
  /\ RateLimit \in Nat \ {0} /\ Throttle \in Nat \ {0} /\ Horizon \in Nat
  /\ MaxTrades \in Nat
  BY PartAssumptions DEF Index!IndexAssumption

LEMMA TimesAreIntegers == Index!Times \subseteq Int /\ 0 .. Horizon \subseteq Index!Times
  BY IndexBounds DEF Index!Times, Index!Never

LEMMA IdleRecords ==
  /\ Index!IdleFetch \in Index!FetchState /\ Index!IdleFetch.pc = "idle"
  /\ Index!IdleSweep \in Index!SweepState /\ Index!IdleSweep.pc = "idle"
  /\ Index!IdleSweep.done = {}
<1>1. 0 \in 0 .. Horizon
  BY IndexBounds
<1>2. /\ Index!IdleFetch \in Index!FetchState /\ Index!IdleFetch.pc = "idle"
  BY DEF Index!IdleFetch, Index!FetchState
<1> QED BY <1>1, <1>2 DEF Index!IdleSweep, Index!SweepState

LEMMA IndexInit == Index!Init => IndexInv
<1> SUFFICES ASSUME Index!Init PROVE IndexInv
  OBVIOUS
<1>1. Index!Never \in Index!Times
  BY DEF Index!Times
<1>2. trades \in 0 .. MaxTrades /\ now \in 0 .. Horizon
  BY IndexBounds DEF Index!Init
<1>3. Index!TypeOK
  BY <1>1, <1>2, IdleRecords DEF Index!Init, Index!TypeOK
<1>4. Index!MapsInverse
  BY DEF Index!Init, Index!MapsInverse
<1> QED BY <1>3, <1>4, IdleRecords DEF Index!Init, IndexInv, SweepKnown

\* An activation of updateUserIndexForUser that starts has its user.
LEMMA FetchStarts ==
  ASSUME IndexInv, NEW u \in Users, Index!StartFetch(u)
  PROVE  /\ fetch' \in [Fetches -> Index!FetchState]
         /\ (\A f \in Fetches : fetch[f].pc # "idle" => fetch[f].user \in Users)'
<1>1. PICK f \in Fetches :
        fetch' = [fetch EXCEPT ![f] = [pc |-> "reading", user |-> u, tokens |-> {}]]
  BY DEF Index!StartFetch
<1>2. [pc |-> "reading", user |-> u, tokens |-> {}] \in Index!FetchState
  BY DEF Index!FetchState
<1> QED BY <1>1, <1>2 DEF IndexInv, Index!TypeOK

\* What updateHF leaves, whichever way it takes.
LEMMA HealthFactorUpdated ==
  ASSUME IndexInv, NEW u \in Users, NEW dust \in BOOLEAN, Index!UpdateHF(u, dust)
  PROVE  /\ fetch' \in [Fetches -> Index!FetchState]
         /\ (\A f \in Fetches : fetch[f].pc # "idle" => fetch[f].user \in Users)'
         /\ risk' \subseteq Users /\ refreshedAt' \in [Users -> Index!Times]
<1>1. Index!Never \in Index!Times /\ now \in Index!Times
  BY TimesAreIntegers DEF Index!Times, IndexInv, Index!TypeOK
<1>2. \/ risk' = risk \ {u} /\ UNCHANGED <<refreshedAt, fetch>>
      \/ Index!Add(u)
      \/ /\ refreshedAt' = [refreshedAt EXCEPT ![u] = now]
         /\ Index!StartFetch(u) /\ UNCHANGED risk
      \/ UNCHANGED <<risk, refreshedAt, fetch>>
  BY DEF Index!UpdateHF, Index!riskVars
<1>3. CASE Index!StartFetch(u)
  <2>1. risk' \subseteq Users /\ refreshedAt' \in [Users -> Index!Times]
    BY <1>1, <1>2 DEF Index!Add, IndexInv, Index!TypeOK
  <2> QED BY <1>3, <2>1, FetchStarts
<1>4. CASE ~ Index!StartFetch(u)
  BY <1>2, <1>4 DEF Index!Add, IndexInv, Index!TypeOK
<1> QED BY <1>3, <1>4

\* The walk goes on: to a user it did not rescore yet, or to its end.
LEMMA IndexWalks ==
  ASSUME IndexInv, NEW s \in Sweeps, NEW w \in Index!SweepState, Index!Walk(s, w),
         w.token \in Tokens, \A u \in w.done : lastRescore[u] >= w.now
  PROVE  /\ sweep' \in [Sweeps -> Index!SweepState]
         /\ lastRescore' \in [Users -> Index!Times]
         /\ (\A x \in Sweeps : SweepKnown(sweep[x]))'
         /\ \A x \in Sweeps \ {s} : sweep'[x] = sweep[x]
         /\ sweep'[s].pc = "checking" => sweep'[s].user \notin w.done
<1>1. w.now \in Index!Times /\ w.now \in Int /\ w.todo \subseteq Users
  BY TimesAreIntegers DEF Index!SweepState
<1>2. /\ lastRescore \in [Users -> Index!Times] /\ sweep \in [Sweeps -> Index!SweepState]
      /\ \A x \in Sweeps : SweepKnown(sweep[x])
      /\ \A u \in Users : lastRescore[u] \in Int
  BY TimesAreIntegers DEF IndexInv, Index!TypeOK
<1>3. CASE sweep' = [sweep EXCEPT ![s] = Index!IdleSweep] /\ UNCHANGED lastRescore
  BY <1>2, <1>3, IdleRecords DEF SweepKnown
<1>4. ASSUME NEW u \in w.todo, ~ Index!TooSoon(w, u),
             sweep' = [sweep EXCEPT ![s] =
               [w EXCEPT !.pc = "checking", !.user = u, !.todo = @ \ {u},
                         !.done = @ \cup {u}]],
             lastRescore' = [lastRescore EXCEPT ![u] = w.now]
      PROVE  /\ sweep' \in [Sweeps -> Index!SweepState]
             /\ lastRescore' \in [Users -> Index!Times]
             /\ (\A x \in Sweeps : SweepKnown(sweep[x]))'
             /\ \A x \in Sweeps \ {s} : sweep'[x] = sweep[x]
             /\ sweep'[s].pc = "checking" => sweep'[s].user \notin w.done
  <2>1. u \in Users
    BY <1>1, <1>4
  <2>2. PICK r : r = [w EXCEPT !.pc = "checking", !.user = u, !.todo = @ \ {u},
                               !.done = @ \cup {u}]
    OBVIOUS
  <2>3. /\ r \in Index!SweepState /\ r.pc = "checking" /\ r.user = u
        /\ r.now = w.now /\ r.token = w.token /\ r.done = w.done \cup {u}
    BY <2>1, <2>2 DEF Index!SweepState
  <2>4. sweep' = [sweep EXCEPT ![s] = r]
    BY <1>4, <2>2
  <2>5. w.now - lastRescore[u] >= RateLimit
    BY <1>1, <1>2, <1>4, <2>1, IndexBounds DEF Index!TooSoon
  <2>6. lastRescore[u] < w.now
    BY <1>1, <1>2, <2>1, <2>5, IndexBounds
  <2>7. u \notin w.done
    BY <1>1, <1>2, <2>1, <2>6
  <2>8. \A v \in Users : lastRescore'[v] >= lastRescore[v] /\ lastRescore'[v] \in Int
    BY <1>1, <1>2, <1>4, <2>1, <2>6
  <2>9. lastRescore'[u] = w.now /\ lastRescore' \in [Users -> Index!Times]
    BY <1>1, <1>2, <1>4, <2>1
  <2>10. \A v \in r.done : lastRescore'[v] >= r.now
    <3>1. w.done \subseteq Users
      BY DEF Index!SweepState
    <3>2. \A v \in w.done : lastRescore'[v] >= w.now
      BY <1>1, <1>2, <2>8, <3>1
    <3>3. w.now >= w.now
      BY <1>1
    <3> QED BY <2>3, <2>9, <3>2, <3>3
  <2>11. ASSUME NEW x \in Sweeps PROVE SweepKnown(sweep[x])'
    <3>1. CASE x = s
      <4>1. sweep'[x] = r
        BY <1>2, <2>4, <3>1
      <4> QED BY <2>1, <2>3, <2>10, <4>1 DEF SweepKnown
    <3>2. CASE x # s
      <4>1. sweep'[x] = sweep[x] /\ sweep[x].now \in Int /\ sweep[x].done \subseteq Users
        BY <1>2, <2>4, <3>2, TimesAreIntegers DEF Index!SweepState
      <4>2. \A v \in sweep[x].done : lastRescore'[v] >= sweep[x].now
        BY <1>2, <2>8, <4>1 DEF SweepKnown
      <4> QED BY <1>2, <4>1, <4>2 DEF SweepKnown
    <3> QED BY <3>1, <3>2
  <2> QED BY <1>2, <2>3, <2>4, <2>7, <2>9, <2>11
<1> QED BY <1>3, <1>4 DEF Index!Walk

LEMMA IndexNext ==
  IndexInv /\ [Index!Next]_(Index!vars) =>
    IndexInv' /\ \A s \in Sweeps, u \in Users : Index!Rescores(s, u) => u \notin sweep[s].done
<1> DEFINE Once ==
      \A s \in Sweeps, u \in Users : Index!Rescores(s, u) => u \notin sweep[s].done
<1> SUFFICES ASSUME IndexInv, [Index!Next]_(Index!vars) PROVE IndexInv' /\ Once
  OBVIOUS
<1>1. CASE Index!Tick \/ \E u \in Users : Index!Trade(u)
  <2>1. /\ holdings' \in [Users -> SUBSET Tokens] /\ trades' \in 0 .. MaxTrades
        /\ now' \in 0 .. Horizon
        /\ UNCHANGED <<risk, refreshedAt, fetch, userTokens, tokenUsers, lastRescore, sweep>>
    BY <1>1, IndexBounds DEF Index!Tick, Index!Trade, Index!riskVars, Index!indexVars,
       IndexInv, Index!TypeOK
  <2> QED BY <2>1 DEF IndexInv, Index!TypeOK, Index!MapsInverse, SweepKnown, Index!Rescores
<1>2. ASSUME NEW u \in Users, Index!Recheck(u) PROVE IndexInv' /\ Once
  <2>1. PICK dust \in BOOLEAN : Index!UpdateHF(u, dust)
    BY <1>2 DEF Index!Recheck
  <2>2. UNCHANGED <<holdings, trades, now, userTokens, tokenUsers, lastRescore, sweep>>
    BY <1>2 DEF Index!Recheck, Index!indexVars
  <2> QED BY <2>1, <2>2, HealthFactorUpdated
          DEF IndexInv, Index!TypeOK, Index!MapsInverse, SweepKnown, Index!Rescores
<1>3. ASSUME NEW f \in Fetches, Index!FetchRead(f) \/ Index!FetchFails(f)
      PROVE IndexInv' /\ Once
  <2>1. /\ fetch' \in [Fetches -> Index!FetchState]
        /\ (\A g \in Fetches : fetch[g].pc # "idle" => fetch[g].user \in Users)'
    <3>1. CASE Index!FetchRead(f)
      <4>1. fetch[f].user \in Users
        BY <3>1 DEF IndexInv, Index!FetchRead
      <4>2. PICK r : r = [pc |-> "read", user |-> fetch[f].user,
                          tokens |-> holdings[fetch[f].user]]
        OBVIOUS
      <4>3. r \in Index!FetchState /\ r.user \in Users
        BY <4>1, <4>2 DEF Index!FetchState, IndexInv, Index!TypeOK
      <4>4. fetch' = [fetch EXCEPT ![f] = r]
        BY <3>1, <4>2 DEF Index!FetchRead
      <4> QED BY <4>3, <4>4 DEF IndexInv, Index!TypeOK
    <3>2. CASE Index!FetchFails(f)
      BY <3>2, IdleRecords DEF Index!FetchFails, IndexInv, Index!TypeOK
    <3> QED BY <1>3, <3>1, <3>2
  <2>2. UNCHANGED <<holdings, trades, now, risk, refreshedAt, userTokens, tokenUsers,
                    lastRescore, sweep>>
    BY <1>3 DEF Index!FetchRead, Index!FetchFails, Index!riskVars, Index!indexVars
  <2> QED BY <2>1, <2>2
          DEF IndexInv, Index!TypeOK, Index!MapsInverse, SweepKnown, Index!Rescores
<1>4. ASSUME NEW f \in Fetches, Index!FetchApply(f) PROVE IndexInv' /\ Once
  <2>1. PICK u \in Users : u = fetch[f].user
    BY <1>4 DEF Index!FetchApply, IndexInv
  <2>2. PICK tokens \in SUBSET Tokens : tokens = fetch[f].tokens
    BY DEF IndexInv, Index!TypeOK, Index!FetchState
  <2>3. /\ userTokens' = [userTokens EXCEPT ![u] = tokens]
        /\ tokenUsers' = [k \in Tokens |-> Index!EntryAfter(k, u, tokens)]
        /\ sweep' = [s \in Sweeps |->
             IF sweep[s].pc = "idle" THEN sweep[s]
             ELSE [sweep[s] EXCEPT !.todo = Index!TodoAfter(s, u, tokens),
                                   !.live = @ /\ ~ Index!Dropped(sweep[s].token, u)]]
        /\ fetch' = [fetch EXCEPT ![f] = Index!IdleFetch]
        /\ UNCHANGED <<holdings, trades, now, risk, refreshedAt, lastRescore>>
    BY <1>4, <2>1, <2>2 DEF Index!FetchApply, Index!riskVars
  <2>4. /\ userTokens' \in [Users -> SUBSET Tokens] /\ tokenUsers' \in [Tokens -> SUBSET Users]
        /\ Index!MapsInverse'
    BY <2>3 DEF IndexInv, Index!TypeOK, Index!EntryAfter, Index!MapsInverse
  <2>5. /\ fetch' \in [Fetches -> Index!FetchState]
        /\ (\A g \in Fetches : fetch[g].pc # "idle" => fetch[g].user \in Users)'
    BY <2>3, IdleRecords DEF IndexInv, Index!TypeOK
  <2>6. ASSUME NEW s \in Sweeps
        PROVE  /\ sweep'[s] \in Index!SweepState
               /\ sweep'[s].pc = sweep[s].pc /\ sweep'[s].token = sweep[s].token
               /\ sweep'[s].user = sweep[s].user /\ sweep'[s].now = sweep[s].now
               /\ sweep'[s].done = sweep[s].done
    <3>1. PICK w \in Index!SweepState : w = sweep[s]
      BY DEF IndexInv, Index!TypeOK
    <3>2. CASE w.pc = "idle"
      BY <2>3, <3>1, <3>2
    <3>3. CASE w.pc # "idle"
      <4>1. PICK todo \in SUBSET Users : todo = Index!TodoAfter(s, u, tokens)
        BY <3>1 DEF Index!TodoAfter, Index!SweepState
      <4>2. PICK dropped \in BOOLEAN : dropped <=> Index!Dropped(w.token, u)
        OBVIOUS
      <4>3. PICK live \in BOOLEAN : live <=> w.live /\ ~ Index!Dropped(w.token, u)
        OBVIOUS
      <4>4. sweep'[s] = [w EXCEPT !.todo = todo, !.live = w.live /\ ~ Index!Dropped(w.token, u)]
        BY <2>3, <3>1, <3>3, <4>1
      <4> QED BY <4>4, <3>1 DEF Index!SweepState
    <3> QED BY <3>2, <3>3
  <2>7. sweep' \in [Sweeps -> Index!SweepState]
    BY <2>3, <2>6
  <2>8. (\A s \in Sweeps : SweepKnown(sweep[s]))'
    BY <2>3, <2>6 DEF IndexInv, SweepKnown
  <2>9. Once
    BY <2>6 DEF Index!Rescores
  <2>10. Index!TypeOK'
    BY <2>3, <2>4, <2>5, <2>7 DEF IndexInv, Index!TypeOK
  <2> QED BY <2>4, <2>5, <2>8, <2>9, <2>10 DEF IndexInv
<1>5. ASSUME NEW s \in Sweeps,
             \/ \E k \in Tokens : Index!Trigger(s, k)
             \/ Index!WalkOn(s)
      PROVE IndexInv' /\ Once
  <2>1. PICK w \in Index!SweepState :
          /\ Index!Walk(s, w) /\ w.token \in Tokens /\ sweep[s].done = w.done
          /\ \A u \in w.done : lastRescore[u] >= w.now
    <3>1. ASSUME NEW k \in Tokens, Index!Trigger(s, k)
          PROVE  \E w \in Index!SweepState :
                   /\ Index!Walk(s, w) /\ w.token \in Tokens /\ sweep[s].done = w.done
                   /\ \A u \in w.done : lastRescore[u] >= w.now
      <4>1. PICK w : w = [pc |-> "idle", token |-> k, now |-> now, live |-> TRUE,
                          todo |-> tokenUsers[k], user |-> NoUser, done |-> {}]
        OBVIOUS
      <4>2. w \in Index!SweepState /\ w.token \in Tokens /\ w.done = {}
        BY <4>1 DEF IndexInv, Index!TypeOK, Index!SweepState
      <4>3. Index!Walk(s, w) /\ sweep[s].done = {}
        BY <3>1, <4>1 DEF Index!Trigger, IndexInv, SweepKnown
      <4> QED BY <4>2, <4>3
    <3>2. CASE Index!WalkOn(s)
      <4>1. PICK w \in Index!SweepState : w = sweep[s]
        BY DEF IndexInv, Index!TypeOK
      <4> QED BY <3>2, <4>1 DEF Index!WalkOn, IndexInv, SweepKnown
    <3> QED BY <1>5, <3>1, <3>2
  <2>2. UNCHANGED <<holdings, trades, now, risk, refreshedAt, fetch, userTokens, tokenUsers>>
    BY <1>5 DEF Index!Trigger, Index!WalkOn, Index!riskVars, Index!indexVars
  <2>3. /\ sweep' \in [Sweeps -> Index!SweepState]
        /\ lastRescore' \in [Users -> Index!Times]
        /\ (\A x \in Sweeps : SweepKnown(sweep[x]))'
        /\ \A x \in Sweeps \ {s} : sweep'[x] = sweep[x]
        /\ sweep'[s].pc = "checking" => sweep'[s].user \notin w.done
    BY <2>1, IndexWalks
  <2>4. Once
    BY <2>1, <2>3 DEF Index!Rescores
  <2>5. Index!TypeOK'
    BY <2>2, <2>3 DEF IndexInv, Index!TypeOK
  <2> QED BY <2>2, <2>3, <2>4, <2>5 DEF IndexInv, Index!MapsInverse
<1>6. ASSUME NEW s \in Sweeps, Index!Checked(s) PROVE IndexInv' /\ Once
  <2>1. /\ sweep[s].pc = "checking" /\ sweep' = [sweep EXCEPT ![s].pc = "preparing"]
        /\ UNCHANGED <<holdings, trades, now, userTokens, tokenUsers, lastRescore>>
    BY <1>6 DEF Index!Checked, Index!indexVars
  <2>2. sweep[s].user \in Users /\ sweep \in [Sweeps -> Index!SweepState]
    BY <2>1 DEF IndexInv, Index!TypeOK, SweepKnown
  <2>3. /\ fetch' \in [Fetches -> Index!FetchState]
        /\ (\A f \in Fetches : fetch[f].pc # "idle" => fetch[f].user \in Users)'
        /\ risk' \subseteq Users /\ refreshedAt' \in [Users -> Index!Times]
    <3>1. PICK u \in Users : u = sweep[s].user
      BY <2>2
    <3>2. CASE \E dust \in BOOLEAN : Index!UpdateHF(u, dust)
      BY <3>2, HealthFactorUpdated
    <3>3. CASE UNCHANGED <<risk, refreshedAt, fetch>>
      BY <3>3 DEF IndexInv, Index!TypeOK
    <3> QED BY <1>6, <3>1, <3>2, <3>3 DEF Index!Checked, Index!riskVars
  <2>4. /\ sweep' \in [Sweeps -> Index!SweepState]
        /\ \A x \in Sweeps : /\ sweep'[x].token = sweep[x].token
                             /\ sweep'[x].user = sweep[x].user
                             /\ sweep'[x].now = sweep[x].now
                             /\ sweep'[x].done = sweep[x].done
                             /\ sweep'[x].pc = IF x = s THEN "preparing" ELSE sweep[x].pc
    BY <2>1, <2>2 DEF Index!SweepState
  <2>5. (\A x \in Sweeps : SweepKnown(sweep[x]))'
    BY <2>1, <2>4 DEF IndexInv, SweepKnown
  <2>6. Once
    BY <2>4 DEF Index!Rescores
  <2>7. Index!TypeOK'
    BY <2>1, <2>3, <2>4 DEF IndexInv, Index!TypeOK
  <2> QED BY <2>1, <2>3, <2>5, <2>6, <2>7 DEF IndexInv, Index!MapsInverse
<1>7. CASE UNCHANGED Index!vars
  BY <1>7 DEF Index!vars, IndexInv, Index!TypeOK, Index!MapsInverse, SweepKnown,
              Index!Rescores
<1> QED BY <1>1, <1>2, <1>3, <1>4, <1>5, <1>6, <1>7 DEF Index!Next, Index!SweepStep

LEMMA IndexPart == Spec => Index!Spec
<1>1. Init => Index!Init
  BY DEF Init
<1>2. [Next]_vars => [Index!Next]_(Index!vars)
  BY DEF Next, vars, indexVars, Index!vars, Index!riskVars, Index!indexVars, FollowIndex,
         FollowWs, FollowPyth, FollowPrice, FollowPolls, FollowSources, FollowSubmit
<1> QED BY <1>1, <1>2, SpecSteps, PTL DEF Index!Spec

\* However refreshes overlap, fail and answer late, with each other and with sweeps, the
\* two maps of UserIndex stay inverse, and a sweep whose set a refresh rewrites under it
\* rescores nobody twice.
THEOREM RefreshesStaySafe == Spec => RefreshesAreSafe
<1>1. IndexInv => Index!MapsInverse
  BY DEF IndexInv
<1>2. Index!Spec => []IndexInv
  BY IndexInit, IndexNext, PTL DEF Index!Spec
<1>3. IndexInv /\ [Index!Next]_(Index!vars) =>
        [\A s \in Sweeps, u \in Users :
           Index!Rescores(s, u) => u \notin sweep[s].done]_(Index!vars)
  BY IndexNext
<1>4. Index!Spec => Index!RescoredOnce
  BY <1>2, <1>3, PTL DEF Index!Spec, Index!RescoredOnce
<1> QED BY <1>1, <1>2, <1>4, IndexPart, PTL DEF RefreshesAreSafe

-----------------------------------------------------------------------------
\* The types of PriceTrigger, for any number of feeds and scans and any prices.

LEMMA PriceTriggerBounds ==
  /\ Answers \subseteq Nat \ {0} /\ Answers # {} /\ MaxBlock \in Nat \ {0}
  /\ MaxMoves \in Nat
  BY PartAssumptions DEF Price!TriggerAssumption

LEMMA PriceInit == Price!Init => Price!TypeOK
<1> SUFFICES ASSUME Price!Init PROVE Price!TypeOK
  OBVIOUS
<1>1. tip \in Price!Blocks /\ 0 \in 0 .. MaxBlock /\ 0 \in 0 .. MaxMoves
  BY PriceTriggerBounds DEF Price!Init, Price!Blocks
<1> QED BY <1>1 DEF Price!Init, Price!TypeOK

\* An answer of a feed changes what is known of the feed, and perhaps the timer.
LEMMA AnswerTyped ==
  ASSUME Price!TypeOK, NEW f \in Feeds, NEW a \in Answers, NEW b \in Price!Blocks,
         Price!ProcessPriceUpdate(f, a, b)
  PROVE  /\ {baseline', last', anchor'} \subseteq [Feeds -> Answers \cup {0}]
         /\ resting' \in [Feeds -> BOOLEAN] /\ timer' \in 0 .. MaxBlock
<1>1. /\ {baseline, last, anchor} \subseteq [Feeds -> Answers \cup {0}]
      /\ resting \in [Feeds -> BOOLEAN] /\ timer \in 0 .. MaxBlock
  BY DEF Price!TypeOK
<1>2. b \in 0 .. MaxBlock
  BY PriceTriggerBounds DEF Price!Blocks
<1>3. /\ last' = [last EXCEPT ![f] = a]
      /\ baseline' \in {baseline, [baseline EXCEPT ![f] = a]}
      /\ anchor' \in {anchor, [anchor EXCEPT ![f] = a]}
      /\ resting' \in {resting, [resting EXCEPT ![f] = TRUE]}
      /\ timer' \in {timer, b}
  BY DEF Price!ProcessPriceUpdate
<1>4. PICK old : old = Answers \cup {0}
  OBVIOUS
<1>5. /\ last \in [Feeds -> old] /\ baseline \in [Feeds -> old]
      /\ anchor \in [Feeds -> old] /\ a \in old
  BY <1>1, <1>4
<1>6. /\ last' \in [Feeds -> old] /\ baseline' \in [Feeds -> old]
      /\ anchor' \in [Feeds -> old]
  BY <1>3, <1>5
<1>7. resting' \in [Feeds -> BOOLEAN] /\ timer' \in 0 .. MaxBlock
  BY <1>1, <1>2, <1>3
<1> QED BY <1>4, <1>6, <1>7

LEMMA PriceNext == Price!TypeOK /\ [Price!Next]_(Price!vars) => Price!TypeOK'
<1> SUFFICES ASSUME Price!TypeOK, [Price!Next]_(Price!vars) PROVE Price!TypeOK'
  OBVIOUS
<1> USE PriceTriggerBounds
<1>1. CASE Price!NewBlock
  <2>1. tip' \in Price!Blocks
    BY <1>1 DEF Price!NewBlock, Price!TypeOK, Price!Blocks
  <2> QED BY <1>1, <2>1 DEF Price!NewBlock, Price!TypeOK
<1>2. ASSUME NEW f \in Feeds, NEW a \in Answers, Price!Move(f, a) PROVE Price!TypeOK'
  <2>1. moves' \in 0 .. MaxMoves /\ answer' \in [Feeds -> Answers]
    BY <1>2 DEF Price!Move, Price!TypeOK
  <2>2. /\ {baseline', last', anchor'} \subseteq [Feeds -> Answers \cup {0}]
        /\ resting' \in [Feeds -> BOOLEAN] /\ timer' \in 0 .. MaxBlock
    <3>1. CASE Price!ProcessPriceUpdate(f, a, tip)
      BY <3>1, AnswerTyped DEF Price!TypeOK
    <3>2. CASE UNCHANGED <<baseline, last, resting, timer, anchor>>
      BY <3>2 DEF Price!TypeOK
    <3> QED BY <1>2, <3>1, <3>2 DEF Price!Move
  <2>3. UNCHANGED <<cumulative, tip, polled, processed, inFlight, scans>>
    BY <1>2 DEF Price!Move
  <2> QED BY <2>1, <2>2, <2>3 DEF Price!TypeOK
<1>3. ASSUME NEW f \in Feeds, Price!PollRead(f) PROVE Price!TypeOK'
  <2>1. polled' \in [Feeds -> Answers \cup {0}]
    BY <1>3 DEF Price!PollRead, Price!TypeOK
  <2> QED BY <1>3, <2>1 DEF Price!PollRead, Price!TypeOK
<1>4. ASSUME NEW f \in Feeds, Price!PollAnswer(f) PROVE Price!TypeOK'
  <2>1. polled' \in [Feeds -> Answers \cup {0}] /\ polled[f] \in Answers
    BY <1>4 DEF Price!PollAnswer, Price!TypeOK
  <2>2. PICK b \in 1 .. tip : Price!ProcessPriceUpdate(f, polled[f], b)
    BY <1>4 DEF Price!PollAnswer
  <2>3. b \in Price!Blocks
    BY DEF Price!TypeOK, Price!Blocks
  <2>4. /\ {baseline', last', anchor'} \subseteq [Feeds -> Answers \cup {0}]
        /\ resting' \in [Feeds -> BOOLEAN] /\ timer' \in 0 .. MaxBlock
    BY <2>1, <2>2, <2>3, AnswerTyped
  <2>5. UNCHANGED <<cumulative, tip, answer, processed, inFlight, scans, moves>>
    BY <1>4 DEF Price!PollAnswer
  <2> QED BY <2>1, <2>4, <2>5 DEF Price!TypeOK
<1>5. ASSUME NEW f \in Feeds, Price!DebounceOver(f) PROVE Price!TypeOK'
  BY <1>5 DEF Price!DebounceOver, Price!TypeOK
<1>6. CASE Price!Resubscribe
  BY <1>6 DEF Price!Resubscribe, Price!TypeOK
<1>7. CASE Price!TimerFires
  <2>1. /\ timer' = 0 /\ inFlight' \in BOOLEAN
        /\ processed' \in {processed, timer}
        /\ \/ scans' = scans
           \/ \E s \in Scans : scans' = [scans EXCEPT ![s] = timer]
        /\ UNCHANGED <<cumulative, tip, answer, polled, baseline, last, resting, anchor,
                       moves>>
    BY <1>7 DEF Price!TimerFires
  <2>2. scans' \in [Scans -> 0 .. MaxBlock] /\ timer' \in 0 .. MaxBlock
        /\ processed' \in 0 .. MaxBlock
    BY <2>1 DEF Price!TypeOK
  <2> QED BY <2>1, <2>2 DEF Price!TypeOK
<1>8. ASSUME NEW s \in Scans, Price!ScanEnds(s) PROVE Price!TypeOK'
  <2>1. PICK blocks : blocks = 0 .. MaxBlock
    OBVIOUS
  <2>2. scans \in [Scans -> blocks] /\ 0 \in blocks /\ scans' = [scans EXCEPT ![s] = 0]
    BY <1>8, <2>1 DEF Price!ScanEnds, Price!TypeOK
  <2>3. scans' \in [Scans -> blocks]
    BY <2>2
  <2>4. scans' \in [Scans -> 0 .. MaxBlock] /\ inFlight' \in BOOLEAN
    BY <1>8, <2>1, <2>3 DEF Price!ScanEnds
  <2> QED BY <1>8, <2>4 DEF Price!ScanEnds, Price!TypeOK
<1>9. CASE UNCHANGED Price!vars
  BY <1>9 DEF Price!vars, Price!TypeOK
<1> QED BY <1>1, <1>2, <1>3, <1>4, <1>5, <1>6, <1>7, <1>8, <1>9 DEF Price!Next

LEMMA PricePart == Spec => Price!Spec
<1>1. Init => Price!Init
  BY DEF Init
<1>2. [Next]_vars => [Price!Next]_(Price!vars)
  BY DEF Next, vars, priceVars, Price!vars, FollowIndex, FollowWs, FollowPyth, FollowPrice,
         FollowPolls, FollowSources, FollowSubmit
<1> QED BY <1>1, <1>2, SpecSteps, PTL DEF Price!Spec

-----------------------------------------------------------------------------
\* The types of PendingPolls, for any tick, chunk and number of connections.

\* Every connection that was set up has at most one loop, which waits or polls; and a
\* connection that is to be set up is still counted.
PollsInv ==
  /\ Polls!TypeOK
  /\ waiting + polling <= reconnects + 1
  /\ ~ connected => reconnects < Reconnects

LEMMA PollsBounds ==
  /\ BaseTick \in Nat \ {0} /\ BatchSize \in Nat /\ BatchSize >= 50
  /\ Reconnects \in Nat /\ Polls!MinChunk = 50
  BY PartAssumptions DEF Polls!PendingPollsAssumption, Polls!MinChunk

\* So many loops as connections, in all and of each kind.
LEMMA LoopsCounted ==
  ASSUME NEW n \in 0 .. Reconnects, NEW w \in Nat, NEW p \in Nat, w + p <= n + 1
  PROVE  w \in 0 .. Reconnects + 1 /\ p \in 0 .. Reconnects + 1
<1>1. Reconnects \in Nat
  BY PollsBounds
<1> QED BY <1>1

LEMMA PollsInit == Polls!Init => PollsInv
<1> SUFFICES ASSUME Polls!Init PROVE PollsInv
  OBVIOUS
<1>0. Reconnects \in Nat
  BY PollsBounds
<1>1. /\ connected = TRUE /\ isShuttingDown = FALSE /\ reconnects = 0 /\ waiting = 1
      /\ polling = 0 /\ 0 \in 0 .. Reconnects /\ 0 \in 0 .. Reconnects + 1
      /\ 1 \in 0 .. Reconnects + 1 /\ 1 + 0 <= 0 + 1
  BY <1>0 DEF Polls!Init
<1>2. /\ currentChunkSize \in Polls!MinChunk .. BatchSize
      /\ currentPendingTickMs \in BaseTick .. 4 * BaseTick
      /\ consecutiveRateLimits \in 0 .. 2
  BY PollsBounds DEF Polls!Init
<1> QED BY <1>1, <1>2 DEF PollsInv, Polls!TypeOK

LEMMA PollsNext == PollsInv /\ [Polls!Next]_(Polls!vars) => PollsInv'
<1> SUFFICES ASSUME PollsInv, [Polls!Next]_(Polls!vars) PROVE PollsInv'
  OBVIOUS
<1> USE PollsBounds
<1>1. CASE Polls!PollFires \/ Polls!PollEnds \/ Polls!Disconnect \/ Polls!SetUp \/ Polls!Stop
  <2>1. UNCHANGED <<currentChunkSize, currentPendingTickMs, consecutiveRateLimits>>
    BY <1>1 DEF Polls!PollFires, Polls!PollEnds, Polls!Disconnect, Polls!SetUp, Polls!Stop,
                Polls!pace
  <2>2. /\ waiting \in Nat /\ polling \in Nat /\ reconnects \in 0 .. Reconnects
        /\ waiting + polling <= reconnects + 1 /\ (~ connected => reconnects < Reconnects)
        /\ connected \in BOOLEAN /\ isShuttingDown \in BOOLEAN
    BY DEF PollsInv, Polls!TypeOK
  <2>3. /\ waiting' \in Nat /\ polling' \in Nat /\ reconnects' \in 0 .. Reconnects
        /\ waiting' + polling' <= reconnects' + 1
    BY <1>1, <2>2 DEF Polls!PollFires, Polls!PollEnds, Polls!Disconnect, Polls!SetUp,
                      Polls!Stop, Polls!loops, Polls!Most
  <2>4. /\ connected' \in BOOLEAN /\ isShuttingDown' \in BOOLEAN
        /\ (~ connected' => reconnects' < Reconnects)
    BY <1>1, <2>2 DEF Polls!PollFires, Polls!PollEnds, Polls!Disconnect, Polls!SetUp,
                      Polls!Stop
  <2>5. waiting' \in 0 .. Reconnects + 1 /\ polling' \in 0 .. Reconnects + 1
    BY <2>3, LoopsCounted
  <2> QED BY <2>1, <2>3, <2>4, <2>5 DEF PollsInv, Polls!TypeOK
<1>2. CASE Polls!ChunkLimited \/ Polls!ChunkAnswered
  <2>1. UNCHANGED <<connected, reconnects, isShuttingDown, waiting, polling>>
    BY <1>2 DEF Polls!ChunkLimited, Polls!ChunkAnswered, Polls!loops
  <2>2. /\ currentChunkSize \in 50 .. BatchSize
        /\ currentPendingTickMs \in BaseTick .. 4 * BaseTick
        /\ consecutiveRateLimits \in 0 .. 2
    BY DEF PollsInv, Polls!TypeOK
  <2>3. /\ currentChunkSize' \in 50 .. BatchSize
        /\ currentPendingTickMs' \in BaseTick .. 4 * BaseTick
        /\ consecutiveRateLimits' \in 0 .. 2
    <3>1. CASE Polls!ChunkLimited
      BY <2>2, <3>1 DEF Polls!ChunkLimited, Polls!Most, Polls!Least
    <3>2. CASE Polls!ChunkAnswered
      BY <2>2, <3>2 DEF Polls!ChunkAnswered, Polls!Most, Polls!Least, Polls!pace
    <3> QED BY <1>2, <3>1, <3>2
  <2> QED BY <2>1, <2>3 DEF PollsInv, Polls!TypeOK
<1>3. CASE UNCHANGED Polls!vars
  BY <1>3 DEF Polls!vars, Polls!loops, Polls!pace, PollsInv, Polls!TypeOK
<1> QED BY <1>1, <1>2, <1>3 DEF Polls!Next

LEMMA PollsPart == Spec => Polls!Spec
<1>1. Init => Polls!Init
  BY DEF Init
<1>2. [Next]_vars => [Polls!Next]_(Polls!vars)
  BY DEF Next, vars, pollsVars, Polls!vars, Polls!loops, Polls!pace, FollowIndex, FollowWs,
         FollowPyth, FollowPrice, FollowPolls, FollowSources, FollowSubmit
<1> QED BY <1>1, <1>2, SpecSteps, PTL DEF Polls!Spec


-----------------------------------------------------------------------------
\* The types of SignalSources, for any reserves, window and size of a batch.

LEMMA SourcesBounds ==
  /\ MaxReconnectAttempts \in Nat \ {0} /\ DebounceWindow \in Nat \ {0}
  /\ MaxBatchSize \in Nat \ {0} /\ PerReserve \in BOOLEAN
<1>1. {MaxReconnectAttempts, DebounceWindow, MaxBatchSize} \subseteq Nat \ {0}
  BY PartAssumptions DEF Sources!SignalSourcesAssumption
<1>2. PerReserve \in BOOLEAN
  BY PartAssumptions DEF Sources!SignalSourcesAssumption
<1> QED BY <1>1, <1>2

Batches == [events : 0 .. MaxBatchSize, reserves : SUBSET Reserves, left : 0 .. DebounceWindow]

ListenerTyped ==
  /\ feed \in {"none", "connecting", "open", "silent", "closing"}
  /\ feedConnected \in BOOLEAN /\ feedHeartbeat \in BOOLEAN
  /\ feedShouldReconnect \in BOOLEAN /\ retry \in BOOLEAN
  /\ reconnectAttempts \in 0 .. MaxReconnectAttempts

CoalescerTyped ==
  coalescerStopped \in BOOLEAN /\ batch \in [Sources!BatchKeys -> Batches]

LEMMA SourcesTypes == Sources!TypeOK <=> ListenerTyped /\ CoalescerTyped
  BY DEF Sources!TypeOK, ListenerTyped, CoalescerTyped, Batches

LEMMA NoBatchTyped == Sources!NoBatch \in Batches
  BY SourcesBounds DEF Sources!NoBatch, Batches

LEMMA SourcesInit == Sources!Init => Sources!TypeOK
<1> SUFFICES ASSUME Sources!Init PROVE ListenerTyped /\ CoalescerTyped
  BY SourcesTypes
<1>1. 0 \in 0 .. MaxReconnectAttempts
  BY SourcesBounds
<1> QED BY <1>1, NoBatchTyped DEF Sources!Init, ListenerTyped, CoalescerTyped

LEMMA ListenerNext ==
  ASSUME ListenerTyped, Sources!ListenerStep
  PROVE  ListenerTyped' /\ UNCHANGED <<batch, coalescerStopped>>
<1>1. PICK top \in Nat \ {0} : top = MaxReconnectAttempts
  BY SourcesBounds
<1>2. /\ reconnectAttempts \in 0 .. top /\ feedShouldReconnect \in BOOLEAN
      /\ retry \in BOOLEAN /\ feedHeartbeat \in BOOLEAN /\ feedConnected \in BOOLEAN
  BY <1>1 DEF ListenerTyped
<1>3. CASE Sources!Opened
  BY <1>1, <1>2, <1>3 DEF Sources!Opened, Sources!coalescer, ListenerTyped
<1>4. CASE Sources!FallsSilent \/ Sources!Message \/ Sources!HeartbeatFires
  BY <1>1, <1>2, <1>4 DEF Sources!FallsSilent, Sources!Message, Sources!HeartbeatFires,
     Sources!coalescer, ListenerTyped
<1>5. CASE Sources!Closed
  <2>1. /\ feed' = "none" /\ feedConnected' = FALSE /\ feedHeartbeat' = FALSE
        /\ UNCHANGED <<feedShouldReconnect, batch, coalescerStopped>>
    BY <1>5 DEF Sources!Closed, Sources!coalescer
  <2>2. reconnectAttempts' \in 0 .. top /\ retry' \in BOOLEAN
    <3>1. CASE feedShouldReconnect /\ reconnectAttempts < top
      <4>1. reconnectAttempts' = reconnectAttempts + 1 /\ retry' = TRUE
        BY <1>1, <1>5, <3>1 DEF Sources!Closed
      <4> QED BY <1>2, <3>1, <4>1
    <3>2. CASE ~ (feedShouldReconnect /\ reconnectAttempts < top)
      BY <1>1, <1>2, <1>5, <3>2 DEF Sources!Closed
    <3> QED BY <3>1, <3>2
  <2> QED BY <1>1, <1>2, <2>1, <2>2 DEF ListenerTyped
<1>6. CASE Sources!RetryFires \/ Sources!Stop
  BY <1>1, <1>2, <1>6 DEF Sources!RetryFires, Sources!Stop, Sources!coalescer, ListenerTyped
<1> QED BY <1>3, <1>4, <1>5, <1>6 DEF Sources!ListenerStep

LEMMA CoalescerNext ==
  ASSUME CoalescerTyped, Sources!CoalescerStep
  PROVE  /\ CoalescerTyped'
         /\ UNCHANGED <<feed, feedConnected, feedHeartbeat, reconnectAttempts,
                        feedShouldReconnect, retry>>
<1>u. UNCHANGED <<feed, feedConnected, feedHeartbeat, reconnectAttempts, feedShouldReconnect,
                  retry>>
  BY DEF Sources!CoalescerStep, Sources!AddEvent, Sources!Flush, Sources!StopCoalescer,
         Sources!TimePasses, Sources!listener
<1>1. batch \in [Sources!BatchKeys -> Batches] /\ coalescerStopped \in BOOLEAN
  BY DEF CoalescerTyped
<1>2. ASSUME NEW r \in Reserves, Sources!AddEvent(r) PROVE CoalescerTyped'
  <2>1. PICK k \in Sources!BatchKeys : k = Sources!Key(r)
    BY DEF Sources!Key, Sources!BatchKeys
  <2>2. PICK old \in Batches : old = batch[k]
    BY <1>1
  <2>3. PICK new : /\ new = IF old.events > 0 /\ old.events + 1 >= MaxBatchSize THEN Sources!NoBatch
                            ELSE [events |-> old.events + 1, reserves |-> old.reserves \cup {r},
                                  left |-> DebounceWindow]
                   /\ batch' = [batch EXCEPT ![k] = new]
                   /\ coalescerStopped' = coalescerStopped
    BY <1>2, <2>1, <2>2 DEF Sources!AddEvent
  <2>4. new \in Batches
    <3>1. CASE new = Sources!NoBatch
      BY <3>1, NoBatchTyped
    <3>2. CASE /\ ~ (old.events > 0 /\ old.events + 1 >= MaxBatchSize)
               /\ new = [events |-> old.events + 1, reserves |-> old.reserves \cup {r},
                         left |-> DebounceWindow]
      <4>1. /\ old.events \in 0 .. MaxBatchSize /\ old.reserves \in SUBSET Reserves
        BY DEF Batches
      <4>2. old.events + 1 \in 0 .. MaxBatchSize
        BY <3>2, <4>1, SourcesBounds
      <4>3. DebounceWindow \in 0 .. DebounceWindow
        BY SourcesBounds
      <4> QED BY <3>2, <4>1, <4>2, <4>3 DEF Batches
    <3> QED BY <2>3, <3>1, <3>2
  <2> QED BY <1>1, <2>3, <2>4 DEF CoalescerTyped
<1>3. ASSUME NEW k \in Sources!BatchKeys, Sources!Flush(k) PROVE CoalescerTyped'
  BY <1>1, <1>3, NoBatchTyped DEF Sources!Flush, CoalescerTyped
<1>4. CASE Sources!StopCoalescer
  <2>1. batch' = [k \in Sources!BatchKeys |-> Sources!NoBatch] /\ coalescerStopped' \in BOOLEAN
    BY <1>1, <1>4 DEF Sources!StopCoalescer
  <2> QED BY <1>u, <2>1, NoBatchTyped DEF CoalescerTyped
<1>5. CASE Sources!TimePasses
  <2>1. /\ batch' = [k \in Sources!BatchKeys |->
                       [batch[k] EXCEPT !.left = IF @ > 0 THEN @ - 1 ELSE 0]]
        /\ coalescerStopped' = coalescerStopped
    BY <1>5 DEF Sources!TimePasses
  <2>2. ASSUME NEW k \in Sources!BatchKeys
        PROVE  [batch[k] EXCEPT !.left = IF @ > 0 THEN @ - 1 ELSE 0] \in Batches
    <3>1. PICK old \in Batches : old = batch[k]
      BY <1>1
    <3>2. PICK left \in 0 .. DebounceWindow : left = IF old.left > 0 THEN old.left - 1 ELSE 0
      BY SourcesBounds DEF Batches
    <3>3. [old EXCEPT !.left = left] \in Batches
      BY DEF Batches
    <3> QED BY <3>1, <3>2, <3>3
  <2> QED BY <1>u, <1>1, <2>1, <2>2 DEF CoalescerTyped
<1> QED BY <1>u, <1>2, <1>3, <1>4, <1>5 DEF Sources!CoalescerStep

LEMMA SourcesNext == Sources!TypeOK /\ [Sources!Next]_(Sources!vars) => Sources!TypeOK'
<1>0. Sources!TypeOK' <=> ListenerTyped' /\ CoalescerTyped'
  BY DEF Sources!TypeOK, ListenerTyped, CoalescerTyped, Batches
<1> SUFFICES ASSUME ListenerTyped, CoalescerTyped, [Sources!Next]_(Sources!vars)
             PROVE  ListenerTyped' /\ CoalescerTyped'
  BY <1>0, SourcesTypes
<1>1. CASE Sources!ListenerStep
  BY <1>1, ListenerNext DEF CoalescerTyped
<1>2. CASE Sources!CoalescerStep
  BY <1>2, CoalescerNext DEF ListenerTyped
<1>3. CASE UNCHANGED Sources!vars
  BY <1>3 DEF Sources!vars, Sources!listener, Sources!coalescer, ListenerTyped, CoalescerTyped
<1> QED BY <1>1, <1>2, <1>3 DEF Sources!Next

LEMMA SourcesPart == Spec => Sources!Spec
<1>1. Init => Sources!Init
  BY DEF Init
<1>2. [Next]_vars => [Sources!Next]_(Sources!vars)
  BY DEF Next, vars, sourcesVars, Sources!vars, Sources!listener, Sources!coalescer,
         Sources!Next, FollowIndex, FollowWs, FollowPyth, FollowPrice, FollowPolls,
         FollowSources, FollowSubmit
<1> QED BY <1>1, <1>2, SpecSteps, PTL DEF Sources!Spec


-----------------------------------------------------------------------------
\* The types of Submission, for any endpoints, transactions, replacements and keys.

SendsTyped ==
  /\ healthy \subseteq Submit!Endpoints
  /\ submission \in [Submissions -> Submit!Sends] /\ race \in [Races -> Submit!Sends]

\* The replacements that passed the check of maxBumps are counted with those taken: both
\* timers of a transaction may pass it before either replacement is taken, so there may
\* be one too many, and never two.
Burst == [tracked : BOOLEAN, bumps : Nat, price : Nat,
          mined : {Submit!NotMined} \cup Submit!BumpPrices]
Bump == [pc : {"idle", "waiting", "asking", "sending"}, price : Nat]
Passed(x) == x.pc \in {"asking", "sending"}
Outbids(x, B) == IF x.pc = "sending" THEN x.price <= B.price + 1 ELSE x.price = 0
Counted(B, x, y) ==
  /\ B.price = B.bumps /\ B.bumps <= MaxBumps + 1
  /\ Passed(x) \/ Passed(y) => B.bumps <= MaxBumps
  /\ Passed(x) /\ Passed(y) => B.bumps < MaxBumps
  /\ Outbids(x, B) /\ Outbids(y, B)
Other(stage) == IF stage = "first" THEN "second" ELSE "first"

BurstsInv ==
  /\ burst \in [Bursts -> Burst] /\ bump \in [Bursts \X Submit!Stages -> Bump]
  /\ \A b \in Bursts, stage \in Submit!Stages :
       Counted(burst[b], bump[b, stage], bump[b, Other(stage)])

BudgetTyped ==
  /\ revertCount \in Nat /\ day \in 1 .. Days /\ lastResetDate \in 1 .. Days
  /\ optimist \in [Optimists -> {"unsent", "sent", "over"}]
  /\ currentIndex \in 0 .. Keys - 1

SubmitInv == SendsTyped /\ BurstsInv /\ BudgetTyped

LEMMA SubmitBounds ==
  /\ MaxBumps \in Nat \ {0} /\ Keys \in Nat \ {0} /\ Days \in Nat \ {0}
  /\ MaxReverts \in Nat \ {0}
<1>1. {MaxBumps, MaxReverts, Keys, Days} \subseteq Nat \ {0}
  BY PartAssumptions DEF Submit!SubmissionAssumption
<1> QED BY <1>1

LEMMA CountedIsSymmetric == \A B, x, y : Counted(B, x, y) <=> Counted(B, y, x)
  BY DEF Counted

LEMMA SubmitInit == Submit!Init => SubmitInv
<1> SUFFICES ASSUME Submit!Init PROVE SubmitInv
  OBVIOUS
<1>1. SendsTyped
  BY DEF Submit!Init, SendsTyped, Submit!Unsent, Submit!Sends, Submit!Outcomes
<1>2. BurstsInv
  <2>1. /\ burst = [b \in Bursts |-> [tracked |-> FALSE, bumps |-> 0, price |-> 0,
                                     mined |-> Submit!NotMined]]
        /\ bump = [x \in Bursts \X Submit!Stages |-> [pc |-> "idle", price |-> 0]]
    BY DEF Submit!Init
  <2>2. /\ burst \in [Bursts -> Burst]
        /\ bump \in [Bursts \X Submit!Stages -> Bump]
    BY <2>1 DEF Burst, Bump
  <2>3. ASSUME NEW b \in Bursts, NEW stage \in Submit!Stages
        PROVE  Counted(burst[b], bump[b, stage], bump[b, Other(stage)])
    <3>1. <<b, stage>> \in Bursts \X Submit!Stages /\ <<b, Other(stage)>> \in Bursts \X Submit!Stages
      BY DEF Other, Submit!Stages
    <3>2. /\ burst[b].price = 0 /\ burst[b].bumps = 0
          /\ bump[b, stage] = [pc |-> "idle", price |-> 0]
          /\ bump[b, Other(stage)] = [pc |-> "idle", price |-> 0]
      BY <2>1, <3>1
    <3>3. PICK B, x : /\ B = burst[b] /\ x = bump[b, stage] /\ B.price = 0 /\ B.bumps = 0
                      /\ x.pc = "idle" /\ x.price = 0
      BY <3>2
    <3>4. 0 <= MaxBumps + 1 /\ MaxBumps \in Nat
      BY SubmitBounds
    <3>5. Counted(B, x, x)
      BY <3>3, <3>4 DEF Counted, Passed, Outbids
    <3> QED BY <3>2, <3>3, <3>5
  <2> QED BY <2>2, <2>3 DEF BurstsInv
<1>3. BudgetTyped
  BY SubmitBounds DEF Submit!Init, BudgetTyped
<1> QED BY <1>1, <1>2, <1>3 DEF SubmitInv

LEMMA Settles ==
  ASSUME NEW x \in Submit!Sends, NEW e \in Submit!Endpoints, NEW ok \in BOOLEAN
  PROVE  Submit!Settled(x, e, ok) \in Submit!Sends
<1>1. PICK pc \in Submit!Outcomes :
        pc = IF x.pc = "sent" THEN IF ok THEN "won" ELSE "failed" ELSE x.pc
  BY DEF Submit!Sends, Submit!Outcomes
<1>2. PICK accepted \in SUBSET Submit!Endpoints :
        accepted = IF ok THEN x.accepted \cup {e} ELSE x.accepted
  BY DEF Submit!Sends
<1>3. PICK open \in SUBSET Submit!Endpoints : open = x.open \ {e}
  BY DEF Submit!Sends
<1>4. Submit!Settled(x, e, ok) = [x EXCEPT !.pc = pc, !.open = open, !.accepted = accepted]
  BY <1>1, <1>2, <1>3 DEF Submit!Settled
<1> QED BY <1>4 DEF Submit!Sends

LEMMA AskedEndpoints ==
  ASSUME SendsTyped, NEW mode \in Modes
  PROVE  Submit!Asked(mode) \subseteq Submit!Endpoints
<1>1. Submit!FirstHealthy \subseteq healthy
  BY DEF Submit!FirstHealthy
<1> QED BY <1>1 DEF SendsTyped, Submit!Asked


LEMMA PoolSteps ==
  ASSUME SendsTyped, Submit!PoolStep
  PROVE  SendsTyped' /\ UNCHANGED <<burst, bump, revertCount, lastResetDate, day, optimist,
                                    currentIndex>>
<1> USE DEF Submit!burstVars, Submit!budget
<1>1. ASSUME NEW s \in Submissions, NEW mode \in Modes, Submit!Submit(s, mode)
      PROVE  SendsTyped' /\ UNCHANGED <<burst, bump, revertCount, lastResetDate, day,
                                        optimist, currentIndex>>
  <2>1. PICK asked \in SUBSET Submit!Endpoints : asked = Submit!Asked(mode)
    BY AskedEndpoints
  <2>2. PICK pc \in Submit!Outcomes : pc = IF asked = {} THEN "failed" ELSE "sent"
    BY DEF Submit!Outcomes
  <2>3. submission' = [submission EXCEPT ![s].pc = pc, ![s].open = asked]
        /\ UNCHANGED <<healthy, race>>
    BY <1>1, <2>1, <2>2 DEF Submit!Submit
  <2>4. PICK x \in Submit!Sends : x = submission[s]
    BY DEF SendsTyped
  <2>5. [x EXCEPT !.pc = pc, !.open = asked] \in Submit!Sends
    BY DEF Submit!Sends
  <2>6. submission' = [submission EXCEPT ![s] = [x EXCEPT !.pc = pc, !.open = asked]]
    BY <2>3, <2>4 DEF SendsTyped
  <2>7. submission' \in [Submissions -> Submit!Sends]
    BY <2>5, <2>6 DEF SendsTyped
  <2> QED BY <1>1, <2>3, <2>7 DEF SendsTyped, Submit!Submit
<1>2. ASSUME NEW s \in Submissions, NEW e \in Submit!Endpoints, NEW ok \in BOOLEAN,
             Submit!Answer(s, e, ok)
      PROVE  SendsTyped' /\ UNCHANGED <<burst, bump, revertCount, lastResetDate, day,
                                        optimist, currentIndex>>
  <2>1. Submit!Settled(submission[s], e, ok) \in Submit!Sends
    BY Settles DEF SendsTyped
  <2>2. /\ submission' = [submission EXCEPT ![s] = Submit!Settled(submission[s], e, ok)]
        /\ healthy' \in {healthy, healthy \ {e}}
        /\ UNCHANGED <<race, burst, bump, revertCount, lastResetDate, day, optimist,
                       currentIndex>>
    BY <1>2 DEF Submit!Answer
  <2>3. submission' \in [Submissions -> Submit!Sends]
    BY <2>1, <2>2 DEF SendsTyped
  <2> QED BY <2>2, <2>3 DEF SendsTyped
<1>3. ASSUME NEW e \in Submit!Endpoints, Submit!MarkHealthy(e)
      PROVE  SendsTyped' /\ UNCHANGED <<burst, bump, revertCount, lastResetDate, day,
                                        optimist, currentIndex>>
  BY <1>3 DEF Submit!MarkHealthy, SendsTyped
<1> QED BY <1>1, <1>2, <1>3 DEF Submit!PoolStep

LEMMA RaceSteps ==
  ASSUME SendsTyped, Submit!RaceStep
  PROVE  SendsTyped' /\ UNCHANGED <<burst, bump, revertCount, lastResetDate, day, optimist,
                                    currentIndex>>
<1>u. UNCHANGED <<healthy, submission, burst, bump, revertCount, lastResetDate, day, optimist,
                  currentIndex>>
  BY DEF Submit!RaceStep, Submit!BroadcastTransaction, Submit!RaceAnswer,
         Submit!RaceTimesOut, Submit!pool, Submit!burstVars, Submit!budget
<1>1. PICK r \in Races : \/ Submit!BroadcastTransaction(r)
                         \/ \E e \in Submit!Endpoints, ok \in BOOLEAN : Submit!RaceAnswer(r, e, ok)
                         \/ Submit!RaceTimesOut(r)
  BY DEF Submit!RaceStep
<1>2. PICK x \in Submit!Sends : x = race[r]
  BY DEF SendsTyped
<1>3. \E y \in Submit!Sends : race' = [race EXCEPT ![r] = y]
  <2>1. CASE Submit!BroadcastTransaction(r)
    <3>1. PICK asked \in SUBSET Submit!Endpoints :
            asked = Submit!Range([n \in 1 .. NumPublics |-> n])
      BY DEF Submit!Endpoints
    <3>2. race' = [race EXCEPT ![r].pc = "sent", ![r].open = asked]
      BY <2>1, <3>1 DEF Submit!BroadcastTransaction
    <3>3. race' = [race EXCEPT ![r] = [x EXCEPT !.pc = "sent", !.open = asked]]
      BY <1>2, <3>2 DEF SendsTyped
    <3>4. [x EXCEPT !.pc = "sent", !.open = asked] \in Submit!Sends
      BY DEF Submit!Sends, Submit!Outcomes
    <3> QED BY <3>3, <3>4
  <2>2. ASSUME NEW e \in Submit!Endpoints, NEW ok \in BOOLEAN, Submit!RaceAnswer(r, e, ok)
        PROVE  \E y \in Submit!Sends : race' = [race EXCEPT ![r] = y]
    <3>1. race' = [race EXCEPT ![r] = Submit!Settled(x, e, ok)]
      BY <1>2, <2>2 DEF Submit!RaceAnswer
    <3> QED BY <3>1, Settles
  <2>3. CASE Submit!RaceTimesOut(r)
    <3>1. race' = [race EXCEPT ![r] = [x EXCEPT !.pc = "failed"]]
      BY <1>2, <2>3 DEF Submit!RaceTimesOut, SendsTyped
    <3>2. [x EXCEPT !.pc = "failed"] \in Submit!Sends
      BY DEF Submit!Sends, Submit!Outcomes
    <3> QED BY <3>1, <3>2
  <2> QED BY <1>1, <2>1, <2>2, <2>3
<1>4. race' \in [Races -> Submit!Sends]
  BY <1>3 DEF SendsTyped
<1> QED BY <1>u, <1>4 DEF SendsTyped


\* One replacement of one transaction changes, and the transaction with it: what the two
\* count is kept when the change keeps it for them and for the other replacement.
LEMMA StageKeeps ==
  ASSUME BurstsInv, NEW b \in Bursts, NEW stage \in Submit!Stages, NEW B \in Burst,
         NEW x \in Bump, Counted(B, x, bump[b, Other(stage)]),
         burst' = [burst EXCEPT ![b] = B], bump' = [bump EXCEPT ![<<b, stage>>] = x]
  PROVE  BurstsInv'
<1>1. /\ burst' \in [Bursts -> Burst] /\ bump' \in [Bursts \X Submit!Stages -> Bump]
  BY DEF BurstsInv
<1>2. ASSUME NEW c \in Bursts, NEW t \in Submit!Stages
      PROVE  Counted(burst'[c], bump'[c, t], bump'[c, Other(t)])
  <2>1. /\ Other(t) \in Submit!Stages /\ Other(t) # t /\ Other(Other(t)) = t
        /\ Other(stage) \in Submit!Stages /\ Other(stage) # stage
        /\ t = stage \/ t = Other(stage)
    BY DEF Other, Submit!Stages
  <2>2. CASE c # b
    <3>1. burst'[c] = burst[c] /\ bump'[c, t] = bump[c, t]
          /\ bump'[c, Other(t)] = bump[c, Other(t)]
      BY <2>1, <2>2 DEF BurstsInv
    <3> QED BY <3>1 DEF BurstsInv
  <2>3. CASE c = b
    <3>1. burst'[b] = B /\ bump'[b, stage] = x
          /\ bump'[b, Other(stage)] = bump[b, Other(stage)]
      BY <2>1 DEF BurstsInv
    <3>2. CASE t = stage
      BY <2>3, <3>1, <3>2
    <3>3. CASE t = Other(stage)
      <4>1. Counted(B, bump[b, Other(stage)], x)
        BY CountedIsSymmetric
      <4>2. Other(t) = stage
        BY <3>3 DEF Other, Submit!Stages
      <4> QED BY <2>3, <3>1, <3>3, <4>1, <4>2
    <3> QED BY <2>1, <3>2, <3>3
  <2> QED BY <2>2, <2>3
<1> QED BY <1>1, <1>2 DEF BurstsInv

\* Only the transaction changes, and neither its price nor its count.
LEMMA BurstKeeps ==
  ASSUME BurstsInv, NEW b \in Bursts, NEW B \in Burst, B.price = burst[b].price,
         B.bumps = burst[b].bumps, burst' = [burst EXCEPT ![b] = B], bump' = bump
  PROVE  BurstsInv'
<1> DEFINE stage == "first"
<1>1. stage \in Submit!Stages
  BY DEF Submit!Stages
<1>2. PICK x \in Bump : x = bump[b, stage]
  BY <1>1 DEF BurstsInv
<1>3. PICK y : y = bump[b, Other(stage)]
  OBVIOUS
<1>4. Counted(burst[b], x, y)
  BY <1>1, <1>2, <1>3 DEF BurstsInv
<1>5. Counted(B, x, y)
  BY <1>4 DEF Counted, Outbids
<1>6. bump' = [bump EXCEPT ![<<b, stage>>] = x]
  BY <1>1, <1>2 DEF BurstsInv
<1> HIDE DEF stage
<1> QED BY <1>1, <1>3, <1>5, <1>6, StageKeeps

LEMMA StageSteps ==
  ASSUME BurstsInv, NEW b \in Bursts, NEW stage \in Submit!Stages, NEW flag \in BOOLEAN,
         \/ Submit!CheckAndBump(b, stage) \/ Submit!ReceiptAnswered(b, stage, flag)
         \/ Submit!BumpSent(b, stage, flag)
  PROVE  BurstsInv'
<1>1. PICK B \in Burst, x \in Bump, y \in Bump :
        /\ B = burst[b] /\ x = bump[b, stage] /\ y = bump[b, Other(stage)]
  BY DEF BurstsInv, Other, Submit!Stages
<1>2. Counted(B, x, y)
  BY <1>1 DEF BurstsInv
<1>3. /\ B.price \in Nat /\ B.bumps \in Nat /\ x.price \in Nat /\ y.price \in Nat
      /\ MaxBumps \in Nat
  BY SubmitBounds DEF Burst, Bump
<1>4. burst = [burst EXCEPT ![b] = B]
  BY <1>1 DEF BurstsInv
<1>5. CASE Submit!CheckAndBump(b, stage)
  <2>1. PICK z \in Bump : z = [x EXCEPT !.pc = IF B.tracked /\ B.bumps < MaxBumps THEN "asking"
                                               ELSE "idle"]
    <3>1. PICK pc \in {"idle", "asking"} :
            pc = IF B.tracked /\ B.bumps < MaxBumps THEN "asking" ELSE "idle"
      OBVIOUS
    <3>2. [x EXCEPT !.pc = pc] \in Bump
      BY DEF Bump
    <3> QED BY <3>1, <3>2
  <2>2. x.pc = "waiting" /\ burst' = burst /\ bump' = [bump EXCEPT ![<<b, stage>>] = z]
    BY <1>1, <1>5, <2>1 DEF Submit!CheckAndBump, BurstsInv
  <2>3. z.price = x.price /\ z.pc \in {"idle", "asking"}
        /\ (z.pc = "asking" => B.bumps < MaxBumps)
    BY <2>1 DEF Bump
  <2>4. Counted(B, z, y)
    BY <1>2, <1>3, <2>2, <2>3 DEF Counted, Passed, Outbids
  <2> QED BY <1>1, <1>4, <2>2, <2>4, StageKeeps
<1>6. CASE Submit!ReceiptAnswered(b, stage, flag)
  <2>1. x.pc = "asking"
    BY <1>1, <1>6 DEF Submit!ReceiptAnswered
  <2>2. CASE B.mined = 0 /\ ~flag
    <3>1. PICK C \in Burst, z \in Bump :
            C = [B EXCEPT !.tracked = FALSE] /\ z = [x EXCEPT !.pc = "idle"]
      BY DEF Burst, Bump
    <3>2. burst' = [burst EXCEPT ![b] = C] /\ bump' = [bump EXCEPT ![<<b, stage>>] = z]
      BY <1>1, <1>6, <2>2, <3>1 DEF Submit!ReceiptAnswered, BurstsInv
    <3>3. C.price = B.price /\ C.bumps = B.bumps /\ z.pc = "idle" /\ z.price = x.price
      BY <3>1 DEF Burst, Bump
    <3>4. Counted(C, z, y)
      BY <1>2, <1>3, <2>1, <3>3 DEF Counted, Passed, Outbids
    <3> QED BY <1>1, <3>2, <3>4, StageKeeps
  <2>3. CASE ~ (B.mined = 0 /\ ~flag)
    <3>1. PICK z \in Bump : z = [pc |-> "sending", price |-> B.price + 1]
      <4>1. PICK price \in Nat : price = B.price + 1
        BY <1>3
      <4>2. [pc |-> "sending", price |-> price] \in Bump
        BY DEF Bump
      <4> QED BY <4>1, <4>2
    <3>2. burst' = burst /\ bump' = [bump EXCEPT ![<<b, stage>>] = z]
      BY <1>1, <1>6, <2>3, <3>1 DEF Submit!ReceiptAnswered
    <3>3. z.pc = "sending" /\ z.price = B.price + 1
      BY <3>1
    <3>4. Counted(B, z, y)
      BY <1>2, <1>3, <2>1, <3>3 DEF Counted, Passed, Outbids
    <3> QED BY <1>1, <1>4, <3>2, <3>4, StageKeeps
  <2> QED BY <2>2, <2>3
<1>7. CASE Submit!BumpSent(b, stage, flag)
  <2>1. PICK z \in Bump : z = [pc |-> "idle", price |-> 0]
    BY DEF Bump
  <2>2. x.pc = "sending" /\ bump' = [bump EXCEPT ![<<b, stage>>] = z]
    BY <1>1, <1>7, <2>1 DEF Submit!BumpSent
  <2>3. z.pc = "idle" /\ z.price = 0
    BY <2>1
  <2>4. CASE flag
    <3>1. x.price > B.price
      BY <1>1, <1>7, <2>4 DEF Submit!BumpSent
    <3>2. x.price = B.price + 1
      BY <1>2, <1>3, <2>2, <3>1 DEF Counted, Outbids
    <3>3. PICK C \in Burst : C = [B EXCEPT !.bumps = B.bumps + 1, !.price = x.price]
      <4>1. PICK n \in Nat, price \in Nat : n = B.bumps + 1 /\ price = x.price
        BY <1>3
      <4>2. [B EXCEPT !.bumps = n, !.price = price] \in Burst
        BY DEF Burst
      <4> QED BY <4>1, <4>2
    <3>4. burst' = [burst EXCEPT ![b] = C]
      BY <1>1, <1>7, <2>4, <3>3 DEF Submit!BumpSent, BurstsInv
    <3>5. C.price = B.price + 1 /\ C.bumps = B.bumps + 1
      BY <3>2, <3>3 DEF Burst
    <3>6. Counted(C, z, y)
      BY <1>2, <1>3, <2>2, <2>3, <3>5 DEF Counted, Passed, Outbids
    <3> QED BY <1>1, <2>2, <3>4, <3>6, StageKeeps
  <2>5. CASE ~flag
    <3>1. burst' = burst
      BY <1>7, <2>5 DEF Submit!BumpSent
    <3>2. Counted(B, z, y)
      BY <1>2, <1>3, <2>2, <2>3 DEF Counted, Passed, Outbids
    <3> QED BY <1>1, <1>4, <2>2, <3>1, <3>2, StageKeeps
  <2> QED BY <2>4, <2>5
<1> QED BY <1>5, <1>6, <1>7

LEMMA BurstSteps ==
  ASSUME BurstsInv, Submit!BurstStep
  PROVE  BurstsInv' /\ UNCHANGED <<healthy, submission, race, revertCount, lastResetDate, day,
                                   optimist, currentIndex>>
<1>u. UNCHANGED <<healthy, submission, race, revertCount, lastResetDate, day, optimist,
                  currentIndex>>
  BY DEF Submit!BurstStep, Submit!TrackTransaction, Submit!ConfirmTransaction,
         Submit!CheckAndBump, Submit!ReceiptAnswered, Submit!BumpSent, Submit!Mined,
         Submit!pool, Submit!budget
<1>1. PICK b \in Bursts :
        \/ Submit!TrackTransaction(b) \/ Submit!ConfirmTransaction(b)
        \/ \E stage \in Submit!Stages :
             \/ Submit!CheckAndBump(b, stage)
             \/ \E x \in BOOLEAN : Submit!ReceiptAnswered(b, stage, x) \/ Submit!BumpSent(b, stage, x)
        \/ \E price \in Submit!BumpPrices : Submit!Mined(b, price)
  BY DEF Submit!BurstStep
<1>2. PICK B \in Burst : B = burst[b]
  BY DEF BurstsInv
<1>3. CASE Submit!ConfirmTransaction(b)
  <2>1. PICK C \in Burst : C = [B EXCEPT !.tracked = FALSE]
    BY DEF Burst
  <2>2. burst' = [burst EXCEPT ![b] = C] /\ bump' = bump
    BY <1>2, <1>3, <2>1 DEF Submit!ConfirmTransaction, BurstsInv
  <2>3. C.price = B.price /\ C.bumps = B.bumps
    BY <2>1 DEF Burst
  <2> QED BY <1>u, <1>2, <2>2, <2>3, BurstKeeps
<1>4. ASSUME NEW price \in Submit!BumpPrices, Submit!Mined(b, price) PROVE BurstsInv'
  <2>1. PICK C \in Burst : C = [B EXCEPT !.mined = price]
    BY DEF Burst
  <2>2. burst' = [burst EXCEPT ![b] = C] /\ bump' = bump
    BY <1>2, <1>4, <2>1 DEF Submit!Mined, BurstsInv
  <2>3. C.price = B.price /\ C.bumps = B.bumps
    BY <2>1 DEF Burst
  <2> QED BY <1>2, <2>2, <2>3, BurstKeeps
<1>5. CASE Submit!TrackTransaction(b)
  <2>1. PICK C \in Burst : C = [B EXCEPT !.tracked = TRUE]
    BY DEF Burst
  <2>2. PICK x \in Bump, y \in Bump : x = bump[b, "first"] /\ y = bump[b, "second"]
    BY DEF BurstsInv, Submit!Stages
  <2>3. PICK v \in Bump, w \in Bump :
          v = [x EXCEPT !.pc = "waiting"] /\ w = [y EXCEPT !.pc = "waiting"]
    BY DEF Bump
  <2>4. /\ x.pc = "idle" /\ y.pc = "idle"
        /\ burst' = [burst EXCEPT ![b] = C]
    BY <1>2, <1>5, <2>1, <2>2 DEF Submit!TrackTransaction, BurstsInv
  <2>5. bump' = [bump EXCEPT ![<<b, "first">>] = v, ![<<b, "second">>] = w]
    BY <1>5, <2>2, <2>3 DEF Submit!TrackTransaction, BurstsInv, Submit!Stages
  <2>6. Counted(B, x, y)
    <3>1. "first" \in Submit!Stages /\ Other("first") = "second"
      BY DEF Submit!Stages, Other
    <3> QED BY <1>2, <2>2, <3>1 DEF BurstsInv
  <2>7. C.price = B.price /\ C.bumps = B.bumps
    BY <2>1 DEF Burst
  <2>8. v.pc = "waiting" /\ w.pc = "waiting" /\ v.price = x.price /\ w.price = y.price
    BY <2>3 DEF Bump
  <2>9. Counted(C, v, w)
    BY <2>4, <2>6, <2>7, <2>8 DEF Counted, Passed, Outbids
  <2>10. Counted(C, w, v)
    BY <2>9, CountedIsSymmetric
  <2>11. burst' \in [Bursts -> Burst] /\ bump' \in [Bursts \X Submit!Stages -> Bump]
    BY <2>4, <2>5 DEF BurstsInv
  <2>12. ASSUME NEW c \in Bursts, NEW t \in Submit!Stages
         PROVE  Counted(burst'[c], bump'[c, t], bump'[c, Other(t)])
    <3>1. CASE c # b
      <4>1. burst'[c] = burst[c] /\ bump'[c, t] = bump[c, t]
            /\ bump'[c, Other(t)] = bump[c, Other(t)]
        BY <2>4, <2>5, <3>1 DEF BurstsInv, Other, Submit!Stages
      <4> QED BY <4>1 DEF BurstsInv
    <3>2. CASE c = b
      <4>1. burst'[b] = C /\ bump'[b, "first"] = v /\ bump'[b, "second"] = w
        BY <2>4, <2>5 DEF BurstsInv, Submit!Stages
      <4>2. \/ t = "first" /\ Other(t) = "second"
            \/ t = "second" /\ Other(t) = "first"
        BY DEF Other, Submit!Stages
      <4> QED BY <2>9, <2>10, <3>2, <4>1, <4>2
    <3> QED BY <3>1, <3>2
  <2> QED BY <1>u, <2>11, <2>12 DEF BurstsInv
<1> QED BY <1>u, <1>1, <1>3, <1>4, <1>5, StageSteps


LEMMA BudgetSteps ==
  ASSUME BudgetTyped, Submit!BudgetStep
  PROVE  BudgetTyped' /\ UNCHANGED <<healthy, submission, race, burst, bump>>
<1>u. UNCHANGED <<healthy, submission, race, burst, bump>>
  BY DEF Submit!BudgetStep, Submit!ShouldExecuteOptimistic, Submit!VerifyPostExecution,
         Submit!SelectKey, Submit!NewDay, Submit!pool, Submit!burstVars
<1>1. PICK n \in Nat : n = Submit!Reverts
  BY DEF BudgetTyped, Submit!Reverts
<1>2. ASSUME NEW o \in Optimists, NEW x \in BOOLEAN,
             Submit!ShouldExecuteOptimistic(o, x) \/ Submit!VerifyPostExecution(o, x)
      PROVE  BudgetTyped'
  <2>1. /\ optimist' \in {optimist, [optimist EXCEPT ![o] = "sent"],
                          [optimist EXCEPT ![o] = "over"]}
        /\ revertCount' \in {n, n + 1, revertCount} /\ lastResetDate' \in {day, lastResetDate}
        /\ UNCHANGED <<day, currentIndex>>
    BY <1>1, <1>2 DEF Submit!ShouldExecuteOptimistic, Submit!VerifyPostExecution
  <2>2. optimist' \in [Optimists -> {"unsent", "sent", "over"}]
    BY <2>1 DEF BudgetTyped
  <2>3. revertCount' \in Nat /\ lastResetDate' \in 1 .. Days
    BY <2>1 DEF BudgetTyped
  <2> QED BY <2>1, <2>2, <2>3 DEF BudgetTyped
<1>3. CASE Submit!SelectKey
  <2>1. currentIndex' \in 0 .. Keys - 1
    <3>1. PICK keys \in Nat \ {0} : keys = Keys
      BY SubmitBounds
    <3>2. PICK m \in Nat : m = currentIndex + 1
      BY <3>1 DEF BudgetTyped
    <3>3. m % keys \in 0 .. keys - 1
      OBVIOUS
    <3>4. currentIndex' = m % keys
      BY <1>3, <3>1, <3>2 DEF Submit!SelectKey
    <3> QED BY <3>1, <3>3, <3>4
  <2> QED BY <1>u, <1>3, <2>1 DEF Submit!SelectKey, BudgetTyped
<1>4. CASE Submit!NewDay
  <2>1. day' \in 1 .. Days
    BY <1>4, SubmitBounds DEF Submit!NewDay, BudgetTyped
  <2> QED BY <1>u, <1>4, <2>1 DEF Submit!NewDay, BudgetTyped
<1> QED BY <1>u, <1>2, <1>3, <1>4 DEF Submit!BudgetStep

LEMMA SubmitNext == SubmitInv /\ [Submit!Next]_(Submit!vars) => SubmitInv'
<1> SUFFICES ASSUME SendsTyped, BurstsInv, BudgetTyped, [Submit!Next]_(Submit!vars)
             PROVE  SendsTyped' /\ BurstsInv' /\ BudgetTyped'
  BY DEF SubmitInv
<1>1. ASSUME UNCHANGED <<burst, bump>> PROVE BurstsInv'
  BY <1>1 DEF BurstsInv
<1>2. ASSUME UNCHANGED <<revertCount, lastResetDate, day, optimist, currentIndex>>
      PROVE  BudgetTyped'
  BY <1>2 DEF BudgetTyped
<1>3. ASSUME UNCHANGED <<healthy, submission, race>> PROVE SendsTyped'
  BY <1>3 DEF SendsTyped
<1>4. CASE Submit!PoolStep \/ Submit!RaceStep
  BY <1>1, <1>2, <1>4, PoolSteps, RaceSteps
<1>5. CASE Submit!BurstStep
  BY <1>2, <1>3, <1>5, BurstSteps
<1>6. CASE Submit!BudgetStep
  BY <1>1, <1>3, <1>6, BudgetSteps
<1>7. CASE UNCHANGED Submit!vars
  BY <1>1, <1>2, <1>3, <1>7 DEF Submit!vars, Submit!pool, Submit!burstVars, Submit!budget
<1> QED BY <1>4, <1>5, <1>6, <1>7 DEF Submit!Next

LEMMA SubmitTypes == SubmitInv => Submit!TypeOK
<1> SUFFICES ASSUME SubmitInv PROVE Submit!TypeOK
  OBVIOUS
<1>1. MaxBumps \in Nat /\ Submit!BumpPrices = 0 .. MaxBumps + 1
  BY SubmitBounds DEF Submit!BumpPrices
<1>2. ASSUME NEW b \in Bursts
      PROVE  burst[b] \in [tracked : BOOLEAN, bumps : Submit!BumpPrices,
                           price : Submit!BumpPrices,
                           mined : {Submit!NotMined} \cup Submit!BumpPrices]
  <2>1. PICK B \in Burst : B = burst[b]
    BY DEF SubmitInv, BurstsInv
  <2>2. B.price = B.bumps /\ B.bumps <= MaxBumps + 1 /\ B.bumps \in Nat
    BY <2>1 DEF SubmitInv, BurstsInv, Submit!Stages, Counted, Burst
  <2>3. B.bumps \in Submit!BumpPrices /\ B.price \in Submit!BumpPrices
    BY <1>1, <2>2
  <2> QED BY <2>1, <2>3 DEF Burst
<1>3. ASSUME NEW b \in Bursts, NEW stage \in Submit!Stages
      PROVE  bump[<<b, stage>>] \in [pc : {"idle", "waiting", "asking", "sending"},
                                     price : Submit!BumpPrices]
  <2>1. PICK B \in Burst, x \in Bump : B = burst[b] /\ x = bump[<<b, stage>>]
    BY DEF SubmitInv, BurstsInv
  <2>2. B.price \in Nat /\ x.price \in Nat
    BY DEF Burst, Bump
  <2>3. x.price <= MaxBumps + 1
    <3>1. PICK y : Counted(B, x, y)
      BY <2>1 DEF SubmitInv, BurstsInv
    <3> QED BY <1>1, <2>2, <3>1 DEF Counted, Passed, Outbids
  <2>4. x.price \in Submit!BumpPrices
    BY <1>1, <2>2, <2>3
  <2> QED BY <2>1, <2>4 DEF Bump
<1>4. burst \in [Bursts -> [tracked : BOOLEAN, bumps : Submit!BumpPrices,
                            price : Submit!BumpPrices,
                            mined : {Submit!NotMined} \cup Submit!BumpPrices]]
  BY <1>2 DEF SubmitInv, BurstsInv
<1>5. bump \in [Bursts \X Submit!Stages -> [pc : {"idle", "waiting", "asking", "sending"},
                                           price : Submit!BumpPrices]]
  <2>1. PICK P : P = [pc : {"idle", "waiting", "asking", "sending"}, price : Submit!BumpPrices]
    OBVIOUS
  <2>2. \A z \in Bursts \X Submit!Stages : bump[z] \in P
    BY <1>3, <2>1
  <2>3. bump \in [Bursts \X Submit!Stages -> Bump]
    BY DEF SubmitInv, BurstsInv
  <2>4. bump \in [Bursts \X Submit!Stages -> P]
    BY <2>2, <2>3
  <2> QED BY <2>1, <2>4
<1>6. SendsTyped /\ BudgetTyped
  BY DEF SubmitInv
<1> QED BY <1>4, <1>5, <1>6 DEF SendsTyped, BudgetTyped, Submit!TypeOK

LEMMA SubmitPart == Spec => Submit!Spec
<1>1. Init => Submit!Init
  BY DEF Init
<1>2. [Next]_vars => [Submit!Next]_(Submit!vars)
  BY DEF Next, vars, submitVars, Submit!vars, Submit!pool, Submit!burstVars, Submit!budget,
         Submit!Next, FollowIndex, FollowWs, FollowPyth, FollowPrice, FollowPolls,
         FollowSources, FollowSubmit
<1> QED BY <1>1, <1>2, SpecSteps, PTL DEF Submit!Spec

-----------------------------------------------------------------------------
\* Every variable of the seven components keeps its type: no more reconnects than the
\* attempts allow, no chunk or tick of the pending polls out of its limits however often
\* the provider refuses, no batch of events beyond its size, and at most one replacement
\* more than maxBumps however the two timers of a transaction interleave.
THEOREM LiveTypeCorrect == Spec => []TypeOK
<1>1. Spec => []Ws!TypeOK
  <2>1. WsInv => Ws!TypeOK
    BY DEF WsInv
  <2> QED BY <2>1, WsInit, WsNext, WsPart, PTL DEF Ws!Spec
<1>2. Spec => []Pyth!TypeOK
  <2>1. PythInv => Pyth!TypeOK
    BY DEF PythInv
  <2> QED BY <2>1, PythInit, PythNext, PythPart, PTL DEF Pyth!Spec
<1>3. Spec => []Index!TypeOK
  <2>1. IndexInv => Index!TypeOK
    BY DEF IndexInv
  <2> QED BY <2>1, IndexInit, IndexNext, IndexPart, PTL DEF Index!Spec
<1>4. Spec => []Price!TypeOK
  BY PriceInit, PriceNext, PricePart, PTL DEF Price!Spec
<1>5. Spec => []Polls!TypeOK
  <2>1. PollsInv => Polls!TypeOK
    BY DEF PollsInv
  <2> QED BY <2>1, PollsInit, PollsNext, PollsPart, PTL DEF Polls!Spec
<1>6. Spec => []Sources!TypeOK
  BY SourcesInit, SourcesNext, SourcesPart, PTL DEF Sources!Spec
<1>7. Spec => []Submit!TypeOK
  BY SubmitInit, SubmitNext, SubmitTypes, SubmitPart, PTL DEF Submit!Spec
<1> QED BY <1>1, <1>2, <1>3, <1>4, <1>5, <1>6, <1>7, PTL DEF TypeOK
=============================================================================
