------------------------------ MODULE WsProvider ------------------------------
(***************************************************************************)
(* providers/ws.ts of backend-v2: the one WebSocket provider of the        *)
(* process, its reconnection after an error, and the subscriptions that    *)
(* ChainlinkListener and the block heartbeat make on it at start-up.       *)
(* Providers are numbered in the order they are created.                   *)
(***************************************************************************)
EXTENDS Integers, FiniteSets

CONSTANTS
  Subscribers,   \* the Chainlink listener and the block heartbeat
  MaxAttempts,   \* MAX_RECONNECT_ATTEMPTS
  MaxProviders   \* bound: providers created

WsAssumption ==
  /\ MaxAttempts \in Nat \ {0}
  /\ MaxProviders \in Nat \ {0}

VARIABLES
  current,        \* wsProvider; 0 is null
  socket,         \* per provider created so far
  heardOn,        \* the provider each subscriber subscribed on; 0 is none yet
  attempts,       \* reconnectAttempts
  isReconnecting,
  timers,         \* reconnect timers that run
  errors,         \* history: providers that reported an error
  gaveUp          \* history: handleDisconnect gave up

vars == <<current, socket, heardOn, attempts, isReconnecting, timers, errors,
          gaveUp>>

Providers == 1 .. MaxProviders

TypeOK ==
  /\ current \in 0 .. MaxProviders
  /\ socket \in [Providers -> {"none", "open", "broken", "destroyed"}]
  /\ heardOn \in [Subscribers -> 0 .. MaxProviders]
  /\ attempts \in 0 .. MaxAttempts + 1
  /\ isReconnecting \in BOOLEAN
  /\ timers \in Nat
  /\ errors \subseteq Providers
  /\ gaveUp \in BOOLEAN

Init ==
  /\ current = 0
  /\ socket = [p \in Providers |-> "none"]
  /\ heardOn = [w \in Subscribers |-> 0]
  /\ attempts = 0
  /\ isReconnecting = FALSE
  /\ timers = 0
  /\ errors = {}
  /\ gaveUp = FALSE

-----------------------------------------------------------------------------
\* createWsProvider: the counter is reset when the object is made, before its
\* socket is known to open.
Create(others) ==
  /\ current < MaxProviders
  /\ current' = current + 1
  /\ \E state \in {"open", "broken"} :
       socket' = [others EXCEPT ![current + 1] = state]
  /\ attempts' = 0

\* start() of the listener and the heartbeat of main() each call getWsProvider
\* once, the first of them creating it, and subscribe on what they get.
Subscribe(w) ==
  /\ heardOn[w] = 0
  /\ IF current = 0
       THEN Create(socket) /\ heardOn' = [heardOn EXCEPT ![w] = 1]
       ELSE /\ heardOn' = [heardOn EXCEPT ![w] = current]
            /\ UNCHANGED <<current, socket, attempts>>
  /\ UNCHANGED <<isReconnecting, timers, errors, gaveUp>>

\* The connection goes; ws.ts learns of it only through an error event.
Break(p) ==
  /\ socket[p] = "open"
  /\ socket' = [socket EXCEPT ![p] = "broken"]
  /\ UNCHANGED <<current, heardOn, attempts, isReconnecting, timers, errors,
                 gaveUp>>

HandleDisconnect ==
  IF isReconnecting THEN UNCHANGED <<attempts, isReconnecting, timers, gaveUp>>
  ELSE IF attempts + 1 > MaxAttempts
    THEN /\ attempts' = attempts + 1
         /\ gaveUp' = TRUE
         /\ UNCHANGED <<isReconnecting, timers>>
    ELSE /\ attempts' = attempts + 1
         /\ isReconnecting' = TRUE
         /\ timers' = timers + 1
         /\ UNCHANGED gaveUp

\* removeAllListeners has silenced a destroyed provider.
Error(p) ==
  /\ socket[p] \in {"open", "broken"}
  /\ errors' = errors \cup {p}
  /\ HandleDisconnect
  /\ UNCHANGED <<current, socket, heardOn>>

\* Mutant: the old provider is left running.
ReconnectLeaking ==
  /\ timers > 0
  /\ timers' = timers - 1
  /\ isReconnecting' = FALSE
  /\ Create(socket)
  /\ UNCHANGED <<heardOn, errors, gaveUp>>

\* The backoff is over.
Reconnect ==
  /\ timers > 0
  /\ timers' = timers - 1
  /\ isReconnecting' = FALSE
  /\ Create([socket EXCEPT ![current] = "destroyed"])
  /\ UNCHANGED <<heardOn, errors, gaveUp>>

Next ==
  \/ \E w \in Subscribers : Subscribe(w)
  \/ \E p \in Providers : Break(p) \/ Error(p)
  \/ Reconnect

Spec == Init /\ [][Next]_vars

-----------------------------------------------------------------------------
\* Properties.

\* A provider that has been replaced is destroyed: it neither keeps a socket
\* nor reports errors that would replace its successor.
OnlyCurrentLives ==
  \A p \in Providers : p < current => socket[p] = "destroyed"

\* A provider that reports an error is replaced, up to the model's bound.
Broken == current \in errors /\ current < MaxProviders
ErrorsReconnect == Broken ~> ~Broken

\* When the connection goes, the provider reconnects by itself: whoever had
\* subscribed is heard of again.
EventsResume ==
  \A w \in Subscribers, p \in Providers :
    (heardOn[w] = p /\ p \in errors /\ p < MaxProviders) ~> heardOn[w] > p
=============================================================================
