------------------------------- MODULE PythLink -------------------------------
(***************************************************************************)
(* prices/PythListener.ts: the connection to Pyth, its heartbeat, and its  *)
(* reconnection with a bounded number of attempts.  Connections are        *)
(* numbered in the order they are made.  Time is one bit: whether the      *)
(* current connection has been silent for two minutes.                     *)
(***************************************************************************)
EXTENDS Integers, FiniteSets

CONSTANTS
  MaxAttempts,  \* maxReconnectAttempts
  MaxConns      \* bound: connections made

LinkAssumption ==
  /\ MaxAttempts \in Nat \ {0}
  /\ MaxConns \in Nat \ {0}

VARIABLES
  made,             \* connections made so far
  ws,               \* this.ws; 0 is null
  socket,           \* per connection
  isConnected, shouldReconnect,
  attempts,         \* reconnectAttempts
  timers,           \* reconnect timers that run
  heartbeat,        \* heartbeatInterval runs
  silent,           \* no message for two minutes
  started, stopped  \* start() and stop() have been called

flags == <<started, stopped>>
vars == <<made, ws, socket, isConnected, shouldReconnect, attempts, timers,
          heartbeat, silent, started, stopped>>

Conns == 1 .. MaxConns

TypeOK ==
  /\ made \in 0 .. MaxConns
  /\ ws \in 0 .. made
  /\ socket \in [Conns -> {"none", "connecting", "open", "closing", "closed"}]
  /\ isConnected \in BOOLEAN
  /\ shouldReconnect \in BOOLEAN
  /\ attempts \in 0 .. MaxAttempts
  /\ timers \in Nat
  /\ heartbeat \in BOOLEAN
  /\ silent \in BOOLEAN
  /\ started \in BOOLEAN
  /\ stopped \in BOOLEAN

Init ==
  /\ made = 0
  /\ ws = 0
  /\ socket = [c \in Conns |-> "none"]
  /\ isConnected = FALSE
  /\ shouldReconnect = TRUE
  /\ attempts = 0
  /\ timers = 0
  /\ heartbeat = FALSE
  /\ silent = FALSE
  /\ started = FALSE
  /\ stopped = FALSE

-----------------------------------------------------------------------------
\* connect(): the WebSocket constructor returns.
Connect ==
  /\ made < MaxConns
  /\ made' = made + 1
  /\ ws' = made + 1
  /\ socket' = [socket EXCEPT ![made + 1] = "connecting"]

\* Mutant: one attempt more than the maximum.
MayReconnectOnceMore ==
  IF shouldReconnect /\ attempts <= MaxAttempts
    THEN attempts' = attempts + 1 /\ timers' = timers + 1
    ELSE UNCHANGED <<attempts, timers>>

\* reconnect(), if it is called.
MayReconnect ==
  IF shouldReconnect /\ attempts < MaxAttempts
    THEN attempts' = attempts + 1 /\ timers' = timers + 1
    ELSE UNCHANGED <<attempts, timers>>

\* main() calls start() once.
Start ==
  /\ ~started
  /\ ~stopped
  /\ started' = TRUE
  /\ shouldReconnect' = TRUE
  /\ Connect
  /\ UNCHANGED <<isConnected, attempts, timers, heartbeat, silent, stopped>>

Open(c) ==
  /\ socket[c] = "connecting"
  /\ socket' = [socket EXCEPT ![c] = "open"]
  /\ isConnected' = TRUE
  /\ attempts' = 0
  /\ silent' = FALSE
  /\ heartbeat' = TRUE
  /\ UNCHANGED <<made, ws, shouldReconnect, timers, flags>>

\* Mutant: a closed connection is not replaced.
CloseForGood(c) ==
  /\ socket[c] \in {"connecting", "open", "closing"}
  /\ socket' = [socket EXCEPT ![c] = "closed"]
  /\ isConnected' = FALSE
  /\ heartbeat' = FALSE
  /\ UNCHANGED <<made, ws, shouldReconnect, attempts, timers, silent, flags>>

\* The close event: the handshake failed, or the connection ended.
Close(c) ==
  /\ socket[c] \in {"connecting", "open", "closing"}
  /\ socket' = [socket EXCEPT ![c] = "closed"]
  /\ isConnected' = FALSE
  /\ heartbeat' = FALSE
  /\ MayReconnect
  /\ UNCHANGED <<made, ws, shouldReconnect, silent, flags>>

Message ==
  /\ ws # 0
  /\ socket[ws] = "open"
  /\ silent' = FALSE
  /\ UNCHANGED <<made, ws, socket, isConnected, shouldReconnect, attempts, timers,
                 heartbeat, flags>>

Silence ==
  /\ ws # 0
  /\ socket[ws] = "open"
  /\ silent' = TRUE
  /\ UNCHANGED <<made, ws, socket, isConnected, shouldReconnect, attempts, timers,
                 heartbeat, flags>>

\* The heartbeat's callback finds two minutes of silence.
Heartbeat ==
  /\ heartbeat /\ silent
  /\ ws # 0
  /\ socket' = [socket EXCEPT ![ws] = IF @ = "open" THEN "closing" ELSE @]
  /\ UNCHANGED <<made, ws, isConnected, shouldReconnect, attempts, timers, heartbeat,
                 silent, flags>>

\* The backoff is over.
BackoffOver ==
  /\ timers > 0
  /\ timers' = timers - 1
  /\ IF shouldReconnect THEN Connect ELSE UNCHANGED <<made, ws, socket>>
  /\ UNCHANGED <<isConnected, shouldReconnect, attempts, heartbeat, silent, flags>>

\* SIGINT or SIGTERM.  A connection that is not open yet is aborted.
Stop ==
  /\ ~stopped
  /\ stopped' = TRUE
  /\ shouldReconnect' = FALSE
  /\ heartbeat' = FALSE
  /\ isConnected' = FALSE
  /\ ws' = 0
  /\ socket' = [c \in Conns |->
       IF c = ws /\ socket[c] \in {"connecting", "open"} THEN "closing" ELSE socket[c]]
  /\ UNCHANGED <<made, attempts, timers, silent, started>>

Next ==
  \/ Start \/ Stop \/ BackoffOver
  \/ \E c \in Conns : Open(c) \/ Close(c)
  \/ Message \/ Silence \/ Heartbeat

Spec == Init /\ [][Next]_vars

\* An opening or closing handshake ends.
HandshakeEnds(c) == socket[c] # "open" /\ (Open(c) \/ Close(c))

\* Intervals and timers fire, and handshakes end.
FairSpec ==
  /\ Spec
  /\ WF_vars(Heartbeat)
  /\ WF_vars(BackoffOver)
  /\ \A c \in Conns : WF_vars(HandshakeEnds(c))

-----------------------------------------------------------------------------
\* Properties.

Live(c) == socket[c] \in {"connecting", "open", "closing"}

\* Heartbeat, close event and backoff together never bring about a second
\* connection: one is alive, or one backoff is waiting to make it.
OneConnection == Cardinality({c \in Conns : Live(c)}) + timers <= 1

\* A lost connection is replaced, until the attempts are used up or the program
\* stops (or the model's bound is reached).
LostIsReplaced ==
  started /\ ~isConnected
    ~> isConnected \/ attempts = MaxAttempts \/ stopped \/ made = MaxConns
=============================================================================
