------------------------------ MODULE HfConnection ------------------------------
(***************************************************************************)
(* The WebSocket connection of services/RealTimeHFService.ts after its     *)
(* start: the heartbeat that notices a silent connection, the reconnect it *)
(* runs itself, the reconnect behind a backoff that provider errors and    *)
(* failed reconnects schedule, and stop.  Both reconnects run the same     *)
(* three setup steps and nothing keeps two of them apart.                  *)
(***************************************************************************)
EXTENDS Integers, FiniteSets

CONSTANTS
  Sockets,      \* bound: connections made
  Flows,        \* bound: reconnects under way at one time
  MaxAttempts,  \* maxReconnectAttempts
  MaxErrors     \* bound: provider errors and failures of setup steps

ConnectionAssumption ==
  /\ IsFiniteSet(Sockets) /\ Sockets # {}
  /\ MaxAttempts \in Nat /\ MaxErrors \in Nat

VARIABLES
  down,       \* isShuttingDown
  current,    \* the socket of this.provider
  open,       \* sockets made and not destroyed
  listening,  \* sockets with the listeners of setupRealtime
  quiet,      \* lastWsActivity is more than wsHeartbeatMs ago
  hearts,     \* chains of heartbeat checks that will fire
  stalling,   \* isReconnecting
  timers,     \* backoffs that wait
  attempts,   \* reconnectAttempts
  flows,      \* reconnects under way
  used,       \* sockets made so far
  errors      \* counter of the bound

vars == <<down, current, open, listening, quiet, hearts, stalling, timers, attempts,
          flows, used, errors>>

FlowState == [at: {"off", "destroy", "contracts", "realtime"}, kind: {"stall", "timer"}]
NoFlow == [at |-> "off", kind |-> "timer"]

Busy == {f \in Flows : flows[f].at # "off"}

TypeOK ==
  /\ down \in BOOLEAN
  /\ current \in Sockets
  /\ open \subseteq Sockets
  /\ listening \subseteq Sockets
  /\ quiet \in BOOLEAN
  /\ hearts \in Nat
  /\ stalling \in BOOLEAN
  /\ timers \in Nat
  /\ attempts \in 0 .. MaxAttempts + 1
  /\ flows \in [Flows -> FlowState]
  /\ used \subseteq Sockets
  /\ errors \in 0 .. MaxErrors

\* The service has started.
Init ==
  /\ down = FALSE
  /\ current \in Sockets
  /\ open = {current}
  /\ listening = {current}
  /\ quiet = FALSE
  /\ hearts = 1
  /\ stalling = FALSE
  /\ timers = 0
  /\ attempts = 0
  /\ flows = [f \in Flows |-> NoFlow]
  /\ used = {current}
  /\ errors = 0

-----------------------------------------------------------------------------
\* stop(): of the timers only the last ones are cleared, but the others do
\* nothing any more; of the sockets only the current one is closed.
Stop ==
  /\ down' = TRUE
  /\ hearts' = 0
  /\ timers' = 0
  /\ open' = open \ {current}
  /\ listening' = listening \ {current}

\* handleDisconnect: one more backoff, or the end after too many.
HandleDisconnect ==
  IF down
    THEN UNCHANGED <<down, hearts, timers, attempts, open, listening>>
    ELSE /\ attempts' = attempts + 1
         /\ IF attempts + 1 > MaxAttempts
              THEN Stop
              ELSE timers' = timers + 1 /\ UNCHANGED <<down, hearts, open, listening>>

StopCalled ==
  /\ ~down
  /\ Stop
  /\ UNCHANGED <<current, quiet, stalling, attempts, flows, used, errors>>

\* A socket that nobody destroyed reports an error; it may go on working.
ProviderError(s) ==
  /\ s \in open
  /\ errors < MaxErrors
  /\ errors' = errors + 1
  /\ HandleDisconnect
  /\ UNCHANGED <<current, quiet, stalling, flows, used>>

\* handleNewBlock, from whichever socket.
Block ==
  /\ ~down /\ open \cap listening # {}
  /\ quiet' = FALSE
  /\ UNCHANGED <<down, current, open, listening, hearts, stalling, timers, attempts,
                 flows, used, errors>>

Silence ==
  /\ ~quiet
  /\ quiet' = TRUE
  /\ UNCHANGED <<down, current, open, listening, hearts, stalling, timers, attempts,
                 flows, used, errors>>

\* heartbeatCheck; after a silence it hands its chain to handleWsStall, which
\* awaits the end of the current socket.  During a reconnect the chain ends.
Heartbeat ==
  /\ hearts > 0
  /\ \/ /\ ~down /\ ~stalling /\ ~quiet
        /\ UNCHANGED <<hearts, open, listening, stalling, flows>>
     \/ /\ down \/ stalling
        /\ hearts' = hearts - 1
        /\ UNCHANGED <<open, listening, stalling, flows>>
     \/ /\ ~down /\ ~stalling /\ quiet
        /\ hearts' = hearts - 1
        /\ stalling' = TRUE
        /\ \E f \in Flows \ Busy :
             flows' = [flows EXCEPT ![f] = [at |-> "destroy", kind |-> "stall"]]
        /\ open' = open \ {current}
        /\ listening' = listening \ {current}
  /\ UNCHANGED <<down, current, quiet, timers, attempts, used, errors>>

\* setupProvider: a new socket takes the place of the current one, which is
\* not closed here, and the attempts start anew.
SetupProvider(f, kind) ==
  \E s \in Sockets \ used :
    /\ used' = used \cup {s}
    /\ current' = s
    /\ open' = open \cup {s}
    /\ attempts' = 0
    /\ flows' = [flows EXCEPT ![f] = [at |-> "contracts", kind |-> kind]]

\* The backoff is over.
BackoffOver ==
  /\ timers > 0
  /\ timers' = timers - 1
  /\ \E f \in Flows \ Busy : SetupProvider(f, "timer")
  /\ UNCHANGED <<down, listening, quiet, hearts, stalling, errors>>

\* The old socket is destroyed; handleWsStall goes on, also after a stop.
Destroyed(f) ==
  /\ flows[f].at = "destroy"
  /\ SetupProvider(f, flows[f].kind)
  /\ UNCHANGED <<down, listening, quiet, hearts, stalling, timers, errors>>

\* setupContracts verified the contracts: setupRealtime listens on whichever
\* socket is the current one by now, and may await the feed discovery.
ContractsVerified(f) ==
  /\ flows[f].at = "contracts"
  /\ flows' = [flows EXCEPT ![f].at = "realtime"]
  /\ listening' = listening \cup (open \cap {current})
  /\ UNCHANGED <<down, current, open, quiet, hearts, stalling, timers, attempts, used,
                 errors>>

Finish(f) ==
  /\ flows' = [flows EXCEPT ![f] = NoFlow]
  /\ stalling' = IF flows[f].kind = "stall" THEN FALSE ELSE stalling

\* setupRealtime ends with startWsHeartbeat: a chain more.
RealtimeUp(f) ==
  /\ flows[f].at = "realtime"
  /\ Finish(f)
  /\ hearts' = hearts + 1
  /\ quiet' = FALSE
  /\ attempts' = IF flows[f].kind = "timer" THEN 0 ELSE attempts
  /\ UNCHANGED <<down, current, open, listening, timers, used, errors>>

\* Mutant: a failed reconnect of the heartbeat is only logged.
AfterFailureLogged(f) ==
  IF flows[f].kind = "stall"
    THEN UNCHANGED <<down, hearts, timers, attempts, open, listening>>
    ELSE HandleDisconnect

\* A failed reconnect tries again behind a backoff.
AfterFailure(f) == HandleDisconnect

\* A setup step throws.
SetupFails(f) ==
  /\ flows[f].at \in {"contracts", "realtime"}
  /\ errors < MaxErrors
  /\ errors' = errors + 1
  /\ Finish(f)
  /\ AfterFailure(f)
  /\ UNCHANGED <<current, quiet, used>>

Next ==
  \/ StopCalled \/ Block \/ Silence \/ Heartbeat \/ BackoffOver
  \/ \E s \in Sockets : ProviderError(s)
  \/ \E f \in Flows : Destroyed(f) \/ ContractsVerified(f) \/ RealtimeUp(f) \/ SetupFails(f)

Spec == Init /\ [][Next]_vars

-----------------------------------------------------------------------------
\* Properties.

\* Until it is stopped the service has something that will notice a dead
\* connection or make a new one: a heartbeat that will fire, a backoff that
\* waits, or a reconnect under way, however reconnects overlap and fail.
NeverDeaf == ~down => hearts > 0 \/ timers > 0 \/ Busy # {}

\* "WebSocket reconnection is idempotent and safe to trigger multiple times".
OneSocket == Cardinality(open) <= 1
=============================================================================
