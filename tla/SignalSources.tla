----------------------------- MODULE SignalSources -----------------------------
(***************************************************************************)
(* Two sources of the first bot's signals.  services/PythListener.ts keeps *)
(* a socket to Pyth; started once, it is stopped when the program ends.    *)
(* services/ReserveEventCoalescer.ts gathers the events of reserves that   *)
(* come together.                                                          *)
(***************************************************************************)
EXTENDS Integers

CONSTANTS
  MaxReconnectAttempts,
  Reserves,        \* names
  PerReserve,      \* perReserveCoalescing
  DebounceWindow, MaxBatchSize

SignalSourcesAssumption ==
  /\ {MaxReconnectAttempts, DebounceWindow, MaxBatchSize} \subseteq Nat \ {0}
  /\ PerReserve \in BOOLEAN

All == "all"
BatchKeys == Reserves \cup {All}

VARIABLES
  socket,            \* "silent": open, and its peer gone without a word
  isConnected, heartbeat, reconnectAttempts, shouldReconnect,
  retry,             \* the timer of reconnect is set
  batch,             \* of each key: its number of events, its reserves, and the time
                     \* until its timer
  coalescerStopped

listener == <<socket, isConnected, heartbeat, reconnectAttempts, shouldReconnect, retry>>
coalescer == <<batch, coalescerStopped>>
vars == <<listener, coalescer>>

NoBatch == [events |-> 0, reserves |-> {}, left |-> 0]

TypeOK ==
  /\ socket \in {"none", "connecting", "open", "silent", "closing"}
  /\ {isConnected, heartbeat, shouldReconnect, retry, coalescerStopped} \subseteq BOOLEAN
  /\ reconnectAttempts \in 0 .. MaxReconnectAttempts
  /\ batch \in [BatchKeys -> [events : 0 .. MaxBatchSize, reserves : SUBSET Reserves,
                              left : 0 .. DebounceWindow]]

Init ==
  /\ socket = "connecting" /\ isConnected = FALSE /\ heartbeat = FALSE
  /\ reconnectAttempts = 0 /\ shouldReconnect = TRUE /\ retry = FALSE
  /\ batch = [k \in BatchKeys |-> NoBatch] /\ coalescerStopped = FALSE

-----------------------------------------------------------------------------
\* PythListener.

\* connect: 'open', as if nothing watched the socket.
OpenedUnwatched ==
  /\ socket = "connecting" /\ socket' = "open"
  /\ isConnected' = TRUE /\ reconnectAttempts' = 0
  /\ UNCHANGED <<heartbeat, shouldReconnect, retry, coalescer>>

Opened ==
  /\ socket = "connecting" /\ socket' = "open"
  /\ isConnected' = TRUE /\ reconnectAttempts' = 0 /\ heartbeat' = TRUE
  /\ UNCHANGED <<shouldReconnect, retry, coalescer>>

FallsSilent ==
  /\ socket = "open" /\ socket' = "silent"
  /\ UNCHANGED <<isConnected, heartbeat, reconnectAttempts, shouldReconnect, retry, coalescer>>

\* handleMessage, processPriceUpdate: any message counts as life.
Message ==
  /\ socket = "silent" /\ socket' = "open"
  /\ UNCHANGED <<isConnected, heartbeat, reconnectAttempts, shouldReconnect, retry, coalescer>>

\* The heartbeat finds no message for two minutes.
HeartbeatFires ==
  /\ heartbeat /\ socket = "silent" /\ socket' = "closing"
  /\ UNCHANGED <<isConnected, heartbeat, reconnectAttempts, shouldReconnect, retry, coalescer>>

\* 'close', after an error too, and a socket that could not be made: reconnect, until
\* the attempts are used up.
Closed ==
  /\ socket # "none" /\ socket' = "none"
  /\ isConnected' = FALSE /\ heartbeat' = FALSE
  /\ IF shouldReconnect /\ reconnectAttempts < MaxReconnectAttempts
     THEN reconnectAttempts' = reconnectAttempts + 1 /\ retry' = TRUE
     ELSE UNCHANGED <<reconnectAttempts, retry>>
  /\ UNCHANGED <<shouldReconnect, coalescer>>

RetryFires ==
  /\ retry /\ retry' = FALSE
  /\ socket' = IF shouldReconnect THEN "connecting" ELSE socket
  /\ UNCHANGED <<isConnected, heartbeat, reconnectAttempts, shouldReconnect, coalescer>>

Stop ==
  /\ shouldReconnect /\ shouldReconnect' = FALSE
  /\ heartbeat' = FALSE /\ isConnected' = FALSE
  /\ socket' = IF socket = "none" THEN "none" ELSE "closing"
  /\ UNCHANGED <<reconnectAttempts, retry, coalescer>>

\* Nothing tries again after the last attempt.
GaveUp == socket = "none" /\ ~retry

-----------------------------------------------------------------------------
\* ReserveEventCoalescer.
Key(r) == IF PerReserve THEN r ELSE All

\* addEvent: each one sets the timer anew, and a full batch is flushed at once.
AddEvent(r) ==
  LET k == Key(r)
      full == batch[k].events > 0 /\ batch[k].events + 1 >= MaxBatchSize
  IN
  /\ ~coalescerStopped
  /\ batch' = [batch EXCEPT ![k] =
       IF full THEN NoBatch
       ELSE [events |-> @.events + 1, reserves |-> @.reserves \cup {r}, left |-> DebounceWindow]]
  /\ UNCHANGED <<listener, coalescerStopped>>

\* flushReserveBatch, flushGlobalBatch, by the timer.
Flush(k) ==
  /\ batch[k].events > 0 /\ batch[k].left = 0
  /\ batch' = [batch EXCEPT ![k] = NoBatch]
  /\ UNCHANGED <<listener, coalescerStopped>>

\* flushAll and stop.
StopCoalescer ==
  /\ batch' = [k \in BatchKeys |-> NoBatch] /\ coalescerStopped' \in {coalescerStopped, TRUE}
  /\ UNCHANGED listener

\* Time passes up to the next timer that is due.
TimePasses ==
  /\ \A k \in BatchKeys : batch[k].events > 0 => batch[k].left > 0
  /\ batch' = [k \in BatchKeys |-> [batch[k] EXCEPT !.left = IF @ > 0 THEN @ - 1 ELSE 0]]
  /\ UNCHANGED <<listener, coalescerStopped>>

-----------------------------------------------------------------------------
ListenerStep ==
  \/ Opened \/ FallsSilent \/ Message \/ HeartbeatFires \/ Closed \/ RetryFires \/ Stop

CoalescerStep ==
  \/ \E r \in Reserves : AddEvent(r)
  \/ \E k \in BatchKeys : Flush(k)
  \/ StopCoalescer \/ TimePasses

Next == ListenerStep \/ CoalescerStep

Spec == Init /\ [][Next]_vars

\* Timers fire, time passes, and a socket that connects or closes has an outcome.
Fairness ==
  /\ WF_vars(HeartbeatFires) /\ WF_vars(RetryFires)
  /\ WF_vars(socket = "connecting" /\ (Opened \/ Closed))
  /\ WF_vars(socket = "closing" /\ Closed)
  /\ WF_vars(TimePasses) /\ \A k \in BatchKeys : WF_vars(Flush(k))

FairSpec == Spec /\ Fairness

-----------------------------------------------------------------------------
\* A socket that falls silent is found out and replaced, until the attempts are used
\* up: the heartbeat lives as long as its socket.
SilenceEnds == socket = "silent" ~> socket = "open" \/ GaveUp \/ ~shouldReconnect
=============================================================================
