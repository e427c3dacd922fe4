-------------------------------- MODULE MCLive --------------------------------
(***************************************************************************)
(* What keeps the two bots in touch with the chain, for TLC: the user      *)
(* index, the WebSocket provider and the Pyth link of backend-v2, and the  *)
(* price trigger, the pending polls, the Pyth listener with the event      *)
(* coalescer and the ways to submit of backend.  They share no variable    *)
(* and take no step together, so a behaviour follows one of them,          *)
(* component, and the others stay where they start.                        *)
(***************************************************************************)
EXTENDS Integers

CONSTANTS
  Users, Tokens, Sweeps, Fetches, NoUser, NoToken,  \* PredictiveIndex
  RateLimit, Throttle, Horizon, MaxTrades,
  Subscribers, MaxWsAttempts, MaxProviders,         \* WsProvider
  MaxPythAttempts, MaxConns,                        \* PythLink
  Feeds, Scans, Answers, DropBps, MaxBlock, MaxMoves,  \* PriceTrigger
  BaseTick, BatchSize, Reconnects,                  \* PendingPolls
  MaxReconnectAttempts, Reserves, PerReserve,       \* SignalSources
  DebounceWindow, MaxBatchSize,
  NumPublics,                                       \* Submission: its public endpoints
  Submissions, Modes, Races, Bursts, Optimists, MaxBumps, MaxReverts, Keys, Days

VARIABLES
  component,
  holdings, trades, now, risk, refreshedAt, fetch, userTokens, tokenUsers,
  lastRescore, sweep,
  current, wsSocket, heardOn, wsAttempts, isReconnecting, wsTimers, errors, gaveUp,
  made, ws, socket, isConnected, shouldReconnect, attempts, timers, heartbeat, silent,
  started, stopped,
  cumulative, tip, answer, polled, baseline, last, resting, timer, processed, inFlight,
  scans, anchor, moves,
  connected, reconnects, isShuttingDown, waiting, polling, currentChunkSize,
  currentPendingTickMs, consecutiveRateLimits,
  feed, feedConnected, feedHeartbeat, reconnectAttempts, feedShouldReconnect, retry, batch,
  coalescerStopped,
  healthy, submission, race, burst, bump, revertCount, lastResetDate, day, optimist,
  currentIndex

Index == INSTANCE PredictiveIndex
Ws == INSTANCE WsProvider WITH
  MaxAttempts <- MaxWsAttempts,
  socket <- wsSocket, attempts <- wsAttempts, timers <- wsTimers
Pyth == INSTANCE PythLink WITH MaxAttempts <- MaxPythAttempts
Price == INSTANCE PriceTrigger
Polls == INSTANCE PendingPolls
Sources == INSTANCE SignalSources WITH
  socket <- feed, isConnected <- feedConnected, heartbeat <- feedHeartbeat,
  shouldReconnect <- feedShouldReconnect
\* An endpoint is its number in the order of the public ones; the private one is 0.
Submit == INSTANCE Submission WITH Publics <- [n \in 1 .. NumPublics |-> n], Relay <- 0

ASSUME PartAssumptions ==
  /\ NumPublics \in Nat \ {0}
  /\ Index!IndexAssumption /\ Ws!WsAssumption /\ Pyth!LinkAssumption
  /\ Price!TriggerAssumption /\ Polls!PendingPollsAssumption
  /\ Sources!SignalSourcesAssumption /\ Submit!SubmissionAssumption

indexVars == <<holdings, trades, now, risk, refreshedAt, fetch, userTokens, tokenUsers,
               lastRescore, sweep>>
wsVars == <<current, wsSocket, heardOn, wsAttempts, isReconnecting, wsTimers, errors,
            gaveUp>>
pythVars == <<made, ws, socket, isConnected, shouldReconnect, attempts, timers,
              heartbeat, silent, started, stopped>>
priceVars == <<cumulative, tip, answer, polled, baseline, last, resting, timer,
               processed, inFlight, scans, anchor, moves>>
pollsVars == <<connected, reconnects, isShuttingDown, waiting, polling,
               currentChunkSize, currentPendingTickMs, consecutiveRateLimits>>
sourcesVars == <<feed, feedConnected, feedHeartbeat, reconnectAttempts,
                 feedShouldReconnect, retry, batch, coalescerStopped>>
submitVars == <<healthy, submission, race, burst, bump, revertCount, lastResetDate, day,
                optimist, currentIndex>>
vars == <<component, indexVars, wsVars, pythVars, priceVars, pollsVars, sourcesVars,
          submitVars>>

Init ==
  /\ component \in {"index", "ws", "pyth", "price", "polls",
                    "listener", "coalescer", "pool", "race", "burst", "budget"}
  /\ Index!Init
  /\ component # "index" => holdings = [u \in Users |-> {}]
  /\ Ws!Init /\ Pyth!Init
  /\ Price!Init
  /\ component # "price" => ~cumulative /\ answer = [f \in Feeds |-> CHOOSE a \in Answers : TRUE]
  /\ Polls!Init /\ Sources!Init /\ Submit!Init

\* A step of one component leaves the variables of the others alone.
FollowIndex ==
  /\ component = "index"
  /\ UNCHANGED <<component, wsVars, pythVars, priceVars, pollsVars, sourcesVars,
                  submitVars>>
FollowWs ==
  /\ component = "ws"
  /\ UNCHANGED <<component, indexVars, pythVars, priceVars, pollsVars, sourcesVars,
                  submitVars>>
FollowPyth ==
  /\ component = "pyth"
  /\ UNCHANGED <<component, indexVars, wsVars, priceVars, pollsVars, sourcesVars,
                  submitVars>>
FollowPrice ==
  /\ component = "price"
  /\ UNCHANGED <<component, indexVars, wsVars, pythVars, pollsVars, sourcesVars,
                  submitVars>>
FollowPolls ==
  /\ component = "polls"
  /\ UNCHANGED <<component, indexVars, wsVars, pythVars, priceVars, sourcesVars,
                  submitVars>>
FollowSources ==
  /\ component \in {"listener", "coalescer"}
  /\ UNCHANGED <<component, indexVars, wsVars, pythVars, priceVars, pollsVars,
                  submitVars>>
FollowSubmit ==
  /\ component \in {"pool", "race", "burst", "budget"}
  /\ UNCHANGED <<component, indexVars, wsVars, pythVars, priceVars, pollsVars,
                  sourcesVars>>

Next ==
  \/ FollowIndex /\ Index!Next
  \/ FollowWs /\ Ws!Next
  \/ FollowPyth /\ Pyth!Next
  \/ FollowPrice /\ Price!Next
  \/ FollowPolls /\ Polls!Next
  \/ FollowSources /\ component = "listener" /\ Sources!ListenerStep
  \/ FollowSources /\ component = "coalescer" /\ Sources!CoalescerStep
  \/ FollowSubmit /\ component = "pool" /\ Submit!PoolStep
  \/ FollowSubmit /\ component = "race" /\ Submit!RaceStep
  \/ FollowSubmit /\ component = "burst" /\ Submit!BurstStep
  \/ FollowSubmit /\ component = "budget" /\ Submit!BudgetStep

\* With the fairness of each component's FairSpec.
Spec ==
  /\ Init /\ [][Next]_vars
  /\ WF_vars(FollowWs /\ Ws!Reconnect)
  /\ WF_vars(FollowPyth /\ Pyth!Heartbeat)
  /\ WF_vars(FollowPyth /\ Pyth!BackoffOver)
  /\ \A c \in Pyth!Conns : WF_vars(FollowPyth /\ Pyth!HandshakeEnds(c))
  /\ \A f \in Feeds :
       /\ WF_vars(FollowPrice /\ Price!PollRead(f))
       /\ WF_vars(FollowPrice /\ Price!PollAnswer(f))
       /\ WF_vars(FollowPrice /\ Price!DebounceOver(f))
  /\ WF_vars(FollowSources /\ Sources!HeartbeatFires)
  /\ WF_vars(FollowSources /\ Sources!RetryFires)
  /\ WF_vars(FollowSources /\ feed = "connecting" /\ (Sources!Opened \/ Sources!Closed))
  /\ WF_vars(FollowSources /\ feed = "closing" /\ Sources!Closed)
-----------------------------------------------------------------------------
\* The properties, see the components.

\* Every variable has its type.
TypeOK ==
  /\ Index!TypeOK /\ Ws!TypeOK /\ Pyth!TypeOK /\ Price!TypeOK
  /\ Polls!TypeOK /\ Sources!TypeOK /\ Submit!TypeOK

\* PredictiveIndex: whatever refreshes overlap, with each other and with a sweep, the two
\* maps stay inverse and the sweep, whose set changes under it, rescores nobody twice.
RefreshesAreSafe == [](Index!MapsInverse) /\ Index!RescoredOnce

\* A provider or a connection that was replaced is gone: neither the reconnects of
\* WsProvider nor those of PythLink leave two that are alive.
OneLink == Ws!OnlyCurrentLives /\ Pyth!OneConnection

\* Whatever is lost is replaced, unless the attempts are used up: a provider that
\* fails (WsProvider), a connection that is lost (PythLink), and a socket that falls
\* silent without closing (SignalSources).
LinksRecover == Ws!ErrorsReconnect /\ Pyth!LostIsReplaced /\ Sources!SilenceEnds

\* WsProvider: the subscriptions survive a reconnect.
EventsResume == Ws!EventsResume

\* PriceTrigger: a lasting fall triggers.
LastingFallTriggers == Price!LastingFallTriggers
=============================================================================
