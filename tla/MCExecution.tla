----------------------------- MODULE MCExecution ------------------------------
(***************************************************************************)
(* What the first bot does about a liquidatable user, for TLC: the         *)
(* execution, the predictive orchestrator, the price service, the audit of *)
(* liquidations and the subgraph feed. They share no variable here and     *)
(* take no step together, so a behaviour follows one of them, component,   *)
(* and the others stay where they start.                                   *)
(***************************************************************************)
EXTENDS ExecutionFlow

CONSTANTS
  Watchers, Assets, Evaluations,                \* PredictiveOrchestrator
  SignalHfs, NearBand, Strengths, Debounce, DedupTtl, MaxCached, MaxUsersPerTick,
  MaxTicksPerMin, MaxUsersPerAsset, RpcBudget, Minute, Hour, IntervalBlocks, IntervalMs,
  SignalBlocks, SignalTime,
  Direct, Ratio, Eth, Requests, Opportunities,  \* PriceService
  CacheTtl, DisableAfter, MaxPerBlock, Keep, PriceBlocks, PriceTime,
  Audits,                                       \* LiquidationAudit
  MaxSize, DecisionTtl, Lookback, Limit, Window, TransientBlocks, Kinds, Marks,
  MaxDecisions, AuditTime,
  Polls,                                        \* SubgraphFeed
  PollLimit, TrackMax, Capacity, Failures, Pages, SeedQueries, Chunks, MaxEvents

VARIABLES
  component,
  clock, chainTip, gated, lastSignalTime, budget, cache, accessOrder,
  lastEvaluationBlock, lastEvaluationTs, flows, evaluated, lastFallback,
  priceClock, feedDecimals, readAt, priceCache, feedErrorCounts, disabledFeeds,
  perBlockPriceCache, requests, pending, notices,
  auditClock, watched, decisions, firstSeen, tracking, sent, audits, verdict, made,
  ignoreBootstrap, tokens, consecutiveFailures, degraded, events, idQueue,
  isFirstPoll, polls, seeding, told, bootstrap, forgotten

Predictive == INSTANCE PredictiveOrchestrator WITH
  Users <- Watchers, Hfs <- SignalHfs, Flows <- Evaluations, Ttl <- DedupTtl,
  MaxBlock <- SignalBlocks, MaxTime <- SignalTime, tip <- chainTip
Price == INSTANCE PriceService WITH
  MaxBlock <- PriceBlocks, MaxTime <- PriceTime, clock <- priceClock
Audit == INSTANCE LiquidationAudit WITH
  Ttl <- DecisionTtl, MaxTime <- AuditTime, clock <- auditClock
Subgraph == INSTANCE SubgraphFeed

ASSUME PartAssumptions ==
  /\ Predictive!PredictiveAssumption /\ Price!PriceAssumption
  /\ Audit!AuditAssumption /\ Subgraph!SubgraphAssumption

predictiveVars == <<clock, chainTip, gated, lastSignalTime, budget, cache, accessOrder,
                    lastEvaluationBlock, lastEvaluationTs, flows, evaluated,
                    lastFallback>>
pricesVars == <<priceClock, feedDecimals, readAt, priceCache, feedErrorCounts,
                disabledFeeds, perBlockPriceCache, requests, pending, notices>>
auditVars == <<auditClock, watched, decisions, firstSeen, tracking, sent, audits,
               verdict, made>>
subgraphVars == <<ignoreBootstrap, tokens, consecutiveFailures, degraded, events,
                  idQueue, isFirstPoll, polls, seeding, told, bootstrap, forgotten>>
executionVars == <<component, vars, predictiveVars, pricesVars, auditVars,
                   subgraphVars>>

ExecutionInit ==
  /\ component \in {"flow", "predictive", "prices", "audit", "subgraph"}
  /\ Init
  /\ component # "flow" => lock /\ mode = "full"
  /\ Predictive!Init
  /\ component # "predictive" => gated
  /\ Price!Init
  /\ Audit!Init
  /\ component # "audit" => watched = {}
  /\ Subgraph!Init
  /\ component # "subgraph" => ~ignoreBootstrap /\ events = 0

\* A step of one component leaves the variables of the others alone.
FollowFlow ==
  /\ component = "flow"
  /\ UNCHANGED <<component, predictiveVars, pricesVars, auditVars, subgraphVars>>
FollowPredictive ==
  /\ component = "predictive"
  /\ UNCHANGED <<component, vars, pricesVars, auditVars, subgraphVars>>
FollowPrices ==
  /\ component = "prices"
  /\ UNCHANGED <<component, vars, predictiveVars, auditVars, subgraphVars>>
FollowAudit ==
  /\ component = "audit"
  /\ UNCHANGED <<component, vars, predictiveVars, pricesVars, subgraphVars>>
FollowSubgraph ==
  /\ component = "subgraph"
  /\ UNCHANGED <<component, vars, predictiveVars, pricesVars, auditVars>>

ExecutionNext ==
  \/ FollowFlow /\ Next
  \/ FollowPredictive /\ Predictive!Next
  \/ FollowPrices /\ Price!Next
  \/ FollowAudit /\ Audit!Next
  \/ FollowSubgraph /\ Subgraph!Next

\* With the fairness of each component's FairSpec.
ExecutionSpec ==
  /\ ExecutionInit /\ [][ExecutionNext]_executionVars
  /\ \A h \in Handlers : WF_executionVars(FollowFlow /\ ExecuteStep(h))

-----------------------------------------------------------------------------
\* The properties, see the components; those of ExecutionFlow are stated there.

\* Every variable has its type, and the dedup cache of the predictive orchestrator
\* agrees with its order of access.
ExecutionTypeOK ==
  /\ TypeOK /\ Predictive!TypeOK /\ Predictive!DedupAgrees
  /\ Price!TypeOK /\ Audit!TypeOK /\ Subgraph!TypeOK

\* PredictiveOrchestrator: fallback evaluations keep their distance.
FallbackPaced == Predictive!FallbackPaced

\* PriceService: a price of unread decimals is soon forgotten.
ScaledInTime == Price!ScaledInTime

\* LiquidationAudit: a verdict rests on the decision before the liquidation.
VerdictOfTheDecision == Audit!VerdictOfTheDecision

\* SubgraphFeed: a liquidation is told once.
ToldOnce == Subgraph!ToldOnce
===============================================================================
