------------------------------ MODULE MCServices ------------------------------
(***************************************************************************)
(* Services of the two bots for TLC, checked for safety: the rate limiter, *)
(* the borrowers index, the announcements, the micro verification and the  *)
(* connection of backend, the price feed, the plan cache and the choice of *)
(* a plan of backend-v2, and the contract. They share no variable here and *)
(* take no step together, so a behaviour follows one of them, component,   *)
(* and the others stay where they start.                                   *)
(***************************************************************************)
EXTENDS RateLimiter

CONSTANTS
  Debtors, Reserves,                             \* BorrowersIndex
  BackfillBlocks, ChunkSize, Modes, MaxDebt, IndexBlocks, MaxRestarts,
  Symbols, Own, Asks, NoSymbol,                  \* PriceFeed
  PriceTtl, MaxRpc, MaxRounds, FeedHorizon,
  Planned, NoPlan,                               \* PlanCache
  MaxPlanned, PlanTtl, PlanHorizon,
  Assets, NoCandidate,                           \* PlanChoice, LiquidationExecutor
  Up, Down, Wad, FlashloanFeeBps, SafetyBufferBps, CloseFactorBps, HaircutBps, TopN,
  Balances, Prices, Bonuses, Spread,
  Accounts, Deployer, Contracts, Zero, NoEvent,  \* LiquidationExecutor
  VaultFeeBps, VaultBufferBps, MaxUnits, MaxFee,
  Hfs, Threshold, Band, Hysteresis,              \* EdgeTrigger
  EdgeBlocks, Checks, MaxChecks,
  VerifiedUsers, Reads, Calls,                   \* MicroVerify
  VerifyBlocks, MaxPerBlock, MaxReads,
  Sockets, Reconnects, MaxAttempts, MaxErrors    \* HfConnection

VARIABLES
  component,
  chain, configured, mode, store, phase, borrowers, from, target, next, loaded,
  missed, liveFrom, seen, restarts,
  feedNow, round, logs, delivered, boot, warm, decimals, feedSeen, listener, local,
  ask, heldSince, served,
  time, cache, servedPlan,
  debt, collateral, price, bonus, pc, prepared, candidates, quoted, asked, chosen,
  sent,
  owner, balancerVault, aavePool, oneInchRouter, payoutDefault, paused,
  whitelistedAssets, held, event,
  tip, hfAt, status, lastHf, lastEmit, edgeSeen, headBlock, near, flows, emits, told,
  checks,
  head, block, count, verified, pausing, readCache, inflight, reads, calls,
  servedRead, started,
  down, current, open, listening, quiet, hearts, stalling, timers, attempts,
  reconnects, used, errors

Borrowers == INSTANCE BorrowersIndex WITH
  Window <- BackfillBlocks, MaxBlock <- IndexBlocks, Users <- Debtors, Assets <- Reserves
Feed == INSTANCE PriceFeed WITH
  Ttl <- PriceTtl, Horizon <- FeedHorizon, now <- feedNow, seen <- feedSeen
Cache == INSTANCE PlanCache WITH
  Users <- Planned, MaxUsers <- MaxPlanned, Ttl <- PlanTtl, Horizon <- PlanHorizon,
  now <- time, served <- servedPlan
Choice == INSTANCE PlanChoice
\* The allowance of the loans the contract is checked with.
Vault == INSTANCE PlanChoice WITH
  FlashloanFeeBps <- VaultFeeBps, SafetyBufferBps <- VaultBufferBps
Executor == INSTANCE LiquidationExecutor
Edge == INSTANCE EdgeTrigger WITH
  MaxBlock <- EdgeBlocks, Flows <- Checks, seen <- edgeSeen
Verify == INSTANCE MicroVerify WITH
  Users <- VerifiedUsers, MaxBlock <- VerifyBlocks, cache <- readCache,
  served <- servedRead
Link == INSTANCE HfConnection WITH
  Flows <- Reconnects, flows <- reconnects

\* Scales for the .cfg: the first asset has one decimal less than Wad, the others two
\* more; the rates of safety.ts are large enough to show on small amounts.
First == CHOOSE a \in Assets : TRUE
ScaledUp == [a \in Assets |-> IF a = First THEN 10 ELSE 1]
ScaledDown == [a \in Assets |-> IF a = First THEN 1 ELSE 100]

ASSUME PartAssumptions ==
  /\ Borrowers!IndexAssumption /\ Feed!FeedAssumption /\ Cache!PlanCacheAssumption
  /\ Choice!SafetyAssumption /\ Choice!PlanAssumption
  /\ Vault!SafetyAssumption /\ Executor!ExecutorAssumption
  /\ Edge!EdgeAssumption /\ Verify!VerifyAssumption /\ Link!ConnectionAssumption

borrowersVars == <<chain, configured, mode, store, phase, borrowers, from, target, next,
                   loaded, missed, liveFrom, seen, restarts>>
feedVars == <<feedNow, round, logs, delivered, boot, warm, decimals, feedSeen,
              listener, local, ask, heldSince, served>>
cacheVars == <<time, cache, servedPlan>>
choiceVars == <<debt, collateral, price, bonus, pc, prepared, candidates, quoted, asked,
                chosen, sent>>
executorVars == <<owner, balancerVault, aavePool, oneInchRouter, payoutDefault, paused,
                  whitelistedAssets, held, event>>
edgeVars == <<tip, hfAt, status, lastHf, lastEmit, edgeSeen, headBlock, near, flows,
              emits, told, checks>>
verifyVars == <<head, block, count, verified, pausing, readCache, inflight, reads,
                calls, servedRead, started>>
linkVars == <<down, current, open, listening, quiet, hearts, stalling, timers, attempts,
              reconnects, used, errors>>
servicesVars == <<component, vars, borrowersVars, feedVars, cacheVars, choiceVars,
                  executorVars, edgeVars, verifyVars, linkVars>>

ServicesInit ==
  /\ component \in {"limiter", "borrowers", "feed", "cache", "choice", "executor",
                     "edge", "verify", "link"}
  /\ Init
  /\ Borrowers!Init
  /\ component # "borrowers" => configured = "memory"
  /\ Feed!Init
  /\ Cache!Init
  /\ Choice!Init
  /\ component # "choice" =>
       /\ debt = [a \in Assets |-> CHOOSE b \in Balances : TRUE] /\ collateral = debt
       /\ price = [a \in Assets |-> CHOOSE p \in Prices : TRUE]
       /\ bonus = [a \in Assets |-> CHOOSE r \in Bonuses : TRUE]
       /\ ~prepared
  /\ Executor!Init
  /\ component # "executor" => payoutDefault = Deployer
  /\ Edge!Init
  /\ component # "edge" => hfAt[1] = CHOOSE hf \in Hfs : TRUE
  /\ Verify!Init
  /\ Link!Init
  /\ current = CHOOSE s \in Sockets : TRUE

\* A step of one component leaves the variables of the others alone.
FollowLimiter ==
  /\ component = "limiter"
  /\ UNCHANGED <<component, borrowersVars, feedVars, cacheVars, choiceVars,
                  executorVars, edgeVars, verifyVars, linkVars>>
FollowBorrowers ==
  /\ component = "borrowers"
  /\ UNCHANGED <<component, vars, feedVars, cacheVars, choiceVars, executorVars,
                  edgeVars, verifyVars, linkVars>>
FollowFeed ==
  /\ component = "feed"
  /\ UNCHANGED <<component, vars, borrowersVars, cacheVars, choiceVars, executorVars,
                  edgeVars, verifyVars, linkVars>>
FollowCache ==
  /\ component = "cache"
  /\ UNCHANGED <<component, vars, borrowersVars, feedVars, choiceVars, executorVars,
                  edgeVars, verifyVars, linkVars>>
FollowChoice ==
  /\ component = "choice"
  /\ UNCHANGED <<component, vars, borrowersVars, feedVars, cacheVars, executorVars,
                  edgeVars, verifyVars, linkVars>>
FollowExecutor ==
  /\ component = "executor"
  /\ UNCHANGED <<component, vars, borrowersVars, feedVars, cacheVars, choiceVars,
                  edgeVars, verifyVars, linkVars>>
FollowEdge ==
  /\ component = "edge"
  /\ UNCHANGED <<component, vars, borrowersVars, feedVars, cacheVars, choiceVars,
                  executorVars, verifyVars, linkVars>>
FollowVerify ==
  /\ component = "verify"
  /\ UNCHANGED <<component, vars, borrowersVars, feedVars, cacheVars, choiceVars,
                  executorVars, edgeVars, linkVars>>
FollowLink ==
  /\ component = "link"
  /\ UNCHANGED <<component, vars, borrowersVars, feedVars, cacheVars, choiceVars,
                  executorVars, edgeVars, verifyVars>>

ServicesNext ==
  \/ FollowLimiter /\ Next
  \/ FollowBorrowers /\ Borrowers!Next
  \/ FollowFeed /\ Feed!Next
  \/ FollowCache /\ Cache!Next
  \/ FollowChoice /\ Choice!Next
  \/ FollowExecutor /\ Executor!Next
  \/ FollowEdge /\ Edge!Next
  \/ FollowVerify /\ Verify!Next
  \/ FollowLink /\ Link!Next

ServicesSpec == ServicesInit /\ [][ServicesNext]_servicesVars

-----------------------------------------------------------------------------
\* The properties, see the components; WindowBounded is stated in RateLimiter.

\* Every variable of each component has its type.
ServicesTypeOK ==
  /\ TypeOK /\ Borrowers!TypeOK /\ Feed!TypeOK /\ Cache!TypeOK /\ Choice!TypeOK
  /\ Executor!TypeOK /\ Edge!TypeOK /\ Verify!TypeOK /\ Link!TypeOK

\* BorrowersIndex: a live index is what its covered blocks say.
IndexIsWhatWasSeen == Borrowers!IndexIsWhatWasSeen

\* PriceFeed and PlanCache: a served price lags behind what the listener holds on to for
\* a bounded time, and a full cache of plans gives up the oldest one only.
CachesKeepUp == [](Feed!LagBounded) /\ Cache!EvictsOldestOnly

\* PlanChoice: scaling and rounding neither make a pair look better than its bonus
\* nor stop a plan just quoted.
RoundingIsSafe == Choice!ScoreWithinBonus /\ Choice!FreshPlansPass

\* What index.ts ranks candidates by is a lower bound of what a liquidation pays: with a
\* vault fee within the allowance of computeMinRequiredOut, the profit is at least
\* computeNetDebtToken(minOut, debtToCover), however little of the loan Aave takes and
\* whatever the router leaves behind.
NetIsGuaranteed ==
  event # NoEvent
    /\ Executor!Repayment(event.loan, event.fee) <= Vault!ComputeMinRequiredOut(event.loan)
  => event.profit >= Vault!ComputeNetDebtToken(event.minOut, event.loan)

\* LiquidationExecutor: the payout is at least the net the plan was ranked by, and the
\* contract keeps nothing of the debt asset.
ContractPays == NetIsGuaranteed /\ Executor!DebtAssetSwept

\* EdgeTrigger: becoming liquidatable is announced, and once per block.
EdgeIsTold == Edge!EdgeIsTold
OncePerBlock == Edge!OncePerBlock

\* MicroVerify: answers are of the block they are asked for, or later.
AnswersOfTheBlock == Verify!AnswersOfTheBlock

\* HfConnection: the service never ends up without a connection and without a timer.
NeverDeaf == Link!NeverDeaf
===============================================================================
