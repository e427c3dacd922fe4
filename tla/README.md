# LiquidBot in TLA+

LiquidBot watches Aave V3 positions on Base and liquidates those whose health
factor falls under a threshold. The repository holds two generations of the bot
and the contract both call:

- `src/backend-v2` — the bot as rewritten: one process, no framework, executes.
- `src/backend` — the first bot: larger, still there, with its own detection
  service (`RealTimeHFService`), caches, locks, price triggers and audit.
- `src/contracts` — `LiquidationExecutor.sol`: flash loan, liquidation, swap,
  repayment, payout.

Both bots are single-threaded Node programs. Nothing in them runs in parallel,
and nearly everything interleaves: every `await` hands control to timers, socket
callbacks and other activations of the same function. The models are built around
this: *one action is the code from one await to the next*, and the number of
activations of a function that may overlap is a constant.

Contents: 1 inventory · 2 modules and the code · 3 runs · 4 bounds · 5 fairness ·
6 proofs · 7 disagreements between code and documents · 8 not modelled · 9 plan.

## 1. Inventory

### backend-v2

| Part | State | Operations | Interacts with | Hard | Correct when |
|---|---|---|---|---|---|
| `realtime/dirtyQueue`, `realtime/aavePoolListeners` | set of marked users in insertion order | `markDirty`, `takeBatch`; four Aave events mark | verifier loop | marks during a check; refills faster than batches | no mark is lost, each is read |
| `risk/verifierLoop`, `onExecute` in `index.ts`, `executorClient` | locals of a tick | a `setInterval` timer takes a batch, checks, executes; a transaction goes through the broadcaster or, with at most one broadcast URL, through one provider and `tx.wait()` | queue, checker, plan cache, planner, attempt history | a tick outlasts the interval, so ticks overlap; a check throws; `wait()` throws or never ends | one live transaction per user |
| `execution/attemptHistory` | the records of attempts | `record`, `hasPending` | `onExecute` | "pending" has no expiry | as above |
| `execution/txBroadcaster` | locals of a call; external: node pools, chain | nonce, sign, broadcast to all nodes, poll, bump, replace | nodes, executor client | overlapping calls, lost replies, replacements | one landing per call, true answers, bounded |
| `execution/PlanCache`, `predictive/PredictiveLoop` | plans by user with their age; time of last rescore | `prepare`, `get`, `invalidate`, eviction; price threshold, sweep over the users of a token, rescore | user index, planner | plan finished after an attempt; a sweep over a `Set` that changes | oldest evicted, one rescore per sweep, sweeps end |
| `predictive/UserIndex`, `risk/ActiveRiskSet` | token→users and user→tokens; candidates | `setUserTokens`, `add`, `updateHF` with throttled refresh | predictive loop, verifier loop | overlapping refreshes | the two maps are inverse |
| `prices/ChainlinkListener`, `priceMath`, `PythListener` | answers by symbol with age, dedupe keys; socket, backoff, heartbeat | transmissions, RPC reads, cache with TTL; connect, reconnect, stop | predictive loop, planner | RPC answers that overtake transmissions; rounds delivered again after the dedupe keys were cleared; alias symbols; silent sockets | bounded lag; one connection, replaced when lost |
| `providers/ws` | the one provider, attempts, flag, timer | create, error, reconnect | listeners | errors of replaced providers | only the current one lives, errors reconnect |
| `risk/HealthFactorChecker` | none | multicall, skips users it cannot read | loops | fails or skips | (seen through the loops) |
| `execution/liquidationPlanner`, `safety`, `executorClient` | none between calls | candidate pairs, scaling, haircut, ranking; quoting; safety checks | price feed, 1inch, contract | rounding at each step in three places that must agree | rounding never flatters; what is built passes its checks |
| `subgraph/*` seeding, the loop before the verifier, audit in `index.ts` and `liquidationAudit.ts` | pages, the risk set built from them, watched users | seed by pages, check, build the set, classify another bot's liquidation | queue, checker, attempt history | a page fails; the set is a snapshot; an attempt's status is compared with a word nobody records | the reason given is the real one |
| 1inch client, notification, config, metrics, orchestrator, pair selector | — | — | — | — | see section 8 |

### LiquidationExecutor.sol

State: balances, owner, vault, pool, router, payout, whitelist, pause. Operations:
`initiateLiquidation` with its flash-loan callback, `emergencyWithdraw`, the
owner's setters. Hard: Aave may take less of the loan than asked; routers leave
residue; fees. Correct when the profit paid is what the bot ranked by, or more,
and no debt asset is left behind.

### backend (first bot)

| Part | State | Operations | Interacts with | Hard | Correct when |
|---|---|---|---|---|---|
| Head checks (`RealTimeHFService`) | `scanningHead`, `latestRequestedHeadBlock`, watchdog, `lastProgressAt`, `dirtyUsers` | request, loop, abort, sweep | scan registry, rate limiter, micro verification | an aborted run goes on beside its successor; calls that never answer | a run is watched; a block has one reader; heads recover |
| Rotating page | `headCheckRotatingIndex`, `currentDynamicPageSize` | hot set first, window that rotates, adaptive size | candidates | wrap-around, changing sizes and lists | no candidate is passed over |
| Event batches | `eventBatchQueue`, `eventBatchesPerBlock`, `runningEventBatches`, adaptive level | coalesce, fire, drop, fast lane, targeted recheck | scan registry, borrowers index | timers firing together, early returns, cleanup of counters | slots come back; a block keeps to its share |
| `ScanRegistry` | in flight and completed by key | `acquire`, `release`, expiry | every scan | keyed by trigger and block, not by users | one holder per key |
| Announcements | `userStates`, `lastEmitBlock`, `seenUsersThisBlock`, `nearThresholdUsers` | `shouldEmit`, micro verification, watched fast path | executor through the `liquidatable` event | awaits between look and announcement; two thresholds | each edge is told; once per block |
| Price trigger | per-feed baseline and last answer, debounce, per-asset timer and guards | event, poll, drop, emergency scan | scan registry | missed events, debounce, reconnects | a fall that lasts triggers |
| Connection | provider, timers, `isReconnecting`, attempts | heartbeat, provider error, reconnect, stop | everything above | the two reconnect paths overlap | never deaf; one socket |
| Micro verification | cache by user and block, shared reads, per-block counters | `verify`, `canVerify`, `invalidateUser`, expiry | announcements, head start | reads that outlive their block or an invalidation | answers are of the block |
| Rate limiter (`GlobalRpcRateLimiter`) | tokens, time of the last refill; per waiting call its pause and deadline | `acquire` with cost and timeout, refill by elapsed time | every scan, after the scan lock | late timers, polling callers, costs above what is left | grants keep to the rate in every window |
| Borrowers index (`BorrowersIndexService`) | borrowers by reserve, mode; external: store, logs | load, backfill in chunks, save, live logs, fall back to memory | price trigger, event batches | restarts between steps, failed chunks, partial saves, blocks between backfill and subscription | what it covers it knows exactly |
| Execution (`index.ts` handler, `ExecutionService`) | `inflightExecutions`, per-block dedupe; locals of an execution | announced user → pair, debt, prices, limits, quote, profit, send, wait | announcements, price service, Aave data | two awaits between look and mark; a dozen ways to end; each read has a fallback | one execution per user, nothing on a guess, users freed |
| `PriceService` | decimals, cache, per-block cache, disabled feeds, pending queue | `getPrice`, ratio feeds, flush, stub fallback | execution, valuation | answers before decimals are read | a price is scaled with its feed's decimals |
| `PredictiveOrchestrator` | signal budget, dedup cache, last evaluation | block, event and price signals, fallback evaluation, snapshots | candidates, prices | blocks that wait for snapshots together | evaluations keep their pace |
| Poller, tracker, `SubgraphService`, `AtRiskScanner`, seeding | ids seen, tokens of the rate limit, degraded latch | poll, retry, notify | notification, candidates | polls overlap; the tracker forgets ids | a liquidation is told once |
| Liquidation audit | decisions, traces, message budget | record, find, classify | execution, price service | reads between event and lookup | the verdict is about the decision that was made |
| Aave data, metadata | socket or HTTP, reserves, caches of tokens in memory, Redis and callers | read, refresh, look up | execution, candidates | a socket destroyed during a read, in any of many call sites; caches in a row, restarts | listings miss no debt, answers age for a bounded time, lookups end |
| Candidates, trackers, hot sets, precompute | bounded maps | add, touch, evict, rank | scans | eviction with two maps | bounded, ranked by what is known |
| Pending polls, staging, sprinter, pre-submission, critical lane, fast-path submission | see the modules | | | timers that multiply, locks with a time to live, races | see section 7 |
| API, WebSocket server, configuration, metrics | — | — | — | — | see section 8 |

How the parts of the first bot meet: pool logs and price logs arrive on the
connection's socket; `handleLog` invalidates the micro-verification cache, marks
users for the head checks, and enqueues batches; head checks, batches and emergency
scans all end in `batchCheckCandidates`, which takes the scan registry's lock, then
the rate limiter, then reads, then asks `shouldEmit`. A reconnect replaces the
provider under all of them.

## 2. Modules and the code

One module per component. `MC*` modules instantiate for TLC those that are checked
together; `TxBroadcaster`, `LiquidationPipeline` and the configurations that bear their
names need none. `*Proofs` modules hold the theorems, except those of
`LiquidationPipeline`, `TokenLookup` and `MCTools`, which follow their definitions.
`PROJECT.json` maps every definition to its lines.

### backend-v2 and the contract

| Module | Code | What its state and actions are |
|---|---|---|
| `BroadcastPromise` | abstract | what a caller may rely on: an answer "mined" or "reverted" is the truth about the chain, and a call lands at most once |
| `TxBroadcaster` | `txBroadcaster.ts` | per call its locals and program counter; per node its pool; the chain. One action per await: nonce, broadcast (each node takes, refuses, or takes and loses its reply), poll, bump. Refines `BroadcastPromise` |
| `LiquidationPipeline` | `index.ts`, `verifierLoop`, `dirtyQueue`, `aavePoolListeners`, `attemptHistory`, `PlanCache`, `PredictiveLoop` | composes queue, ticks, `onExecute`, cached plans and rescoring; `late` says whether a tick may outlast its interval, `multi` whether there is a broadcaster (what it does is what `BroadcastPromise` allows) or the one provider; `Send`, `Acknowledge` and `Land` are the transaction's, `AttemptEnds` what is recorded of it (`Outcomes`); `flying` and `astray` count the transactions attempts left behind, with and without a known hash |
| `PlanCache`, `PredictiveIndex`, `WsProvider`, `PythLink` | files of the same name and `ActiveRiskSet`, `tokenExtractor` | each with its maps, clocks and timers |
| `PriceFeed` | `ChainlinkListener`, `priceMath`, the start-up of `index.ts` | rounds that are published, missed, delivered late or again; the dedupe keys and the timer that clears them; the listener's round and since when it holds it; the cache of prices and its requests |
| `PlanChoice` | `safety.ts`, `liquidationPlanner.ts`, the choosing part of `onExecute`, `executorClient` checks | integer arithmetic with its truncation, candidate building, ranking, quote filter, safety checks |
| `LiquidationExecutor` | the contract | balances, roles and settings; `initiateLiquidation` is atomic as on chain, reverting wholly or paying out |

### backend

| Module | Code | What its state and actions are |
|---|---|---|
| `ScanRegistry` | `ScanRegistry.ts` | a status per key; instantiated with blocks as keys by `HeadSweep` and with (trigger or reserve, block) by `EventBatches` |
| `HeadSweep` | head checks | `loops` are the calls of `runHeadCheckLoop` under way, more than one after an abort; `StartRun` and `EndRun` are what the code does at both ends of `performHeadCheck` and serve requests, aborts and returning runs alike |
| `HeadPage` | `checkAllCandidates`, `adjustDynamicPageSize` | candidates by position; a behaviour follows one of them and counts how far the window moved since its last check |
| `EventBatches` | `enqueueEventBatch` to `checkReserveBorrowers` | batches by block and reserve; `Fire` is `executeEventBatch` to its first await, `End` its `finally` |
| `EdgeTrigger` | `shouldEmit`, `batchCheckCandidates`, `maybeScheduleMicroVerify`, `checkWatchedUserFastpath` | one user, health factors by block, the checks of the user under way with the value each has read |
| `PriceTrigger` | `processPriceUpdate`, polls, `executeEmergencyScan` | one asset and its feeds, both modes (cumulative or last answer) |
| `HfConnection` | `start`, `stop`, `handleWsStall`, `handleDisconnect`, `startWsHeartbeat` | sockets, heartbeat chains, backoff timers, reconnects under way |
| `MicroVerify` | `MicroVerifier`, `MicroVerifyCache` | cache entries hold the block of the state they were read from; reads and the calls that share them |
| `RateLimiter` | `GlobalRpcRateLimiter` | the bucket in parts of a token, the calls of `acquire` that wait, a clock; `window` is an observer's, not the code's |
| `BorrowersIndex` | `BorrowersIndexService` | one action per await of `initialize`: load, ask for the tip, a chunk, save, subscribe; then one per live log; the logs of the chain and the store are external |
| `ExecutionFlow` | the handler of `liquidatable` in `index.ts`, `ExecutionService.ts`, `OneInchQuoteService.ts`, `usdMath.ts` | one program counter per handler; per execution the reads that failed (`unread`), what the dust guard read of the account, debt, prices, seized value; one action per await, the dust guard's two (`CheckDust`, `CheckCollateralUsd`) among them |
| `PriceService` | `PriceService.ts`, part of `NotificationService` | feeds with or without decimals, ratio feeds, cache, block cache, pending queue, one request per symbol |
| `PredictiveOrchestrator` | `PredictiveOrchestrator.ts`, `FallbackOrchestrator.ts`, `PredictiveBudgetTracker.ts`, dedup cache, signal gate | signals, flows that wait for snapshots, the budget with its window |
| `SubgraphFeed` | `subgraphPoller.ts`, `liquidationTracker.ts`, `SubgraphService.ts`, `AtRiskScanner.ts`, seeder, backfill | polls under way with what the subgraph gave them, the tracker's ids, retries, the rate limit, the degraded latch |
| `LiquidationAudit` | `liquidationAudit.ts`, `DecisionClassifier.ts`, `executionDecisions.ts` | decisions with their time, audits between their reads, the budget of messages |
| `AaveData` | `AaveDataService.ts`, `AaveMetadata.ts` | the state of the socket; a listing call by call, those made with the fallback (`WithFallback`) and the canonical listing's to the cache of prices without it; the debts that stood all the while; refreshes under way |
| `TokenLookup` | `TokenMetadataRegistry.ts` and the caches of its callers | memory, Redis, callers' caches, each entry with its time and the time of the read behind it; slots and those who wait |
| `Candidates` | `CandidateManager.ts`, `LowHFTracker.ts`, `ReserveIndexTracker.ts` and the choice of users for a scan | bounded maps and what each scan takes from them |
| `HotSets` | `HotSetTracker.ts`, `PrecomputeService.ts`, `PriorityQueues.ts`, `IntentBuilder.ts`, `PriceHotCacheService.ts` | sets, queues, intents and prices by user, with ages |
| `PendingPolls` | the pending-block polling of `RealTimeHFService.ts` | loops that reconnects start once more, chunk size and delay |
| `Prestage` | event ingestion before the sprinter, `SprinterEngine.ts`, `TemplateCache.ts`, `PreSubmitManager.ts` | histories, queue, staged candidates, templates, pre-submissions |
| `CriticalLane` | `CriticalLaneExecutor.ts`, its mini-multicall, Redis scripts | locks with a time to live, snapshots, attempts, runs |
| `Submission` | `TxSubmitter.ts`, `ExecutionRpcPool.ts`, `exec/fastpath/*` | transactions in their mode, endpoints with health, races, bumps, budget, keys |
| `SignalSources` | the first bot's `PythListener.ts`, `ReserveEventCoalescer.ts` | a socket with retries and heartbeat; batches by key |
| `Universe` (v2) | seeding, risk set and audit of `index.ts` and `liquidationAudit.ts` | pages, snapshot, verdicts |

The program never constructs `CriticalLane`, `TxSubmitter`, `ExecutionRpcPool`,
`PreSubmitManager`, `IntentBuilder`, `PriorityQueues`, `SprinterEngine`, `TemplateCache`,
`ReserveEventCoalescer` or `exec/fastpath` (tests do, for some). They are modelled as
components of their own, from their public operations, and no property of the running
bot rests on them.

`MCSweeps`, `MCLive`, `MCServices`, `MCExecution` and `MCTools` hold several components
that share no state. A behaviour chooses one of them in its first state (`component`) and
follows it; the others stay where they start. The state space is the sum of those of
the components and not the product, and every property of a component is checked on
all its behaviours. Each of these modules also has one type invariant, the conjunction
of those of its components.

## 3. Runs

| Run | Asks | Result |
|---|---|---|
| `broadcaster` | overlapping calls on two nodes with lost replies, evictions, gossip | a call lands once (`LandsOnce`); definite answers are true (`DefiniteAnswersTrue`); replacements outbid what is held (`ReplacementOutbids`); each call answers (`CallsAnswer`); the broadcaster implements `BroadcastPromise` (`KeepsPromise`) |
| `pipeline` | pool events, ticks that overlap or not, cached and fresh plans, both ways of sending | marks are not lost (`NoLostMark`); with the broadcaster they are read (`MarksAreRead`), and `OneLiveTransaction` holds while ticks are on time |
| `twins` | do overlapping ticks attempt one user at once? | yes, a counterexample |
| `single` | is a user with a live transaction skipped when there is one provider? | no, a counterexample |
| `live` | both bots for what must happen: user index, providers, Pyth links, price trigger, pending polls, submissions | maps stay inverse and a sweep rescores once (`RefreshesAreSafe`); one provider, one connection (`OneLink`); what errs, is lost or falls silent is replaced (`LinksRecover`); a fall that lasts triggers (`LastingFallTriggers`) |
| `resume` | are subscriptions made again after a reconnect? | no, a counterexample |
| `sweeps` | head checks with hangs and aborts, rotating page, event batches | `WatchdogCovers`, `OneReader`, `HeadsRecover`, `RotationCovers`; slots come back and blocks keep to their share (`BatchesKeepLimits`) |
| `overlap` | are head check runs serial? | no, a counterexample |
| `services` | rate limiter, borrowers index, price feed, plan cache, planning arithmetic, contract, announcements, micro verification, connection | `WindowBounded`; `IndexIsWhatWasSeen`; bounded lag of prices behind the listener and eviction of the oldest plan (`CachesKeepUp`); `RoundingIsSafe`; the contract pays the net and keeps no debt asset (`ContractPays`); `EdgeIsTold`; `AnswersOfTheBlock`; `NeverDeaf` |
| `emits` | at most one announcement per user and block? | no, a counterexample |
| `execution` | from the announced user to the mined transaction, and what feeds and judges it | `OneExecutionPerUser`; nothing sent on a price or seized value that failed to be read, the dust guard's feed and the debt excepted (`NeverBlind`); users are freed unless their transaction is awaited (`UsersAreFreed`); a price scaled too early is soon forgotten (`ScaledInTime`); fallback evaluations keep their distance (`FallbackPaced`); a liquidation is told once (`ToldOnce`); the audit's verdict is about the decision before the liquidation (`VerdictOfTheDecision`) |
| `tools` | lookups, reads of Aave, candidates, seeding, staging, critical lane, hot sets | answers age for a bounded time over caches and restarts (`AgeBounded`); lookups end (`EveryLookupEnds`); a listing misses no debt for a destroyed socket while HTTP is there (`ListingIsWhole`); what is kept at hand stays within its limits, and every component within its types (`ToolsTypeOK`) |

Each property of a passing run has a mutant of the code, an operator written beside
the definition it replaces, under which the run finds the property violated.

`CHECK_DEADLOCK FALSE` is set in every run because every model stops for good: its
counters reach their bounds, programs are stopped, reconnects give up.

Some components are in a run with their types and limits only: `Candidates`, `Universe`,
`CriticalLane`, `Prestage`, `HotSets`, `PendingPolls` and `Submission`. What their
documents promise is stated in them, mostly refuted (section 7), and what is left to
say holds by a single guard. Their limits (`WithinLimits`: maps that evict before they add,
histories that drop their oldest, a pace between its bounds) and their types are what a run
can show, and what is proved of them.

## 4. Bounds, and why they are enough

- `TxBroadcaster.cfg`: two calls, two nodes, two replacements each, one poll between
  them. Two calls are what a nonce collision takes, two nodes what a partial
  broadcast takes, and the second replacement is the first that competes with a
  replacement. Fees 20 and 20 % make each bump pass the nodes' rule exactly.
- `Pipeline.cfg`: two users, batches of one, two ticks, one rescore, two moves of a
  position: enough for a mark during a check, a batch that leaves a user behind, and a
  plan finished during an attempt. `late` covers both timers on time and overlapping,
  `multi` both ways of sending. `Pipeline_single.cfg` follows one user: what a `wait()` that
  throws leaves behind is met by that user's next attempt.
- `Live.cfg`: two users on one token, one sweep and one refresh beside the refreshes
  that checks start; five providers and six connections with two attempts, so that
  giving up, success after failure, and an error during a reconnect occur; three answers
  of a feed whose drops lie below and above the threshold, in one step or in two; three
  connections of the pending polls; a submission in each mode, a race of two
  endpoints, a burst of bumps.
- `Sweeps.cfg`: three loops for two blocks and one call that never answers — the
  aborted run, its successor, and one more; pages 9 to 11 over lists of 11, 12 and 14,
  so the window wraps, shrinks, grows and equals the list; three events over three
  blocks with a share of one and counters kept for one block.
- `Services.cfg`: two callers with costs of one and two tokens against a bucket of two,
  so that a large cost waits while small ones pass; a user with up to two units of
  debt on two reserves, three logs with a window of two blocks and chunks of two, so
  that the window cuts, the last chunk is short and a reserve may be empty in the
  store; one restart; prices, balances and decimals at the boundaries (zero, one unit,
  a quotient that truncates, a bonus that covers the fees and one that does not); three
  rounds of a feed, so that the one delivered again after the keys were cleared is neither the
  first nor the last; three plans for a cache of two; health factors on both sides of the threshold, of one and of
  the near band, two overlapping checks over two blocks; three reads by two callers over
  two blocks; four sockets and two reconnects that overlap.
- `Execution.cfg`: two handlers for one user, one block and the next, two reserves of
  which one is preferred, a balance of zero and one that passes the limits, prices with zero; health factors below the
  fixed-size threshold, between it and one, and above. Two evaluations of two users; two
  feeds, one of them a ratio; an audit with its reads between decisions made before,
  after and dropped; two polls that overlap, two liquidations, a tracker of one id.
- `Tools.cfg`: two lookups of one token with one slot, so that one waits; times to live of
  two ticks, so that an entry is refreshed, expires, and is taken over by a cache behind
  it; one restart of the process. Two reserves and two refreshes; two users for maps of
  one or two places; one attempt and two runs of the critical lane; two candidates of the
  sprinter for a stage of one.

Bounds are constants named as such in each module, given in the configuration, and appear as
guards on the environment's actions (blocks, events, moves, hangs, ticks of a clock), except
the numbers of loops, sockets, providers, connections, handlers and requests, which bound how
much of the program's own work is followed.

## 5. Fairness

Only steps that a timer or the runtime brings about are fair, always weakly:

- `TxBroadcaster`, `LiquidationPipeline`, `PredictiveIndex`: an await on a request
  settles (ethers requests fail or answer), and `setInterval` fires. No fairness for
  the chain, the nodes, prices or users, nor for the `tx.wait()` of the one provider
  (`executorClient.ts:190`), which has no timeout (`Waits`): `MarksAreRead` is stated for
  the broadcaster, whose polls are counted.
- `WsProvider`, `PythLink`, `SignalSources`: `setTimeout` and `setInterval` fire; an
  opening or closing handshake ends. A socket need not report that it broke.
- `HeadSweep`: unhedged multicall chunks run under `withTimeout`
  (`RealTimeHFService.ts:2984`), so their steps are fair; the watchdog is a timer;
  time passes (`Stall`). The micro verification has no timeout, nor has a hedged
  chunk (`:3044` races two nodes), so a step that hangs is *not* fair.
- `PriceTrigger`: the poll interval runs, polls answer, the debounce ends. The
  emergency scan's timers need no fairness for what is stated.
- `ExecutionFlow`: reads, quotes and sends settle. The wait for the transaction does
  not: `tx.wait()` has no timeout (`ExecutionService.ts:1399`), so a user may stay
  locked for ever, and `UsersAreFreed` excepts just that.
- `TokenLookup`: Redis and the chain answer or fail, and a woken waiter runs. Nothing is
  assumed of the next caller, or of a tick of the clock.

`MarksAreRead`, `HeadsRecover` and the others of this kind are stated for what these
assumptions allow, and each has a mutant that leaves the fairness alone.

## 6. Proofs

A theorem holds for all values of the constants its module's assumptions admit. In each
case TLC checked the inductive invariant first, and the run checks the stated property.
Every invariant and every action property of the passing runs is proved; what only TLC
checks is named at the end of this section.

The components an MC module composes keep their own theorems: a lemma `<Part>Part` shows that
every behaviour of the composition is one of the part (a step of another part leaves its
variables alone), the inductive invariant is over the part's variables, and the theorem
is about the composition, in the words of the run. The constants of the parts proved
about are constants of the MC module, constrained by `PartAssumptions` and nothing else.

### The transaction broadcaster: `TxBroadcasterProofs`

Any calls, nodes, replacements, polls; `Rpcs ⊆ Nodes`, the monitor among them, the numbers
naturals.

- `TypeCorrect`: `Spec => []TypeOK`.
- `OneLanding`: `Spec => []LandsOnce`. `LandsOnce` is not inductive: nothing in it
  keeps a mined transaction's call from producing another with a new nonce. `NonceInv`
  adds that every transaction in a pool or on chain carries the nonce its call holds
  and that the transaction of nonce *n* sits at place *n + 1* of the chain; two
  transactions of one call then have one nonce and so one place.
- `AnswersAreTrue`: `Spec => []DefiniteAnswersTrue`. `AnswerInv` adds that only a call that
  has ended has a status, and that "failed" without a receipt comes with no hash; the
  chain only grows, so what an answer rests on stays.
- `ReplacementsOutbid`: `ReplacementOutbids`, if the base fee is at least 10 units and the
  bump at least 20 %, which is what `executorClient.ts:57-59` passes (20 %). Without the
  first, integer division makes the bump of a small fee nothing. `FeeInv` says of every
  call, whatever its place in the loop, that each transaction of it a node holds carries
  the call's fee or one that fee outbids; the step from one replacement to the next is the
  arithmetic lemma that a bump outbids, and that outbidding carries over to lower fees.
- `PromiseKept`: `Spec => KeepsPromise`, the refinement of `BroadcastPromise`. Each action
  is a step of the promise or leaves its variables where they are; a transaction mined is the step
  of a landing, which `IInv` shows to be the first of its call, and an answer is true by
  `TrueInv`.

### The pipeline: `LiquidationPipeline`

Any users, ticks, rescores, batch sizes and moves.

- `MarksAreKept` (`NoLostMark`) and `OneLive` (`OneLiveTransaction`), from `Inv`.
  `Shaped` says just what of the types both rest on (batches and results are sequences
  of users, a tick past its check has a result). A mark leaves the queue only into a
  batch that is being checked, and leaves it with a reading or a failure.
- `Alone` carries `OneLive`: while ticks are on time, at most one of them is under way; with
  the broadcaster, a transaction nobody waits for is the only one of its user and has
  "pending" as the user's last record; an attempt that is under way is not held back by such a
  record, so no acknowledged transaction of its user is left. On the one provider that record
  is never made, which is what `single` shows.
- `PipelineTypeCorrect` (`TypeOK`). The users a check could read are picked out of its batch
  in their order; `PlacesInOrder` shows that `Place` numbers the picked places from one up
  without a gap, from which the answers are a sequence of users.

### Head checks, batches, the page: `SweepsProofs`

Any users, loops, blocks, hangs, marks, slots, lists and page sizes; loops and slots finite.

- `SweepTypeCorrect`, `RunsWatched` (`WatchdogCovers`), `RequestsServed`
  (`RequestHasLoop`) and `OneReaderPerBlock` (`OneReader`).
- `WatchdogCovers` is kept by every step because the two operators that write
  `scanningHead`, `StartRun` and `EndRun`, write watchdog and progress with it; the
  proof shows that an aborted run, which ends with the same `EndRun` as any other,
  stops its successor's watchdog only together with clearing `scanningHead`.
- `OneReader` needs `LockHeld`: whoever reads a block holds its lock, unless the
  lock lapsed. An aborted run's release frees the lock of its own block only, so the
  successor on another block keeps its own; on the same block the successor was
  turned away. The time to live of the lock is the exception that `lapsed` records.
- `BatchesStayLimited` (`BatchesKeepLimits`). `BatchInv`: the running counter is the number of
  slots that hold a batch; a block's counter is not behind what ran of it as long as no
  cleanup may have deleted it.
- `RotationMissesNobody` (`RotationCovers`). `PageInv`: what the window has moved since the
  last check of a candidate and what it has still to move to reach it make less than one
  turn of the list. It speaks of lists longer than the largest page; a page as long as
  the list may pass candidates over (section 7).

### Services: `ServicesProofs`

- `LimiterTypeCorrect` and `RateIsLimited` (`WindowBounded`), for any callers, costs,
  timeouts, rate, capacity, lateness. The bound is not inductive, for it does not say how
  full the bucket is: `Paid` adds the parts in the bucket to the grants of the window. A
  grant moves parts from one to the other, a refill adds at most what both sides gain, and
  opening a window starts from a bucket that holds no more than its capacity. Costs and
  the parts of a token are positive.
- `IndexIsComplete` (`IndexIsWhatWasSeen`), for any window, chunk size, mode, logs and
  restarts. The property speaks of an index that is live; `IndexInv` says the same of one
  that is filled chunk by chunk: it holds what the blocks read so far leave, without the
  chunks that failed. `ReplayHolds` ties the code's loop over the logs of a chunk, a recursive
  function here, to that set. The induction it takes is over a counter: `StepByStep`, from
  the fact that a set of numbers has a least one, so no library theorem with an operator
  parameter is needed. `DebtsAreBounded` keeps a partial repayment apart from a full one.
- `CachesAreNew` (`CachesKeepUp`). The lag is measured against the round the listener holds,
  which may go back (`DedupeIsCleared`; section 7), and counts from when the listener was at
  the newer round or past it without interruption (`heldSince`). `FeedInv` keeps, for each
  cached answer, each read in flight and the read of start-up, that no newer round was held
  before it was stored (or asked for) less one request; the eviction of `PlanCache` is an
  action property that follows from the size of the map. For `AgeBounded` and this bound
  alike, latencies that are not followed come on top (section 8).
- `RoundingIsNeverUnsafe` (`RoundingIsSafe`), for any decimals, prices, balances, bonuses
  and rates with a close factor and a haircut of at most 100 % and finitely many assets.
  `SoundCandidate` and `SoundQuote` follow a pair from its building over the ranking to the
  checks; the rest is arithmetic (`ScalingRoundsDown`, `ProfitWithinBonus`, `NetRepays`)
  about quotients that truncate, multiplied out by hand because the SMT solver has no
  nonlinear arithmetic to speak of.
- `LiquidationsPay` (`ContractPays`): whatever fee the vault asks within the allowance,
  Aave takes and the router pays, the payout is at least the net and the debt asset is gone.
- `EdgesAreTold` (`EdgeIsTold`): a status is set together with its announcement or by
  the one fast path that is about to make it (`TellInv`).
- `AnswersAreCurrent` (`AnswersOfTheBlock`). `CurrentInv` follows the state of a block from
  the read to the cache: a read is sent after the block of its key was announced, so what
  it brings is of that block or later, and it is filed under the key it was sent for, even
  when an invalidation has let a second read start or a reconnect replaced the verifier.
- `AlwaysHeard` (`NeverDeaf`). A heartbeat that finds `isReconnecting` set ends its chain;
  `HeardInv` adds that the reconnect which set it is then under way, and is the only one
  of its kind, so that its end, and no other, clears it.
- `ServicesTypeCorrect` (`ServicesTypeOK`), part by part. Not all of it is bookkeeping: that
  balances of the contract stay natural numbers takes that Aave takes no more than the loan
  and the router no more than it was approved for (`SwapCounts`), and that a profit is one
  takes the check of step 6.

### Live: `LiveProofs`

- `LinksAreSingle` (`OneLink`), for any providers, connections, subscribers and attempts.
  In `WsInv` a provider that was replaced is destroyed and one timer runs at most; in
  `PythInv` the connections that live and the timers together are one at most.
- `RefreshesStaySafe` (`RefreshesAreSafe`): the two maps of the user index stay inverse
  when refreshes of one user overlap, and a sweep rescores nobody twice: whom it has
  rescored bears a time no older than the sweep's own (`SweepKnown`), which the rate limit
  covers.
- `LiveTypeCorrect` (`TypeOK`), for the seven parts. `PollsInv` keeps the number of polling
  loops below that of the connections that started them, from which the pace stays within
  its limits. `BurstsInv` is what bounds the price of a burst: `checkAndBump` looks at
  `maxBumps` before the await and counts after it, so a timer that looked in time may count
  late, and two of them go one bump beyond the maximum and never two (`Counted`).

### Execution: `ExecutionProofs`

Any users, handlers, reserves, prices, limits, audits and polls.

- `FlowTypeCorrect`, `NoGuess` (`NeverBlind`), `OneAtATime` (`OneExecutionPerUser`).
- `NoGuess` rests on `HonestInv`, which says for each place in an execution what a failed
  read has left behind: no price means an amount of zero, and an amount or value of zero
  does not pass the dust and profit limits that follow. It needs `ProfitMin > 0`. Two reads are
  excepted, as in the code: the debt, for which the plan's amount stands in, and the ETH/USD
  feed of the dust guard (section 7).
- `OneAtATime` rests on `Exclusive`: with the lock configured, a user is in
  `inflightExecutions` just while some handler executes for it, and two that do are one.
- `FallbacksKeepDistance` (`FallbackPaced`): the last fallback is no later than the last
  evaluation (`PacedInv`), and blocks that wait together look again before they evaluate.
- `DefaultsAreForgotten` (`ScaledInTime`). `ScaledBefore`: a price scaled with defaults is no
  younger than the reading of some decimals it needed, so its time to live ends it.
- `LiquidationsToldOnce` (`ToldOnce`). `ToldInv`: of a liquidation the tracker remembers,
  at most one poll that waits for health factors has it to tell, and only if nobody told it.
- `ExecutionTypeCorrect` (`ExecutionTypeOK`), for every component of the run. Not bookkeeping
  is the dedup cache of the predictive orchestrator: its map and its order of access must
  hold the same keys, each once (`DedupAgrees`), however evaluations that end in any order
  record, touch, expire and evict them; only then does evicting the first of the order make
  room.
- `VerdictsAreFounded` (`VerdictOfTheDecision`), an action property. `AuditInv` has a map
  from the places of the store to those of all decisions ever made: increasing, and onto
  those that have not expired unless the store was full. `Among` and `Place` are used as in
  the pipeline.

### Tools: `TokenLookup` and `MCTools`

- `AnswersAreRecent` (`AgeBounded`), for any tokens, callers, tables, times to live. `Aged`
  says of every store how far the read behind an entry may lie back, failures and overrides
  included: a key of Redis bears the time of its reading, memory takes it with a new time
  stamp, a caller takes that with another. Each cache adds its time to live and no more; a
  restart empties all of them but Redis. `LookupStep` is a step of any caller, with any
  table: `NoAnswerOutlives` is the same bound in `MCTools`, where the registry is
  instantiated three times (callers with the table, the cache of assets with everything in
  it, callers that read the chain themselves), because a step of each instance is a
  `LookupStep` (`AssetSteps`, `ResolverSteps`).
- `LookupTypeCorrect` (`TypeOK` of `TokenLookup`). `Queued` carries it: the queue holds
  requests that wait, each once, so that the one `Release` wakes is one that waits, and
  `active` is the number of requests that fetch. That number is bounded by the requests
  alone, not by `Slots`: a slot given back and taken by a newcomer before the woken request
  runs makes one more than allowed (section 7).
- `ListingsAreWhole` (`ListingIsWhole`), for any reserves and refreshes: a debt that stood
  through a listing of `getAllUserReserves` is in it, or its reserve failed on its own,
  whichever calls found the socket destroyed. `ReadInv` follows the listing from call to call:
  what is owed all the while is listed, failed, or still ahead (`Complete`), because each of
  its five calls has the fallback; one that had not would drop its reserve.
- `ToolsTypeCorrect` (`ToolsTypeOK`): types and limits of all seven parts, for any users,
  assets, borrowers and bounds. `ToolsInv` is the conjunction of what each part's own steps
  keep; `ToolsSteps` splits a step of the composition into a step of one part and a stutter
  of the others.
  - Limits: an eviction takes one out of a map that is full before one is put in. `MadeRoom`
    and `OneJoins` are the counting, `CandidateAdded`, `HfRecorded`, `CandidateStaged`,
    `AddedFits` and `EnqueuedFits` what each map does with it.
  - `HistoryGrows` and `ReserveTouched` are about sequences that take one at the end and drop
    one at the front or in the middle.
  - A batch read ahead may hold a user twice, and the last of them counts; that there is a
    last one is `GreatestNumber`, from the well-foundedness of `<` on the naturals.

### Assumptions worth naming

Each is a named assumption of the module that needs it, and TLC evaluates it on the run. The
code justifies most by being what it is (rates and times are natural numbers, times to live
and intervals are positive). Not so plain: `IsFiniteSet` of loops, slots, reads, calls,
requests, sockets and assets, because a process has finitely many, and of the users in the
bounded maps; `Users # {}` in `MicroVerify` and of the borrowers in `CriticalLane`, because an
idle read or attempt names one; `Zero \notin Accounts \cup Contracts` in the contract, the
zero address being the one its setters refuse.

### Only model-checked

- Liveness: `CallsAnswer`, `MarksAreRead`, `HeadsRecover`, `LinksRecover`,
  `LastingFallTriggers`, `UsersAreFreed`, `EveryLookupEnds`. They need fairness and
  `ENABLED`, which the prover does not reason about.
- The five counterexamples of section 7, which are runs of small instances by nature, and
  the refuted claims listed there.

## 7. Where code and documents disagree

Shown by a run:

- `twins`: `index.ts:361` (v2) means to skip a user with a pending attempt; overlapping
  ticks pass the check together, for an attempt is recorded when it ends.
- `single`: the same line; with at most one broadcast URL the attempt waits in `tx.wait()`
  (`executorClient.ts:190`), and when that throws it answers "failed" without the hash it
  had. `index.ts:606-618` records this, `hasPending` is false, and the next tick sends a
  second transaction beside the first.
- `resume`: after a reconnect nobody subscribes on the new provider, against
  `CACHE_FIRST_PRICING_OPTIMIZATION.md:247`.
- `overlap`: aborted head checks overlap their successors, against
  `docs/TIMEOUT_RECOVERY.md:161`.
- `emits`: a user is announced more than once per block, against
  `RealTimeHFService.ts:3249`.

Stated as a definition beside the model, where TLC finds it violated, and in no run:

| Definition | The claim | What the code does |
|---|---|---|
| `HeadSweep!DirtyMeansChecked` | a mark is cleared when its user was checked (`RealTimeHFService.ts:1203`) | marks are cleared after a sweep that was refused, and with those that came while it ran |
| `HfConnection!OneSocket` | reconnects are serialised (`docs/TIMEOUT_RECOVERY.md:162`) | a provider's error leaves the old socket open beside the new one |
| `PriceFeed!ListenerGoesOn` | a round is handled once (`ChainlinkListener.ts:163`) | the keys are cleared every ten minutes (`ChainlinkListener.ts:142`), and a round delivered again after that replaces a newer price |
| `AaveData!CanonicalIsWhole` | a destroyed socket is answered over HTTP (`AaveDataService.ts:277`) | the canonical listing asks `AssetMetadataCache`, whose one provider has no fallback (`AssetMetadataCache.ts:65-72`, `:197`), and drops the reserve (`AaveDataService.ts:898`) |
| `BorrowersIndex!PartialRepaymentStays` | who repays in part stays in the index (`BorrowersIndexService.ts:475-477`) | every burn of debt tokens deletes the borrower (`:479`) |
| `MicroVerify!SharedReads` | one read per user and block (`backend/README.md:60`) | two run at once after an invalidation |
| `PendingPolls!PaceRecovers` | the pace recovers after the limit (`REAL_TIME_STABILITY_FINALIZATION.md:46`, `:52`) | a success restores one step, and only if a refusal was counted since the last: after a burst the pace stays where it is (`RealTimeHFService.ts:2503-2517`) |
| `Candidates!EmergencyScansHolders` | an emergency scan takes the holders of the asset (`RealTimeHFService.ts:2041`) | it asks by symbol (`:1764`) where addresses are stored |
| `LiquidationAudit!RacedMeansAttempted` | "raced" means that the bot attempted (`backend/README.md:39`, `docs/REALTIME_HF_RUNTIME.md:98`) | no decision at all is "raced" too (`DecisionClassifier.ts:68-73`) |
| `SubgraphFeed!BootstrapSuppressed` | the first poll notifies nobody (`backend/README.md:855`) | the flag is read after an await: a second poll that overtakes the first clears it (`subgraphPoller.ts:139`) |
| `SubgraphFeed!SeedFallsBack` | a failed seed falls back to the backfill from the chain (`RealTimeHFService.ts:2093`) | the seed never throws, so the branch is dead |
| `Universe!SafetyIsPricedOut` | an attempt stopped by the safety checks is reported so (`liquidationAudit.ts:152`) | the status looked for is "error", the one recorded "failed" (`index.ts:607-616`) |
| `PredictiveOrchestrator!BudgetEnforced` | the budgets bound the work (`backend/README.md:162-163`) | a list over budget is cut by numbers of users alone; the minute and the hour that refused it are not asked again (`PredictiveBudgetTracker.ts:222-266`) |
| `PriceService!OneResolutionPerBlock` | a symbol is resolved once per block (`PriceService.ts:828`) | two requests that miss together both resolve |
| `PriceService!DeferredAreRevalued` | what was deferred is valued once the feeds are ready (`PRICE_READINESS_FEATURE.md:38-42`) | the flush looks up prices and tells nobody |
| `CriticalLane!OneAttemptPerUser` | a lock prevents two attempts (`FASTPATH_ACCELERATION.md:138`) | a late attempt's release deletes its successor's lock (`CriticalLaneExecutor.ts:95`, `:294`) |
| `CriticalLane!StaleIsRefreshed` | a stale snapshot is refreshed (`FASTPATH_ACCELERATION.md:9`) | saving it throws, for it holds a bigint (`CriticalLaneExecutor.ts:357`) |

Seen while modelling; visible in the modules:

- v2: two calls that read the nonce together use it twice, and one of them fails; only
  the newest hash of a call is polled; a "pending" record never expires and forbids
  every later attempt (`attemptHistory.ts:104`); a fall of a price alone marks and executes
  nothing (`PredictiveLoop.ts:284`); the ETH alias of the feed is refreshed by its own
  reads only; Pyth ticks go into the price cache that serves execution; raw nets are
  compared between candidates of different debt tokens (`index.ts:537`); `minOut` may be
  met from the contract's own balance; the audit's "debt below minimum" cannot be reached
  (`VERIFICATION_REPORT.md:65`); users found liquidatable at start-up are only logged.
- v1, detection: a failed verification is cached like an answer (`MicroVerifyCache.ts:171`);
  an emergency scan that is turned away clears the in-flight flag of the one that runs; an
  abort requests its block again over a newer request, and the registry then turns the
  retry away; the lock of a scan that was refused or failed counts as done
  (`ScanRegistry.ts:183`); the key of a batch names neither its users nor its reserve; a
  drop during the debounce is consumed in last-answer mode; a reconnect forgets the price
  baselines; `shouldEmit` compares with the last check, not the last announcement; a page
  that is a multiple of the list's length never moves; a failed `start()` is only logged;
  each reconnect starts another polling loop and `stop` clears the timer of the last;
  `acquire` without a timeout does not wait; small changes of an index never add up
  (`ReserveIndexTracker.ts:71`); borrowers are cut to the limit before they are intersected;
  users who recovered never leave `LowHFTracker`; a loaded set of borrowers is never brought
  up to the tip (`BorrowersIndexService.ts:167`), and a failure between Redis's delete and
  add loses a reserve for good.
- v1, execution: a failed health check counts as "assume liquidatable"
  (`ExecutionService.ts:212`) and leaves a debt of zero, which the next check refuses; the
  in-flight mark may be held for ever by `tx.wait()`; when the ETH/USD feed cannot be read, the
  guard that would refuse a collateral of zero is skipped with a warning (`:975-1015`); the
  collateral's price is read twice;
  the per-block dedupe is read before an await and set after it; the "Scaling error" thrown
  at `:1583` is swallowed by its own `catch`.
- v1, services: `getPrice` in strict mode returns a stub that was cached; disabled feeds are
  never enabled again; Pyth's updates are told twice; the signal budget per asset is never
  reset; the tracker of liquidations drops its newest ids first; the degraded mode of the
  poller is never left; the per-process Aave service keeps a destroyed socket and uses HTTP
  for ever after; `validateConsistency` compares with a cache nobody fills
  (`AAVE_ACCOUNTING_REFACTOR_SUMMARY.md:52`); eight fetches at once may become nine;
  a token that was unknown for a minute stays unknown in its callers for longer; an event
  that fails to decode drops the rest of its batch (`RealTimeHFService.ts:4121`); the same
  event is staged twice (`index.ts:430`, `:461`).
- v1, not constructed: eviction prefers whoever is kept to whoever comes, or the reverse,
  against urgency; a race of endpoints that "failed" may have been accepted; an unknown
  mode makes `loadTxSubmitConfig` call itself without end; bumps may exceed their maximum.

## 8. Not modelled

- v2: the 1inch client (one request; its answer is a choice in `PlanChoice` and
  `LiquidationPipeline`); configuration, notification, metrics; the realtime orchestrator
  and the pair selector, which the program never uses. In modelled parts: decimal scaling
  of ratio feeds, ABI encoding, wording.
- v1: API, WebSocket server, configuration (parsing of the environment, 1,200 lines) and
  metrics (1,400 lines of counters): they keep no state a property could be about.
  `ProfitEngine`, `RiskEngine` and `HealthFactorProjector`, formulas over their arguments,
  appear as the choice of their result. Scripts (`prioritySweep.ts`, `verify-data.ts`, tools
  that print) run once and alone. `Scanner`, `SameBlockVerifier`, `BlockBoundaryController`,
  `TwapSanity` are constructed nowhere. In modelled parts: the hedging between providers is
  folded into a read that answers, fails or hangs; decoding of logs; pruning of users
  without debt.
- Latencies: a key of Redis lives from when Redis runs the `setex` nobody awaits
  (`TokenMetadataRegistry.ts:349`), and its answer takes time to arrive; the model has both
  at once, so that the bound of `AgeBounded` holds up to these two latencies. The cache
  of assets is excepted from it, for `getTotalSupply` renews the time stamp of its entries.
- `ScaledInTime` is about the cache of `getPrice`. `perBlockPriceCache`
  (`PriceService.ts:833-864`) is in the model with its own entries and pruning, but what a
  price in it was scaled with is not followed.

## 9. Plan

Done: broadcaster with its promise, pipeline, realtime parts and value chain of v2, the
contract; head checks, page, batches, announcements, price trigger, connection, micro
verification, rate limiter, borrowers index of v1; then execution, price service,
predictive orchestrator, polling, audits, Aave data, lookups, candidates, seeding and the
parts the program does not construct. Proofs of every invariant and every action property
the runs check.

What is left, by importance:

1. Composition: `EdgeTrigger` over `MicroVerify`, so that a verification's answer is the
   cache's; `ExecutionFlow` over `PriceService` and `AaveData`, so that a failed read is
   theirs; `Candidates` under `HeadPage`.
2. An abstract specification of execution ("an announced user is executed at most once per
   block, within the limits") with `ExecutionFlow` as its refinement; one of the borrowers
   index.
3. Theorems: those refinements; and, with them, what a component may rely on of another
   rather than of its own over-approximation of it.
