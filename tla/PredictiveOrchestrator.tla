------------------------- MODULE PredictiveOrchestrator -------------------------
(***************************************************************************)
(* risk/PredictiveOrchestrator.ts of the first bot with its signal gate,   *)
(* budget, dedup cache and fallback (predictive/).  A signal or the        *)
(* fallback timer chooses users, and their evaluation awaits the           *)
(* listeners, so that several are under way at one time.  index.ts starts  *)
(* the fallback timer only; evaluateOnSignal is called by tests.  Health   *)
(* factors are ranks, times are ticks.                                     *)
(***************************************************************************)
EXTENDS Integers, FiniteSets, SequencesExt

CONSTANTS
  Users, Assets,
  Hfs,               \* health factors a snapshot may hold; 0 is the riskiest
  NearBand,          \* the health factors of the near band
  Strengths,         \* strengths of a signal
  Flows,             \* bound: evaluations under way at one time
  Debounce, Ttl,     \* seconds between signals of an asset; life of a dedup entry
  MaxCached,         \* entries of the dedup cache
  MaxUsersPerTick, MaxTicksPerMin, MaxUsersPerAsset,
  RpcBudget,         \* health factor reads the hourly budget pays for
  Minute, Hour,
  IntervalBlocks, IntervalMs,  \* fallbackIntervalBlocks, fallbackIntervalMs
  MaxBlock, MaxTime  \* bounds: blocks and time followed

PredictiveAssumption ==
  /\ IsFiniteSet(Users) /\ Hfs \subseteq Nat /\ NearBand \subseteq Hfs /\ Strengths \subseteq Nat
  /\ {Debounce, Ttl, MaxBlock, RpcBudget} \subseteq Nat
  /\ {MaxCached, MaxUsersPerTick, MaxTicksPerMin, MaxUsersPerAsset, Minute, Hour,
      IntervalBlocks, IntervalMs, MaxTime} \subseteq Nat \ {0}

VARIABLES
  clock, tip,
  gated,            \* signalGateEnabled and a source enabled: no fallback timer
  lastSignalTime,   \* 0 when an asset has had none
  budget,           \* PredictiveBudgetTracker
  cache,            \* PredictiveDedupCache: key -> [at, strength]
  accessOrder,
  lastEvaluationBlock, lastEvaluationTs,
  flows,
  evaluated,        \* history: evaluations since minuteStartTime
  lastFallback      \* history: block of the last fallback evaluation

vars == <<clock, tip, gated, lastSignalTime, budget, cache, accessOrder,
          lastEvaluationBlock, lastEvaluationTs, flows, evaluated, lastFallback>>

Keys == Users \X Assets
Idle == [at |-> "idle"]
Snapshots == [at : {"snapshots"}]
Evaluation == [at : {"evaluate"}, users : SUBSET Users, asset : Assets, strength : Strengths]
Fallback == [at : {"fallback"}]
Counters == [tick : Nat, ticks : Nat, minute : Nat, spend : Nat, hour : Nat,
             perAsset : [Assets -> Nat]]

TypeOK ==
  /\ clock \in 1 .. MaxTime /\ tip \in 0 .. MaxBlock
  /\ gated \in BOOLEAN
  /\ lastSignalTime \in [Assets -> 0 .. MaxTime]
  /\ budget \in Counters
  /\ DOMAIN cache \subseteq Keys
  /\ \A k \in DOMAIN cache : cache[k] \in [at : Nat, strength : Strengths]
  /\ accessOrder \in Seq(Keys)
  /\ lastEvaluationBlock \in -IntervalBlocks .. MaxBlock
  /\ lastEvaluationTs \in -IntervalMs .. MaxTime
  /\ flows \in [Flows -> {Idle} \cup Snapshots \cup Evaluation \cup Fallback]
  /\ evaluated \in Nat /\ lastFallback \in -IntervalBlocks .. MaxBlock

\* Block numbers and times of the program are far above 0.
Init ==
  /\ clock = 1 /\ tip = 0
  /\ gated \in BOOLEAN
  /\ lastSignalTime = [a \in Assets |-> 0]
  /\ budget = [tick |-> 0, ticks |-> 0, minute |-> 1, spend |-> 0, hour |-> 1,
               perAsset |-> [a \in Assets |-> 0]]
  /\ cache = <<>> /\ accessOrder = <<>>
  /\ lastEvaluationBlock = -IntervalBlocks /\ lastEvaluationTs = -IntervalMs
  /\ flows = [f \in Flows |-> Idle]
  /\ evaluated = 0 /\ lastFallback = -IntervalBlocks

-----------------------------------------------------------------------------
\* PredictiveSignalGate: a source's signals are debounced by asset.
ShouldTrigger(a) == lastSignalTime[a] = 0 \/ clock - lastSignalTime[a] >= Debounce

\* PredictiveBudgetTracker.

\* startTick: windows that are over start again; the users per asset do not.
StartTick ==
  LET minuteOver == clock - budget.minute >= Minute
      hourOver == clock - budget.hour >= Hour
  IN  [budget EXCEPT !.tick = 0,
         !.ticks = 1 + (IF minuteOver THEN 0 ELSE @),
         !.minute = IF minuteOver THEN clock ELSE @,
         !.spend = IF hourOver THEN 0 ELSE @,
         !.hour = IF hourOver THEN clock ELSE @]

\* canEvaluateUsers.
CanEvaluateUsers(b, n, a) ==
  /\ b.tick + n <= MaxUsersPerTick
  /\ b.ticks < MaxTicksPerMin
  /\ b.spend + n <= RpcBudget
  /\ b.perAsset[a] + n <= MaxUsersPerAsset

\* downsampleToFit: the caps of the tick and of the asset cut the healthiest; the
\* rate and the hourly budget cut nobody.
DownsampleToFit(b, users, a, hf) ==
  LET tickRoom == MaxUsersPerTick - b.tick
      assetRoom == MaxUsersPerAsset - b.perAsset[a]
      room == IF tickRoom < assetRoom THEN tickRoom ELSE assetRoom
  IN  IF CanEvaluateUsers(b, Cardinality(users), a) THEN {users}
      ELSE {kept \in SUBSET users :
              /\ Cardinality(kept) = IF room <= 0 THEN 0
                                     ELSE IF room < Cardinality(users) THEN room
                                     ELSE Cardinality(users)
              /\ \A u \in kept, v \in users \ kept : hf[u] <= hf[v]}

-----------------------------------------------------------------------------
\* PredictiveDedupCache.

\* The n-th place of places; the elements of s that are in S, in their order.
Place(n, places) == CHOOSE i \in places : Cardinality({j \in places : j <= i}) = n
Among(s, S) ==
  LET places == {i \in DOMAIN s : s[i] \in S}
  IN  [n \in 1 .. Cardinality(places) |-> s[Place(n, places)]]

Expired(k) == clock - cache[k].at > Ttl

\* shouldEvaluate: a key without a fresh entry, or with a weaker one.
ShouldEvaluate(k, strength) ==
  k \notin DOMAIN cache \/ Expired(k) \/ strength > cache[k].strength

\* What the lookups of a signal's users leave: expired entries go, hits are touched
\* in the order of the users.
LookUp(users, a, strength) ==
  LET expired == {k \in users \X {a} : k \in DOMAIN cache /\ Expired(k)}
      hits == {k \in users \X {a} : ~ShouldEvaluate(k, strength)}
  IN  /\ cache' = [k \in DOMAIN cache \ expired |-> cache[k]]
      /\ \E touched \in SetToSeqs(hits) :
           accessOrder' = Among(accessOrder, Keys \ (hits \cup expired)) \o touched

\* Mutant: the key is appended to the order of access without leaving its old place.
RecordedTwice(state, k, strength) ==
  LET full == Cardinality(DOMAIN state.cache) >= MaxCached /\ k \notin DOMAIN state.cache
      order == IF full THEN Tail(state.order) ELSE state.order
      kept == IF full THEN DOMAIN state.cache \ {Head(state.order)} ELSE DOMAIN state.cache
  IN  [cache |-> [j \in kept \cup {k} |-> IF j = k THEN [at |-> clock, strength |-> strength]
                                          ELSE state.cache[j]],
       order |-> Append(order, k)]

\* recordEvaluation of one key: a full cache loses the key used longest ago.
Recorded(state, k, strength) ==
  LET full == Cardinality(DOMAIN state.cache) >= MaxCached /\ k \notin DOMAIN state.cache
      order == IF full THEN Tail(state.order) ELSE state.order
      kept == IF full THEN DOMAIN state.cache \ {Head(state.order)} ELSE DOMAIN state.cache
  IN  [cache |-> [j \in kept \cup {k} |-> IF j = k THEN [at |-> clock, strength |-> strength]
                                          ELSE state.cache[j]],
       order |-> Append(Among(order, Keys \ {k}), k)]

-----------------------------------------------------------------------------
\* evaluateOnSignal.

\* A signal: its users are deduped and cut to the budget, and their evaluation begins.
EvaluateOnSignal(f, a, strength) ==
  /\ flows[f] = Idle
  /\ ShouldTrigger(a)
  /\ LET b == StartTick IN
       \E users \in SUBSET Users, hf \in [Users -> Hfs] :
         \E kept \in DownsampleToFit(b, {u \in users : ShouldEvaluate(<<u, a>>, strength)},
                                     a, hf) :
           /\ LookUp(users, a, strength)
           /\ budget' = b
           /\ evaluated' = (IF b.minute # budget.minute THEN 0 ELSE evaluated)
                             + (IF kept = {} THEN 0 ELSE 1)
           /\ IF kept = {} THEN UNCHANGED <<flows, lastEvaluationBlock, lastEvaluationTs>>
              ELSE /\ flows' = [flows EXCEPT ![f] = [at |-> "evaluate", users |-> kept,
                                                     asset |-> a, strength |-> strength]]
                   /\ lastEvaluationBlock' = tip /\ lastEvaluationTs' = clock
  /\ lastSignalTime' = [lastSignalTime EXCEPT ![a] = clock]
  /\ UNCHANGED <<clock, tip, gated, lastFallback>>

\* The evaluation is over: its users are recorded, in the cache and in the budget.
RecordEvaluation(f) ==
  LET flow == flows[f] IN
  /\ flow.at = "evaluate"
  /\ \E order \in SetToSeqs(flow.users) :
       LET after[n \in 0 .. Len(order)] ==
             IF n = 0 THEN [cache |-> cache, order |-> accessOrder]
             ELSE Recorded(after[n - 1], <<order[n], flow.asset>>, flow.strength)
       IN  /\ cache' = after[Len(order)].cache
           /\ accessOrder' = after[Len(order)].order
  /\ LET n == Cardinality(flow.users) IN
       budget' = [budget EXCEPT !.tick = @ + n, !.spend = @ + n, !.perAsset[flow.asset] = @ + n]
  /\ flows' = [flows EXCEPT ![f] = Idle]
  /\ UNCHANGED <<clock, tip, gated, lastSignalTime, lastEvaluationBlock, lastEvaluationTs,
                 evaluated, lastFallback>>

-----------------------------------------------------------------------------
\* The fallback.

\* maybeRunFallbackEvaluation, from the timer or a block: when the last evaluation is
\* long ago the users' snapshots are read.
StartFallback(f) ==
  /\ flows[f] = Idle
  /\ ~gated
  /\ clock - lastEvaluationTs >= IntervalMs
  /\ flows' = [flows EXCEPT ![f] = [at |-> "snapshots"]]
  /\ UNCHANGED <<clock, tip, gated, lastSignalTime, budget, cache, accessOrder,
                 lastEvaluationBlock, lastEvaluationTs, evaluated, lastFallback>>

\* FallbackOrchestrator.shouldEvaluate with nearOnly: in any mode, the near band.
FallbackUsers(hf) == {u \in DOMAIN hf : hf[u] \in NearBand}

\* Mutant: whether enough blocks passed is not asked again after the read.
SnapshotsReadUnchecked(f) ==
  /\ flows[f].at = "snapshots"
  /\ \E block \in 0 .. tip, hf \in UNION {[s -> Hfs] : s \in SUBSET Users} :
       IF FallbackUsers(hf) # {}
         THEN /\ flows' = [flows EXCEPT ![f] = [at |-> "fallback"]]
              /\ lastEvaluationBlock' = block /\ lastEvaluationTs' = clock
              /\ lastFallback' = block
         ELSE /\ flows' = [flows EXCEPT ![f] = Idle]
              /\ UNCHANGED <<lastEvaluationBlock, lastEvaluationTs, lastFallback>>
  /\ UNCHANGED <<clock, tip, gated, lastSignalTime, budget, cache, accessOrder, evaluated>>

\* The snapshots came, of a block that may be past; they are evaluated when the last
\* evaluation is enough blocks ago and somebody is near.
SnapshotsRead(f) ==
  /\ flows[f].at = "snapshots"
  /\ \E block \in 0 .. tip, hf \in UNION {[s -> Hfs] : s \in SUBSET Users} :
       IF block - lastEvaluationBlock >= IntervalBlocks /\ FallbackUsers(hf) # {}
         THEN /\ flows' = [flows EXCEPT ![f] = [at |-> "fallback"]]
              /\ lastEvaluationBlock' = block /\ lastEvaluationTs' = clock
              /\ lastFallback' = block
         ELSE /\ flows' = [flows EXCEPT ![f] = Idle]
              /\ UNCHANGED <<lastEvaluationBlock, lastEvaluationTs, lastFallback>>
  /\ UNCHANGED <<clock, tip, gated, lastSignalTime, budget, cache, accessOrder, evaluated>>

\* The listeners of a fallback evaluation are through; it charges no budget.
FallbackOver(f) ==
  /\ flows[f].at = "fallback"
  /\ flows' = [flows EXCEPT ![f] = Idle]
  /\ UNCHANGED <<clock, tip, gated, lastSignalTime, budget, cache, accessOrder,
                 lastEvaluationBlock, lastEvaluationTs, evaluated, lastFallback>>

Tick ==
  /\ clock < MaxTime /\ clock' = clock + 1
  /\ \E b \in {tip, tip + 1} : b <= MaxBlock /\ tip' = b
  /\ UNCHANGED <<gated, lastSignalTime, budget, cache, accessOrder, lastEvaluationBlock,
                 lastEvaluationTs, flows, evaluated, lastFallback>>

Next ==
  \/ Tick
  \/ \E f \in Flows :
       \/ StartFallback(f) \/ SnapshotsRead(f) \/ FallbackOver(f) \/ RecordEvaluation(f)
       \/ \E a \in Assets, s \in Strengths : EvaluateOnSignal(f, a, s)

Spec == Init /\ [][Next]_vars

-----------------------------------------------------------------------------
\* Properties.

\* Fallback evaluations are at least fallbackIntervalBlocks apart, though several may
\* be waiting for snapshots of the same moment.
FallbackPaced == [][lastFallback' # lastFallback
                      => lastFallback' - lastFallback >= IntervalBlocks]_vars

\* The dedup cache and its order of access hold the same keys, each once, and no more
\* than the cache may: otherwise splice would leave a key behind, and the eviction of
\* a full cache evict nobody.
DedupAgrees ==
  /\ {accessOrder[n] : n \in DOMAIN accessOrder} = DOMAIN cache
  /\ \A m, n \in DOMAIN accessOrder : accessOrder[m] = accessOrder[n] => m = n
  /\ Cardinality(DOMAIN cache) <= MaxCached

\* README.md: "Max evaluation ticks per minute", and an hourly budget that "stops
\* when exceeded".
BudgetEnforced == evaluated <= MaxTicksPerMin /\ budget.spend <= RpcBudget
=============================================================================
