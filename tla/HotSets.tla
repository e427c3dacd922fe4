-------------------------------- MODULE HotSets --------------------------------
(***************************************************************************)
(* What the first bot keeps at hand of the users nearest to liquidation:   *)
(* services/HotSetTracker.ts and the queues of execution/PriorityQueues.ts *)
(* that hold them, services/PrecomputeService.ts and                       *)
(* execution/IntentBuilder.ts that prepare their transactions, and         *)
(* execution/PriceHotCacheService.ts that keeps the prices fresh.          *)
(***************************************************************************)
EXTENDS Integers, FiniteSets

CONSTANTS
  Users,
  Hfs,                     \* health factors, in percent
  HotHf, WarmHf,           \* hotSetHfMax and warmSetHfMax, of the queues too
  MaxHotSize, MaxWarmSize,
  Priorities,              \* of a queued user: the lower, the more urgent
  TopK,
  Prices,                  \* in percent; 0 for one that is not known
  Debts,
  MaxIntentAge,            \* maxIntentAgeMs
  Assets, MaxCacheSize,
  MaxBlock, MaxTime

HotSetsAssumption ==
  /\ Hfs \subseteq Nat \ {0} /\ {HotHf, WarmHf} \subseteq Nat /\ HotHf < WarmHf
  /\ {MaxHotSize, MaxWarmSize, TopK, MaxIntentAge, MaxCacheSize,
      MaxBlock, MaxTime} \subseteq Nat \ {0}
  /\ Priorities \cup Prices \subseteq Nat /\ Debts \subseteq Nat \ {0}
  /\ IsFiniteSet(Users) /\ IsFiniteSet(Assets)

None == 0

VARIABLES
  block, now,
  hotSet, warmSet,        \* the health factor each user is kept with, or None
  precomputed, readings,  \* the block of each user's transaction; the reads under way
  hotQueue, warmQueue,    \* the priority each user is queued with, or Absent
  intent, building,       \* the cached intent, and one that is being built
  tracked, cached,        \* assetsToTrack, and the moment of each cached price
  fetching                \* assets whose price is being fetched

tracker == <<hotSet, warmSet>>
plans == <<precomputed, readings>>
queues == <<hotQueue, warmQueue>>
intents == <<intent, building>>
prices == <<tracked, cached, fetching>>
vars == <<block, now, tracker, plans, queues, intents, prices>>

Absent == 0 - 1
NoIntent == [debt |-> None, debtPrice |-> None, collateralPrice |-> None, at |-> None]
Intents == [debt : Debts \cup {None}, debtPrice : Prices, collateralPrice : Prices \cup {None},
            at : 0 .. MaxTime]

TypeOK ==
  /\ block \in 1 .. MaxBlock /\ now \in 1 .. MaxTime
  /\ {hotSet, warmSet} \subseteq [Users -> Hfs \cup {None}]
  /\ precomputed \in [Users -> 0 .. MaxBlock] /\ readings \subseteq Users \X (1 .. MaxBlock)
  /\ {hotQueue, warmQueue} \subseteq [Users -> Priorities \cup {Absent}]
  /\ {intent, building} \subseteq Intents \cup {NoIntent}
  /\ tracked \subseteq Assets /\ cached \in [Assets -> 0 .. MaxTime] /\ fetching \subseteq Assets

\* The members of a set, and of a queue.
In(set) == {u \in Users : set[u] # None}
Queued(q) == {u \in Users : q[u] # Absent}

\* Nothing is added before room is made for it.
WithinLimits ==
  /\ Cardinality(In(hotSet)) <= MaxHotSize /\ Cardinality(In(warmSet)) <= MaxWarmSize
  /\ Cardinality(Queued(hotQueue)) <= MaxHotSize /\ Cardinality(Queued(warmQueue)) <= MaxWarmSize
  /\ Cardinality(tracked) <= MaxCacheSize

Init ==
  /\ block = 1 /\ now = 1
  /\ hotSet = [u \in Users |-> None] /\ warmSet = hotSet
  /\ precomputed = [u \in Users |-> None] /\ readings = {}
  /\ hotQueue = [u \in Users |-> Absent] /\ warmQueue = hotQueue
  /\ intent = NoIntent /\ building = NoIntent
  /\ tracked = {} /\ cached = [a \in Assets |-> None] /\ fetching = {}

-----------------------------------------------------------------------------
\* HotSetTracker.

\* addToHotSet, addToWarmSet and evictHighestHf: room is made by the highest health
\* factor that is kept, whatever the new one is.
Added(set, max, u, hf) ==
  LET highest == {v \in In(set) : \A w \in In(set) : set[w] <= set[v]} IN
  IF Cardinality(In(set)) >= max
  THEN {[set EXCEPT ![v] = None, ![u] = hf] : v \in highest}
  ELSE {[set EXCEPT ![u] = hf]}

Update(u, hf) ==
  LET hot == [hotSet EXCEPT ![u] = None]  warm == [warmSet EXCEPT ![u] = None] IN
  /\ hotSet' \in IF hf <= HotHf THEN Added(hot, MaxHotSize, u, hf) ELSE {hot}
  /\ warmSet' \in IF HotHf < hf /\ hf <= WarmHf THEN Added(warm, MaxWarmSize, u, hf) ELSE {warm}
  /\ UNCHANGED <<block, now, plans, queues, intents, prices>>

Remove(u) ==
  /\ hotSet' = [hotSet EXCEPT ![u] = None] /\ warmSet' = [warmSet EXCEPT ![u] = None]
  /\ UNCHANGED <<block, now, plans, queues, intents, prices>>

\* getHotSet and getTopK: the lowest health factors first.
LowestHot(k) ==
  {s \in SUBSET In(hotSet) :
     /\ Cardinality(s) = IF Cardinality(In(hotSet)) < k THEN Cardinality(In(hotSet)) ELSE k
     /\ \A u \in s, v \in In(hotSet) \ s : hotSet[u] <= hotSet[v]}

-----------------------------------------------------------------------------
\* PrecomputeService.

\* precompute and invalidateStale: what was prepared for an older block goes, and the
\* reads of the lowest begin.
Precompute ==
  \E s \in LowestHot(TopK) :
    /\ precomputed' = [u \in Users |-> IF precomputed[u] < block THEN None ELSE precomputed[u]]
    /\ readings' = readings \cup (s \X {block})
    /\ UNCHANGED <<block, now, tracker, queues, intents, prices>>

\* precomputeForUser: of whichever block, the answer that comes last stays.
PrecomputedForUser(r, written) ==
  /\ r \in readings /\ readings' = readings \ {r}
  /\ precomputed' = IF written THEN [precomputed EXCEPT ![r[1]] = r[2]] ELSE precomputed
  /\ UNCHANGED <<block, now, tracker, queues, intents, prices>>

Invalidate(s) ==
  /\ precomputed' = [u \in Users |-> IF u \in s THEN None ELSE precomputed[u]]
  /\ UNCHANGED <<block, now, tracker, readings, queues, intents, prices>>

-----------------------------------------------------------------------------
\* HotCriticalQueue and WarmProjectedQueue.

\* evictLowestPriority: the highest number.
Enqueued(q, max, u, priority) ==
  LET last == {v \in Queued(q) : \A w \in Queued(q) : q[w] <= q[v]} IN
  IF Cardinality(Queued(q)) >= max /\ u \notin Queued(q)
  THEN {[q EXCEPT ![v] = Absent, ![u] = priority] : v \in last}
  ELSE {[q EXCEPT ![u] = priority]}

\* upsert of the one and of the other: a user who does not qualify any more is left
\* where he was queued.  `projected`: expected under 1 within two blocks.
UpsertHot(u, hf, priority, projected) ==
  /\ hf <= HotHf \/ projected
  /\ hotQueue' \in Enqueued(hotQueue, MaxHotSize, u, priority)
  /\ UNCHANGED <<block, now, tracker, plans, warmQueue, intents, prices>>

UpsertWarm(u, hf, priority) ==
  /\ HotHf < hf /\ hf <= WarmHf
  /\ warmQueue' \in Enqueued(warmQueue, MaxWarmSize, u, priority)
  /\ UNCHANGED <<block, now, tracker, plans, hotQueue, intents, prices>>

Dequeue(u) ==
  /\ \/ hotQueue' = [hotQueue EXCEPT ![u] = Absent] /\ warmQueue' = warmQueue
     \/ warmQueue' = [warmQueue EXCEPT ![u] = Absent] /\ hotQueue' = hotQueue
  /\ UNCHANGED <<block, now, tracker, plans, intents, prices>>

-----------------------------------------------------------------------------
\* IntentBuilder, for the tokens of one user.
IntentValid == intent # NoIntent /\ now - intent.at < MaxIntentAge

\* buildIntent without a valid one: the price of the debt is read, then the other's,
\* and a zero builds nothing.  A valid one is given out whatever the debt is now.
BuildIntent(debt, price) ==
  /\ ~IntentValid /\ building = NoIntent
  /\ building' = [NoIntent EXCEPT !.debt = debt, !.debtPrice = price]
  /\ UNCHANGED <<block, now, tracker, plans, queues, intent, prices>>

IntentBuilt(price) ==
  /\ building # NoIntent /\ building' = NoIntent
  /\ intent' = IF building.debtPrice # 0 /\ price # 0
               THEN [building EXCEPT !.collateralPrice = price, !.at = now] ELSE intent
  /\ UNCHANGED <<block, now, tracker, plans, queues, prices>>

InvalidateIntent ==
  /\ intent' = NoIntent
  /\ UNCHANGED <<block, now, tracker, plans, queues, building, prices>>

-----------------------------------------------------------------------------
\* PriceHotCacheService.

\* trackAssets and evictOldestAssets: those whose price was never fetched go first, the
\* new ones among them.
TrackAssets(as) ==
  LET all == tracked \cup as  over == Cardinality(all) - MaxCacheSize IN
  /\ tracked' \in
       IF over > 0
       THEN {all \ s : s \in {t \in SUBSET all : /\ Cardinality(t) = over
                                                 /\ \A a \in t, b \in all \ t : cached[a] <= cached[b]}}
       ELSE {all}
  /\ UNCHANGED <<block, now, tracker, plans, queues, intents, cached, fetching>>

UntrackAssets(as) ==
  /\ tracked' = tracked \ as
  /\ UNCHANGED <<block, now, tracker, plans, queues, intents, cached, fetching>>

\* refreshPrices, by the timer whether or not the last one ended.
RefreshPrices ==
  /\ fetching' = fetching \cup tracked
  /\ UNCHANGED <<block, now, tracker, plans, queues, intents, tracked, cached>>

\* fetchAndCachePrice: dated by its answer.
PriceFetched(a, known) ==
  /\ a \in fetching /\ fetching' = fetching \ {a}
  /\ cached' = IF known THEN [cached EXCEPT ![a] = now] ELSE cached
  /\ UNCHANGED <<block, now, tracker, plans, queues, intents, tracked>>

-----------------------------------------------------------------------------
NewBlock ==
  /\ block < MaxBlock /\ block' = block + 1
  /\ UNCHANGED <<now, tracker, plans, queues, intents, prices>>

Tick == now < MaxTime /\ now' = now + 1 /\ UNCHANGED <<block, tracker, plans, queues, intents, prices>>

HotStep ==
  \/ \E u \in Users, hf \in Hfs : Update(u, hf)
  \/ \E u \in Users : Remove(u)
  \/ Precompute
  \/ \E r \in readings, written \in BOOLEAN : PrecomputedForUser(r, written)
  \/ \E s \in SUBSET Users : Invalidate(s)
  \/ NewBlock

QueueStep ==
  \/ \E u \in Users, hf \in Hfs, p \in Priorities :
       \/ \E projected \in BOOLEAN : UpsertHot(u, hf, p, projected)
       \/ UpsertWarm(u, hf, p)
  \/ \E u \in Users : Dequeue(u)

IntentStep ==
  \/ \E d \in Debts, p \in Prices : BuildIntent(d, p)
  \/ \E p \in Prices : IntentBuilt(p)
  \/ InvalidateIntent
  \/ Tick

PriceStep ==
  \/ \E as \in SUBSET Assets : TrackAssets(as) \/ UntrackAssets(as)
  \/ RefreshPrices
  \/ \E a \in fetching, known \in BOOLEAN : PriceFetched(a, known)
  \/ Tick

Next == HotStep \/ QueueStep \/ IntentStep \/ PriceStep

Spec == Init /\ [][Next]_vars
=============================================================================
