------------------------------- MODULE TokenLookup -------------------------------
(***************************************************************************)
(* Symbols and decimals of tokens in the first bot.  Every reader goes to  *)
(* services/TokenMetadataRegistry.ts, which asks the reserves it was given *)
(* (AaveMetadata), a table, its memory, Redis, and then the chain, at most *)
(* MAX_CONCURRENT_FETCHES at a time.  On top of it AaveOracleHelper.ts and *)
(* AssetMetadataCache.ts keep answers of their own; TokenResolver.ts and   *)
(* TokenRegistry.ts read the chain themselves.  A cache may be filled from *)
(* another one, and each starts a clock of its own.                        *)
(***************************************************************************)
EXTENDS Integers, Sequences, FiniteSets, FiniteSetTheorems, TLAPS

CONSTANTS
  Tokens,
  Overrides,   \* tokens of BASE_OVERRIDES and KNOWN_TOKENS
  Callers,     \* those that ask, a subset of AllCallers
  Requests,    \* bound: lookups under way
  Slots,       \* MAX_CONCURRENT_FETCHES
  Ttl,         \* CACHE_TTL_MS, and TokenRegistry's cacheTtlMs
  NegativeTtl, \* NEGATIVE_CACHE_TTL_MS
  OuterTtl,    \* of each caller: metadataTtlMs, METADATA_TTL_MS, tokenCacheTtlMs, cacheTtlMs
  SupplyTtl,   \* TOTAL_SUPPLY_TTL_MS
  MaxTime      \* bound on the clock

\* "service": AaveDataService, which keeps nothing.
AllCallers == {"service", "helper", "asset", "resolver", "tokens"}

ASSUME TokenLookupAssumption ==
  /\ Overrides \subseteq Tokens /\ Callers \subseteq AllCallers
  /\ IsFiniteSet(Requests)
  /\ {Slots, Ttl, NegativeTtl, SupplyTtl, MaxTime} \subseteq Nat \ {0}
  /\ OuterTtl \in [AllCallers -> Nat]

Sources == {"none", "base", "override", "onchain", "unknown"}

\* What a cache holds of a token: where it comes from, when the chain was read
\* for it, and the time stamp the cache gave it.
Entries == [source : Sources, read : 0 .. MaxTime, at : 0 .. MaxTime]
NoEntry == [source |-> "none", read |-> 0, at |-> 0]

VARIABLES
  now,
  listed,            \* tokens AaveMetadata knows with a symbol
  redisUp,           \* setRedis was called
  memory, redis,     \* memoryCache; token:* keys, with when they were set
  negative,          \* negativeCache: the time stamp, 0 for none
  active, queue,     \* activeFetches, fetchQueue
  lookup,            \* of each request: pc, token and caller
  outer,             \* the cache of each caller
  metaRedis,         \* token:meta:* keys of TokenRegistry
  supplied           \* totalSupply of AssetMetadataCache is known

registry == <<memory, redis, negative>>
fetches == <<active, queue>>
callers == <<outer, metaRedis, supplied>>
vars == <<now, listed, redisUp, registry, fetches, lookup, callers>>

Idle == [pc |-> "idle"]
At(q, pc) == lookup[q].pc = pc

TypeOK ==
  /\ now \in 1 .. MaxTime
  /\ listed \subseteq Tokens /\ redisUp \in BOOLEAN
  /\ memory \in [Tokens -> Entries] /\ redis \in [Tokens -> Entries]
  /\ negative \in [Tokens -> 0 .. MaxTime]
  /\ active \in 0 .. Cardinality(Requests)
  /\ queue \in Seq(Requests)
  /\ lookup \in [Requests -> {Idle}
       \cup [pc : {"redis", "waiting", "woken", "fetching", "meta", "direct"},
             token : Tokens, caller : AllCallers]]
  /\ outer \in [AllCallers -> [Tokens -> Entries]]
  /\ metaRedis \in [Tokens -> Entries]
  /\ supplied \subseteq Tokens

Init ==
  /\ now = 1
  /\ listed \in SUBSET Tokens /\ redisUp \in BOOLEAN
  /\ memory = [t \in Tokens |-> NoEntry] /\ redis = [t \in Tokens |-> NoEntry]
  /\ negative = [t \in Tokens |-> 0]
  /\ active = 0 /\ queue = <<>>
  /\ lookup = [q \in Requests |-> Idle]
  /\ outer = [c \in AllCallers |-> [t \in Tokens |-> NoEntry]]
  /\ metaRedis = [t \in Tokens |-> NoEntry]
  /\ supplied = {}

Fresh(e, ttl) == e.at # 0 /\ now - e.at < ttl

Entry(source, read) == [source |-> source, read |-> read, at |-> now]

-----------------------------------------------------------------------------
\* What the callers keep.

\* getDecimals, getSymbol, getAssetMetadata, getTokenInfo, getTokenMeta: an entry
\* that is fresh answers, and nothing changes.
Unanswered(c, t) == ~Fresh(outer[c][t], OuterTtl[c])

\* The answer is kept with a time stamp of its own, the one of failure too:
\* the registry answers it with 18 decimals like any other.
Keep(c, t, e) ==
  /\ outer' = IF c = "service" THEN outer
              ELSE [outer EXCEPT ![c][t] = Entry(e.source, e.read)]
  /\ supplied' = IF c = "asset" THEN supplied \ {t} ELSE supplied

Answer(q, e) ==
  /\ Keep(lookup[q].caller, lookup[q].token, e)
  /\ lookup' = [lookup EXCEPT ![q] = Idle]

\* getTotalSupply of an asset that is cached: the supply has no time stamp of its
\* own, so that reading it renews the metadata.
TotalSupply(t) ==
  /\ "asset" \in Callers
  /\ ~Unanswered("asset", t)
  /\ ~(t \in supplied /\ Fresh(outer["asset"][t], SupplyTtl))
  /\ supplied' = supplied \cup {t}
  /\ outer' = [outer EXCEPT !["asset"][t].at = now]
  /\ UNCHANGED <<now, listed, redisUp, registry, fetches, lookup, metaRedis>>

\* clearCache and clearCaches of a caller.
ClearCaller(c) ==
  /\ outer[c] # [t \in Tokens |-> NoEntry]
  /\ outer' = [outer EXCEPT ![c] = [t \in Tokens |-> NoEntry]]
  /\ supplied' = IF c = "asset" THEN {} ELSE supplied
  /\ UNCHANGED <<now, listed, redisUp, registry, fetches, lookup, metaRedis>>

-----------------------------------------------------------------------------
\* TokenMetadataRegistry.

\* cacheResult: memory, and Redis when there is one.
CacheResult(t, source) ==
  /\ memory' = [memory EXCEPT ![t] = Entry(source, now)]
  /\ redis' = IF redisUp THEN [redis EXCEPT ![t] = Entry(source, now)] ELSE redis

\* get, as far as it runs without waiting: reserves, table, memory.
Ask(q, c, t) ==
  /\ At(q, "idle")
  /\ Unanswered(c, t)
  /\ c \in {"service", "helper", "asset"}
  /\ CASE t \in listed ->
            Keep(c, t, Entry("base", now)) /\ UNCHANGED <<registry, lookup>>
       [] t \notin listed /\ t \in Overrides ->
            /\ CacheResult(t, "override")
            /\ Keep(c, t, Entry("override", now))
            /\ UNCHANGED <<negative, lookup>>
       [] t \notin listed \cup Overrides /\ Fresh(memory[t], Ttl) ->
            Keep(c, t, memory[t]) /\ UNCHANGED <<registry, lookup>>
       [] OTHER ->
            /\ lookup' = [lookup EXCEPT ![q] = [pc |-> "redis", token |-> t, caller |-> c]]
            /\ UNCHANGED <<registry, outer, supplied>>
  /\ UNCHANGED <<now, listed, redisUp, fetches, metaRedis>>

\* Mutant: a key that is used is renewed.
FoundInRedisRewriting(q) ==
  LET t == lookup[q].token IN
  /\ At(q, "redis") /\ redisUp /\ Fresh(redis[t], Ttl)
  /\ memory' = [memory EXCEPT ![t] = Entry(redis[t].source, redis[t].read)]
  /\ redis' = [redis EXCEPT ![t].at = now]
  /\ Answer(q, redis[t])
  /\ UNCHANGED <<now, listed, redisUp, negative, fetches, metaRedis>>

\* Redis answers with a key that has not expired: memory takes it, as if it had
\* been read now.
FoundInRedis(q) ==
  LET t == lookup[q].token IN
  /\ At(q, "redis") /\ redisUp /\ Fresh(redis[t], Ttl)
  /\ memory' = [memory EXCEPT ![t] = Entry(redis[t].source, redis[t].read)]
  /\ Answer(q, redis[t])
  /\ UNCHANGED <<now, listed, redisUp, redis, negative, fetches, metaRedis>>

\* There is no such key, or the read failed: what failed a short while ago is not
\* tried again, and fetchFromOnChain takes a slot or waits for one.
NotInRedis(q) ==
  LET t == lookup[q].token IN
  /\ At(q, "redis")
  /\ IF negative[t] # 0 /\ now - negative[t] < NegativeTtl
     THEN Answer(q, Entry("unknown", now)) /\ UNCHANGED fetches
     ELSE /\ IF active >= Slots
             THEN queue' = Append(queue, q) /\ UNCHANGED active
             ELSE active' = active + 1 /\ UNCHANGED queue
          /\ lookup' = [lookup EXCEPT ![q].pc =
               IF active >= Slots THEN "waiting" ELSE "fetching"]
          /\ UNCHANGED <<outer, supplied>>
  /\ UNCHANGED <<now, listed, redisUp, registry, metaRedis>>

\* The promise of a request that waited is resolved: the code after it runs later,
\* and counts the slot then.
Woken(q) ==
  /\ At(q, "woken")
  /\ active' = active + 1
  /\ lookup' = [lookup EXCEPT ![q].pc = "fetching"]
  /\ UNCHANGED <<now, listed, redisUp, registry, queue, callers>>

\* Mutant: a read that failed keeps its slot.
ReleaseSucceeded(q, e) ==
  /\ Keep(lookup[q].caller, lookup[q].token, e)
  /\ IF queue = <<>> \/ e.source = "unknown"
     THEN lookup' = [lookup EXCEPT ![q] = Idle] /\ UNCHANGED queue
     ELSE /\ lookup' = [lookup EXCEPT ![q] = Idle, ![Head(queue)].pc = "woken"]
          /\ queue' = Tail(queue)
  /\ active' = IF e.source = "unknown" THEN active ELSE active - 1

\* The finally of fetchFromOnChain: the slot is given back, the first that waits woken.
Release(q, e) ==
  /\ active' = active - 1
  /\ Keep(lookup[q].caller, lookup[q].token, e)
  /\ IF queue = <<>>
     THEN lookup' = [lookup EXCEPT ![q] = Idle] /\ UNCHANGED queue
     ELSE /\ lookup' = [lookup EXCEPT ![q] = Idle, ![Head(queue)].pc = "woken"]
          /\ queue' = Tail(queue)

Fetched(q) ==
  LET t == lookup[q].token IN
  /\ At(q, "fetching")
  /\ \/ CacheResult(t, "onchain") /\ UNCHANGED negative
        /\ Release(q, Entry("onchain", now))
     \/ negative' = [negative EXCEPT ![t] = now] /\ UNCHANGED <<memory, redis>>
        /\ Release(q, Entry("unknown", now))
  /\ UNCHANGED <<now, listed, redisUp, metaRedis>>

\* pruneCache.
Prune ==
  /\ \E t \in Tokens : \/ memory[t].at # 0 /\ ~Fresh(memory[t], Ttl)
                       \/ negative[t] # 0 /\ now - negative[t] >= NegativeTtl
  /\ memory' = [t \in Tokens |-> IF Fresh(memory[t], Ttl) THEN memory[t] ELSE NoEntry]
  /\ negative' = [t \in Tokens |->
       IF now - negative[t] < NegativeTtl THEN negative[t] ELSE 0]
  /\ UNCHANGED <<now, listed, redisUp, redis, fetches, lookup, callers>>

\* The start-up connects Redis when the registry is in use already.
SetRedis ==
  /\ ~redisUp
  /\ redisUp' = TRUE
  /\ UNCHANGED <<now, listed, registry, fetches, lookup, callers>>

\* The process starts again: Redis keeps its keys, everything else is empty.
Restart ==
  /\ redisUp
  /\ redisUp' = FALSE
  /\ memory' = [t \in Tokens |-> NoEntry] /\ negative' = [t \in Tokens |-> 0]
  /\ active' = 0 /\ queue' = <<>>
  /\ lookup' = [q \in Requests |-> Idle]
  /\ outer' = [c \in AllCallers |-> [t \in Tokens |-> NoEntry]]
  /\ supplied' = {}
  /\ UNCHANGED <<now, listed, redis, metaRedis>>

\* A refresh of AaveMetadata finds the configuration and symbol of other reserves.
Relisted(ts) ==
  /\ listed' = ts
  /\ UNCHANGED <<now, redisUp, registry, fetches, lookup, callers>>

-----------------------------------------------------------------------------
\* TokenRegistry and TokenResolver: no limit on the reads, none of the answers of
\* the registry.

AskChain(q, c, t) ==
  /\ At(q, "idle")
  /\ Unanswered(c, t)
  /\ c \in {"tokens", "resolver"}
  /\ lookup' = [lookup EXCEPT ![q] =
       [pc |-> IF c = "tokens" THEN "meta" ELSE "direct", token |-> t, caller |-> c]]
  /\ UNCHANGED <<now, listed, redisUp, registry, fetches, callers>>

\* cacheMetadata: the key of Redis bears the time stamp of its writer.
CacheMetadata(t, source) == metaRedis' = [metaRedis EXCEPT ![t] = Entry(source, now)]

\* getFromRedis: a key is as old as its time stamp says.
GetFromRedis(t) == Fresh(metaRedis[t], Ttl)

\* getTokenMeta: memory starts anew with what Redis knew, or with the table.
MetaReply(q) ==
  LET t == lookup[q].token IN
  /\ At(q, "meta")
  /\ \/ GetFromRedis(t) /\ Answer(q, metaRedis[t]) /\ UNCHANGED metaRedis
     \/ t \in Overrides /\ CacheMetadata(t, "override") /\ Answer(q, Entry("override", now))
     \/ /\ t \notin Overrides
        /\ lookup' = [lookup EXCEPT ![q].pc = "direct"]
        /\ UNCHANGED <<outer, metaRedis, supplied>>
  /\ UNCHANGED <<now, listed, redisUp, registry, fetches>>

\* The rest of getTokenMeta: it throws, and keeps nothing, when the chain fails.
TokenMetaReply(q) ==
  /\ At(q, "direct") /\ lookup[q].caller = "tokens"
  /\ \/ CacheMetadata(lookup[q].token, "onchain") /\ Answer(q, Entry("onchain", now))
     \/ lookup' = [lookup EXCEPT ![q] = Idle] /\ UNCHANGED <<outer, metaRedis, supplied>>
  /\ UNCHANGED <<now, listed, redisUp, registry, fetches>>

\* getTokenInfo keeps a token it could not read as one with 18 decimals.
TokenInfoReply(q) ==
  /\ At(q, "direct") /\ lookup[q].caller = "resolver"
  /\ \E source \in {"onchain", "unknown"} : Answer(q, Entry(source, now))
  /\ UNCHANGED <<now, listed, redisUp, registry, fetches, metaRedis>>

-----------------------------------------------------------------------------
Tick ==
  /\ now < MaxTime
  /\ now' = now + 1
  /\ UNCHANGED <<listed, redisUp, registry, fetches, lookup, callers>>

Next ==
  \/ \E q \in Requests, t \in Tokens, c \in Callers : Ask(q, c, t) \/ AskChain(q, c, t)
  \/ \E q \in Requests :
       \/ FoundInRedis(q) \/ NotInRedis(q) \/ Woken(q) \/ Fetched(q)
       \/ MetaReply(q) \/ TokenMetaReply(q) \/ TokenInfoReply(q)
  \/ \E t \in Tokens : TotalSupply(t)
  \/ \E c \in Callers : ClearCaller(c)
  \/ \E ts \in SUBSET Tokens : Relisted(ts)
  \/ Prune \/ SetRedis \/ Restart \/ Tick

Spec == Init /\ [][Next]_vars

\* Redis and the chain answer or fail in the end, and the continuation of a
\* promise runs.
FairSpec ==
  /\ Spec
  /\ \A q \in Requests :
       /\ WF_vars(FoundInRedis(q) \/ NotInRedis(q))
       /\ WF_vars(Woken(q)) /\ WF_vars(Fetched(q))

-----------------------------------------------------------------------------
\* Caches in a row, each with a clock of its own, keep an answer of the chain for no
\* longer than the sum of their times: what memory took from Redis was read less than
\* Ttl before, also after a restart, and what a caller took from the registry less
\* than twice that.  A write to Redis is not awaited and its answer takes time; both are
\* at once here, and come on top.  Not so AssetMetadataCache, see TotalSupply.
AgeBounded ==
  /\ \A t \in Tokens : memory[t].source = "onchain" => memory[t].at - memory[t].read < Ttl
  /\ \A c \in DOMAIN outer \ {"asset"}, t \in Tokens :
       outer[c][t].source = "onchain" => outer[c][t].at - outer[c][t].read < 2 * Ttl - 1

\* A lookup that waits for a slot gets its answer, whatever becomes of those that
\* hold the slots.
EveryLookupEnds == \A q \in Requests : (lookup[q].pc = "waiting") ~> (lookup[q].pc = "idle")

-----------------------------------------------------------------------------
\* Proofs, for any tokens, callers, tables and times to live.

\* Entries as the proofs need them: the clock is a natural number.
Ages == [source : Sources, read : Nat, at : Nat]

Stored ==
  /\ now \in Nat \ {0}
  /\ memory \in [Tokens -> Ages] /\ redis \in [Tokens -> Ages]
  /\ metaRedis \in [Tokens -> Ages]
  /\ outer \in [AllCallers -> [Tokens -> Ages]]

\* What makes the bounds inductive: a key of Redis bears the time of its reading, and no
\* entry, failures included, is older than the caches in a row allow.
Aged ==
  /\ \A t \in Tokens :
       /\ redis[t].at = redis[t].read /\ metaRedis[t].at = metaRedis[t].read
       /\ memory[t].at - memory[t].read < Ttl
  /\ \A c \in AllCallers \ {"asset"}, t \in Tokens :
       outer[c][t].at - outer[c][t].read < 2 * Ttl - 1

AgeInv == Stored /\ Aged

\* A time stamp is a natural number.
LEMMA EntryType ==
  ASSUME Stored, NEW source \in Sources, NEW read \in Nat
  PROVE  Entry(source, read) \in Ages
  BY DEF Stored, Entry, Ages

\* A caller keeps an answer that is not too old, and nothing else changes.
LEMMA KeepInv ==
  ASSUME AgeInv, NEW c, NEW t, NEW e,
         c \in AllCallers /\ t \in Tokens => e.source \in Sources /\ e.read \in Nat,
         c \in AllCallers /\ t \in Tokens => now - e.read < 2 * Ttl - 1,
         Keep(c, t, e)
  PROVE  /\ outer' \in [AllCallers -> [Tokens -> Ages]]
         /\ \A d \in AllCallers \ {"asset"}, x \in Tokens :
              outer'[d][x].at - outer'[d][x].read < 2 * Ttl - 1
<1>1. CASE c = "service" \/ c \notin AllCallers \/ t \notin Tokens
  <2>1. outer' = outer
    BY <1>1 DEF Keep, AgeInv, Stored
  <2> QED BY <2>1 DEF AgeInv, Stored, Aged
<1>2. CASE c # "service" /\ c \in AllCallers /\ t \in Tokens
  <2>1. Entry(e.source, e.read) \in Ages
    BY <1>2, EntryType DEF AgeInv
  <2>2. outer' = [outer EXCEPT ![c][t] = Entry(e.source, e.read)]
    BY <1>2 DEF Keep
  <2>3. outer' \in [AllCallers -> [Tokens -> Ages]]
    BY <1>2, <2>1, <2>2 DEF AgeInv, Stored
  <2>4. \A d \in AllCallers, x \in Tokens :
          outer'[d][x] = IF d = c /\ x = t THEN Entry(e.source, e.read) ELSE outer[d][x]
    BY <1>2, <2>2 DEF AgeInv, Stored
  <2>5. Entry(e.source, e.read).at = now /\ Entry(e.source, e.read).read = e.read
    BY DEF Entry
  <2> QED BY <1>2, <2>3, <2>4, <2>5 DEF AgeInv, Aged
<1> QED BY <1>1, <1>2

\* What was read now is not too old for anybody.
LEMMA NowKept ==
  ASSUME AgeInv PROVE now \in Nat /\ now - now < 2 * Ttl - 1 /\ now - now < Ttl
  BY TokenLookupAssumption DEF AgeInv, Stored

\* cacheResult writes what was read now, to memory and to Redis.
LEMMA CacheInv ==
  ASSUME AgeInv, NEW t, NEW source \in Sources, CacheResult(t, source)
  PROVE  /\ memory' \in [Tokens -> Ages] /\ redis' \in [Tokens -> Ages]
         /\ \A x \in Tokens : /\ redis'[x].at = redis'[x].read
                              /\ memory'[x].at - memory'[x].read < Ttl
<1>1. Entry(source, now) \in Ages
  BY NowKept, EntryType DEF AgeInv
<1>2. Entry(source, now).at = now /\ Entry(source, now).read = now
  BY DEF Entry
<1>3. memory' \in [Tokens -> Ages] /\ redis' \in [Tokens -> Ages]
  BY <1>1 DEF CacheResult, AgeInv, Stored
<1>4. \A x \in Tokens :
        /\ memory'[x] = IF x = t THEN Entry(source, now) ELSE memory[x]
        /\ redis'[x] = Entry(source, now) \/ redis'[x] = redis[x]
  BY DEF CacheResult, AgeInv, Stored
<1> QED BY <1>2, <1>3, <1>4, NowKept DEF AgeInv, Aged

LEMMA NoEntryKept ==
  ASSUME AgeInv
  PROVE  NoEntry \in Ages /\ NoEntry.at = 0 /\ NoEntry.read = 0 /\ 0 - 0 < Ttl
         /\ 0 - 0 < 2 * Ttl - 1
  BY TokenLookupAssumption DEF NoEntry, Ages, Sources, AgeInv

LEMMA AgeInit == Init => AgeInv
<1> SUFFICES ASSUME Init PROVE AgeInv
  OBVIOUS
<1>1. NoEntry \in Ages /\ NoEntry.at = 0 /\ NoEntry.read = 0
  BY DEF NoEntry, Ages, Sources
<1>2. Ttl \in Nat \ {0}
  BY TokenLookupAssumption
<1>3. Stored
  BY <1>1 DEF Init, Stored
<1>4. Aged
  BY <1>1, <1>2 DEF Init, Aged
<1> QED BY <1>3, <1>4 DEF AgeInv

\* The steps of a lookup, whoever asks and whatever the table holds.

\* get for any table, and getTokenMeta.
AskAny(q, c, t) ==
  /\ At(q, "idle")
  /\ \/ \E source \in {"base", "override"} :
          /\ Keep(c, t, Entry(source, now))
          /\ CacheResult(t, source) \/ UNCHANGED <<memory, redis>>
          /\ UNCHANGED <<negative, lookup>>
     \/ Fresh(memory[t], Ttl) /\ Keep(c, t, memory[t]) /\ UNCHANGED <<registry, lookup>>
     \/ /\ lookup' = [lookup EXCEPT ![q] = [pc |-> "redis", token |-> t, caller |-> c]]
        /\ UNCHANGED <<registry, outer, supplied>>
  /\ UNCHANGED <<now, listed, redisUp, fetches, metaRedis>>

MetaReplyAny(q) ==
  LET t == lookup[q].token IN
  /\ At(q, "meta")
  /\ \/ GetFromRedis(t) /\ Answer(q, metaRedis[t]) /\ UNCHANGED metaRedis
     \/ CacheMetadata(t, "override") /\ Answer(q, Entry("override", now))
     \/ lookup' = [lookup EXCEPT ![q].pc = "direct"] /\ UNCHANGED <<outer, metaRedis, supplied>>
  /\ UNCHANGED <<now, listed, redisUp, registry, fetches>>

LookupStep ==
  \/ \E q \in Requests, t \in Tokens, c \in AllCallers : AskAny(q, c, t) \/ AskChain(q, c, t)
  \/ \E q \in Requests :
       \/ FoundInRedis(q) \/ NotInRedis(q) \/ Woken(q) \/ Fetched(q)
       \/ MetaReplyAny(q) \/ TokenMetaReply(q) \/ TokenInfoReply(q)
  \/ \E t \in Tokens : outer' = [outer EXCEPT !["asset"][t].at = now]
                       /\ supplied' = supplied \cup {t}
                       /\ UNCHANGED <<now, listed, redisUp, registry, fetches, lookup, metaRedis>>
  \/ \E c \in AllCallers : ClearCaller(c)
  \/ \E ts \in SUBSET Tokens : Relisted(ts)
  \/ Prune \/ SetRedis \/ Restart \/ Tick

LEMMA LookupSteps == Next => LookupStep
<1> SUFFICES ASSUME Next PROVE LookupStep
  OBVIOUS
<1>c. Callers \subseteq AllCallers
  BY TokenLookupAssumption
<1>1. ASSUME NEW q \in Requests, NEW t \in Tokens, NEW c \in Callers, Ask(q, c, t)
      PROVE  AskAny(q, c, t)
  BY <1>1 DEF Ask, AskAny, registry
<1>2. ASSUME NEW q \in Requests, MetaReply(q) PROVE MetaReplyAny(q)
  BY <1>2 DEF MetaReply, MetaReplyAny
<1>3. ASSUME NEW t \in Tokens, TotalSupply(t)
      PROVE  /\ outer' = [outer EXCEPT !["asset"][t].at = now] /\ supplied' = supplied \cup {t}
             /\ UNCHANGED <<now, listed, redisUp, registry, fetches, lookup, metaRedis>>
  BY <1>3 DEF TotalSupply
<1> QED BY <1>c, <1>1, <1>2, <1>3 DEF Next, LookupStep

LEMMA AgeNext == AgeInv /\ (LookupStep \/ UNCHANGED vars) => AgeInv'
<1> SUFFICES ASSUME AgeInv, LookupStep \/ UNCHANGED vars PROVE AgeInv'
  OBVIOUS
<1> USE DEF registry, fetches, callers
<1>t. Ttl \in Nat \ {0} /\ "override" \in Sources /\ "onchain" \in Sources
      /\ "base" \in Sources /\ "unknown" \in Sources
  BY TokenLookupAssumption DEF Sources
<1>m. \A t \in Tokens : memory[t] \in Ages /\ redis[t] \in Ages /\ metaRedis[t] \in Ages
  BY DEF AgeInv, Stored
<1>e. \A source : Entry(source, now).source = source /\ Entry(source, now).read = now
  BY DEF Entry
<1>0. ASSUME UNCHANGED <<now, memory, redis, metaRedis, outer>> PROVE AgeInv'
  BY <1>0 DEF AgeInv, Stored, Aged
\* Only a caller's cache changes.
<1>k. ASSUME NEW c, NEW t, NEW e, Keep(c, t, e),
             c \in AllCallers /\ t \in Tokens => e.source \in Sources /\ e.read \in Nat,
             c \in AllCallers /\ t \in Tokens => now - e.read < 2 * Ttl - 1,
             UNCHANGED <<now, memory, redis, metaRedis>>
      PROVE  AgeInv'
  <2>1. /\ outer' \in [AllCallers -> [Tokens -> Ages]]
        /\ \A d \in AllCallers \ {"asset"}, x \in Tokens :
             outer'[d][x].at - outer'[d][x].read < 2 * Ttl - 1
    BY <1>k, KeepInv
  <2> QED BY <1>k, <2>1 DEF AgeInv, Stored, Aged
\* A caller keeps what is read now, and the registry may.
<1>n. ASSUME NEW c, NEW t, NEW source \in Sources, Keep(c, t, Entry(source, now)),
             UNCHANGED <<now, metaRedis>>,
             \/ UNCHANGED <<memory, redis>>
             \/ CacheResult(t, source)
      PROVE  AgeInv'
  <2>1. /\ outer' \in [AllCallers -> [Tokens -> Ages]]
        /\ \A d \in AllCallers \ {"asset"}, x \in Tokens :
             outer'[d][x].at - outer'[d][x].read < 2 * Ttl - 1
    BY <1>n, <1>e, KeepInv, NowKept
  <2>2. /\ memory' \in [Tokens -> Ages] /\ redis' \in [Tokens -> Ages]
        /\ \A x \in Tokens : /\ redis'[x].at = redis'[x].read
                             /\ memory'[x].at - memory'[x].read < Ttl
    <3>1. CASE UNCHANGED <<memory, redis>>
      BY <3>1 DEF AgeInv, Stored, Aged
    <3> QED BY <1>n, <3>1, CacheInv
  <2> QED BY <1>n, <2>1, <2>2 DEF AgeInv, Stored, Aged
<1>1. ASSUME NEW q \in Requests, NEW t \in Tokens, NEW c \in AllCallers, AskAny(q, c, t)
      PROVE  AgeInv'
  <2>0. UNCHANGED <<now, metaRedis>>
    BY <1>1 DEF AskAny
  <2>1. ASSUME NEW source \in {"base", "override"}, Keep(c, t, Entry(source, now)),
               CacheResult(t, source) \/ UNCHANGED <<memory, redis>>
        PROVE  AgeInv'
    BY <2>0, <2>1, <1>n, <1>t
  <2>2. CASE Fresh(memory[t], Ttl) /\ Keep(c, t, memory[t]) /\ UNCHANGED registry
    <3>1. now - memory[t].at < Ttl
      BY <2>2 DEF Fresh
    <3>2. memory[t].at - memory[t].read < Ttl
      BY DEF AgeInv, Aged
    <3>3. memory[t].at \in Nat /\ memory[t].read \in Nat /\ memory[t].source \in Sources
      BY <1>m DEF Ages
    <3>4. now - memory[t].read < 2 * Ttl - 1
      BY <3>1, <3>2, <3>3, <1>t, NowKept
    <3> QED BY <2>0, <2>2, <3>3, <3>4, <1>k
  <2>3. CASE UNCHANGED <<registry, outer>>
    BY <2>0, <2>3, <1>0
  <2> QED BY <1>1, <2>1, <2>2, <2>3 DEF AskAny
<1>2. ASSUME NEW q \in Requests, FoundInRedis(q) PROVE AgeInv'
  <2> DEFINE t == lookup[q].token
             e == Entry(redis[t].source, redis[t].read)
  <2>1. /\ Fresh(redis[t], Ttl) /\ memory' = [memory EXCEPT ![t] = e]
        /\ Keep(lookup[q].caller, t, redis[t]) /\ UNCHANGED <<now, redis, metaRedis>>
    BY <1>2 DEF FoundInRedis, Answer
  <2>2. ASSUME t \in Tokens
        PROVE  /\ redis[t].source \in Sources /\ redis[t].read \in Nat
               /\ now - redis[t].read < Ttl /\ now - redis[t].read < 2 * Ttl - 1
    <3>1. redis[t].at = redis[t].read /\ redis[t] \in Ages
      BY <2>2, <1>m DEF AgeInv, Aged
    <3>2. now - redis[t].read < Ttl
      BY <2>1, <3>1 DEF Fresh
    <3> QED BY <3>1, <3>2, <1>t, NowKept DEF Ages
  <2>3. t \in Tokens => e \in Ages /\ e.at = now /\ e.read = redis[t].read
    BY <2>2, EntryType DEF AgeInv, Entry
  <2>4. /\ outer' \in [AllCallers -> [Tokens -> Ages]]
        /\ \A d \in AllCallers \ {"asset"}, x \in Tokens :
             outer'[d][x].at - outer'[d][x].read < 2 * Ttl - 1
    BY <2>1, <2>2, KeepInv
  <2> HIDE DEF t, e
  <2>5. memory' \in [Tokens -> Ages]
    BY <2>1, <2>3 DEF AgeInv, Stored
  <2>6. \A x \in Tokens : memory'[x] = IF x = t THEN e ELSE memory[x]
    BY <2>1 DEF AgeInv, Stored
  <2>7. \A x \in Tokens : memory'[x].at - memory'[x].read < Ttl
    BY <2>2, <2>3, <2>6 DEF AgeInv, Aged
  <2> QED BY <2>1, <2>4, <2>5, <2>7 DEF AgeInv, Stored, Aged
<1>3. ASSUME NEW q \in Requests, NotInRedis(q) PROVE AgeInv'
  <2>1. UNCHANGED <<now, memory, redis, metaRedis>>
    BY <1>3 DEF NotInRedis
  <2>2. UNCHANGED outer \/ Keep(lookup[q].caller, lookup[q].token, Entry("unknown", now))
    BY <1>3 DEF NotInRedis, Answer
  <2> QED BY <2>1, <2>2, <1>0, <1>n, <1>t
<1>4. ASSUME NEW q \in Requests, Woken(q) PROVE AgeInv'
  BY <1>4, <1>0 DEF Woken
<1>5. ASSUME NEW q \in Requests, Fetched(q) PROVE AgeInv'
  BY <1>5, <1>n, <1>t DEF Fetched, Release
\* TokenRegistry's keys: what is written bears the present time.
<1>w. ASSUME NEW t, NEW source \in Sources, CacheMetadata(t, source)
      PROVE  metaRedis' \in [Tokens -> Ages]
             /\ \A x \in Tokens : metaRedis'[x].at = metaRedis'[x].read
  <2>1. Entry(source, now) \in Ages
    BY NowKept, EntryType DEF AgeInv
  <2>2. Entry(source, now).at = Entry(source, now).read
    BY DEF Entry
  <2> QED BY <1>w, <2>1, <2>2 DEF CacheMetadata, AgeInv, Stored, Aged
<1>v. ASSUME NEW c, NEW t, NEW source \in Sources, CacheMetadata(t, source),
             Keep(c, t, Entry(source, now)), UNCHANGED <<now, memory, redis>>
      PROVE  AgeInv'
  <2>1. /\ outer' \in [AllCallers -> [Tokens -> Ages]]
        /\ \A d \in AllCallers \ {"asset"}, x \in Tokens :
             outer'[d][x].at - outer'[d][x].read < 2 * Ttl - 1
    BY <1>v, <1>e, KeepInv, NowKept
  <2> QED BY <1>v, <1>w, <2>1 DEF AgeInv, Stored, Aged
<1>6. ASSUME NEW q \in Requests, MetaReplyAny(q) PROVE AgeInv'
  <2> DEFINE t == lookup[q].token
  <2>0. UNCHANGED <<now, memory, redis>>
    BY <1>6 DEF MetaReplyAny
  <2>1. CASE GetFromRedis(t) /\ Answer(q, metaRedis[t]) /\ UNCHANGED metaRedis
    <3>1. ASSUME t \in Tokens
          PROVE  /\ metaRedis[t].source \in Sources /\ metaRedis[t].read \in Nat
                 /\ now - metaRedis[t].read < 2 * Ttl - 1
      <4>1. metaRedis[t].at = metaRedis[t].read /\ metaRedis[t] \in Ages
        BY <3>1, <1>m DEF AgeInv, Aged
      <4>2. now - metaRedis[t].read < Ttl
        BY <2>1, <4>1 DEF GetFromRedis, Fresh
      <4> QED BY <4>1, <4>2, <1>t, NowKept DEF Ages
    <3> QED BY <2>0, <2>1, <3>1, <1>k DEF Answer
  <2>2. CASE CacheMetadata(t, "override") /\ Answer(q, Entry("override", now))
    BY <2>0, <2>2, <1>v, <1>t DEF Answer
  <2>3. CASE UNCHANGED <<outer, metaRedis>>
    BY <2>0, <2>3, <1>0
  <2> QED BY <1>6, <2>1, <2>2, <2>3 DEF MetaReplyAny
<1>7. ASSUME NEW q \in Requests, TokenMetaReply(q) PROVE AgeInv'
  BY <1>7, <1>0, <1>v, <1>t DEF TokenMetaReply, Answer
<1>8. ASSUME NEW q \in Requests, TokenInfoReply(q) PROVE AgeInv'
  BY <1>8, <1>n, <1>t DEF TokenInfoReply, Answer
<1>9. ASSUME NEW q \in Requests, NEW t \in Tokens, NEW c \in AllCallers, AskChain(q, c, t)
      PROVE  AgeInv'
  BY <1>9, <1>0 DEF AskChain
<1>10. ASSUME NEW t \in Tokens, outer' = [outer EXCEPT !["asset"][t].at = now],
              UNCHANGED <<now, registry, metaRedis>>
       PROVE  AgeInv'
  <2>1. /\ "asset" \in AllCallers /\ outer' = [outer EXCEPT !["asset"][t].at = now]
        /\ UNCHANGED <<now, memory, redis, metaRedis>>
    BY <1>10 DEF AllCallers
  <2>2. outer["asset"][t] \in Ages
    BY <2>1 DEF AgeInv, Stored
  <2>3. [outer["asset"][t] EXCEPT !.at = now] \in Ages
    BY <2>2, NowKept DEF Ages
  <2>4. outer' \in [AllCallers -> [Tokens -> Ages]]
    BY <2>1, <2>3 DEF AgeInv, Stored
  <2>5. \A d \in AllCallers \ {"asset"} : outer'[d] = outer[d]
    BY <2>1 DEF AgeInv, Stored
  <2> QED BY <2>1, <2>4, <2>5 DEF AgeInv, Stored, Aged
<1>11. ASSUME NEW c \in AllCallers, ClearCaller(c) PROVE AgeInv'
  <2>1. /\ outer' = [outer EXCEPT ![c] = [t \in Tokens |-> NoEntry]]
        /\ UNCHANGED <<now, memory, redis, metaRedis>>
    BY <1>11 DEF ClearCaller
  <2>2. outer' \in [AllCallers -> [Tokens -> Ages]]
    BY <2>1, NoEntryKept DEF AgeInv, Stored
  <2>3. \A d \in AllCallers, x \in Tokens : outer'[d][x] = IF d = c THEN NoEntry ELSE outer[d][x]
    BY <2>1 DEF AgeInv, Stored
  <2> QED BY <2>1, <2>2, <2>3, NoEntryKept DEF AgeInv, Stored, Aged
<1>12. CASE Prune
  <2>1. /\ \A x \in Tokens : memory'[x] \in {memory[x], NoEntry}
        /\ memory' \in [Tokens -> Ages] /\ UNCHANGED <<now, redis, outer, metaRedis>>
    BY <1>12, <1>m, NoEntryKept DEF Prune
  <2> QED BY <2>1, NoEntryKept DEF AgeInv, Stored, Aged
<1>13. CASE Restart
  <2>1. /\ memory' = [t \in Tokens |-> NoEntry] /\ UNCHANGED <<now, redis, metaRedis>>
        /\ outer' = [c \in AllCallers |-> [t \in Tokens |-> NoEntry]]
    BY <1>13 DEF Restart
  <2> QED BY <2>1, NoEntryKept DEF AgeInv, Stored, Aged
<1>14. CASE SetRedis \/ \E ts \in SUBSET Tokens : Relisted(ts)
  BY <1>14, <1>0 DEF SetRedis, Relisted
<1>15. CASE Tick
  BY <1>15 DEF Tick, AgeInv, Stored, Aged
<1>16. CASE UNCHANGED vars
  BY <1>16, <1>0 DEF vars
<1> QED
  BY <1>1, <1>2, <1>3, <1>4, <1>5, <1>6, <1>7, <1>8, <1>9, <1>10, <1>11, <1>12, <1>13,
     <1>14, <1>15, <1>16 DEF LookupStep

\* Whatever callers, tables and times to live there are, and however often the process
\* restarts over the same Redis, a cache in a row keeps no answer beyond the sum of times.
THEOREM AnswersAreRecent == Spec => []AgeBounded
<1>1. AgeInv => AgeBounded
  BY DEF AgeInv, Stored, Aged, AgeBounded
<1>2. AgeInv /\ [Next]_vars => AgeInv'
  BY AgeNext, LookupSteps
<1> QED BY <1>1, <1>2, AgeInit, PTL DEF Spec

-----------------------------------------------------------------------------
\* Types.  Whoever asks, and whatever the table holds.

Waits == [pc : {"redis", "waiting", "woken", "fetching", "meta", "direct"},
          token : Tokens, caller : AllCallers]

Fetching == {q \in Requests : At(q, "fetching")}

\* The queue holds requests that wait, each of them once, so that the one that is woken is
\* one that waits; and a slot is counted for each request that holds one, which bounds the
\* count by the requests there are and not by Slots.
Queued ==
  /\ \A i \in 1 .. Len(queue) : At(queue[i], "waiting")
  /\ \A i, j \in 1 .. Len(queue) : i # j => queue[i] # queue[j]
  /\ active = Cardinality(Fetching)

LookupInv == TypeOK /\ Queued

\* The caches: an entry is dated by the clock and tells when the chain was read.
Caches ==
  /\ now \in 1 .. MaxTime
  /\ listed \subseteq Tokens /\ redisUp \in BOOLEAN
  /\ memory \in [Tokens -> Entries] /\ redis \in [Tokens -> Entries]
  /\ negative \in [Tokens -> 0 .. MaxTime]
  /\ outer \in [AllCallers -> [Tokens -> Entries]]
  /\ metaRedis \in [Tokens -> Entries]
  /\ supplied \subseteq Tokens

LEMMA LookupParts ==
  TypeOK <=> /\ Caches
             /\ lookup \in [Requests -> {Idle} \cup Waits]
             /\ active \in 0 .. Cardinality(Requests)
             /\ queue \in Seq(Requests)
  BY DEF TypeOK, Caches, Waits

LEMMA LookupPartsPrimed ==
  TypeOK' <=> /\ Caches'
              /\ lookup' \in [Requests -> {Idle} \cup Waits]
              /\ active' \in 0 .. Cardinality(Requests)
              /\ queue' \in Seq(Requests)
  BY DEF TypeOK, Caches, Waits

LEMMA Times == ASSUME Caches PROVE now \in 0 .. MaxTime /\ 0 \in 0 .. MaxTime /\ MaxTime \in Nat
  BY TokenLookupAssumption DEF Caches

LEMMA Dated ==
  ASSUME Caches, NEW source \in Sources, NEW read \in 0 .. MaxTime
  PROVE  Entry(source, read) \in Entries
  BY Times DEF Entry, Entries

LEMMA NothingDated == NoEntry \in Entries
  BY TokenLookupAssumption DEF NoEntry, Entries, Sources

LEMMA KeptTypes ==
  ASSUME Caches, NEW c, NEW t \in Tokens, NEW e \in Entries, Keep(c, t, e)
  PROVE  outer' \in [AllCallers -> [Tokens -> Entries]] /\ supplied' \subseteq Tokens
<1>1. Entry(e.source, e.read) \in Entries
  BY Dated DEF Entries
<1>2. PICK d : d = Entry(e.source, e.read)
  OBVIOUS
<1>3. outer' = outer \/ outer' = [outer EXCEPT ![c][t] = d]
  BY <1>2 DEF Keep
<1>4. outer' \in [AllCallers -> [Tokens -> Entries]]
  BY <1>1, <1>2, <1>3 DEF Caches
<1>5. supplied' \subseteq Tokens
  BY DEF Keep, Caches
<1> QED BY <1>4, <1>5

LEMMA CacheTypes ==
  ASSUME Caches, NEW t, NEW source \in Sources, CacheResult(t, source)
  PROVE  memory' \in [Tokens -> Entries] /\ redis' \in [Tokens -> Entries]
<1>1. PICK d : d = Entry(source, now)
  OBVIOUS
<1>2. d \in Entries
  BY <1>1, Times, Dated
<1> QED BY <1>1, <1>2 DEF CacheResult, Caches

\* A request past its start has a token.
LEMMA HasToken ==
  ASSUME TypeOK, NEW q \in Requests, lookup[q].pc # "idle"
  PROVE  lookup[q] \in Waits /\ lookup[q].token \in Tokens
<1>1. lookup[q] \in {Idle} \cup Waits
  BY LookupParts
<1>2. lookup[q] # Idle
  BY DEF Idle
<1> QED BY <1>1, <1>2 DEF Waits

LEMMA CachesNext == ASSUME TypeOK, LookupStep PROVE Caches'
<1> USE DEF registry, fetches, callers
<1>c. Caches
  BY LookupParts
<1>t. now \in 0 .. MaxTime /\ 0 \in 0 .. MaxTime /\ MaxTime \in Nat
  BY <1>c, Times
<1>s. \A s \in {"base", "override", "onchain", "unknown"} :
        s \in Sources /\ Entry(s, now) \in Entries
  BY <1>c, <1>t, Dated DEF Sources
<1>m. \A t \in Tokens : memory[t] \in Entries /\ redis[t] \in Entries /\ metaRedis[t] \in Entries
  BY <1>c DEF Caches
<1>0. ASSUME UNCHANGED <<now, listed, redisUp, registry, callers>> PROVE Caches'
  BY <1>0, <1>c DEF Caches
<1>k. ASSUME NEW c, NEW t \in Tokens, NEW e \in Entries, Keep(c, t, e),
             UNCHANGED <<now, listed, redisUp, registry, metaRedis>>
      PROVE  Caches'
  <2>1. outer' \in [AllCallers -> [Tokens -> Entries]] /\ supplied' \subseteq Tokens
    BY <1>c, <1>k, KeptTypes
  <2> QED BY <1>k, <1>c, <2>1 DEF Caches
<1>n. ASSUME NEW c, NEW t \in Tokens, NEW source \in {"base", "override", "onchain", "unknown"},
             Keep(c, t, Entry(source, now)), UNCHANGED <<now, listed, redisUp, metaRedis>>,
             CacheResult(t, source) \/ UNCHANGED <<memory, redis>>,
             negative' \in [Tokens -> 0 .. MaxTime]
      PROVE  Caches'
  <2>1. outer' \in [AllCallers -> [Tokens -> Entries]] /\ supplied' \subseteq Tokens
    BY <1>c, <1>n, <1>s, KeptTypes
  <2>2. memory' \in [Tokens -> Entries] /\ redis' \in [Tokens -> Entries]
    <3>1. CASE CacheResult(t, source)
      BY <1>c, <1>s, <3>1, CacheTypes
    <3>2. CASE UNCHANGED <<memory, redis>>
      BY <1>c, <3>2 DEF Caches
    <3> QED BY <1>n, <3>1, <3>2
  <2> QED BY <1>n, <1>c, <2>1, <2>2 DEF Caches
<1>g. negative \in [Tokens -> 0 .. MaxTime]
  BY <1>c DEF Caches
<1>1. ASSUME NEW q \in Requests, NEW t \in Tokens, NEW c \in AllCallers, AskAny(q, c, t)
      PROVE  Caches'
  <2>1. ASSUME NEW source \in {"base", "override"}, Keep(c, t, Entry(source, now)),
               CacheResult(t, source) \/ UNCHANGED <<memory, redis>>,
               UNCHANGED <<negative, lookup>>
        PROVE  Caches'
    <3>1. negative' \in [Tokens -> 0 .. MaxTime] /\ UNCHANGED <<now, listed, redisUp, metaRedis>>
      BY <1>1, <1>g, <2>1 DEF AskAny
    <3> QED BY <2>1, <3>1, <1>n
  <2>2. CASE Keep(c, t, memory[t]) /\ UNCHANGED <<registry, lookup>>
    BY <1>1, <2>2, <1>m, <1>k DEF AskAny
  <2>3. CASE UNCHANGED <<registry, outer, supplied>>
    BY <1>1, <2>3, <1>0 DEF AskAny
  <2> QED BY <1>1, <2>1, <2>2, <2>3 DEF AskAny
<1>2. ASSUME NEW q \in Requests, FoundInRedis(q) PROVE Caches'
  <2>1. PICK t \in Tokens : t = lookup[q].token
    BY <1>2, HasToken DEF FoundInRedis, At
  <2>2. PICK d : d = Entry(redis[t].source, redis[t].read)
    OBVIOUS
  <2>3. d \in Entries
    BY <2>2, <1>c, <1>m, Dated DEF Entries
  <2>4. /\ memory' = [memory EXCEPT ![t] = d] /\ Keep(lookup[q].caller, t, redis[t])
        /\ UNCHANGED <<now, listed, redisUp, redis, negative, metaRedis>>
    BY <1>2, <2>1, <2>2 DEF FoundInRedis, Answer
  <2>5. outer' \in [AllCallers -> [Tokens -> Entries]] /\ supplied' \subseteq Tokens
    BY <1>c, <1>m, <2>4, KeptTypes
  <2> QED BY <1>c, <2>3, <2>4, <2>5 DEF Caches
<1>3. ASSUME NEW q \in Requests, NotInRedis(q) PROVE Caches'
  <2>1. PICK t \in Tokens : t = lookup[q].token
    BY <1>3, HasToken DEF NotInRedis, At
  <2>2. /\ Keep(lookup[q].caller, t, Entry("unknown", now)) \/ UNCHANGED <<outer, supplied>>
        /\ UNCHANGED <<now, listed, redisUp, registry, metaRedis>>
    BY <1>3, <2>1 DEF NotInRedis, Answer
  <2> QED BY <2>2, <1>0, <1>k, <1>s
<1>4. ASSUME NEW q \in Requests, Woken(q) PROVE Caches'
  BY <1>4, <1>0 DEF Woken
<1>5. ASSUME NEW q \in Requests, Fetched(q) PROVE Caches'
  <2>1. PICK t \in Tokens : t = lookup[q].token
    BY <1>5, HasToken DEF Fetched, At
  <2>2. UNCHANGED <<now, listed, redisUp, metaRedis>>
    BY <1>5 DEF Fetched
  <2>3. CASE CacheResult(t, "onchain") /\ UNCHANGED negative
             /\ Keep(lookup[q].caller, t, Entry("onchain", now))
    BY <2>2, <2>3, <1>g, <1>n
  <2>4. CASE negative' = [negative EXCEPT ![t] = now] /\ UNCHANGED <<memory, redis>>
             /\ Keep(lookup[q].caller, t, Entry("unknown", now))
    <3>1. negative' \in [Tokens -> 0 .. MaxTime]
      BY <2>4, <1>g, <1>t
    <3> QED BY <2>2, <2>4, <3>1, <1>n
  <2> QED BY <1>5, <2>1, <2>3, <2>4 DEF Fetched, Release
<1>6. ASSUME NEW t \in Tokens, NEW c, NEW source \in {"override", "onchain"},
             CacheMetadata(t, source), Keep(c, t, Entry(source, now)),
             UNCHANGED <<now, listed, redisUp, registry>>
      PROVE  Caches'
  <2>1. metaRedis' \in [Tokens -> Entries]
    BY <1>6, <1>c, <1>s DEF CacheMetadata, Caches
  <2>2. outer' \in [AllCallers -> [Tokens -> Entries]] /\ supplied' \subseteq Tokens
    BY <1>c, <1>6, <1>s, KeptTypes
  <2> QED BY <1>6, <1>c, <2>1, <2>2 DEF Caches
<1>7. ASSUME NEW q \in Requests, MetaReplyAny(q) PROVE Caches'
  <2>1. PICK t \in Tokens : t = lookup[q].token
    BY <1>7, HasToken DEF MetaReplyAny, At
  <2>2. UNCHANGED <<now, listed, redisUp, registry>>
    BY <1>7 DEF MetaReplyAny
  <2>3. CASE Keep(lookup[q].caller, t, metaRedis[t]) /\ UNCHANGED metaRedis
    BY <2>2, <2>3, <1>m, <1>k
  <2>4. CASE CacheMetadata(t, "override") /\ Keep(lookup[q].caller, t, Entry("override", now))
    BY <2>2, <2>4, <1>6
  <2>5. CASE UNCHANGED <<outer, metaRedis, supplied>>
    BY <2>2, <2>5, <1>0
  <2> QED BY <1>7, <2>1, <2>3, <2>4, <2>5 DEF MetaReplyAny, Answer
<1>8. ASSUME NEW q \in Requests, TokenMetaReply(q) \/ TokenInfoReply(q) PROVE Caches'
  <2>1. PICK t \in Tokens : t = lookup[q].token
    BY <1>8, HasToken DEF TokenMetaReply, TokenInfoReply, At
  <2>2. UNCHANGED <<now, listed, redisUp, registry>>
    BY <1>8 DEF TokenMetaReply, TokenInfoReply
  <2>3. CASE CacheMetadata(t, "onchain") /\ Keep(lookup[q].caller, t, Entry("onchain", now))
    BY <2>2, <2>3, <1>6
  <2>4. CASE UNCHANGED <<outer, metaRedis, supplied>>
    BY <2>2, <2>4, <1>0
  <2>5. CASE UNCHANGED metaRedis /\ \E source \in {"onchain", "unknown"} :
               Keep(lookup[q].caller, t, Entry(source, now))
    BY <2>2, <2>5, <1>s, <1>k
  <2> QED BY <1>8, <2>1, <2>3, <2>4, <2>5 DEF TokenMetaReply, TokenInfoReply, Answer
<1>9. ASSUME NEW q \in Requests, NEW t \in Tokens, NEW c \in AllCallers, AskChain(q, c, t)
      PROVE  Caches'
  BY <1>9, <1>0 DEF AskChain
<1>10. ASSUME NEW t \in Tokens, outer' = [outer EXCEPT !["asset"][t].at = now],
              supplied' = supplied \cup {t},
              UNCHANGED <<now, listed, redisUp, registry, metaRedis>>
       PROVE  Caches'
  <2>1. outer["asset"][t] \in Entries
    BY <1>c DEF Caches, AllCallers
  <2>2. PICK d : d = [outer["asset"][t] EXCEPT !.at = now]
    OBVIOUS
  <2>3. d \in Entries
    BY <2>1, <2>2, <1>t DEF Entries
  <2>4. outer' = [outer EXCEPT !["asset"][t] = d]
    BY <1>10, <2>2, <1>c DEF Caches, AllCallers
  <2>5. outer' \in [AllCallers -> [Tokens -> Entries]]
    BY <2>3, <2>4, <1>c DEF Caches
  <2> QED BY <1>10, <1>c, <2>5 DEF Caches
<1>11. ASSUME NEW c \in AllCallers, ClearCaller(c) PROVE Caches'
  BY <1>11, <1>c, NothingDated DEF ClearCaller, Caches
<1>12. CASE Prune
  BY <1>12, <1>c, <1>m, <1>t, NothingDated DEF Prune, Caches
<1>13. CASE Restart
  BY <1>13, <1>c, <1>t, NothingDated DEF Restart, Caches
<1>14. CASE SetRedis \/ \E ts \in SUBSET Tokens : Relisted(ts)
  BY <1>14, <1>c DEF SetRedis, Relisted, Caches
<1>15. CASE Tick
  BY <1>15, <1>c, <1>t DEF Tick, Caches
<1> QED
  BY <1>1, <1>2, <1>3, <1>4, <1>5, <1>7, <1>8, <1>9, <1>10, <1>11, <1>12, <1>13, <1>14,
     <1>15 DEF LookupStep


\* A request that neither waits nor fetches goes on to something else than a fetch.
LEMMA OneGoes ==
  ASSUME LookupInv, NEW q \in Requests, ~ At(q, "waiting"), ~ At(q, "fetching"),
         NEW x \in {Idle} \cup Waits, x.pc # "fetching",
         lookup' = [lookup EXCEPT ![q] = x], UNCHANGED fetches
  PROVE  /\ lookup' \in [Requests -> {Idle} \cup Waits] /\ Queued'
         /\ active' \in 0 .. Cardinality(Requests) /\ queue' \in Seq(Requests)
<1>1. /\ lookup \in [Requests -> {Idle} \cup Waits] /\ queue \in Seq(Requests)
      /\ active \in 0 .. Cardinality(Requests)
  BY LookupParts DEF LookupInv
<1>2. \A p \in Requests : lookup'[p] = IF p = q THEN x ELSE lookup[p]
  BY <1>1
<1>3. Fetching' = Fetching
  BY <1>2 DEF Fetching, At
<1>4. \A i \in 1 .. Len(queue) : queue[i] \in Requests /\ queue[i] # q
  BY <1>1 DEF LookupInv, Queued
<1> QED BY <1>1, <1>2, <1>3, <1>4 DEF LookupInv, Queued, At, fetches

\* A request takes a slot.
LEMMA SlotTaken ==
  ASSUME LookupInv, NEW q \in Requests, lookup[q].pc \in {"redis", "woken"},
         lookup' = [lookup EXCEPT ![q].pc = "fetching"], active' = active + 1,
         UNCHANGED queue
  PROVE  /\ lookup' \in [Requests -> {Idle} \cup Waits] /\ Queued'
         /\ active' \in 0 .. Cardinality(Requests) /\ queue' \in Seq(Requests)
<1>1. /\ lookup \in [Requests -> {Idle} \cup Waits] /\ queue \in Seq(Requests)
  BY LookupParts DEF LookupInv
<1>2. lookup[q] \in Waits
  BY HasToken DEF LookupInv
<1>3. PICK x : x = [lookup[q] EXCEPT !.pc = "fetching"]
  OBVIOUS
<1>4. x \in Waits /\ x.pc = "fetching"
  BY <1>2, <1>3 DEF Waits
<1>5. lookup' = [lookup EXCEPT ![q] = x]
  BY <1>1, <1>3
<1>6. \A p \in Requests : lookup'[p] = IF p = q THEN x ELSE lookup[p]
  BY <1>1, <1>5
<1>7. Fetching' = Fetching \cup {q} /\ q \notin Fetching
  BY <1>4, <1>6 DEF Fetching, At
<1>8. IsFiniteSet(Fetching) /\ IsFiniteSet(Fetching') /\ IsFiniteSet(Requests)
      /\ Fetching' \subseteq Requests
  BY <1>7, TokenLookupAssumption, FS_Subset DEF Fetching
<1>9. Cardinality(Fetching') = Cardinality(Fetching) + 1
  BY <1>7, <1>8, FS_AddElement
<1>10. active' = Cardinality(Fetching')
  BY <1>9 DEF LookupInv, Queued
<1>11. active' \in 0 .. Cardinality(Requests)
  BY <1>8, <1>10, FS_Subset, FS_CardinalityType
<1>12. \A i \in 1 .. Len(queue) : queue[i] \in Requests /\ queue[i] # q
  BY <1>1 DEF LookupInv, Queued, At
<1>13. lookup' \in [Requests -> {Idle} \cup Waits]
  BY <1>1, <1>4, <1>5
<1>14. \A i \in 1 .. Len(queue) : At(queue[i], "waiting")'
  BY <1>6, <1>12 DEF LookupInv, Queued, At
<1> QED BY <1>1, <1>10, <1>11, <1>13, <1>14 DEF LookupInv, Queued

\* A request joins the queue.
LEMMA Joined ==
  ASSUME LookupInv, NEW q \in Requests, At(q, "redis"),
         lookup' = [lookup EXCEPT ![q].pc = "waiting"], queue' = Append(queue, q),
         UNCHANGED active
  PROVE  /\ lookup' \in [Requests -> {Idle} \cup Waits] /\ Queued'
         /\ active' \in 0 .. Cardinality(Requests) /\ queue' \in Seq(Requests)
<1>1. /\ lookup \in [Requests -> {Idle} \cup Waits] /\ queue \in Seq(Requests)
      /\ active \in 0 .. Cardinality(Requests)
  BY LookupParts DEF LookupInv
<1>2. lookup[q] \in Waits
  BY HasToken DEF LookupInv, At
<1>3. PICK x : x = [lookup[q] EXCEPT !.pc = "waiting"]
  OBVIOUS
<1>4. x \in Waits /\ x.pc = "waiting"
  BY <1>2, <1>3 DEF Waits
<1>5. lookup' = [lookup EXCEPT ![q] = x]
  BY <1>1, <1>3
<1>6. \A p \in Requests : lookup'[p] = IF p = q THEN x ELSE lookup[p]
  BY <1>1, <1>5
<1>7. Fetching' = Fetching
  BY <1>4, <1>6 DEF Fetching, At
<1>8. /\ queue' \in Seq(Requests) /\ Len(queue') = Len(queue) + 1
      /\ \A i \in 1 .. Len(queue) : queue'[i] = queue[i]
      /\ queue'[Len(queue) + 1] = q
  BY <1>1
<1>9. \A i \in 1 .. Len(queue) : queue[i] \in Requests /\ queue[i] # q /\ At(queue[i], "waiting")
  BY <1>1 DEF LookupInv, Queued, At
<1>10. \A i \in 1 .. Len(queue') : i \in 1 .. Len(queue) \/ i = Len(queue) + 1
  BY <1>1, <1>8
<1>11. \A i \in 1 .. Len(queue') : lookup'[queue'[i]].pc = "waiting"
  BY <1>4, <1>6, <1>8, <1>9, <1>10 DEF At
<1>12. \A i, j \in 1 .. Len(queue') : i # j => queue'[i] # queue'[j]
  BY <1>8, <1>9, <1>10 DEF LookupInv, Queued
<1>13. lookup' \in [Requests -> {Idle} \cup Waits]
  BY <1>1, <1>4, <1>5
<1> QED BY <1>1, <1>7, <1>8, <1>11, <1>12, <1>13 DEF LookupInv, Queued, At

\* A request gives its slot back: the first that waits is woken.
LEMMA SlotGiven ==
  ASSUME LookupInv, NEW q \in Requests, At(q, "fetching"), active' = active - 1,
         IF queue = <<>>
         THEN lookup' = [lookup EXCEPT ![q] = Idle] /\ UNCHANGED queue
         ELSE /\ lookup' = [lookup EXCEPT ![q] = Idle, ![Head(queue)].pc = "woken"]
              /\ queue' = Tail(queue)
  PROVE  /\ lookup' \in [Requests -> {Idle} \cup Waits] /\ Queued'
         /\ active' \in 0 .. Cardinality(Requests) /\ queue' \in Seq(Requests)
<1>1. /\ lookup \in [Requests -> {Idle} \cup Waits] /\ queue \in Seq(Requests)
      /\ active \in 0 .. Cardinality(Requests)
  BY LookupParts DEF LookupInv
<1>2. q \in Fetching /\ IsFiniteSet(Fetching)
  BY TokenLookupAssumption, FS_Subset DEF Fetching
<1>3. IsFiniteSet(Fetching \ {q}) /\ Cardinality(Fetching \ {q}) = Cardinality(Fetching) - 1
  BY <1>2, FS_RemoveElement
<1>4. active' = Cardinality(Fetching \ {q}) /\ Cardinality(Fetching \ {q}) \in Nat
  BY <1>3, FS_CardinalityType DEF LookupInv, Queued
<1>5. active' \in 0 .. Cardinality(Requests)
  BY <1>1, <1>4, TokenLookupAssumption, FS_CardinalityType
<1>i. Idle.pc = "idle"
  BY DEF Idle
<1>6. CASE queue = <<>>
  <2>1. \A p \in Requests : lookup'[p] = IF p = q THEN Idle ELSE lookup[p]
    BY <1>1, <1>6
  <2>2. Fetching' = Fetching \ {q}
    BY <1>i, <2>1 DEF Fetching, At
  <2>3. lookup' \in [Requests -> {Idle} \cup Waits] /\ queue' = <<>>
    BY <1>1, <1>6
  <2>4. Len(queue') = 0 /\ queue' \in Seq(Requests)
    BY <1>1, <1>6, <2>3
  <2> QED BY <1>4, <1>5, <2>2, <2>3, <2>4 DEF Queued
<1>7. CASE queue # <<>>
  <2>1. PICK h \in Requests : h = Head(queue)
    BY <1>1, <1>7
  <2>2. h = queue[1] /\ 1 \in 1 .. Len(queue)
    BY <1>1, <1>7, <2>1
  <2>3. At(h, "waiting") /\ h # q
    BY <2>2 DEF LookupInv, Queued, At
  <2>4. lookup[h] \in Waits
    BY <2>3, HasToken DEF LookupInv, At
  <2>5. PICK x : x = [lookup[h] EXCEPT !.pc = "woken"]
    OBVIOUS
  <2>6. x \in Waits /\ x.pc = "woken"
    BY <2>4, <2>5 DEF Waits
  <2>7. lookup' = [lookup EXCEPT ![q] = Idle, ![h].pc = "woken"] /\ queue' = Tail(queue)
    BY <1>7, <2>1
  <2>8. lookup' = [lookup EXCEPT ![q] = Idle, ![h] = x]
    BY <1>1, <2>3, <2>5, <2>7
  <2>9. \A p \in Requests : lookup'[p] = IF p = q THEN Idle ELSE IF p = h THEN x ELSE lookup[p]
    BY <1>1, <2>3, <2>8
  <2>10. Fetching' = Fetching \ {q}
    BY <1>i, <2>3, <2>6, <2>9 DEF Fetching, At
  <2>11. lookup' \in [Requests -> {Idle} \cup Waits]
    BY <1>1, <2>6, <2>8
  <2>12. /\ queue' \in Seq(Requests) /\ Len(queue') = Len(queue) - 1
         /\ \A i \in 1 .. Len(queue') : queue'[i] = queue[i + 1]
    BY <1>1, <1>7, <2>7
  <2>13. \A i \in 1 .. Len(queue') : i + 1 \in 1 .. Len(queue) /\ i + 1 # 1
    BY <1>1, <2>12
  <2>14. \A i \in 1 .. Len(queue') :
           queue'[i] \in Requests /\ queue'[i] # h /\ queue'[i] # q /\ At(queue'[i], "waiting")
    BY <1>1, <2>2, <2>12, <2>13 DEF LookupInv, Queued, At
  <2>15. \A i \in 1 .. Len(queue') : lookup'[queue'[i]].pc = "waiting"
    BY <2>9, <2>14 DEF At
  <2>16. \A i, j \in 1 .. Len(queue') : i # j => i + 1 # j + 1
    BY <1>1, <2>12
  <2>17. \A i, j \in 1 .. Len(queue') : i # j => queue'[i] # queue'[j]
    BY <2>12, <2>13, <2>16 DEF LookupInv, Queued
  <2> QED BY <1>4, <1>5, <2>10, <2>11, <2>12, <2>15, <2>17 DEF Queued, At
<1> QED BY <1>6, <1>7

LEMMA LookupNext == LookupInv /\ (LookupStep \/ UNCHANGED vars) => LookupInv'
<1> SUFFICES ASSUME LookupInv, LookupStep \/ UNCHANGED vars PROVE LookupInv'
  OBVIOUS
<1> DEFINE Goal == /\ lookup' \in [Requests -> {Idle} \cup Waits] /\ Queued'
                   /\ active' \in 0 .. Cardinality(Requests) /\ queue' \in Seq(Requests)
<1>1. /\ lookup \in [Requests -> {Idle} \cup Waits] /\ queue \in Seq(Requests)
      /\ active \in 0 .. Cardinality(Requests)
  BY LookupParts DEF LookupInv
<1>i. Idle.pc = "idle"
  BY DEF Idle
<1>w. \A q \in Requests : lookup[q].pc # "idle" => lookup[q] \in Waits
  BY HasToken DEF LookupInv
<1>c. Caches'
  <2>1. CASE LookupStep
    BY <2>1, CachesNext DEF LookupInv
  <2>2. CASE UNCHANGED vars
    BY <2>2, LookupParts DEF LookupInv, Caches, vars, registry, callers
  <2> QED BY <2>1, <2>2
<1>0. ASSUME UNCHANGED <<fetches, lookup>> PROVE Goal
  <2>1. Fetching' = Fetching
    BY <1>0 DEF Fetching, At
  <2> QED BY <1>0, <1>1, <2>1 DEF LookupInv, Queued, At, fetches
\* A request that neither waits nor fetches ends, or goes on.
<1>2. ASSUME NEW q \in Requests, ~ At(q, "waiting"), ~ At(q, "fetching"), UNCHANGED fetches,
             lookup' = [lookup EXCEPT ![q] = Idle]
      PROVE  Goal
  BY <1>2, <1>i, OneGoes
<1>3. ASSUME NEW q \in Requests, At(q, "meta"), UNCHANGED fetches,
             lookup' = [lookup EXCEPT ![q].pc = "direct"]
      PROVE  Goal
  <2>1. PICK x : x = [lookup[q] EXCEPT !.pc = "direct"]
    OBVIOUS
  <2>2. x \in Waits /\ x.pc # "fetching"
    BY <1>3, <1>w, <2>1 DEF Waits, At
  <2>3. lookup' = [lookup EXCEPT ![q] = x]
    BY <1>1, <1>3, <2>1
  <2> QED BY <1>3, <2>2, <2>3, OneGoes DEF At
<1>4. ASSUME NEW q \in Requests, NEW t \in Tokens, NEW c \in AllCallers, At(q, "idle"),
             NEW pc \in {"redis", "meta", "direct"}, UNCHANGED fetches,
             lookup' = [lookup EXCEPT ![q] = [pc |-> pc, token |-> t, caller |-> c]]
      PROVE  Goal
  <2>1. PICK x : x = [pc |-> pc, token |-> t, caller |-> c]
    OBVIOUS
  <2>2. x \in Waits /\ x.pc # "fetching"
    BY <2>1 DEF Waits
  <2> QED BY <1>4, <2>1, <2>2, OneGoes DEF At
<1>5. ASSUME NEW q \in Requests, NEW t \in Tokens, NEW c \in AllCallers,
             AskAny(q, c, t) \/ AskChain(q, c, t)
      PROVE  Goal
  <2>1. At(q, "idle") /\ UNCHANGED fetches
    BY <1>5 DEF AskAny, AskChain
  <2>2. \/ UNCHANGED lookup
        \/ \E pc \in {"redis", "meta", "direct"} :
             lookup' = [lookup EXCEPT ![q] = [pc |-> pc, token |-> t, caller |-> c]]
    BY <1>5 DEF AskAny, AskChain
  <2> QED BY <2>1, <2>2, <1>0, <1>4
<1>6. ASSUME NEW q \in Requests, NotInRedis(q) PROVE Goal
  <2>1. CASE UNCHANGED fetches /\ lookup' = [lookup EXCEPT ![q] = Idle]
    BY <1>2, <1>6, <2>1 DEF NotInRedis, At
  <2>2. CASE active >= Slots /\ queue' = Append(queue, q) /\ UNCHANGED active
             /\ lookup' = [lookup EXCEPT ![q].pc = "waiting"]
    BY <1>6, <2>2, Joined DEF NotInRedis
  <2>3. CASE ~(active >= Slots) /\ active' = active + 1 /\ UNCHANGED queue
             /\ lookup' = [lookup EXCEPT ![q].pc = "fetching"]
    BY <1>6, <2>3, SlotTaken DEF NotInRedis, At
  <2>4. \/ UNCHANGED fetches /\ lookup' = [lookup EXCEPT ![q] = Idle]
        \/ active >= Slots /\ queue' = Append(queue, q) /\ UNCHANGED active
           /\ lookup' = [lookup EXCEPT ![q].pc = "waiting"]
        \/ ~(active >= Slots) /\ active' = active + 1 /\ UNCHANGED queue
           /\ lookup' = [lookup EXCEPT ![q].pc = "fetching"]
    BY <1>6 DEF NotInRedis, Answer
  <2> QED BY <2>1, <2>2, <2>3, <2>4
<1>7. ASSUME NEW q \in Requests, Woken(q) PROVE Goal
  BY <1>7, SlotTaken DEF Woken, At
<1>8. ASSUME NEW q \in Requests, Fetched(q) PROVE Goal
  BY <1>8, SlotGiven DEF Fetched, Release
<1>9. ASSUME NEW q \in Requests,
             FoundInRedis(q) \/ MetaReplyAny(q) \/ TokenMetaReply(q) \/ TokenInfoReply(q)
      PROVE  Goal
  <2>1. lookup[q].pc \in {"redis", "meta", "direct"} /\ UNCHANGED fetches
    BY <1>9 DEF FoundInRedis, MetaReplyAny, TokenMetaReply, TokenInfoReply, At
  <2>2. \/ lookup' = [lookup EXCEPT ![q] = Idle]
        \/ At(q, "meta") /\ lookup' = [lookup EXCEPT ![q].pc = "direct"]
    BY <1>9 DEF FoundInRedis, MetaReplyAny, TokenMetaReply, TokenInfoReply, Answer
  <2> QED BY <2>1, <2>2, <1>2, <1>3 DEF At
<1>10. ASSUME Restart PROVE Goal
  <2>1. lookup' = [p \in Requests |-> Idle] /\ active' = 0 /\ queue' = <<>>
    BY <1>10 DEF Restart
  <2>2. Fetching' = {}
    BY <2>1, <1>i DEF Fetching, At
  <2>3. Cardinality({}) = 0 /\ Cardinality(Requests) \in Nat
    BY TokenLookupAssumption, FS_EmptySet, FS_CardinalityType
  <2>4. 0 \in 0 .. Cardinality(Requests)
    BY <2>3
  <2> QED BY <2>1, <2>2, <2>3, <2>4 DEF Queued
<1>11. ASSUME UNCHANGED <<fetches, lookup>> \/ UNCHANGED vars PROVE Goal
  BY <1>0, <1>11 DEF vars
<1>12. Goal
  <2>1. CASE LookupStep
    <3>1. ASSUME \E c \in AllCallers : ClearCaller(c) PROVE Goal
      BY <3>1, <1>0 DEF ClearCaller
    <3>2. ASSUME \/ \E ts \in SUBSET Tokens : Relisted(ts)
                 \/ Prune \/ SetRedis \/ Tick
          PROVE  Goal
      BY <3>2, <1>0 DEF Relisted, Prune, SetRedis, Tick
    <3>3. ASSUME \E t \in Tokens :
                   /\ outer' = [outer EXCEPT !["asset"][t].at = now]
                   /\ supplied' = supplied \cup {t}
                   /\ UNCHANGED <<now, listed, redisUp, registry, fetches, lookup, metaRedis>>
          PROVE  Goal
      BY <3>3, <1>0
    <3> HIDE DEF Goal
    <3> QED BY <2>1, <3>1, <3>2, <3>3, <1>0, <1>5, <1>6, <1>7, <1>8, <1>9, <1>10 DEF LookupStep
  <2> QED BY <2>1, <1>11
<1> QED BY <1>c, <1>12, LookupPartsPrimed DEF LookupInv

LEMMA LookupInit == Init => LookupInv
<1> SUFFICES ASSUME Init PROVE LookupInv
  OBVIOUS
<1>1. NoEntry \in Entries /\ MaxTime \in Nat \ {0}
  BY NothingDated, TokenLookupAssumption
<1>2. Caches
  BY <1>1 DEF Init, Caches
<1>3. Fetching = {}
  BY DEF Init, Fetching, At, Idle
<1>4. Cardinality({}) = 0 /\ Cardinality(Requests) \in Nat
  BY TokenLookupAssumption, FS_EmptySet, FS_CardinalityType
<1>5. 0 \in 0 .. Cardinality(Requests)
  BY <1>4
<1>6. TypeOK
  BY <1>2, <1>5, LookupParts DEF Init
<1> QED BY <1>3, <1>4, <1>6 DEF Init, LookupInv, Queued


\* However requests ask, wait, are woken and end, and whenever the process restarts, every
\* variable keeps its type: whoever is woken waits, and no more slots are counted than
\* there are requests.
THEOREM LookupTypeCorrect == Spec => []TypeOK
<1>1. LookupInv /\ [Next]_vars => LookupInv'
  BY LookupNext, LookupSteps
<1>2. LookupInv => TypeOK
  BY DEF LookupInv
<1> QED BY <1>1, <1>2, LookupInit, PTL DEF Spec
=============================================================================
