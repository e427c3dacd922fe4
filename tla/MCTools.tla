------------------------------- MODULE MCTools --------------------------------
(***************************************************************************)
(* What the two bots look up and keep at hand, for TLC: the lookup of      *)
(* tokens, the data of Aave, the candidates and their trackers, the        *)
(* critical lane, what is prepared ahead and the hot sets of backend, and  *)
(* the seeding of backend-v2. They share no variable here and take no step *)
(* together, so a behaviour follows one of them, or one part of one, and   *)
(* the others stay where they start.                                       *)
(***************************************************************************)
EXTENDS TokenLookup, SequenceTheorems, WellFoundedInduction

CONSTANTS
  Reserves, Refreshes,        \* AaveData
  RefreshInterval, MaxChanges, AaveTime,
  Users,                      \* Candidates, Universe, Prestage, HotSets
  MaxCandidates,              \* Candidates, Universe
  Tracked, Symbols,           \* Candidates
  TrackedHfs, Touched, AlwaysInclude, MaxEntries, RecheckBatch, ScanMax, MinDelta,
  MaxIndex, TrackersTime,
  BatchSize, PageAttempts, MaxMoves,  \* Universe
  Borrowers, Attempts, Runs,  \* CriticalLane
  LockTtl, SnapshotTtl, AbortAfter, MaxUnprofitable, CriticalTime,
  Scenarios, Pairs, Submits,  \* Prestage
  StageHfs, Window, PreSimHf, PrestageHf, NearBand, ClearInterval, MaxBatch,
  MaxPrestaged, StaleBlocks, MaxTemplates, RefreshBlocks, TtlBlocks, StageTime,
  Assets,                     \* HotSets
  HotHfs, HotHf, WarmHf, MaxHotSize, MaxWarmSize, Priorities, TopK, Prices, Debts,
  MaxIntentAge, MaxCacheSize, HotTime,
  MaxBlock                    \* Prestage, HotSets

VARIABLES
  component,
  aaveNow, changes, owed, listing, link, open, wsHealthy, probing, read, hasCache,
  account, known, lastRefreshTime, isInitialized, refresh,
  trackersNow, recordMode, lastHF, touchedAt, lastTouchedReserves, entries, minHF,
  index, reserveIndices, checks, recorded, scan,
  position, moves, stage, query, seed, unread, risk, watched, indexed, fetching,
  dirty, last, verdict,
  criticalNow, subscribed, lock, snapshot, attempt, run, allowUnprofitable,
  unprofitableExecutions,
  block, stageNow, hfHistory, preSimQueue, prestageCache, prestageCacheLastClearBlock,
  staging, candidates, templates, submit, cleanup, isShuttingDown,
  hotBlock, hotNow, hotSet, warmSet, precomputed, readings, hotQueue, warmQueue,
  intent, building, tracked, cached, priced

\* The caches outside TokenMetadataRegistry keep what they got for two seconds.
CallersTtl == [c \in AllCallers |-> 2]

\* Callers who ask alone: the cache of assets, with every token in the table, and those
\* that read the chain themselves.
AssetLookup == INSTANCE TokenLookup WITH
  Callers <- {"asset"}, Overrides <- Tokens
ResolverLookup == INSTANCE TokenLookup WITH
  Callers <- {"resolver", "tokens"}
Aave == INSTANCE AaveData WITH
  MaxTime <- AaveTime, now <- aaveNow, active <- listing
Trackers == INSTANCE Candidates WITH
  Assets <- Tracked, Hfs <- TrackedHfs, MaxBatch <- RecheckBatch,
  MaxTime <- TrackersTime, now <- trackersNow
Seeding == INSTANCE Universe WITH
  Attempts <- PageAttempts
Critical == INSTANCE CriticalLane WITH
  Users <- Borrowers, MaxTime <- CriticalTime, now <- criticalNow
Stage == INSTANCE Prestage WITH
  Hfs <- StageHfs, MaxEntries <- MaxTemplates, MaxTime <- StageTime, now <- stageNow
Hot == INSTANCE HotSets WITH
  Hfs <- HotHfs, MaxTime <- HotTime, block <- hotBlock, now <- hotNow,
  fetching <- priced

ASSUME PartAssumptions ==
  /\ Aave!AaveDataAssumption
  /\ Trackers!CandidatesAssumption /\ Seeding!UniverseAssumption
  /\ Critical!CriticalLaneAssumption /\ Stage!PrestageAssumption
  /\ Hot!HotSetsAssumption

aaveVars == <<aaveNow, changes, owed, listing, link, open, wsHealthy, probing, read,
              hasCache, account, known, lastRefreshTime, isInitialized, refresh>>
trackersVars == <<trackersNow, recordMode, lastHF, touchedAt, lastTouchedReserves,
                  entries, minHF, index, reserveIndices, checks, recorded, scan>>
seedingVars == <<position, moves, stage, query, seed, unread, risk, watched, indexed,
                 fetching, dirty, last, verdict>>
criticalVars == <<criticalNow, subscribed, lock, snapshot, attempt, run,
                  allowUnprofitable, unprofitableExecutions>>
prestageVars == <<block, stageNow, hfHistory, preSimQueue, prestageCache,
                  prestageCacheLastClearBlock, staging, candidates, templates, submit,
                  cleanup, isShuttingDown>>
hotsetsVars == <<hotBlock, hotNow, hotSet, warmSet, precomputed, readings,
                 hotQueue, warmQueue, intent, building, tracked, cached, priced>>
toolsVars == <<component, vars, aaveVars, trackersVars, seedingVars, criticalVars,
               prestageVars, hotsetsVars>>

ToolsInit ==
  /\ component \in {"service", "asset", "resolver", "read", "metadata", "trackers",
                     "seeding", "lane", "process", "ahead", "ingest", "sprinter",
                     "submit", "hot", "queue", "intent", "price"}
  /\ Init
  /\ component \notin {"service", "asset", "resolver"} => listed = {} /\ ~redisUp
  /\ Aave!Init
  /\ component # "read" => link.socket /\ link.http
  /\ component # "metadata" =>
       hasCache /\ refresh[CHOOSE f \in Refreshes : TRUE].pc = "list"
  /\ component \notin {"read", "metadata"} => owed = {}
  /\ Trackers!Init
  /\ component # "trackers" => recordMode = "all"
  /\ Seeding!Init
  /\ component # "seeding" => position = [u \in Users |-> "none"]
  /\ Critical!Init
  /\ component \notin {"lane", "process"} =>
       allowUnprofitable /\ \A u \in Borrowers : ~snapshot[u].low
  /\ Stage!Init
  /\ component # "submit" =>
       submit = [t \in Submits |-> [pc |-> "unsent", block |-> 0,
                                   user |-> CHOOSE u \in Users : TRUE]]
  /\ Hot!Init

\* A step of one component leaves the variables of the others alone.
FollowLookup ==
  /\ component \in {"service", "asset", "resolver"}
  /\ UNCHANGED <<component, aaveVars, trackersVars, seedingVars, criticalVars,
                  prestageVars, hotsetsVars>>
FollowAave ==
  /\ component \in {"read", "metadata"}
  /\ UNCHANGED <<component, vars, trackersVars, seedingVars, criticalVars, prestageVars,
                  hotsetsVars>>
FollowTrackers ==
  /\ component = "trackers"
  /\ UNCHANGED <<component, vars, aaveVars, seedingVars, criticalVars, prestageVars,
                  hotsetsVars>>
FollowSeeding ==
  /\ component = "seeding"
  /\ UNCHANGED <<component, vars, aaveVars, trackersVars, criticalVars, prestageVars,
                  hotsetsVars>>
FollowCritical ==
  /\ component \in {"lane", "process"}
  /\ UNCHANGED <<component, vars, aaveVars, trackersVars, seedingVars, prestageVars,
                  hotsetsVars>>
FollowPrestage ==
  /\ component \in {"ahead", "ingest", "sprinter", "submit"}
  /\ UNCHANGED <<component, vars, aaveVars, trackersVars, seedingVars, criticalVars,
                  hotsetsVars>>
FollowHotsets ==
  /\ component \in {"hot", "queue", "intent", "price"}
  /\ UNCHANGED <<component, vars, aaveVars, trackersVars, seedingVars, criticalVars,
                  prestageVars>>

ToolsNext ==
  \/ FollowLookup /\ component = "service" /\ Next
  \/ FollowLookup /\ component = "asset" /\ AssetLookup!Next
  \/ FollowLookup /\ component = "resolver" /\ ResolverLookup!Next
  \/ FollowAave /\ component = "read" /\ Aave!ReadStep
  \/ FollowAave /\ component = "metadata" /\ Aave!MetadataStep
  \/ FollowTrackers /\ Trackers!Next
  \/ FollowSeeding /\ Seeding!Next
  \/ FollowCritical /\ component = "lane" /\ Critical!LaneStep
  \/ FollowCritical /\ component = "process" /\ Critical!ProcessStep
  \/ FollowPrestage /\ component = "ahead" /\ Stage!AheadStep
  \/ FollowPrestage /\ component = "ingest" /\ Stage!IngestStep
  \/ FollowPrestage /\ component = "sprinter" /\ Stage!SprinterStep
  \/ FollowPrestage /\ component = "submit" /\ Stage!SubmitStep
  \/ FollowHotsets /\ component = "hot" /\ Hot!HotStep
  \/ FollowHotsets /\ component = "queue" /\ Hot!QueueStep
  \/ FollowHotsets /\ component = "intent" /\ Hot!IntentStep
  \/ FollowHotsets /\ component = "price" /\ Hot!PriceStep

\* With the fairness of each component's FairSpec.
ToolsSpec ==
  /\ ToolsInit /\ [][ToolsNext]_toolsVars
  /\ \A q \in Requests :
       /\ WF_toolsVars(FollowLookup /\ component = "service" /\ (FoundInRedis(q) \/ NotInRedis(q)))
       /\ WF_toolsVars(FollowLookup /\ component = "service" /\ Woken(q))
       /\ WF_toolsVars(FollowLookup /\ component = "service" /\ Fetched(q))

-----------------------------------------------------------------------------
\* The properties, see the components; those of TokenLookup are stated there.

\* Every variable has its type, and what is kept at hand has its limits: candidates and low
\* health factors, the hot and the warm set, the queues, histories and staged candidates.
ToolsTypeOK ==
  /\ TypeOK /\ Aave!TypeOK /\ Trackers!TypeOK /\ Seeding!TypeOK
  /\ Critical!TypeOK /\ Stage!TypeOK /\ Hot!TypeOK
  /\ Trackers!WithinLimits /\ Stage!WithinLimits /\ Hot!WithinLimits

\* AaveData: with HTTP at hand a listing misses no debt for a destroyed socket.
ListingIsWhole == Aave!ListingIsWhole

-----------------------------------------------------------------------------
\* That last property, proved for any reserves, refreshes and intervals.

Reading ==
  [pc : Aave!Calls \cup {"idle"}, canonical : BOOLEAN, via : {"ws", "http"},
   left : SUBSET Reserves, asset : Reserves \cup {Aave!NoReserve},
   listed : SUBSET Reserves, owing : SUBSET Reserves, failed : SUBSET Reserves]

\* What a listing has still to ask for.
Ahead(r) ==
  CASE r.pc = "idle" -> {}
    [] r.pc = "list" -> Reserves
    [] OTHER -> r.left \cup {r.asset}

\* The listings the theorem is about: none of their calls goes to the cache, and what the
\* user owes all the while is listed, dropped for its own errors, or still to come.
Complete(r) ==
  link.http /\ ~r.canonical =>
    r.pc # "cache" /\ r.owing \subseteq r.listed \cup r.failed \cup Ahead(r)

\* A listing past its list is at a reserve, and knows no debt that is not one now.
Sound(r) ==
  /\ r \in Reading
  /\ r.pc \notin {"idle", "list"} => r.asset \in Reserves
  /\ r.pc # "idle" => r.owing \subseteq owed
  /\ Complete(r)

ReadInv == owed \subseteq Reserves /\ Sound(read)

LEMMA ReadingCalls ==
  \A r \in Reading, pc \in Aave!Calls \ {"list"} :
    /\ r.asset \in Reserves /\ r.owing \subseteq owed
    /\ link.http /\ ~r.canonical =>
         pc # "cache" /\ r.owing \subseteq r.listed \cup r.failed \cup r.left \cup {r.asset}
    => Sound(Aave!Call(pc, r))
<1> SUFFICES ASSUME NEW r \in Reading, NEW pc \in Aave!Calls \ {"list"},
                    r.asset \in Reserves, r.owing \subseteq owed,
                    link.http /\ ~r.canonical =>
                      /\ pc # "cache"
                      /\ r.owing \subseteq r.listed \cup r.failed \cup r.left \cup {r.asset}
             PROVE  Sound(Aave!Call(pc, r))
  OBVIOUS
<1>1. PICK via \in {"ws", "http"} : Aave!Call(pc, r) = [r EXCEPT !.pc = pc, !.via = via]
  BY DEF Aave!Call, Aave!Route, Aave!Own
<1>2. PICK q : q = Aave!Call(pc, r)
  OBVIOUS
<1>3. /\ q \in Reading /\ q.pc = pc /\ q.asset = r.asset /\ q.owing = r.owing
      /\ q.canonical = r.canonical /\ q.listed = r.listed /\ q.failed = r.failed
      /\ q.left = r.left
  BY <1>1, <1>2 DEF Reading
<1>4. pc # "idle" /\ pc # "list"
  BY DEF Aave!Calls
<1>5. Ahead(q) = r.left \cup {r.asset}
  BY <1>3, <1>4 DEF Ahead
<1>6. Complete(q)
  BY <1>3, <1>5 DEF Complete
<1>7. Sound(q)
  BY <1>3, <1>4, <1>6 DEF Sound
<1> QED BY <1>2, <1>7

LEMMA ReadingGoesOn ==
  \A r \in Reading :
    /\ r.owing \subseteq owed
    /\ link.http /\ ~r.canonical => r.owing \subseteq r.listed \cup r.failed \cup r.left
    => \A q \in Aave!Onward(r) : Sound(q)
<1> SUFFICES ASSUME NEW r \in Reading, r.owing \subseteq owed,
                    link.http /\ ~r.canonical =>
                      r.owing \subseteq r.listed \cup r.failed \cup r.left,
                    NEW q \in Aave!Onward(r)
             PROVE  Sound(q)
  OBVIOUS
<1>1. CASE r.left = {}
  <2>1. q = [r EXCEPT !.pc = "idle", !.asset = Aave!NoReserve]
    BY <1>1 DEF Aave!Onward
  <2>2. /\ q \in Reading /\ q.pc = "idle" /\ q.owing = r.owing
        /\ q.canonical = r.canonical /\ q.listed = r.listed /\ q.failed = r.failed
    BY <2>1 DEF Reading
  <2>3. Complete(q)
    BY <1>1, <2>2 DEF Complete, Ahead
  <2> QED BY <2>2, <2>3 DEF Sound
<1>2. CASE r.left # {}
  <2>1. PICK a \in r.left : q = Aave!Call("user", [r EXCEPT !.asset = a, !.left = @ \ {a}])
    BY <1>2 DEF Aave!Onward
  <2>2. PICK p : p = [r EXCEPT !.asset = a, !.left = @ \ {a}]
    OBVIOUS
  <2>3. /\ p \in Reading /\ p.asset = a /\ a \in Reserves /\ p.left = r.left \ {a}
        /\ p.owing = r.owing /\ p.canonical = r.canonical /\ p.listed = r.listed
        /\ p.failed = r.failed
    BY <2>2 DEF Reading
  <2>4. "user" \in Aave!Calls \ {"list"} /\ "user" # "cache"
    BY DEF Aave!Calls
  <2>5. p.asset \in Reserves /\ p.owing \subseteq owed
    BY <2>3
  <2>6. link.http /\ ~p.canonical =>
          p.owing \subseteq p.listed \cup p.failed \cup p.left \cup {p.asset}
    BY <2>3
  <2>7. Sound(Aave!Call("user", p))
    BY <2>3, <2>4, <2>5, <2>6, ReadingCalls
  <2> QED BY <2>1, <2>2, <2>7
<1> QED BY <1>1, <1>2

\* The reading goes on as it should, and the chain and the providers stay.
LEMMA ReadFollows ==
  ASSUME ReadInv, NEW q, Sound(q), read' = q, UNCHANGED <<owed, link>>
  PROVE  ReadInv'
<1>1. Sound(q)'
  BY DEF Sound, Complete, Ahead, Reading
<1> QED BY <1>1 DEF ReadInv

LEMMA NothingRead ==
  \A canonical \in BOOLEAN : \A owing \in SUBSET Reserves :
    /\ Aave!NoRead \in Reading
    /\ LET r == [Aave!NoRead EXCEPT !.canonical = canonical, !.owing = owing]
       IN  /\ r \in Reading /\ r.owing = owing /\ r.canonical = canonical
           /\ r.listed = {} /\ r.failed = {}
  BY DEF Aave!NoRead, Reading, Aave!NoReserve, Aave!Calls

LEMMA ReadInit == Aave!Init => ReadInv
<1> SUFFICES ASSUME Aave!Init PROVE ReadInv
  OBVIOUS
<1>1. read = Aave!NoRead /\ owed \subseteq Reserves
  BY DEF Aave!Init
<1>2. read \in Reading /\ read.pc = "idle" /\ read.owing = {}
  BY <1>1 DEF Aave!NoRead, Reading, Aave!NoReserve, Aave!Calls
<1> QED BY <1>1, <1>2 DEF ReadInv, Sound, Complete

LEMMA ReadAnswered == ASSUME ReadInv, Aave!CallAnswered PROVE ReadInv'
<1>1. UNCHANGED <<owed, link>>
  BY DEF Aave!CallAnswered, Aave!chain, Aave!provider
<1>2. PICK r : r = read
  OBVIOUS
<1>3. PICK q : q = read'
  OBVIOUS
<1>4. r \in Reading /\ Sound(r) /\ r.pc # "idle" /\ r.pc \in Aave!Calls /\ r.owing \subseteq owed
  BY <1>2 DEF ReadInv, Sound, Reading, Aave!CallAnswered
<1>5. SUFFICES Sound(q)
  BY <1>1, <1>3, ReadFollows
<1>6. CASE r.pc = "list"
  <2>1. PICK p : p = [r EXCEPT !.left = Reserves]
    OBVIOUS
  <2>2. p \in Reading /\ p.left = Reserves /\ p.owing = r.owing /\ p.owing \subseteq Reserves
    BY <2>1, <1>4 DEF Reading
  <2>3. q \in Aave!Onward(p)
    BY <1>2, <1>3, <1>6, <2>1 DEF Aave!CallAnswered
  <2>4. p.owing \subseteq owed /\ p.owing \subseteq p.listed \cup p.failed \cup p.left
    BY <1>4, <2>2
  <2> QED BY <2>2, <2>3, <2>4, ReadingGoesOn
<1>7. CASE r.pc # "list"
  <2>1. /\ r.asset \in Reserves
        /\ link.http /\ ~r.canonical =>
             /\ r.pc # "cache"
             /\ r.owing \subseteq r.listed \cup r.failed \cup r.left \cup {r.asset}
    BY <1>4, <1>7 DEF Sound, Complete, Ahead
  <2>2. {"total", "config", "price", "cache"} \subseteq Aave!Calls \ {"list"}
    BY DEF Aave!Calls
  <2>3. CASE r.pc = "user"
    <3>1. q = Aave!Call("total", r)
      BY <1>2, <1>3, <2>3 DEF Aave!CallAnswered
    <3> QED BY <1>4, <2>1, <2>2, <3>1, ReadingCalls
  <2>4. CASE r.pc = "total"
    <3>1. PICK given \in BOOLEAN :
            IF r.asset \notin owed /\ ~given THEN q \in Aave!Onward(r)
            ELSE q = Aave!Call(IF r.canonical THEN "cache" ELSE "config", r)
      BY <1>2, <1>3, <2>4 DEF Aave!CallAnswered
    <3>2. CASE r.asset \notin owed /\ ~given
      <4>1. link.http /\ ~r.canonical => r.owing \subseteq r.listed \cup r.failed \cup r.left
        BY <1>4, <2>1, <3>2
      <4> QED BY <1>4, <3>1, <3>2, <4>1, ReadingGoesOn
    <3>3. CASE ~(r.asset \notin owed /\ ~given) /\ r.canonical
      BY <1>4, <2>1, <2>2, <3>1, <3>3, ReadingCalls
    <3>4. CASE ~(r.asset \notin owed /\ ~given) /\ ~r.canonical
      <4>1. q = Aave!Call("config", r)
        BY <3>1, <3>4
      <4> QED BY <1>4, <2>1, <2>2, <4>1, ReadingCalls
    <3> QED BY <3>2, <3>3, <3>4
  <2>5. CASE r.pc = "config"
    <3>1. q = Aave!Call("price", r)
      BY <1>2, <1>3, <2>5 DEF Aave!CallAnswered
    <3> QED BY <1>4, <2>1, <2>2, <3>1, ReadingCalls
  <2>6. CASE r.pc \in {"price", "cache"}
    <3>1. PICK p : p = [r EXCEPT !.listed = @ \cup {r.asset}]
      OBVIOUS
    <3>2. /\ p \in Reading /\ p.owing = r.owing /\ p.listed = r.listed \cup {r.asset}
          /\ p.failed = r.failed /\ p.left = r.left /\ p.canonical = r.canonical
      BY <1>4, <2>1, <3>1 DEF Reading
    <3>3. q \in Aave!Onward(p)
      BY <1>2, <1>3, <2>6, <3>1 DEF Aave!CallAnswered
    <3>4. link.http /\ ~p.canonical => p.owing \subseteq p.listed \cup p.failed \cup p.left
      BY <2>1, <3>2
    <3>5. p.owing \subseteq owed
      BY <1>4, <3>2
    <3> QED BY <3>2, <3>3, <3>4, <3>5, ReadingGoesOn
  <2> QED BY <1>4, <1>7, <2>3, <2>4, <2>5, <2>6 DEF Aave!Calls
<1> QED BY <1>6, <1>7

LEMMA ReadFailed == ASSUME ReadInv, Aave!CallFailed PROVE ReadInv'
<1>1. UNCHANGED <<owed, link>>
  BY DEF Aave!CallFailed, Aave!chain, Aave!provider
<1>2. PICK r : r = read
  OBVIOUS
<1>3. PICK q : q = read'
  OBVIOUS
<1>4. r \in Reading /\ Sound(r) /\ r.pc # "idle" /\ r.owing \subseteq owed
  BY <1>2 DEF ReadInv, Sound, Aave!CallFailed
<1>5. PICK p : p = [r EXCEPT !.failed = IF r.pc = "list" THEN Reserves ELSE @ \cup {r.asset}]
  OBVIOUS
<1>6. q \in Aave!Without(p)
  BY <1>2, <1>3, <1>5 DEF Aave!CallFailed
<1>7. SUFFICES Sound(q)
  BY <1>1, <1>3, ReadFollows
<1>8. CASE r.pc = "list"
  <2>1. p \in Reading /\ p.pc = "list" /\ p.failed = Reserves
    BY <1>4, <1>5, <1>8 DEF Reading
  <2>2. q = [p EXCEPT !.pc = "idle"]
    BY <1>6, <2>1 DEF Aave!Without
  <2>3. q \in Reading /\ q.pc = "idle" /\ q.failed = Reserves /\ q.owing \subseteq Reserves
    BY <2>1, <2>2 DEF Reading
  <2> QED BY <2>3 DEF Sound, Complete
<1>9. CASE r.pc # "list"
  <2>1. /\ r.asset \in Reserves
        /\ link.http /\ ~r.canonical =>
             r.owing \subseteq r.listed \cup r.failed \cup r.left \cup {r.asset}
    BY <1>4, <1>9 DEF Sound, Complete, Ahead
  <2>2. /\ p \in Reading /\ p.pc = r.pc /\ p.owing = r.owing /\ p.listed = r.listed
        /\ p.failed = r.failed \cup {r.asset} /\ p.left = r.left /\ p.canonical = r.canonical
    BY <1>4, <1>5, <1>9, <2>1 DEF Reading
  <2>3. q \in Aave!Onward(p)
    BY <1>6, <1>9, <2>2 DEF Aave!Without
  <2>4. link.http /\ ~p.canonical => p.owing \subseteq p.listed \cup p.failed \cup p.left
    BY <2>1, <2>2
  <2>5. p.owing \subseteq owed
    BY <1>4, <2>2
  <2> QED BY <2>2, <2>3, <2>4, <2>5, ReadingGoesOn
<1> QED BY <1>8, <1>9

\* With HTTP, a listing whose calls all have the fallback asks again.
LEMMA ReadDestroyed == ASSUME ReadInv, Aave!CallDestroyed PROVE ReadInv'
<1>1. UNCHANGED <<owed, link>>
  BY DEF Aave!CallDestroyed, Aave!chain
<1>2. PICK r : r = read
  OBVIOUS
<1>3. PICK q : q = read'
  OBVIOUS
<1>4. r \in Reading /\ Sound(r) /\ r.pc # "idle" /\ r.pc \in Aave!Calls /\ r.owing \subseteq owed
  BY <1>2 DEF ReadInv, Sound, Reading, Aave!CallDestroyed
<1>5. SUFFICES Sound(q)
  BY <1>1, <1>3, ReadFollows
<1>6. CASE r.pc \in Aave!WithFallback /\ link.http
  <2>1. q = [r EXCEPT !.via = "http"]
    BY <1>2, <1>3, <1>6 DEF Aave!CallDestroyed
  <2>2. /\ q \in Reading /\ q.pc = r.pc /\ q.asset = r.asset /\ q.owing = r.owing
        /\ q.canonical = r.canonical /\ q.listed = r.listed /\ q.failed = r.failed
        /\ q.left = r.left
    BY <1>4, <2>1 DEF Reading
  <2>3. Complete(q)
    BY <1>4, <2>2 DEF Sound, Complete, Ahead
  <2> QED BY <1>4, <2>2, <2>3 DEF Sound
<1>7. CASE ~(r.pc \in Aave!WithFallback /\ link.http)
  <2>1. ~(link.http /\ ~r.canonical)
    BY <1>4, <1>7 DEF Sound, Complete, Aave!Calls, Aave!WithFallback
  <2>2. q \in Aave!Without(r)
    BY <1>2, <1>3, <1>7 DEF Aave!CallDestroyed
  <2>3. CASE r.pc = "list"
    <3>1. q = [r EXCEPT !.pc = "idle"]
      BY <2>2, <2>3 DEF Aave!Without
    <3>2. q \in Reading /\ q.pc = "idle" /\ q.canonical = r.canonical
      BY <1>4, <3>1 DEF Reading
    <3> QED BY <2>1, <3>2 DEF Sound, Complete
  <2>4. CASE r.pc # "list"
    <3>1. q \in Aave!Onward(r)
      BY <2>2, <2>4 DEF Aave!Without
    <3> QED BY <1>4, <2>1, <3>1, ReadingGoesOn
  <2> QED BY <2>3, <2>4
<1> QED BY <1>6, <1>7

\* What was owed all the while is what it was, or less.
LEMMA ReadChanged == ASSUME ReadInv, Aave!ChainChanges PROVE ReadInv'
<1>1. UNCHANGED link /\ owed' \subseteq Reserves
  BY DEF Aave!ChainChanges, Aave!provider, ReadInv
<1>2. PICK r : r = read
  OBVIOUS
<1>3. PICK q : q = read'
  OBVIOUS
<1>4. Sound(r) /\ r \in Reading
  BY <1>2 DEF ReadInv, Sound
<1>5. CASE r.pc = "idle"
  <2>1. q = r
    BY <1>2, <1>3, <1>5 DEF Aave!ChainChanges
  <2>2. Sound(r)'
    BY <1>1, <1>4, <1>5 DEF Sound, Complete, Ahead, Reading
  <2> QED BY <1>1, <1>3, <2>1, <2>2 DEF ReadInv
<1>6. CASE r.pc # "idle"
  <2>1. q = [r EXCEPT !.owing = @ \cap owed']
    BY <1>2, <1>3, <1>6 DEF Aave!ChainChanges
  <2>2. /\ q \in Reading /\ q.pc = r.pc /\ q.asset = r.asset /\ q.owing = r.owing \cap owed'
        /\ q.canonical = r.canonical /\ q.listed = r.listed /\ q.failed = r.failed
        /\ q.left = r.left
    BY <1>4, <2>1 DEF Reading
  <2>3. Ahead(q) = Ahead(r)
    BY <2>2 DEF Ahead
  <2>4. Complete(q)
    BY <1>4, <2>2, <2>3 DEF Sound, Complete
  <2>5. Complete(q)'
    BY <1>1, <2>4 DEF Complete, Ahead
  <2>6. (q \in Reading)' /\ (q.pc \notin {"idle", "list"} => q.asset \in Reserves)
    BY <1>4, <2>2 DEF Sound, Reading
  <2>7. Sound(q)'
    BY <2>2, <2>5, <2>6 DEF Sound
  <2> QED BY <1>1, <1>3, <2>7 DEF ReadInv
<1> QED BY <1>5, <1>6

LEMMA ReadNext == ReadInv /\ [Aave!Next]_(Aave!vars) => ReadInv'
<1> SUFFICES ASSUME ReadInv, [Aave!Next]_(Aave!vars) PROVE ReadInv'
  OBVIOUS
<1>1. CASE \E canonical \in BOOLEAN : Aave!StartRead(canonical)
  <2>1. PICK canonical \in BOOLEAN, owing \in SUBSET Reserves :
          /\ owing = owed
          /\ read' = Aave!Call("list", [Aave!NoRead EXCEPT !.canonical = canonical,
                                                           !.owing = owing])
    BY <1>1 DEF Aave!StartRead, ReadInv
  <2>2. PICK p : p = [Aave!NoRead EXCEPT !.canonical = canonical, !.owing = owing]
    OBVIOUS
  <2>3. p \in Reading /\ p.owing = owing
    BY <2>2, NothingRead
  <2>4. PICK via \in {"ws", "http"} : read' = [p EXCEPT !.pc = "list", !.via = via]
    BY <2>1, <2>2 DEF Aave!Call, Aave!Route, Aave!Own
  <2>5. PICK q : q = read'
    OBVIOUS
  <2>6. q \in Reading /\ q.pc = "list" /\ q.owing = owing
    BY <2>3, <2>4, <2>5 DEF Reading, Aave!Calls
  <2>7. Sound(q)
    BY <2>1, <2>6 DEF Sound, Complete, Ahead
  <2>8. UNCHANGED <<owed, link>>
    BY <1>1 DEF Aave!StartRead, Aave!chain, Aave!provider
  <2> QED BY <2>5, <2>7, <2>8, ReadFollows
<1>2. CASE \/ Aave!Probed \/ Aave!SocketError \/ Aave!SocketDestroyed
           \/ Aave!Validate \/ Aave!AccountRead \/ Aave!AccountFailed \/ Aave!Tick
           \/ \E f \in Refreshes : \/ Aave!StartRefresh(f) \/ Aave!ReservesListed(f)
                                   \/ Aave!RefreshFailed(f) \/ Aave!ReservesRead(f)
           \/ UNCHANGED Aave!vars
  <2>1. UNCHANGED <<owed, link, read>>
    BY <1>2 DEF Aave!Probed, Aave!SocketError, Aave!SocketDestroyed, Aave!Validate,
         Aave!AccountRead, Aave!AccountFailed, Aave!Tick, Aave!StartRefresh,
         Aave!ReservesListed, Aave!RefreshFailed, Aave!ReservesRead, Aave!chain,
         Aave!provider, Aave!vars
  <2>2. PICK q : q = read
    OBVIOUS
  <2>3. Sound(q) /\ read' = q
    BY <2>1, <2>2 DEF ReadInv
  <2> QED BY <2>1, <2>3, ReadFollows
<1> QED BY <1>1, <1>2, ReadAnswered, ReadFailed, ReadDestroyed, ReadChanged
        DEF Aave!Next, Aave!ReadStep, Aave!MetadataStep

\* However often and in the middle of whichever call the socket is destroyed, whatever the
\* probe and the listener of errors make of wsHealthy, and whatever the user borrows and
\* repays meanwhile: a debt that stood through a listing of getAllUserReserves is in it, or
\* its reserve failed on its own, while there is an HTTP provider.
THEOREM ListingsAreWhole == ToolsSpec => []ListingIsWhole
<1>1. ToolsInit => ReadInv
  BY ReadInit DEF ToolsInit
<1>2. [ToolsNext]_toolsVars => [Aave!Next]_(Aave!vars)
  BY DEF ToolsNext, toolsVars, aaveVars, Aave!vars, Aave!chain, Aave!provider,
         Aave!consistency, Aave!metadata, Aave!Next, FollowLookup, FollowAave,
         FollowTrackers, FollowSeeding, FollowCritical, FollowPrestage, FollowHotsets
<1>3. ReadInv => ListingIsWhole
  BY DEF ReadInv, Sound, Complete, Ahead, ListingIsWhole, Aave!ListingIsWhole, Aave!Whole
<1>4. ToolsSpec => ToolsInit /\ [][ToolsNext]_toolsVars
  BY PTL DEF ToolsSpec
<1> QED BY <1>1, <1>2, <1>3, <1>4, ReadNext, PTL

-----------------------------------------------------------------------------
\* Types, proved component by component.

\* Lookups: the steps of the callers who ask alone are steps of a lookup too, whatever
\* their table holds.

LEMMA AssetSteps == AssetLookup!Next => LookupStep
<1> SUFFICES ASSUME AssetLookup!Next PROVE LookupStep
  OBVIOUS
<1> USE DEF AssetLookup!At, AssetLookup!Idle, AssetLookup!Entry, AssetLookup!Keep,
     AssetLookup!Answer, AssetLookup!registry, AssetLookup!fetches, AssetLookup!callers, At,
     Idle, Entry, Keep, Answer, registry, fetches, callers
<1>c. {"asset"} \subseteq AllCallers
  BY DEF AllCallers
<1>1. ASSUME NEW q \in Requests, NEW t \in Tokens, NEW c \in {"asset"},
             AssetLookup!Ask(q, c, t)
      PROVE  AskAny(q, c, t)
  BY <1>1 DEF AssetLookup!Ask, AskAny, AssetLookup!CacheResult, CacheResult, AssetLookup!Fresh,
       Fresh
<1>2. ASSUME NEW q \in Requests, NEW t \in Tokens, NEW c \in {"asset"},
             AssetLookup!AskChain(q, c, t)
      PROVE  AskChain(q, c, t)
  BY <1>2 DEF AssetLookup!AskChain, AskChain, AssetLookup!Unanswered, AssetLookup!Fresh,
       Unanswered, Fresh
<1>3. ASSUME NEW q \in Requests, AssetLookup!FoundInRedis(q) PROVE FoundInRedis(q)
  BY <1>3 DEF AssetLookup!FoundInRedis, FoundInRedis, AssetLookup!Fresh, Fresh
<1>4. ASSUME NEW q \in Requests, AssetLookup!NotInRedis(q) PROVE NotInRedis(q)
  BY <1>4 DEF AssetLookup!NotInRedis, NotInRedis
<1>5. ASSUME NEW q \in Requests, AssetLookup!Woken(q) PROVE Woken(q)
  BY <1>5 DEF AssetLookup!Woken, Woken
<1>6. ASSUME NEW q \in Requests, AssetLookup!Fetched(q) PROVE Fetched(q)
  BY <1>6 DEF AssetLookup!Fetched, Fetched, AssetLookup!Release, AssetLookup!CacheResult,
       Release, CacheResult
<1>7. ASSUME NEW q \in Requests, AssetLookup!MetaReply(q) PROVE MetaReplyAny(q)
  BY <1>7 DEF AssetLookup!MetaReply, MetaReplyAny, AssetLookup!CacheMetadata, CacheMetadata,
       AssetLookup!GetFromRedis, GetFromRedis, AssetLookup!Fresh, Fresh
<1>8. ASSUME NEW q \in Requests, AssetLookup!TokenMetaReply(q) PROVE TokenMetaReply(q)
  BY <1>8 DEF AssetLookup!TokenMetaReply, TokenMetaReply, AssetLookup!CacheMetadata,
       CacheMetadata
<1>9. ASSUME NEW q \in Requests, AssetLookup!TokenInfoReply(q) PROVE TokenInfoReply(q)
  BY <1>9 DEF AssetLookup!TokenInfoReply, TokenInfoReply
<1>10. ASSUME NEW t \in Tokens, AssetLookup!TotalSupply(t)
       PROVE  /\ outer' = [outer EXCEPT !["asset"][t].at = now] /\ supplied' = supplied \cup {t}
              /\ UNCHANGED <<now, listed, redisUp, registry, fetches, lookup, metaRedis>>
  BY <1>10 DEF AssetLookup!TotalSupply
<1>11. ASSUME NEW c \in {"asset"}, AssetLookup!ClearCaller(c) PROVE ClearCaller(c)
  BY <1>11 DEF AssetLookup!ClearCaller, AssetLookup!NoEntry, ClearCaller, NoEntry
<1>12. ASSUME NEW ts \in SUBSET Tokens, AssetLookup!Relisted(ts) PROVE Relisted(ts)
  BY <1>12 DEF AssetLookup!Relisted, Relisted
<1>13. AssetLookup!Prune => Prune
  BY DEF AssetLookup!Prune, AssetLookup!Fresh, AssetLookup!NoEntry, Prune, Fresh, NoEntry
<1>14. AssetLookup!SetRedis \/ AssetLookup!Tick => SetRedis \/ Tick
  BY DEF AssetLookup!SetRedis, AssetLookup!Tick, SetRedis, Tick
<1>15. AssetLookup!Restart => Restart
  BY DEF AssetLookup!Restart, AssetLookup!NoEntry, AssetLookup!AllCallers, Restart, NoEntry,
       AllCallers
<1> QED BY <1>c, <1>1, <1>2, <1>3, <1>4, <1>5, <1>6, <1>7, <1>8, <1>9, <1>10, <1>11, <1>12,
           <1>13, <1>14, <1>15 DEF AssetLookup!Next, LookupStep

LEMMA ResolverSteps == ResolverLookup!Next => LookupStep
<1> SUFFICES ASSUME ResolverLookup!Next PROVE LookupStep
  OBVIOUS
<1> USE DEF ResolverLookup!At, ResolverLookup!Idle, ResolverLookup!Entry, ResolverLookup!Keep,
     ResolverLookup!Answer, ResolverLookup!registry, ResolverLookup!fetches,
     ResolverLookup!callers, At, Idle, Entry, Keep, Answer, registry, fetches, callers
<1>c. {"resolver", "tokens"} \subseteq AllCallers
  BY DEF AllCallers
<1>1. ASSUME NEW q \in Requests, NEW t \in Tokens, NEW c \in {"resolver", "tokens"},
             ResolverLookup!Ask(q, c, t)
      PROVE  AskAny(q, c, t)
  BY <1>1 DEF ResolverLookup!Ask, AskAny, ResolverLookup!CacheResult, CacheResult,
       ResolverLookup!Fresh, Fresh
<1>2. ASSUME NEW q \in Requests, NEW t \in Tokens, NEW c \in {"resolver", "tokens"},
             ResolverLookup!AskChain(q, c, t)
      PROVE  AskChain(q, c, t)
  BY <1>2 DEF ResolverLookup!AskChain, AskChain, ResolverLookup!Unanswered,
       ResolverLookup!Fresh, Unanswered, Fresh
<1>3. ASSUME NEW q \in Requests, ResolverLookup!FoundInRedis(q) PROVE FoundInRedis(q)
  BY <1>3 DEF ResolverLookup!FoundInRedis, FoundInRedis, ResolverLookup!Fresh, Fresh
<1>4. ASSUME NEW q \in Requests, ResolverLookup!NotInRedis(q) PROVE NotInRedis(q)
  BY <1>4 DEF ResolverLookup!NotInRedis, NotInRedis
<1>5. ASSUME NEW q \in Requests, ResolverLookup!Woken(q) PROVE Woken(q)
  BY <1>5 DEF ResolverLookup!Woken, Woken
<1>6. ASSUME NEW q \in Requests, ResolverLookup!Fetched(q) PROVE Fetched(q)
  BY <1>6 DEF ResolverLookup!Fetched, Fetched, ResolverLookup!Release,
       ResolverLookup!CacheResult, Release, CacheResult
<1>7. ASSUME NEW q \in Requests, ResolverLookup!MetaReply(q) PROVE MetaReplyAny(q)
  BY <1>7 DEF ResolverLookup!MetaReply, MetaReplyAny, ResolverLookup!CacheMetadata,
       CacheMetadata, ResolverLookup!GetFromRedis, GetFromRedis, ResolverLookup!Fresh, Fresh
<1>8. ASSUME NEW q \in Requests, ResolverLookup!TokenMetaReply(q) PROVE TokenMetaReply(q)
  BY <1>8 DEF ResolverLookup!TokenMetaReply, TokenMetaReply, ResolverLookup!CacheMetadata,
       CacheMetadata
<1>9. ASSUME NEW q \in Requests, ResolverLookup!TokenInfoReply(q) PROVE TokenInfoReply(q)
  BY <1>9 DEF ResolverLookup!TokenInfoReply, TokenInfoReply
<1>10. ASSUME NEW t \in Tokens, ResolverLookup!TotalSupply(t)
       PROVE  /\ outer' = [outer EXCEPT !["asset"][t].at = now] /\ supplied' = supplied \cup {t}
              /\ UNCHANGED <<now, listed, redisUp, registry, fetches, lookup, metaRedis>>
  BY <1>10 DEF ResolverLookup!TotalSupply
<1>11. ASSUME NEW c \in {"resolver", "tokens"}, ResolverLookup!ClearCaller(c) PROVE ClearCaller(c)
  BY <1>11 DEF ResolverLookup!ClearCaller, ResolverLookup!NoEntry, ClearCaller, NoEntry
<1>12. ASSUME NEW ts \in SUBSET Tokens, ResolverLookup!Relisted(ts) PROVE Relisted(ts)
  BY <1>12 DEF ResolverLookup!Relisted, Relisted
<1>13. ResolverLookup!Prune => Prune
  BY DEF ResolverLookup!Prune, ResolverLookup!Fresh, ResolverLookup!NoEntry, Prune, Fresh,
       NoEntry
<1>14. ResolverLookup!SetRedis \/ ResolverLookup!Tick => SetRedis \/ Tick
  BY DEF ResolverLookup!SetRedis, ResolverLookup!Tick, SetRedis, Tick
<1>15. ResolverLookup!Restart => Restart
  BY DEF ResolverLookup!Restart, ResolverLookup!NoEntry, ResolverLookup!AllCallers, Restart,
       NoEntry, AllCallers
<1> QED BY <1>c, <1>1, <1>2, <1>3, <1>4, <1>5, <1>6, <1>7, <1>8, <1>9, <1>10, <1>11, <1>12,
           <1>13, <1>14, <1>15 DEF ResolverLookup!Next, LookupStep



\* Aave's data.  What a listing reads keeps its type by ReadNext; the rest is parted by the
\* groups of variables an action changes.

ChainTypes == aaveNow \in 1 .. AaveTime /\ changes \in 0 .. MaxChanges /\ listing \subseteq Reserves

ProviderTypes ==
  /\ link \in [socket : BOOLEAN, http : BOOLEAN]
  /\ open \in BOOLEAN /\ wsHealthy \in BOOLEAN /\ probing \in BOOLEAN

AccountTypes ==
  /\ hasCache \in BOOLEAN
  /\ account \in [pc : {"idle", "first", "again", "consistent", "inconsistent"}, odd : BOOLEAN]

Refreshing == [pc : {"idle", "list", "configs"}, list : SUBSET Reserves]

MetadataTypes ==
  /\ known \subseteq Reserves
  /\ lastRefreshTime \in 0 .. AaveTime /\ isInitialized \in BOOLEAN
  /\ refresh \in [Refreshes -> Refreshing]

AaveInv == ReadInv /\ ChainTypes /\ ProviderTypes /\ AccountTypes /\ MetadataTypes

LEMMA AaveTypes == AaveInv => Aave!TypeOK
<1> SUFFICES ASSUME AaveInv PROVE Aave!TypeOK
  OBVIOUS
<1>1. /\ owed \subseteq Reserves
      /\ read \in [pc : Aave!Calls \cup {"idle"}, canonical : BOOLEAN, via : {"ws", "http"},
                   left : SUBSET Reserves, asset : Reserves \cup {Aave!NoReserve},
                   listed : SUBSET Reserves, owing : SUBSET Reserves,
                   failed : SUBSET Reserves]
  BY DEF AaveInv, ReadInv, Sound, Reading
<1>2. {open, wsHealthy, probing} \subseteq BOOLEAN
  BY DEF AaveInv, ProviderTypes
<1> QED BY <1>1, <1>2 DEF AaveInv, ChainTypes, ProviderTypes, AccountTypes, MetadataTypes,
           Refreshing, Aave!TypeOK

LEMMA AaveInit == Aave!Init => AaveInv
<1> SUFFICES ASSUME Aave!Init PROVE AaveInv
  OBVIOUS
<1>1. /\ AaveTime \in Nat \ {0} /\ MaxChanges \in Nat
  BY PartAssumptions DEF Aave!AaveDataAssumption
<1>2. ChainTypes
  BY <1>1 DEF Aave!Init, ChainTypes
<1>3. link \in [socket : BOOLEAN, http : BOOLEAN]
  BY DEF Aave!Init
<1>4. ProviderTypes
  BY <1>3 DEF Aave!Init, ProviderTypes
<1>5. AccountTypes
  BY DEF Aave!Init, AccountTypes, Aave!NoAccount
<1>6. Aave!NoRefresh \in Refreshing /\ [Aave!NoRefresh EXCEPT !.pc = "list"] \in Refreshing
  BY DEF Aave!NoRefresh, Refreshing
<1>7. refresh \in [Refreshes -> Refreshing]
  BY <1>6 DEF Aave!Init
<1>8. lastRefreshTime \in 0 .. AaveTime
  BY <1>1 DEF Aave!Init
<1>9. known \subseteq Reserves /\ isInitialized \in BOOLEAN
  BY DEF Aave!Init
<1>10. MetadataTypes
  BY <1>7, <1>8, <1>9 DEF MetadataTypes
<1> QED BY <1>2, <1>4, <1>5, <1>10, ReadInit DEF AaveInv

LEMMA AaveNext == AaveInv /\ [Aave!Next]_(Aave!vars) => AaveInv'
<1> SUFFICES ASSUME AaveInv, [Aave!Next]_(Aave!vars) PROVE AaveInv'
  OBVIOUS
<1> USE DEF Aave!chain, Aave!provider, Aave!consistency, Aave!metadata
<1>r. ReadInv'
  BY ReadNext DEF AaveInv
<1>1. AaveTime \in Nat \ {0} /\ MaxChanges \in Nat
  BY PartAssumptions DEF Aave!AaveDataAssumption
<1>2. ASSUME UNCHANGED <<aaveNow, changes, listing>> PROVE ChainTypes'
  BY <1>2 DEF AaveInv, ChainTypes
<1>3. ASSUME UNCHANGED Aave!provider PROVE ProviderTypes'
  BY <1>3 DEF AaveInv, ProviderTypes
<1>4. ASSUME UNCHANGED Aave!consistency PROVE AccountTypes'
  BY <1>4 DEF AaveInv, AccountTypes
<1>5. ASSUME UNCHANGED Aave!metadata PROVE MetadataTypes'
  BY <1>5 DEF AaveInv, MetadataTypes
<1>6. CASE \/ \E canonical \in BOOLEAN : Aave!StartRead(canonical)
           \/ Aave!CallAnswered \/ Aave!CallFailed \/ UNCHANGED Aave!vars
  <2>1. UNCHANGED <<Aave!chain, Aave!provider, Aave!consistency, Aave!metadata>>
    BY <1>6 DEF Aave!StartRead, Aave!CallAnswered, Aave!CallFailed, Aave!vars
  <2> QED BY <2>1, <1>2, <1>3, <1>4, <1>5, <1>r DEF AaveInv
<1>7. CASE Aave!Probed \/ Aave!SocketError \/ Aave!SocketDestroyed \/ Aave!CallDestroyed
  <2>1. UNCHANGED <<Aave!chain, Aave!consistency, Aave!metadata>>
    BY <1>7 DEF Aave!Probed, Aave!SocketError, Aave!SocketDestroyed, Aave!CallDestroyed
  <2>2. UNCHANGED link
    BY <1>7 DEF Aave!Probed, Aave!SocketError, Aave!SocketDestroyed, Aave!CallDestroyed
  <2>3. open' \in BOOLEAN /\ wsHealthy' \in BOOLEAN /\ probing' \in BOOLEAN
    BY <1>7 DEF Aave!Probed, Aave!SocketError, Aave!SocketDestroyed, Aave!CallDestroyed,
       AaveInv, ProviderTypes
  <2>4. ProviderTypes'
    BY <2>2, <2>3 DEF AaveInv, ProviderTypes
  <2> QED BY <2>1, <2>4, <1>2, <1>4, <1>5, <1>r DEF AaveInv
<1>8. CASE Aave!Validate \/ Aave!AccountRead \/ Aave!AccountFailed
  <2>1. UNCHANGED <<Aave!chain, Aave!provider, Aave!metadata, hasCache>>
    BY <1>8 DEF Aave!Validate, Aave!AccountRead, Aave!AccountFailed
  <2>2. AccountTypes'
    <3>1. PICK a : a = account
      OBVIOUS
    <3>2. a \in [pc : {"idle", "first", "again", "consistent", "inconsistent"}, odd : BOOLEAN]
      BY <3>1 DEF AaveInv, AccountTypes
    <3>3. CASE Aave!Validate
      BY <3>3, <2>1 DEF Aave!Validate, Aave!NoAccount, AaveInv, AccountTypes
    <3>4. CASE Aave!AccountFailed
      BY <3>1, <3>2, <3>4, <2>1 DEF Aave!AccountFailed, AaveInv, AccountTypes
    <3>5. CASE Aave!AccountRead
      <4>1. PICK odd \in BOOLEAN :
              account' \in IF odd /\ a.pc = "first" THEN {[a EXCEPT !.pc = "again"]}
                           ELSE {[a EXCEPT !.pc = v, !.odd = odd] : v \in Aave!Verdict}
        BY <3>1, <3>5 DEF Aave!AccountRead
      <4>2. \A v \in Aave!Verdict : v \in {"consistent", "inconsistent"}
        BY DEF Aave!Verdict
      <4>3. \/ account' = [a EXCEPT !.pc = "again"]
            \/ \E v \in {"consistent", "inconsistent"} : account' = [a EXCEPT !.pc = v, !.odd = odd]
        BY <4>1, <4>2
      <4> QED BY <3>2, <4>3, <2>1 DEF AaveInv, AccountTypes
    <3> QED BY <1>8, <3>3, <3>4, <3>5
  <2> QED BY <2>1, <2>2, <1>2, <1>3, <1>5, <1>r DEF AaveInv
<1>9. CASE \E f \in Refreshes : \/ Aave!StartRefresh(f) \/ Aave!ReservesListed(f)
                                \/ Aave!RefreshFailed(f) \/ Aave!ReservesRead(f)
  <2>1. UNCHANGED <<Aave!chain, Aave!provider, Aave!consistency>>
    BY <1>9 DEF Aave!StartRefresh, Aave!ReservesListed, Aave!RefreshFailed, Aave!ReservesRead
  <2>2. PICK f \in Refreshes : \/ Aave!StartRefresh(f) \/ Aave!ReservesListed(f)
                               \/ Aave!RefreshFailed(f) \/ Aave!ReservesRead(f)
    BY <1>9
  <2>3. /\ refresh[f] \in Refreshing /\ refresh \in [Refreshes -> Refreshing]
        /\ listing \subseteq Reserves
    BY DEF AaveInv, MetadataTypes, ChainTypes
  <2>4. \E x \in Refreshing : refresh' = [refresh EXCEPT ![f] = x]
    <3>1. [refresh[f] EXCEPT !.pc = "list"] \in Refreshing
      BY <2>3 DEF Refreshing
    <3>2. Aave!NoRefresh \in Refreshing /\ [pc |-> "configs", list |-> listing] \in Refreshing
      BY <2>3 DEF Aave!NoRefresh, Refreshing
    <3> QED BY <2>2, <3>1, <3>2 DEF Aave!StartRefresh, Aave!ReservesListed,
               Aave!RefreshFailed, Aave!ReservesRead
  <2>5. refresh' \in [Refreshes -> Refreshing]
    BY <2>3, <2>4
  <2>6. \/ UNCHANGED <<known, lastRefreshTime, isInitialized>>
        \/ known' \subseteq Reserves /\ lastRefreshTime' = aaveNow /\ isInitialized' = TRUE
    BY <2>2, <2>3 DEF Aave!StartRefresh, Aave!ReservesListed, Aave!RefreshFailed,
       Aave!ReservesRead, Refreshing
  <2>7. lastRefreshTime' \in 0 .. AaveTime
    <3>1. lastRefreshTime \in 0 .. AaveTime /\ aaveNow \in 0 .. AaveTime
      BY <1>1 DEF AaveInv, MetadataTypes, ChainTypes
    <3> QED BY <2>6, <3>1
  <2>8. known' \subseteq Reserves /\ isInitialized' \in BOOLEAN
    BY <2>6 DEF AaveInv, MetadataTypes
  <2>9. MetadataTypes'
    BY <2>5, <2>7, <2>8 DEF MetadataTypes
  <2> QED BY <2>1, <2>9, <1>2, <1>3, <1>4, <1>r DEF AaveInv
<1>10. CASE Aave!ChainChanges \/ Aave!Tick
  <2>1. UNCHANGED <<Aave!provider, Aave!consistency, Aave!metadata>>
    BY <1>10 DEF Aave!ChainChanges, Aave!Tick
  <2>2. ChainTypes'
    BY <1>1, <1>10 DEF Aave!ChainChanges, Aave!Tick, AaveInv, ChainTypes
  <2> QED BY <2>1, <2>2, <1>3, <1>4, <1>5, <1>r DEF AaveInv
<1> QED BY <1>6, <1>7, <1>8, <1>9, <1>10 DEF Aave!Next, Aave!ReadStep, Aave!MetadataStep

\* The components count alike.
LEMMA SameCounts ==
  \A S : /\ Trackers!Cardinality(S) = Cardinality(S) /\ Trackers!IsFiniteSet(S) = IsFiniteSet(S)
         /\ Stage!Cardinality(S) = Cardinality(S) /\ Stage!IsFiniteSet(S) = IsFiniteSet(S)
         /\ Hot!Cardinality(S) = Cardinality(S) /\ Hot!IsFiniteSet(S) = IsFiniteSet(S)
  BY DEF Trackers!Cardinality, Trackers!IsFiniteSet, Stage!Cardinality, Stage!IsFiniteSet,
     Hot!Cardinality, Hot!IsFiniteSet, Cardinality, IsFiniteSet

\* What a bounded collection becomes when a member makes room for another, and when one
\* joins.

LEMMA MadeRoom ==
  ASSUME NEW S, IsFiniteSet(S), NEW v \in S, NEW u, NEW T, T \subseteq (S \ {v}) \cup {u}
  PROVE  Cardinality(T) <= Cardinality(S)
<1>1. IsFiniteSet(S \ {v}) /\ Cardinality(S \ {v}) = Cardinality(S) - 1
  BY FS_RemoveElement
<1>2. PICK R : R = S \ {v}
  OBVIOUS
<1>3. /\ IsFiniteSet(R \cup {u}) /\ Cardinality(R) \in Nat
      /\ Cardinality(R \cup {u}) = IF u \in R THEN Cardinality(R) ELSE Cardinality(R) + 1
  BY <1>1, <1>2, FS_AddElement, FS_CardinalityType
<1>4. Cardinality(T) <= Cardinality(R \cup {u})
  BY <1>2, <1>3, FS_Subset
<1>5. Cardinality(T) \in Nat /\ Cardinality(S) \in Nat
  BY <1>2, <1>3, FS_Subset, FS_CardinalityType
<1> QED BY <1>1, <1>2, <1>3, <1>4, <1>5

LEMMA OneJoins ==
  ASSUME NEW S, IsFiniteSet(S), NEW u, NEW T, T \subseteq S \cup {u}
  PROVE  Cardinality(T) <= Cardinality(S) + 1
<1>1. /\ IsFiniteSet(S \cup {u}) /\ Cardinality(S) \in Nat
      /\ Cardinality(S \cup {u}) = IF u \in S THEN Cardinality(S) ELSE Cardinality(S) + 1
  BY FS_AddElement, FS_CardinalityType
<1>2. Cardinality(T) <= Cardinality(S \cup {u}) /\ Cardinality(T) \in Nat
  BY <1>1, FS_Subset, FS_CardinalityType
<1> QED BY <1>1, <1>2

LEMMA NoMore ==
  ASSUME NEW S, IsFiniteSet(S), NEW T \in SUBSET S
  PROVE  Cardinality(T) <= Cardinality(S) /\ Cardinality(T) \in Nat /\ Cardinality(S) \in Nat
  BY FS_Subset, FS_CardinalityType

-----------------------------------------------------------------------------
\* Candidates and trackers.

TrackersInv == Trackers!TypeOK /\ Trackers!WithinLimits

LEMMA TrackersBounds ==
  /\ Users # {} /\ IsFiniteSet(Users) /\ TrackedHfs \subseteq Nat
  /\ MaxCandidates \in Nat \ {0} /\ Touched \in Nat \ {0} /\ MaxEntries \in Nat \ {0}
  /\ TrackersTime \in Nat \ {0} /\ MaxIndex \in Nat \ {0} /\ Trackers!NoHf \notin TrackedHfs
  BY PartAssumptions, SameCounts DEF Trackers!CandidatesAssumption, Trackers!NoHf

LEMMA CandidateAdded ==
  ASSUME TrackersInv, NEW u \in Users, Trackers!Add(u)
  PROVE  /\ lastHF' \in [Users -> TrackedHfs \cup {Trackers!NoHf}]
         /\ touchedAt' \in [Users -> 0 .. TrackersTime]
         /\ Cardinality(Trackers!Candidate') <= MaxCandidates
<1>1. /\ lastHF \in [Users -> TrackedHfs \cup {Trackers!NoHf}]
      /\ touchedAt \in [Users -> 0 .. TrackersTime]
      /\ trackersNow \in 1 .. TrackersTime /\ Cardinality(Trackers!Candidate) <= MaxCandidates
  BY SameCounts DEF TrackersInv, Trackers!TypeOK, Trackers!WithinLimits
<1>2. IsFiniteSet(Trackers!Candidate) /\ Cardinality(Trackers!Candidate) \in Nat
  BY TrackersBounds, FS_Subset, FS_CardinalityType DEF Trackers!Candidate
<1>3. trackersNow \in 0 .. TrackersTime /\ 0 \in 0 .. TrackersTime
  BY <1>1, TrackersBounds
<1>4. CASE u \in Trackers!Candidate \/ Cardinality(Trackers!Candidate) < MaxCandidates
  <2>1. touchedAt' = [touchedAt EXCEPT ![u] = trackersNow] /\ UNCHANGED lastHF
    BY <1>4, SameCounts DEF Trackers!Add
  <2>2. Trackers!Candidate' \subseteq Trackers!Candidate \cup {u}
    BY <1>1, <2>1 DEF Trackers!Candidate
  <2>3. Cardinality(Trackers!Candidate') <= MaxCandidates
    <3>1. CASE u \in Trackers!Candidate
      <4>1. Trackers!Candidate' \subseteq Trackers!Candidate
        BY <2>2, <3>1
      <4> QED BY <1>1, <1>2, <4>1, NoMore, TrackersBounds
    <3>2. CASE Cardinality(Trackers!Candidate) < MaxCandidates
      <4>1. Cardinality(Trackers!Candidate') <= Cardinality(Trackers!Candidate) + 1
        BY <1>2, <2>2, OneJoins
      <4>2. Cardinality(Trackers!Candidate') \in Nat
        <5>1. IsFiniteSet(Trackers!Candidate \cup {u})
          BY <1>2, FS_AddElement
        <5> QED BY <2>2, <5>1, FS_Subset, FS_CardinalityType
      <4> QED BY <1>2, <3>2, <4>1, <4>2, TrackersBounds
    <3> QED BY <1>4, <3>1, <3>2
  <2> QED BY <1>1, <1>3, <2>1, <2>3
<1>5. CASE ~(u \in Trackers!Candidate \/ Cardinality(Trackers!Candidate) < MaxCandidates)
  <2>1. PICK out \in Trackers!Evictable :
          /\ touchedAt' = [touchedAt EXCEPT ![out] = 0, ![u] = trackersNow]
          /\ lastHF' = [lastHF EXCEPT ![out] = Trackers!NoHf]
    BY <1>5, SameCounts DEF Trackers!Add
  <2>2. out \in Trackers!Candidate /\ out \in Users /\ out # u
    BY <1>5 DEF Trackers!Evictable, Trackers!Oldest, Trackers!Candidate
  <2>3. Trackers!Candidate' \subseteq (Trackers!Candidate \ {out}) \cup {u}
    BY <1>1, <2>1, <2>2 DEF Trackers!Candidate
  <2>4. Cardinality(Trackers!Candidate') <= Cardinality(Trackers!Candidate)
    BY <1>2, <2>2, <2>3, MadeRoom
  <2>5. Cardinality(Trackers!Candidate') \in Nat
    <3>1. Trackers!Candidate' \subseteq Users
      BY DEF Trackers!Candidate
    <3> QED BY <3>1, TrackersBounds, FS_Subset, FS_CardinalityType
  <2>6. touchedAt' \in [Users -> 0 .. TrackersTime]
    <3>1. PICK times : times = 0 .. TrackersTime
      OBVIOUS
    <3> QED BY <1>1, <1>3, <2>1, <3>1
  <2>7. lastHF' \in [Users -> TrackedHfs \cup {Trackers!NoHf}]
    BY <1>1, <2>1
  <2>8. Cardinality(Trackers!Candidate') <= MaxCandidates
    BY <1>1, <1>2, <2>4, <2>5, TrackersBounds
  <2> QED BY <2>6, <2>7, <2>8
<1> QED BY <1>4, <1>5


\* The reserves of a user: one that is touched again moves to the end.
LEMMA ReserveTouched ==
  ASSUME TrackersInv, NEW u \in Users, NEW a \in Tracked, Trackers!TouchReserve(u, a)
  PROVE  /\ lastTouchedReserves' \in [Users -> Seq(Tracked)]
         /\ \A v \in Users : Len(lastTouchedReserves'[v]) <= Touched
<1>1. /\ lastTouchedReserves \in [Users -> Seq(Tracked)]
      /\ \A v \in Users : Len(lastTouchedReserves[v]) <= Touched
  BY DEF TrackersInv, Trackers!TypeOK, Trackers!WithinLimits
<1>2. PICK seen : seen = lastTouchedReserves[u]
  OBVIOUS
<1>3. seen \in Seq(Tracked) /\ Len(seen) <= Touched /\ Len(seen) \in Nat
  BY <1>1, <1>2, LenProperties
<1> DEFINE others == IF Trackers!Contains(seen, a)
                     THEN Trackers!RemoveAt(seen, CHOOSE i \in DOMAIN seen : seen[i] = a)
                     ELSE seen
<1>4. others \in Seq(Tracked) /\ Len(others) <= Touched
  <2>1. CASE Trackers!Contains(seen, a)
    <3> DEFINE n == CHOOSE i \in DOMAIN seen : seen[i] = a
    <3>1. n \in 1 .. Len(seen)
      <4>1. \E i \in DOMAIN seen : seen[i] = a
        BY <1>3, <2>1, LenProperties DEF Trackers!Contains
      <4>2. n \in DOMAIN seen
        BY <4>1
      <4> QED BY <1>3, <4>2, LenProperties
    <3>2. others = SubSeq(seen, 1, n - 1) \o SubSeq(seen, n + 1, Len(seen))
      BY <2>1 DEF Trackers!RemoveAt
    <3> HIDE DEF n, others
    <3>3. \A i \in 1 .. n - 1 : seen[i] \in Tracked
      BY <1>3, <3>1, ElementOfSeq
    <3>4. \A i \in n + 1 .. Len(seen) : seen[i] \in Tracked
      BY <1>3, <3>1, ElementOfSeq
    <3>5. /\ SubSeq(seen, 1, n - 1) \in Seq(Tracked) /\ Len(SubSeq(seen, 1, n - 1)) = n - 1
      BY <1>3, <3>1, <3>3, SubSeqProperties
    <3>6. /\ SubSeq(seen, n + 1, Len(seen)) \in Seq(Tracked)
          /\ Len(SubSeq(seen, n + 1, Len(seen))) = Len(seen) - n
      BY <1>3, <3>1, <3>4, SubSeqProperties
    <3>7. others \in Seq(Tracked) /\ Len(others) = (n - 1) + (Len(seen) - n)
      BY <3>2, <3>5, <3>6, ConcatProperties
    <3> QED BY <1>3, <3>1, <3>7, TrackersBounds
  <2>2. CASE ~ Trackers!Contains(seen, a)
    BY <1>3, <2>2
  <2> QED BY <2>1, <2>2
<1> DEFINE ids == Append(others, a)
<1>5. ids = Append(others, a)
  OBVIOUS
<1>6. lastTouchedReserves' = [lastTouchedReserves EXCEPT
        ![u] = IF Len(ids) > Touched THEN Tail(ids) ELSE ids]
  BY <1>2 DEF Trackers!TouchReserve
<1> HIDE DEF others, ids
<1>7. ids \in Seq(Tracked) /\ ids # <<>> /\ Len(ids) = Len(others) + 1 /\ Len(others) \in Nat
  BY <1>4, <1>5, AppendProperties, LenProperties
<1>8. Tail(ids) \in Seq(Tracked) /\ Len(Tail(ids)) = Len(ids) - 1
  BY <1>7, HeadTailProperties
<1>9. PICK kept : kept = IF Len(ids) > Touched THEN Tail(ids) ELSE ids
  OBVIOUS
<1>10. kept \in Seq(Tracked) /\ Len(kept) <= Touched
  BY <1>4, <1>7, <1>8, <1>9, TrackersBounds
<1>11. lastTouchedReserves' = [lastTouchedReserves EXCEPT ![u] = kept]
  BY <1>6, <1>9
<1> QED BY <1>1, <1>10, <1>11

\* The tracker of low health factors, in either mode.
LEMMA HfRecorded ==
  ASSUME TrackersInv, NEW u \in Users, NEW hf \in TrackedHfs, Trackers!Record(u, hf)
  PROVE  /\ entries' \in [Users -> TrackedHfs \cup {Trackers!NoHf}]
         /\ minHF' \in TrackedHfs \cup {Trackers!NoHf}
         /\ recorded' \in [Users -> TrackedHfs \cup {Trackers!NoHf}]
         /\ Cardinality(Trackers!Entries') <= MaxEntries
<1>1. /\ entries \in [Users -> TrackedHfs \cup {Trackers!NoHf}]
      /\ minHF \in TrackedHfs \cup {Trackers!NoHf}
      /\ recorded \in [Users -> TrackedHfs \cup {Trackers!NoHf}]
      /\ Cardinality(Trackers!Entries) <= MaxEntries
  BY SameCounts DEF TrackersInv, Trackers!TypeOK, Trackers!WithinLimits
<1>2. IsFiniteSet(Trackers!Entries) /\ Cardinality(Trackers!Entries) \in Nat
  BY TrackersBounds, FS_Subset, FS_CardinalityType DEF Trackers!Entries
<1>3. Cardinality(Trackers!Entries') \in Nat
  <2>1. Trackers!Entries' \subseteq Users
    BY DEF Trackers!Entries
  <2> QED BY <2>1, TrackersBounds, FS_Subset, FS_CardinalityType
<1>4. CASE UNCHANGED Trackers!tracker
  BY <1>1, <1>4 DEF Trackers!tracker, Trackers!Entries
<1>5. CASE ~ UNCHANGED Trackers!tracker
  <2>1. /\ minHF' = Trackers!LowestSeen(hf) /\ recorded' = [recorded EXCEPT ![u] = hf]
        /\ entries' \in IF recordMode = "min" THEN {Trackers!RecordMin(u, hf)}
                        ELSE Trackers!RecordAll(u, hf)
    BY <1>5 DEF Trackers!Record
  <2>2. minHF' \in TrackedHfs \cup {Trackers!NoHf}
    BY <1>1, <2>1 DEF Trackers!LowestSeen
  <2>3. recorded' \in [Users -> TrackedHfs \cup {Trackers!NoHf}]
    BY <1>1, <2>1
  <2>4. \/ entries' = entries
        \/ entries' = [v \in Users |-> IF v = u THEN hf ELSE Trackers!NoHf]
        \/ /\ u \in Trackers!Entries \/ Cardinality(Trackers!Entries) < MaxEntries
           /\ entries' = [entries EXCEPT ![u] = hf]
        \/ /\ u \notin Trackers!Entries
           /\ \E v \in Trackers!Entries :
                entries' = [entries EXCEPT ![v] = Trackers!NoHf, ![u] = hf]
    BY <2>1, SameCounts DEF Trackers!RecordMin, Trackers!RecordAll
  <2>5. CASE entries' = entries
    BY <1>1, <2>2, <2>3, <2>5 DEF Trackers!Entries
  <2>6. CASE entries' = [v \in Users |-> IF v = u THEN hf ELSE Trackers!NoHf]
    <3>1. Trackers!Entries' \subseteq {} \cup {u}
      BY <2>6 DEF Trackers!Entries
    <3>2. IsFiniteSet({}) /\ Cardinality({}) = 0
      BY FS_EmptySet
    <3>3. Cardinality(Trackers!Entries') <= 0 + 1
      BY <3>1, <3>2, OneJoins
    <3>4. entries' \in [Users -> TrackedHfs \cup {Trackers!NoHf}]
      BY <2>6
    <3> QED BY <1>3, <2>2, <2>3, <3>3, <3>4, TrackersBounds
  <2>7. CASE (u \in Trackers!Entries \/ Cardinality(Trackers!Entries) < MaxEntries)
             /\ entries' = [entries EXCEPT ![u] = hf]
    <3>1. Trackers!Entries' \subseteq Trackers!Entries \cup {u}
      BY <1>1, <2>7 DEF Trackers!Entries
    <3>2. Cardinality(Trackers!Entries') <= MaxEntries
      <4>1. CASE u \in Trackers!Entries
        <5>1. Trackers!Entries' \subseteq Trackers!Entries
          BY <3>1, <4>1
        <5> QED BY <1>1, <1>2, <5>1, NoMore, TrackersBounds
      <4>2. CASE Cardinality(Trackers!Entries) < MaxEntries
        <5>1. Cardinality(Trackers!Entries') <= Cardinality(Trackers!Entries) + 1
          BY <1>2, <3>1, OneJoins
        <5> QED BY <1>2, <1>3, <4>2, <5>1, TrackersBounds
      <4> QED BY <2>7, <4>1, <4>2
    <3>3. entries' \in [Users -> TrackedHfs \cup {Trackers!NoHf}]
      BY <1>1, <2>7
    <3> QED BY <2>2, <2>3, <3>2, <3>3
  <2>8. CASE u \notin Trackers!Entries
             /\ \E v \in Trackers!Entries :
                entries' = [entries EXCEPT ![v] = Trackers!NoHf, ![u] = hf]
    <3>1. PICK v \in Trackers!Entries : entries' = [entries EXCEPT ![v] = Trackers!NoHf, ![u] = hf]
      BY <2>8
    <3>2. v \in Users /\ v # u
      BY <2>8 DEF Trackers!Entries
    <3>3. Trackers!Entries' \subseteq (Trackers!Entries \ {v}) \cup {u}
      BY <1>1, <3>1, <3>2 DEF Trackers!Entries
    <3>4. Cardinality(Trackers!Entries') <= Cardinality(Trackers!Entries)
      BY <1>2, <3>3, MadeRoom
    <3>5. Cardinality(Trackers!Entries') <= MaxEntries
      BY <1>1, <1>2, <1>3, <3>4, TrackersBounds
    <3>6. entries' \in [Users -> TrackedHfs \cup {Trackers!NoHf}]
      BY <1>1, <3>1
    <3> QED BY <2>2, <2>3, <3>5, <3>6
  <2> QED BY <2>4, <2>5, <2>6, <2>7, <2>8
<1> QED BY <1>4, <1>5

\* The variables of the trackers, in the groups their steps change.
CandidateTypes ==
  /\ lastHF \in [Users -> TrackedHfs \cup {Trackers!NoHf}]
  /\ touchedAt \in [Users -> 0 .. TrackersTime]
  /\ Cardinality(Trackers!Candidate) <= MaxCandidates
TouchedTypes ==
  /\ lastTouchedReserves \in [Users -> Seq(Tracked)]
  /\ \A v \in Users : Len(lastTouchedReserves[v]) <= Touched
EntryTypes ==
  /\ entries \in [Users -> TrackedHfs \cup {Trackers!NoHf}]
  /\ minHF \in TrackedHfs \cup {Trackers!NoHf}
  /\ recorded \in [Users -> TrackedHfs \cup {Trackers!NoHf}]
  /\ Cardinality(Trackers!Entries) <= MaxEntries
IndexTypes ==
  /\ index \in [Tracked -> 0 .. MaxIndex]
  /\ reserveIndices \in [Tracked -> 0 .. MaxIndex \cup {Trackers!NoIndex}]
CheckTypes ==
  /\ checks \subseteq Users
  /\ scan \in [of : Symbols, users : SUBSET Users, known : SUBSET Users]
  /\ recordMode \in {"all", "min"} /\ trackersNow \in 1 .. TrackersTime

LEMMA TrackersParts ==
  TrackersInv <=> CandidateTypes /\ TouchedTypes /\ EntryTypes /\ IndexTypes /\ CheckTypes
<1>1. Trackers!WithinLimits <=>
        /\ Cardinality(Trackers!Candidate) <= MaxCandidates
        /\ Cardinality(Trackers!Entries) <= MaxEntries
        /\ \A v \in Users : Len(lastTouchedReserves[v]) <= Touched
  BY SameCounts DEF Trackers!WithinLimits
<1> QED BY <1>1 DEF TrackersInv, Trackers!TypeOK, CandidateTypes, TouchedTypes, EntryTypes,
           IndexTypes, CheckTypes

LEMMA TrackersKept ==
  /\ CandidateTypes /\ UNCHANGED <<lastHF, touchedAt>> => CandidateTypes'
  /\ TouchedTypes /\ UNCHANGED lastTouchedReserves => TouchedTypes'
  /\ EntryTypes /\ UNCHANGED <<entries, minHF, recorded>> => EntryTypes'
  /\ IndexTypes /\ UNCHANGED <<index, reserveIndices>> => IndexTypes'
  /\ CheckTypes /\ UNCHANGED <<checks, scan, recordMode, trackersNow>> => CheckTypes'
<1>1. CandidateTypes /\ UNCHANGED <<lastHF, touchedAt>> => CandidateTypes'
  BY DEF CandidateTypes, Trackers!Candidate
<1>2. TouchedTypes /\ UNCHANGED lastTouchedReserves => TouchedTypes'
  BY DEF TouchedTypes
<1>3. EntryTypes /\ UNCHANGED <<entries, minHF, recorded>> => EntryTypes'
  BY DEF EntryTypes, Trackers!Entries
<1>4. IndexTypes /\ UNCHANGED <<index, reserveIndices>> => IndexTypes'
  BY DEF IndexTypes
<1>5. CheckTypes /\ UNCHANGED <<checks, scan, recordMode, trackersNow>> => CheckTypes'
  BY DEF CheckTypes
<1> QED BY <1>1, <1>2, <1>3, <1>4, <1>5

\* Nobody is a candidate or an entry yet, or after a stop.
LEMMA NoCandidates ==
  /\ lastHF = [u \in Users |-> Trackers!NoHf] /\ touchedAt = [u \in Users |-> 0]
       => CandidateTypes
  /\ lastTouchedReserves = [u \in Users |-> <<>>] => TouchedTypes
<1>1. Cardinality({}) = 0 /\ 0 \in 0 .. TrackersTime
  BY FS_EmptySet, TrackersBounds
<1>2. ASSUME lastHF = [u \in Users |-> Trackers!NoHf], touchedAt = [u \in Users |-> 0]
      PROVE  CandidateTypes
  <2>1. Trackers!Candidate = {}
    BY <1>2 DEF Trackers!Candidate
  <2>2. touchedAt \in [Users -> 0 .. TrackersTime]
    BY <1>1, <1>2
  <2>3. lastHF \in [Users -> TrackedHfs \cup {Trackers!NoHf}]
    BY <1>2
  <2>4. Cardinality(Trackers!Candidate) <= MaxCandidates
    BY <1>1, <2>1, TrackersBounds
  <2> QED BY <2>2, <2>3, <2>4 DEF CandidateTypes
<1>3. ASSUME lastTouchedReserves = [u \in Users |-> <<>>] PROVE TouchedTypes
  <2>1. PICK none : none = <<>>
    OBVIOUS
  <2>2. none \in Seq(Tracked) /\ Len(none) = 0
    BY <2>1, EmptySeq
  <2>3. lastTouchedReserves = [u \in Users |-> none]
    BY <1>3, <2>1
  <2> QED BY <2>2, <2>3, TrackersBounds DEF TouchedTypes
<1> QED BY <1>2, <1>3

LEMMA TrackersInit == Trackers!Init => TrackersInv
<1> SUFFICES ASSUME Trackers!Init PROVE TrackersInv
  OBVIOUS
<1>1. CandidateTypes /\ TouchedTypes
  BY NoCandidates DEF Trackers!Init
<1>2. EntryTypes
  <2>1. Trackers!Entries = {} /\ Cardinality({}) = 0
    BY FS_EmptySet DEF Trackers!Init, Trackers!Entries
  <2>2. Cardinality(Trackers!Entries) <= MaxEntries
    BY <2>1, TrackersBounds
  <2> QED BY <2>2 DEF EntryTypes, Trackers!Init
<1>3. IndexTypes
  <2>1. 0 \in 0 .. MaxIndex
    BY TrackersBounds
  <2>2. index = [a \in Tracked |-> 0] /\ reserveIndices = [a \in Tracked |-> Trackers!NoIndex]
    BY DEF Trackers!Init
  <2> QED BY <2>1, <2>2 DEF IndexTypes
<1>4. CheckTypes
  <2>1. 1 \in 1 .. TrackersTime
    BY TrackersBounds
  <2> QED BY <2>1 DEF CheckTypes, Trackers!Init
<1> QED BY <1>1, <1>2, <1>3, <1>4, TrackersParts

LEMMA TrackersNext == TrackersInv /\ (Trackers!Next \/ UNCHANGED Trackers!vars) => TrackersInv'
<1> SUFFICES ASSUME TrackersInv, Trackers!Next \/ UNCHANGED Trackers!vars PROVE TrackersInv'
  OBVIOUS
<1>p. CandidateTypes /\ TouchedTypes /\ EntryTypes /\ IndexTypes /\ CheckTypes
  BY TrackersParts
<1> SUFFICES CandidateTypes' /\ TouchedTypes' /\ EntryTypes' /\ IndexTypes' /\ CheckTypes'
  <2>1. Trackers!WithinLimits' <=>
          /\ Cardinality(Trackers!Candidate') <= MaxCandidates
          /\ Cardinality(Trackers!Entries') <= MaxEntries
          /\ \A v \in Users : Len(lastTouchedReserves'[v]) <= Touched
    BY SameCounts DEF Trackers!WithinLimits
  <2> QED BY <2>1 DEF TrackersInv, Trackers!TypeOK, CandidateTypes, TouchedTypes, EntryTypes,
             IndexTypes, CheckTypes
<1> DEFINE Goal == CandidateTypes' /\ TouchedTypes' /\ EntryTypes' /\ IndexTypes' /\ CheckTypes'
<1>1. ASSUME NEW u \in Users, Trackers!Seed(u) PROVE Goal
  <2>1. UNCHANGED <<recordMode, trackersNow, lastTouchedReserves, Trackers!tracker,
                    Trackers!reserves, checks, scan>>
    BY <1>1 DEF Trackers!Seed
  <2>2. CandidateTypes'
    <3>1. Trackers!Add(u)
      BY <1>1 DEF Trackers!Seed
    <3> QED BY <3>1, CandidateAdded DEF CandidateTypes
  <2> QED BY <2>1, <2>2, <1>p, TrackersKept DEF Trackers!tracker, Trackers!reserves
<1>2. ASSUME NEW u \in Users, NEW a \in Tracked, Trackers!UserEvent(u, a) PROVE Goal
  <2>1. UNCHANGED <<recordMode, trackersNow, Trackers!tracker, Trackers!reserves, scan>>
    BY <1>2 DEF Trackers!UserEvent
  <2>2. Trackers!Add(u) /\ Trackers!TouchReserve(u, a) /\ checks' = checks \cup {u}
    BY <1>2 DEF Trackers!UserEvent
  <2>3. CandidateTypes'
    BY <2>2, CandidateAdded DEF CandidateTypes
  <2>4. TouchedTypes'
    BY <2>2, ReserveTouched DEF TouchedTypes
  <2>5. CheckTypes'
    BY <2>1, <2>2, <1>p DEF CheckTypes
  <2> QED BY <2>1, <2>3, <2>4, <2>5, <1>p, TrackersKept
          DEF Trackers!tracker, Trackers!reserves
<1>3. ASSUME NEW a \in Tracked, Trackers!ReserveDataUpdated(a) PROVE Goal
  <2>1. UNCHANGED <<recordMode, trackersNow, Trackers!candidates, Trackers!tracker, index, scan>>
    BY <1>3 DEF Trackers!ReserveDataUpdated
  <2>2. CheckTypes'
    <3>1. \/ UNCHANGED checks
          \/ \E borrowers \in SUBSET Users :
               checks' = checks \cup {u \in borrowers \cap Trackers!Candidate :
                            lastHF[u] # Trackers!NoHf /\ lastHF[u] < Trackers!NearCritical}
      BY <1>3 DEF Trackers!ReserveDataUpdated
    <3>2. checks' \subseteq Users
      BY <3>1, <1>p DEF CheckTypes
    <3> QED BY <2>1, <3>2, <1>p DEF CheckTypes
  <2>3. IndexTypes'
    <3>1. PICK n : n = index[a]
      OBVIOUS
    <3>2. n \in 0 .. MaxIndex
      BY <1>p, <3>1 DEF IndexTypes
    <3>3. reserveIndices' = [reserveIndices EXCEPT ![a] = n]
      BY <1>3, <3>1 DEF Trackers!ReserveDataUpdated
    <3> QED BY <2>1, <3>2, <3>3, <1>p DEF IndexTypes
  <2> QED BY <2>1, <2>2, <2>3, <1>p, TrackersKept DEF Trackers!candidates, Trackers!tracker
<1>4. ASSUME NEW u \in Users, Trackers!CheckLands(u) PROVE Goal
  <2>1. UNCHANGED <<recordMode, trackersNow, lastTouchedReserves, Trackers!reserves, scan>>
        /\ checks' = checks \ {u}
    BY <1>4 DEF Trackers!CheckLands
  <2>2. CheckTypes'
    BY <2>1, <1>p DEF CheckTypes
  <2>3. CASE UNCHANGED <<lastHF, touchedAt, Trackers!tracker>>
    BY <2>1, <2>2, <2>3, <1>p, TrackersKept DEF Trackers!reserves, Trackers!tracker
  <2>4. CASE ~ UNCHANGED <<lastHF, touchedAt, Trackers!tracker>>
    <3>1. PICK hf \in TrackedHfs :
            /\ IF u \in Trackers!Candidate
               THEN lastHF' = [lastHF EXCEPT ![u] = hf]
                    /\ touchedAt' = [touchedAt EXCEPT ![u] = trackersNow]
               ELSE UNCHANGED <<lastHF, touchedAt>>
            /\ Trackers!Record(u, hf)
      BY <1>4, <2>4 DEF Trackers!CheckLands
    <3>2. EntryTypes'
      BY <3>1, HfRecorded DEF EntryTypes
    <3>3. CandidateTypes'
      <4>1. CASE u \in Trackers!Candidate
        <5>1. trackersNow \in 0 .. TrackersTime /\ trackersNow # 0
          BY <1>p DEF CheckTypes
        <5>2. /\ lastHF' = [lastHF EXCEPT ![u] = hf]
              /\ touchedAt' = [touchedAt EXCEPT ![u] = trackersNow]
          BY <3>1, <4>1
        <5>3. lastHF' \in [Users -> TrackedHfs \cup {Trackers!NoHf}]
          BY <5>2, <1>p DEF CandidateTypes
        <5>4. touchedAt' \in [Users -> 0 .. TrackersTime]
          BY <5>1, <5>2, <1>p DEF CandidateTypes
        <5>5. Trackers!Candidate' = Trackers!Candidate
          BY <4>1, <5>1, <5>2, <1>p DEF CandidateTypes, Trackers!Candidate
        <5> QED BY <5>3, <5>4, <5>5, <1>p DEF CandidateTypes
      <4>2. CASE u \notin Trackers!Candidate
        BY <3>1, <4>2, <1>p, TrackersKept
      <4> QED BY <4>1, <4>2
    <3> QED BY <2>1, <2>2, <3>2, <3>3, <1>p, TrackersKept DEF Trackers!reserves
  <2> QED BY <2>3, <2>4
<1>5. ASSUME NEW s \in Symbols, NEW a \in Tracked, Trackers!EmergencyScan(s, a) PROVE Goal
  <2>1. UNCHANGED <<recordMode, trackersNow, Trackers!candidates, Trackers!tracker,
                    Trackers!reserves>>
    BY <1>5 DEF Trackers!EmergencyScan
  <2>2. \E us \in SUBSET Users, rated \in SUBSET Users :
          checks' = checks \cup us /\ scan' = [of |-> s, users |-> us, known |-> rated]
    <3> DEFINE users == Trackers!GetUsersForReserve(s)
               rated == {u \in Trackers!Candidate : lastHF[u] # Trackers!NoHf}
               held == Trackers!GetUsersForReserve(a)
    <3>1. users \subseteq Users /\ rated \subseteq Users /\ held \subseteq Users
      BY DEF Trackers!GetUsersForReserve, Trackers!Candidate
    <3>2. \A t \in Trackers!Lowest(ScanMax, rated) : t \subseteq Users
      BY <3>1 DEF Trackers!Lowest
    <3>3. \E t \in IF users # {} THEN {t \in SUBSET users : Trackers!Cardinality(t) <= ScanMax}
                   ELSE Trackers!Lowest(ScanMax, rated) :
            checks' = checks \cup t /\ scan' = [of |-> s, users |-> t, known |-> held \cap rated]
      BY <1>5 DEF Trackers!EmergencyScan
    <3> HIDE DEF users, rated, held
    <3> QED BY <3>1, <3>2, <3>3
  <2>3. CheckTypes'
    BY <2>1, <2>2, <1>p DEF CheckTypes
  <2> QED BY <2>1, <2>3, <1>p, TrackersKept
          DEF Trackers!candidates, Trackers!tracker, Trackers!reserves
<1>6. ASSUME Trackers!Clear PROVE Goal
  <2>1. UNCHANGED <<recordMode, trackersNow, Trackers!tracker, Trackers!reserves, checks, scan>>
    BY <1>6 DEF Trackers!Clear
  <2>2. /\ lastHF' = [u \in Users |-> Trackers!NoHf] /\ touchedAt' = [u \in Users |-> 0]
        /\ lastTouchedReserves' = [u \in Users |-> <<>>]
    BY <1>6 DEF Trackers!Clear
  <2>3. CandidateTypes' /\ TouchedTypes'
    <3>1. Cardinality({}) = 0 /\ 0 \in 0 .. TrackersTime
      BY FS_EmptySet, TrackersBounds
    <3>2. Trackers!Candidate' = {}
      BY <2>2 DEF Trackers!Candidate
    <3>3. Cardinality(Trackers!Candidate') <= MaxCandidates
      BY <3>1, <3>2, TrackersBounds
    <3>4. lastHF' \in [Users -> TrackedHfs \cup {Trackers!NoHf}]
      BY <2>2
    <3>5. touchedAt' \in [Users -> 0 .. TrackersTime]
      BY <2>2, <3>1
    <3>6. PICK none : none = <<>>
      OBVIOUS
    <3>7. none \in Seq(Tracked) /\ Len(none) = 0
      BY <3>6, EmptySeq
    <3>8. lastTouchedReserves' = [u \in Users |-> none]
      BY <2>2, <3>6
    <3>9. TouchedTypes'
      BY <3>7, <3>8, TrackersBounds DEF TouchedTypes
    <3> QED BY <3>3, <3>4, <3>5, <3>9 DEF CandidateTypes
  <2> QED BY <2>1, <2>3, <1>p, TrackersKept DEF Trackers!tracker, Trackers!reserves
<1>7. ASSUME Trackers!Environment PROVE Goal
  <2>1. UNCHANGED <<recordMode, Trackers!candidates, Trackers!tracker, reserveIndices, checks,
                    scan>>
    BY <1>7 DEF Trackers!Environment
  <2>2. CheckTypes'
    <3>1. trackersNow' \in 1 .. TrackersTime
      BY <1>7, <1>p, TrackersBounds DEF Trackers!Environment, CheckTypes
    <3> QED BY <2>1, <3>1, <1>p DEF CheckTypes
  <2>3. IndexTypes'
    <3>1. CASE UNCHANGED index
      BY <2>1, <3>1, <1>p DEF IndexTypes
    <3>2. CASE ~ UNCHANGED index
      <4>1. PICK a \in Tracked : index[a] < MaxIndex /\ index' = [index EXCEPT ![a] = @ + 1]
        BY <1>7, <3>2 DEF Trackers!Environment
      <4>2. PICK n : n = index[a] + 1
        OBVIOUS
      <4>3. n \in 0 .. MaxIndex
        BY <4>1, <4>2, <1>p, TrackersBounds DEF IndexTypes
      <4>4. index' = [index EXCEPT ![a] = n]
        BY <4>1, <4>2
      <4> QED BY <2>1, <4>3, <4>4, <1>p DEF IndexTypes
    <3> QED BY <3>1, <3>2
  <2> QED BY <2>1, <2>2, <2>3, <1>p, TrackersKept DEF Trackers!candidates, Trackers!tracker
<1>8. ASSUME UNCHANGED Trackers!vars PROVE Goal
  BY <1>8, <1>p, TrackersKept DEF Trackers!vars, Trackers!candidates, Trackers!tracker,
     Trackers!reserves
<1> QED BY <1>1, <1>2, <1>3, <1>4, <1>5, <1>6, <1>7, <1>8 DEF Trackers!Next

-----------------------------------------------------------------------------
\* The seeding of backend-v2.

QueryTypes == query \in [list : 1 .. 4, failures : 0 .. PageAttempts]
MemberTypes ==
  /\ {seed, unread, watched, indexed, fetching, dirty} \subseteq SUBSET Users
  /\ risk \in [Users -> Seeding!Positions \cup {Seeding!Out, Seeding!Unchecked}]
PositionTypes == position \in [Users -> Seeding!Positions] /\ moves \in 0 .. MaxMoves
OutcomeTypes ==
  /\ stage \in {"seeding", "checking", "running", "dead"}
  /\ last \in [Users -> Seeding!Statuses]
  /\ verdict \in [reason : {"none", "not_in_active_set", "priced_out",
                            "attempted_pending_late_inclusion", "attempt_failed_or_late",
                            "hf_never_crossed_execute"},
                 last : Seeding!Statuses]

LEMMA SeedingParts ==
  /\ Seeding!TypeOK <=> QueryTypes /\ MemberTypes /\ PositionTypes /\ OutcomeTypes
  /\ Seeding!TypeOK' <=> QueryTypes' /\ MemberTypes' /\ PositionTypes' /\ OutcomeTypes'
  BY DEF Seeding!TypeOK, QueryTypes, MemberTypes, PositionTypes, OutcomeTypes

LEMMA SeedingBounds == PageAttempts \in Nat \ {0} /\ MaxMoves \in Nat
  BY PartAssumptions DEF Seeding!UniverseAssumption

LEMMA SeedingKept ==
  /\ QueryTypes /\ UNCHANGED query => QueryTypes'
  /\ MemberTypes /\ UNCHANGED <<seed, unread, watched, indexed, fetching, dirty, risk>>
       => MemberTypes'
  /\ PositionTypes /\ UNCHANGED <<position, moves>> => PositionTypes'
  /\ OutcomeTypes /\ UNCHANGED <<stage, last, verdict>> => OutcomeTypes'
  BY DEF QueryTypes, MemberTypes, PositionTypes, OutcomeTypes

LEMMA SeedingInit == Seeding!Init => Seeding!TypeOK
<1> SUFFICES ASSUME Seeding!Init PROVE Seeding!TypeOK
  OBVIOUS
<1>1. QueryTypes
  <2>1. 0 \in 0 .. PageAttempts /\ 1 \in 1 .. 4
    BY SeedingBounds
  <2> QED BY <2>1 DEF Seeding!Init, QueryTypes
<1>2. MemberTypes
  BY DEF Seeding!Init, MemberTypes
<1>3. PositionTypes
  BY SeedingBounds DEF Seeding!Init, PositionTypes
<1>4. OutcomeTypes
  BY DEF Seeding!Init, OutcomeTypes, Seeding!NoVerdict, Seeding!Statuses
<1> QED BY <1>1, <1>2, <1>3, <1>4, SeedingParts

\* Reading positions keeps the risk set one of positions.
LEMMA HealthUpdated ==
  ASSUME MemberTypes, PositionTypes, NEW asked \in SUBSET Users, Seeding!UpdateHF(asked)
  PROVE  /\ risk' \in [Users -> Seeding!Positions \cup {Seeding!Out, Seeding!Unchecked}]
         /\ fetching' \subseteq Users
<1>1. \A u \in Users : risk[u] \in Seeding!Positions \cup {Seeding!Out, Seeding!Unchecked}
                       /\ position[u] \in Seeding!Positions
  BY DEF MemberTypes, PositionTypes
<1>2. risk' = [u \in Users |-> IF u \notin asked THEN risk[u]
                              ELSE IF Seeding!Small(position[u]) THEN Seeding!Out
                              ELSE position[u]]
  BY DEF Seeding!UpdateHF
<1>3. risk' \in [Users -> Seeding!Positions \cup {Seeding!Out, Seeding!Unchecked}]
  BY <1>1, <1>2
<1>4. \E again \in SUBSET asked : fetching' = fetching \cup again
  BY DEF Seeding!UpdateHF
<1> QED BY <1>3, <1>4 DEF MemberTypes

LEMMA SeedingNext ==
  Seeding!TypeOK /\ (Seeding!Next \/ UNCHANGED Seeding!vars) => Seeding!TypeOK'
<1> SUFFICES ASSUME Seeding!TypeOK, Seeding!Next \/ UNCHANGED Seeding!vars
             PROVE  QueryTypes' /\ MemberTypes' /\ PositionTypes' /\ OutcomeTypes'
  BY SeedingParts
<1>p. QueryTypes /\ MemberTypes /\ PositionTypes /\ OutcomeTypes
  BY SeedingParts
<1> DEFINE Goal == QueryTypes' /\ MemberTypes' /\ PositionTypes' /\ OutcomeTypes'
<1>1. ASSUME Seeding!Page PROVE Goal
  <2>1. UNCHANGED <<position, moves, stage, unread, Seeding!known, watched, dirty, last, verdict>>
    BY <1>1 DEF Seeding!Page, Seeding!chain
  <2>2. query' \in {Seeding!NextList, [query EXCEPT !.failures = 0], Seeding!Retried}
    BY <1>1 DEF Seeding!Page
  <2>3. QueryTypes'
    <3>1. PICK q : q = query
      OBVIOUS
    <3>2. /\ q \in [list : 1 .. 4, failures : 0 .. PageAttempts] /\ q.list <= 3
          /\ 0 \in 0 .. PageAttempts
      BY <1>1, <1>p, <3>1, SeedingBounds DEF Seeding!Page, QueryTypes
    <3>3. Seeding!NextList \in [list : 1 .. 4, failures : 0 .. PageAttempts]
      BY <3>1, <3>2 DEF Seeding!NextList
    <3>4. [q EXCEPT !.failures = 0] \in [list : 1 .. 4, failures : 0 .. PageAttempts]
      BY <3>2
    <3>5. q.failures + 1 < PageAttempts =>
            [q EXCEPT !.failures = @ + 1] \in [list : 1 .. 4, failures : 0 .. PageAttempts]
      BY <3>2, SeedingBounds
    <3>6. Seeding!Retried \in [list : 1 .. 4, failures : 0 .. PageAttempts]
      BY <3>1, <3>3, <3>5 DEF Seeding!Retried
    <3> QED BY <2>2, <3>1, <3>3, <3>4, <3>6 DEF QueryTypes
  <2>4. seed' \subseteq Users
    <3>1. \A list : list \in {"variableDebt", "stableDebt", "collateral"} =>
                      Seeding!Listed(list) \subseteq Users
      BY DEF Seeding!Listed
    <3>2. query.list \in 1 .. 3
      BY <1>1, <1>p DEF Seeding!Page, QueryTypes
    <3>3. Seeding!Queries[query.list] \in {"variableDebt", "stableDebt", "collateral"}
      BY <3>2 DEF Seeding!Queries
    <3>4. Seeding!Listed(Seeding!Queries[query.list]) \subseteq Users
      BY <3>1, <3>3
    <3>5. \/ seed' = seed
          \/ \E found \in SUBSET Seeding!Listed(Seeding!Queries[query.list]) :
               seed' = seed \cup found
      BY <1>1 DEF Seeding!Page
    <3> QED BY <3>4, <3>5, <1>p DEF MemberTypes
  <2>5. MemberTypes'
    BY <2>1, <2>4, <1>p DEF MemberTypes, Seeding!known
  <2> QED BY <2>1, <2>3, <2>5, <1>p, SeedingKept
<1>2. ASSUME Seeding!Seeded PROVE Goal
  <2>1. UNCHANGED <<position, moves, query, seed, indexed, watched, dirty, last, verdict>>
        /\ stage' = "checking"
    BY <1>2 DEF Seeding!Seeded, Seeding!chain, Seeding!seeding
  <2>2. MemberTypes'
    <3>1. PICK us \in SUBSET seed :
            /\ risk' = [u \in Users |-> IF u \in us THEN Seeding!Unchecked ELSE Seeding!Out]
            /\ fetching' = us /\ unread' = us
      BY <1>2 DEF Seeding!Seeded
    <3>2. fetching' \subseteq Users /\ unread' \subseteq Users
      BY <3>1, <1>p DEF MemberTypes
    <3> QED BY <2>1, <3>1, <3>2, <1>p DEF MemberTypes
  <2>3. OutcomeTypes'
    BY <2>1, <1>p DEF OutcomeTypes
  <2> QED BY <2>1, <2>2, <2>3, <1>p, SeedingKept
<1>3. ASSUME Seeding!FirstCheck PROVE Goal
  <2>1. UNCHANGED <<position, moves, query, seed, watched, dirty, last, verdict>>
    BY <1>3 DEF Seeding!FirstCheck, Seeding!chain, Seeding!seeding
  <2>2. stage' \in {stage, "dead"}
    BY <1>3 DEF Seeding!FirstCheck
  <2>3. MemberTypes'
    <3>1. CASE UNCHANGED <<unread, Seeding!known>>
      BY <2>1, <3>1, <1>p DEF MemberTypes, Seeding!known
    <3>2. CASE ~ UNCHANGED <<unread, Seeding!known>>
      <4>1. PICK batch \in SUBSET unread :
              /\ \E asked \in SUBSET batch : Seeding!UpdateHF(asked)
              /\ unread' = unread \ batch /\ UNCHANGED indexed
        BY <1>3, <3>2 DEF Seeding!FirstCheck
      <4>2. unread \subseteq Users
        BY <1>p DEF MemberTypes
      <4>3. /\ risk' \in [Users -> Seeding!Positions \cup {Seeding!Out, Seeding!Unchecked}]
            /\ fetching' \subseteq Users
        BY <4>1, <4>2, <1>p, HealthUpdated
      <4> QED BY <2>1, <4>1, <4>3, <1>p DEF MemberTypes
    <3> QED BY <3>1, <3>2
  <2>4. OutcomeTypes'
    BY <2>1, <2>2, <1>p DEF OutcomeTypes
  <2> QED BY <2>1, <2>3, <2>4, <1>p, SeedingKept
<1>4. ASSUME Seeding!Listen PROVE Goal
  <2>1. UNCHANGED <<position, moves, query, seed, unread, Seeding!known, dirty, last, verdict>>
        /\ stage' = "running" /\ watched' = Seeding!Members
    BY <1>4 DEF Seeding!Listen, Seeding!chain, Seeding!seeding
  <2>2. MemberTypes'
    <3>1. watched' \subseteq Users
      BY <2>1 DEF Seeding!Members
    <3> QED BY <2>1, <3>1, <1>p DEF MemberTypes, Seeding!known
  <2>3. OutcomeTypes'
    BY <2>1, <1>p DEF OutcomeTypes
  <2> QED BY <2>1, <2>2, <2>3, <1>p, SeedingKept
<1>5. ASSUME NEW u \in Users, Seeding!Indexed(u) PROVE Goal
  <2>1. UNCHANGED <<position, moves, stage, query, seed, unread, risk, watched, dirty, last,
                    verdict>>
    BY <1>5 DEF Seeding!Indexed, Seeding!chain, Seeding!seeding
  <2>2. fetching' \subseteq Users /\ indexed' \subseteq Users
    BY <1>5, <1>p DEF Seeding!Indexed, MemberTypes
  <2>3. MemberTypes'
    BY <2>1, <2>2, <1>p DEF MemberTypes
  <2> QED BY <2>1, <2>3, <1>p, SeedingKept
<1>6. ASSUME NEW u \in Users, Seeding!Moves(u) PROVE Goal
  <2>1. UNCHANGED <<stage, query, seed, unread, Seeding!known, watched, last, verdict>>
    BY <1>6 DEF Seeding!Moves, Seeding!seeding
  <2>2. PositionTypes'
    <3>1. moves' \in 0 .. MaxMoves
      BY <1>6, <1>p, SeedingBounds DEF Seeding!Moves, PositionTypes
    <3>2. position' \in [Users -> Seeding!Positions]
      BY <1>6, <1>p DEF Seeding!Moves, PositionTypes
    <3> QED BY <3>1, <3>2 DEF PositionTypes
  <2>3. MemberTypes'
    <3>1. dirty' \in {dirty, dirty \cup {u}}
      BY <1>6 DEF Seeding!Moves
    <3>2. dirty' \subseteq Users
      BY <3>1, <1>p DEF MemberTypes
    <3> QED BY <2>1, <3>2, <1>p DEF MemberTypes, Seeding!known
  <2> QED BY <2>1, <2>2, <2>3, <1>p, SeedingKept
<1>7. ASSUME NEW u \in Users, Seeding!Verify(u) PROVE Goal
  <2>1. UNCHANGED <<position, moves, stage, query, seed, unread, indexed, watched, verdict>>
        /\ dirty' = dirty \ {u}
    BY <1>7 DEF Seeding!Verify, Seeding!chain, Seeding!seeding
  <2>2. \/ UNCHANGED <<risk, fetching, last>>
        \/ Seeding!UpdateHF({u}) /\ last' \in {last, [last EXCEPT ![u] = "running"]}
    BY <1>7 DEF Seeding!Verify
  <2>3. MemberTypes'
    <3>1. /\ risk' \in [Users -> Seeding!Positions \cup {Seeding!Out, Seeding!Unchecked}]
          /\ fetching' \subseteq Users
      <4>1. CASE UNCHANGED <<risk, fetching, last>>
        BY <4>1, <1>p DEF MemberTypes
      <4>2. CASE Seeding!UpdateHF({u})
        BY <4>2, <1>p, HealthUpdated
      <4> QED BY <2>2, <4>1, <4>2
    <3>2. dirty' \subseteq Users
      BY <2>1, <1>p DEF MemberTypes
    <3> QED BY <2>1, <3>1, <3>2, <1>p DEF MemberTypes
  <2>4. OutcomeTypes'
    <3>1. last' \in [Users -> Seeding!Statuses]
      BY <2>2, <1>p DEF OutcomeTypes, Seeding!Statuses
    <3> QED BY <2>1, <3>1, <1>p DEF OutcomeTypes
  <2> QED BY <2>1, <2>3, <2>4, <1>p, SeedingKept
<1>8. ASSUME NEW u \in Users, Seeding!Attempted(u) PROVE Goal
  <2>1. UNCHANGED <<position, moves, stage, query, seed, unread, Seeding!known, watched, dirty,
                    verdict>>
    BY <1>8 DEF Seeding!Attempted, Seeding!chain, Seeding!seeding
  <2>2. last' \in [Users -> Seeding!Statuses]
    BY <1>8, <1>p DEF Seeding!Attempted, OutcomeTypes
  <2>3. OutcomeTypes'
    BY <2>1, <2>2, <1>p DEF OutcomeTypes
  <2> QED BY <2>1, <2>3, <1>p, SeedingKept DEF Seeding!known
<1>9. ASSUME NEW u \in Users, Seeding!Rescore(u) PROVE Goal
  <2>1. UNCHANGED <<position, moves, stage, query, seed, unread, indexed, watched, dirty, last,
                    verdict>>
    BY <1>9 DEF Seeding!Rescore, Seeding!chain, Seeding!seeding
  <2>2. /\ risk' \in [Users -> Seeding!Positions \cup {Seeding!Out, Seeding!Unchecked}]
        /\ fetching' \subseteq Users
    BY <1>9, <1>p, HealthUpdated DEF Seeding!Rescore
  <2>3. MemberTypes'
    BY <2>1, <2>2, <1>p DEF MemberTypes
  <2> QED BY <2>1, <2>3, <1>p, SeedingKept
<1>10. ASSUME NEW u \in Users, Seeding!Liquidated(u) PROVE Goal
  <2>1. UNCHANGED <<stage, query, seed, unread, Seeding!known, watched, dirty, last>>
    BY <1>10 DEF Seeding!Liquidated, Seeding!seeding
  <2>2. PositionTypes'
    <3>1. moves' \in 0 .. MaxMoves
      BY <1>10, <1>p, SeedingBounds DEF Seeding!Liquidated, PositionTypes
    <3>2. position' \in [Users -> Seeding!Positions]
      BY <1>10, <1>p DEF Seeding!Liquidated, PositionTypes, Seeding!Positions
    <3> QED BY <3>1, <3>2 DEF PositionTypes
  <2>3. OutcomeTypes'
    <3>1. Seeding!AuditReason(u) \in {"none", "not_in_active_set", "priced_out",
            "attempted_pending_late_inclusion", "attempt_failed_or_late",
            "hf_never_crossed_execute"}
      BY DEF Seeding!AuditReason
    <3>2. last[u] \in Seeding!Statuses
      BY <1>p DEF OutcomeTypes
    <3>3. verdict' \in {verdict, [reason |-> Seeding!AuditReason(u), last |-> last[u]]}
      BY <1>10 DEF Seeding!Liquidated
    <3> QED BY <2>1, <3>1, <3>2, <3>3, <1>p DEF OutcomeTypes
  <2> QED BY <2>1, <2>2, <2>3, <1>p, SeedingKept DEF Seeding!known
<1>11. ASSUME UNCHANGED Seeding!vars PROVE Goal
  BY <1>11, <1>p, SeedingKept DEF Seeding!vars, Seeding!chain, Seeding!seeding, Seeding!known
<1> QED
  <2>1. CASE Seeding!Next
    BY <2>1, <1>1, <1>2, <1>3, <1>4, <1>5, <1>6, <1>7, <1>8, <1>9, <1>10 DEF Seeding!Next
  <2> QED BY <2>1, <1>11

-----------------------------------------------------------------------------
\* The critical lane.

Locks == [by : Attempts \cup {Critical!NoAttempt}, until : 0 .. CriticalTime + LockTtl]
Snapshots == [at : 0 .. CriticalTime, low : BOOLEAN, listed : BOOLEAN]
Handling ==
  [pc : {"idle", "lock", "snapshot", "refresh", "plan", "submit", "release"},
   user : Borrowers, watched : BOOLEAN, since : 0 .. CriticalTime, read : 0 .. CriticalTime,
   reverified : BOOLEAN]
LaneTypes ==
  /\ lock \in [Borrowers -> Locks] /\ snapshot \in [Borrowers -> Snapshots]
  /\ attempt \in [Attempts -> Handling]
RunTypes ==
  /\ run \in [Runs -> {"idle", "recompute", "reserves", "bonus", "intent"}]
  /\ allowUnprofitable \in BOOLEAN /\ subscribed \in BOOLEAN
ClockTypes == criticalNow \in 1 .. CriticalTime
LossTypes == unprofitableExecutions \in 0 .. MaxUnprofitable

LEMMA CriticalParts ==
  /\ Critical!TypeOK <=> LaneTypes /\ RunTypes /\ ClockTypes /\ LossTypes
  /\ Critical!TypeOK' <=> LaneTypes' /\ RunTypes' /\ ClockTypes' /\ LossTypes'
  BY DEF Critical!TypeOK, LaneTypes, RunTypes, ClockTypes, LossTypes, Locks, Snapshots, Handling

LEMMA CriticalBounds ==
  /\ Borrowers # {} /\ LockTtl \in Nat \ {0} /\ CriticalTime \in Nat \ {0}
  /\ MaxUnprofitable \in Nat \ {0}
  BY PartAssumptions DEF Critical!CriticalLaneAssumption

\* What the numbers of the lane range over.
LEMMA CriticalRanges ==
  /\ 0 \in 0 .. CriticalTime /\ 0 \in 0 .. CriticalTime + LockTtl /\ 0 \in 0 .. MaxUnprofitable
  /\ ClockTypes => criticalNow \in 0 .. CriticalTime
                   /\ criticalNow + LockTtl \in 0 .. CriticalTime + LockTtl
  BY CriticalBounds DEF ClockTypes

LEMMA IdleHandles == Critical!Idle \in Handling
<1>1. (CHOOSE u \in Borrowers : TRUE) \in Borrowers
  BY CriticalBounds
<1> QED BY <1>1, CriticalRanges DEF Critical!Idle, Handling

LEMMA Unlocked == [by |-> Critical!NoAttempt, until |-> 0] \in Locks
  BY CriticalRanges DEF Locks

LEMMA CriticalInit == Critical!Init => Critical!TypeOK
<1> SUFFICES ASSUME Critical!Init PROVE LaneTypes /\ RunTypes /\ ClockTypes /\ LossTypes
  BY CriticalParts
<1>1. LaneTypes
  <2>1. lock \in [Borrowers -> Locks]
    BY Unlocked DEF Critical!Init
  <2>2. snapshot \in [Borrowers -> Snapshots]
    <3>1. 1 \in 0 .. CriticalTime
      BY CriticalBounds
    <3>2. /\ [at |-> 0, low |-> FALSE, listed |-> TRUE] \in Snapshots
          /\ [at |-> 1, low |-> TRUE, listed |-> TRUE] \in Snapshots
      BY <3>1, CriticalRanges DEF Snapshots
    <3> QED BY <3>2 DEF Critical!Init
  <2>3. attempt \in [Attempts -> Handling]
    BY IdleHandles DEF Critical!Init
  <2> QED BY <2>1, <2>2, <2>3 DEF LaneTypes
<1>2. RunTypes
  BY DEF Critical!Init, RunTypes
<1>3. ClockTypes /\ LossTypes
  BY CriticalBounds DEF Critical!Init, ClockTypes, LossTypes
<1> QED BY <1>1, <1>2, <1>3

LEMMA CriticalNext ==
  Critical!TypeOK /\ (Critical!Next \/ UNCHANGED Critical!vars) => Critical!TypeOK'
<1> SUFFICES ASSUME Critical!TypeOK, Critical!Next \/ UNCHANGED Critical!vars
             PROVE  LaneTypes' /\ RunTypes' /\ ClockTypes' /\ LossTypes'
  BY CriticalParts
<1>p. LaneTypes /\ RunTypes /\ ClockTypes /\ LossTypes
  BY CriticalParts
<1> DEFINE Goal == LaneTypes' /\ RunTypes' /\ ClockTypes' /\ LossTypes'
\* An attempt goes on, its user's lock and snapshot changing with it.
<1>l. ASSUME NEW a \in Attempts, NEW u \in Borrowers,
             NEW h \in Handling, NEW k \in Locks, NEW s \in Snapshots,
             attempt' = [attempt EXCEPT ![a] = h],
             lock' \in {lock, [lock EXCEPT ![u] = k]},
             snapshot' \in {snapshot, [snapshot EXCEPT ![u] = s]},
             UNCHANGED <<criticalNow, subscribed, Critical!process>>
      PROVE  Goal
  <2>1. LaneTypes'
    BY <1>l, <1>p DEF LaneTypes
  <2>2. RunTypes' /\ ClockTypes' /\ LossTypes'
    BY <1>l, <1>p DEF RunTypes, ClockTypes, LossTypes, Critical!process
  <2> QED BY <2>1, <2>2
<1>h. \A a \in Attempts : attempt[a] \in Handling /\ attempt[a].user \in Borrowers
  BY <1>p DEF LaneTypes, Handling
<1>k. \A u \in Borrowers : lock[u] \in Locks /\ snapshot[u] \in Snapshots
  BY <1>p DEF LaneTypes
<1>g. ASSUME NEW a \in Attempts,
             NEW pc \in {"idle", "lock", "snapshot", "refresh", "plan", "submit", "release"}
      PROVE  [attempt[a] EXCEPT !.pc = pc] \in Handling
  BY <1>h DEF Handling
<1>1. ASSUME NEW a \in Attempts, NEW u \in Borrowers, NEW w \in BOOLEAN,
             Critical!Event(a, u, w)
      PROVE  Goal
  <2>1. PICK h : h = [pc |-> "lock", user |-> u, watched |-> w, since |-> criticalNow,
                      read |-> 0, reverified |-> FALSE]
    OBVIOUS
  <2>2. h \in Handling
    BY <2>1, <1>p, CriticalRanges DEF Handling
  <2>3. /\ attempt' = [attempt EXCEPT ![a] = h]
        /\ UNCHANGED <<criticalNow, subscribed, lock, snapshot, Critical!process>>
    BY <1>1, <2>1 DEF Critical!Event
  <2> QED BY <2>2, <2>3, <1>l, <1>k
<1>2. ASSUME NEW a \in Attempts, Critical!AcquireLock(a) PROVE Goal
  <2>1. PICK k : k = [by |-> a, until |-> criticalNow + LockTtl]
    OBVIOUS
  <2>2. k \in Locks
    BY <2>1, <1>p, CriticalRanges DEF Locks
  <2>3. PICK h \in Handling : attempt' = [attempt EXCEPT ![a] = h]
    BY <1>2, <1>g, IdleHandles DEF Critical!AcquireLock, Critical!Goes
  <2>4. lock' \in {lock, [lock EXCEPT ![attempt[a].user] = k]}
    BY <1>2, <2>1 DEF Critical!AcquireLock
  <2>5. UNCHANGED <<criticalNow, subscribed, snapshot, Critical!process>>
    BY <1>2 DEF Critical!AcquireLock
  <2> QED BY <2>2, <2>3, <2>4, <2>5, <1>l, <1>h, <1>k
<1>3. ASSUME NEW a \in Attempts, Critical!ReadSnapshot(a) PROVE Goal
  <2>1. PICK s : s = snapshot[attempt[a].user]
    OBVIOUS
  <2>2. s.at \in 0 .. CriticalTime
    BY <2>1, <1>h, <1>k DEF Snapshots
  <2>3. PICK h \in Handling : attempt' = [attempt EXCEPT ![a] = h]
    <3>1. CASE attempt' = [attempt EXCEPT ![a].pc = IF s.low THEN "plan" ELSE "release",
                                          ![a].read = s.at]
      <4>1. PICK h : h = [attempt[a] EXCEPT !.pc = IF s.low THEN "plan" ELSE "release",
                                             !.read = s.at]
        OBVIOUS
      <4>2. h \in Handling
        BY <4>1, <2>2, <1>h DEF Handling
      <4>3. attempt' = [attempt EXCEPT ![a] = h]
        BY <3>1, <4>1, <1>p DEF LaneTypes
      <4> QED BY <4>2, <4>3
    <3>2. CASE Critical!Goes(a, "refresh") \/ Critical!Goes(a, "release")
      BY <3>2, <1>g DEF Critical!Goes
    <3> QED BY <1>3, <2>1, <3>1, <3>2 DEF Critical!ReadSnapshot
  <2>4. UNCHANGED <<criticalNow, subscribed, lock, snapshot, Critical!process>>
    BY <1>3 DEF Critical!ReadSnapshot
  <2> QED BY <2>3, <2>4, <1>l, <1>h, <1>k
<1>4. ASSUME NEW a \in Attempts, Critical!Refresh(a) PROVE Goal
  <2>1. UNCHANGED <<criticalNow, subscribed, lock, Critical!process>>
    BY <1>4 DEF Critical!Refresh
  <2>2. criticalNow \in 0 .. CriticalTime
    BY <1>p, CriticalRanges
  <2>3. CASE \E answered \in BOOLEAN :
               attempt' = [attempt EXCEPT ![a].pc = "release", ![a].reverified = answered]
               /\ UNCHANGED snapshot
    <3>1. PICK answered \in BOOLEAN :
            attempt' = [attempt EXCEPT ![a].pc = "release", ![a].reverified = answered]
            /\ UNCHANGED snapshot
      BY <2>3
    <3>2. PICK h : h = [attempt[a] EXCEPT !.pc = "release", !.reverified = answered]
      OBVIOUS
    <3>3. h \in Handling
      BY <3>2, <1>h DEF Handling
    <3>4. attempt' = [attempt EXCEPT ![a] = h]
      BY <3>1, <3>2, <1>p DEF LaneTypes
    <3> QED BY <2>1, <3>1, <3>3, <3>4, <1>l, <1>h, <1>k
  <2>4. CASE \E low \in BOOLEAN :
               /\ attempt' = [attempt EXCEPT ![a].pc = IF low THEN "plan" ELSE "release",
                                       ![a].read = criticalNow, ![a].reverified = TRUE]
               /\ snapshot' = [snapshot EXCEPT ![attempt[a].user].at = criticalNow,
                                               ![attempt[a].user].low = low]
    <3>1. PICK low \in BOOLEAN :
            /\ attempt' = [attempt EXCEPT ![a].pc = IF low THEN "plan" ELSE "release",
                                       ![a].read = criticalNow, ![a].reverified = TRUE]
            /\ snapshot' = [snapshot EXCEPT ![attempt[a].user].at = criticalNow,
                                            ![attempt[a].user].low = low]
      BY <2>4
    <3>2. PICK h : h = [attempt[a] EXCEPT !.pc = IF low THEN "plan" ELSE "release",
                                       !.read = criticalNow, !.reverified = TRUE]
      OBVIOUS
    <3>3. h \in Handling
      BY <3>2, <2>2, <1>h DEF Handling
    <3>4. attempt' = [attempt EXCEPT ![a] = h]
      BY <3>1, <3>2, <1>p DEF LaneTypes
    <3>5. PICK u \in Borrowers : u = attempt[a].user
      BY <1>h
    <3>6. PICK s : s = [snapshot[u] EXCEPT !.at = criticalNow, !.low = low]
      OBVIOUS
    <3>7. s \in Snapshots
      BY <3>6, <2>2, <1>k DEF Snapshots
    <3>8. snapshot' = [snapshot EXCEPT ![u] = s]
      BY <3>1, <3>5, <3>6, <1>p DEF LaneTypes
    <3> QED BY <2>1, <3>3, <3>4, <3>7, <3>8, <1>l, <1>k
  <2> QED BY <1>4, <2>3, <2>4 DEF Critical!Refresh
<1>5. ASSUME NEW a \in Attempts, Critical!Plan(a) \/ Critical!Submit(a) PROVE Goal
  <2>1. PICK h \in Handling : attempt' = [attempt EXCEPT ![a] = h]
    BY <1>5, <1>g DEF Critical!Plan, Critical!Submit, Critical!Goes
  <2>2. UNCHANGED <<criticalNow, subscribed, lock, snapshot, Critical!process>>
    BY <1>5 DEF Critical!Plan, Critical!Submit
  <2> QED BY <2>1, <2>2, <1>l, <1>h, <1>k
<1>6. ASSUME NEW a \in Attempts, Critical!ReleaseLock(a) PROVE Goal
  <2>1. /\ attempt' = [attempt EXCEPT ![a] = Critical!Idle]
        /\ lock' \in {lock, [lock EXCEPT ![attempt[a].user] =
                                         [by |-> Critical!NoAttempt, until |-> 0]]}
        /\ UNCHANGED <<criticalNow, subscribed, snapshot, Critical!process>>
    BY <1>6 DEF Critical!ReleaseLock
  <2> QED BY <2>1, <1>l, <1>h, <1>k, IdleHandles, Unlocked
<1>7. ASSUME NEW u \in Borrowers, Critical!SnapshotKept(u) PROVE Goal
  <2>1. PICK low \in BOOLEAN, listed_ \in BOOLEAN :
          snapshot' = [snapshot EXCEPT ![u] = [at |-> criticalNow, low |-> low,
                                               listed |-> listed_]]
    BY <1>7 DEF Critical!SnapshotKept
  <2>2. PICK s : s = [at |-> criticalNow, low |-> low, listed |-> listed_]
    OBVIOUS
  <2>3. s \in Snapshots
    BY <2>2, <1>p, CriticalRanges DEF Snapshots
  <2>4. snapshot' = [snapshot EXCEPT ![u] = s]
    BY <2>1, <2>2
  <2>5. LaneTypes'
    BY <1>7, <2>3, <2>4, <1>p DEF LaneTypes, Critical!SnapshotKept
  <2>6. RunTypes' /\ ClockTypes' /\ LossTypes'
    BY <1>7, <1>p DEF RunTypes, ClockTypes, LossTypes, Critical!process, Critical!SnapshotKept
  <2> QED BY <2>5, <2>6
<1>8. ASSUME Critical!Start \/ Critical!Stop \/ Critical!Tick PROVE Goal
  <2>1. LaneTypes'
    BY <1>8, <1>p DEF LaneTypes, Critical!Start, Critical!Stop, Critical!Tick, Critical!lane
  <2>2. LossTypes'
    BY <1>8, <1>p DEF LossTypes, Critical!Start, Critical!Stop, Critical!Tick, Critical!process
  <2>3. RunTypes'
    BY <1>8, <1>p DEF RunTypes, Critical!Start, Critical!Stop, Critical!Tick, Critical!process,
       Critical!lane
  <2>4. ClockTypes'
    BY <1>8, <1>p, CriticalBounds DEF ClockTypes, Critical!Start, Critical!Stop, Critical!Tick
  <2> QED BY <2>1, <2>2, <2>3, <2>4
<1>9. ASSUME NEW r \in Runs,
             \/ Critical!Process(r) \/ Critical!RecomputeHF(r) \/ Critical!VerifyReserves(r)
             \/ Critical!VerifyProfit(r) \/ Critical!BuildAndSubmit(r)
      PROVE  Goal
  <2>1. \E to \in {"idle", "recompute", "reserves", "bonus", "intent"} :
          run' = [run EXCEPT ![r] = to]
    BY <1>9 DEF Critical!Process, Critical!RecomputeHF, Critical!VerifyReserves,
       Critical!VerifyProfit, Critical!BuildAndSubmit, Critical!RunGoes
  <2>2. UNCHANGED <<criticalNow, Critical!lane, allowUnprofitable>>
    BY <1>9 DEF Critical!Process, Critical!RecomputeHF, Critical!VerifyReserves,
       Critical!VerifyProfit, Critical!BuildAndSubmit, Critical!RunGoes
  <2>3. \/ UNCHANGED unprofitableExecutions
        \/ /\ unprofitableExecutions < MaxUnprofitable
           /\ unprofitableExecutions' = unprofitableExecutions + 1
    BY <1>9 DEF Critical!Process, Critical!RecomputeHF, Critical!VerifyReserves,
       Critical!VerifyProfit, Critical!BuildAndSubmit, Critical!Allowed
  <2>4. LossTypes'
    BY <2>3, <1>p, CriticalBounds DEF LossTypes
  <2>5. RunTypes'
    BY <2>1, <2>2, <1>p DEF RunTypes, Critical!lane
  <2>6. LaneTypes' /\ ClockTypes'
    BY <2>2, <1>p DEF LaneTypes, ClockTypes, Critical!lane
  <2> QED BY <2>4, <2>5, <2>6
<1>10. ASSUME UNCHANGED Critical!vars PROVE Goal
  BY <1>10, <1>p DEF Critical!vars, Critical!lane, Critical!process, LaneTypes, RunTypes,
     ClockTypes, LossTypes
<1> QED
  <2>1. CASE Critical!LaneStep
    BY <2>1, <1>1, <1>2, <1>3, <1>4, <1>5, <1>6, <1>7, <1>8 DEF Critical!LaneStep
  <2>2. CASE Critical!ProcessStep
    BY <2>2, <1>9 DEF Critical!ProcessStep
  <2> QED BY <2>1, <2>2, <1>10 DEF Critical!Next

-----------------------------------------------------------------------------
\* What is prepared ahead.

HfSeenAt == [hf : StageHfs, block : 1 .. MaxBlock]
PreparedAt == [hf : StageHfs \cup {Stage!None}, prepared : 0 .. MaxBlock]
TemplateAt == [created : 0 .. MaxBlock, used : 0 .. StageTime]
SentAt ==
  [pc : {"unsent", "building", "sent", "pending", "gone"}, user : Users, block : 0 .. MaxBlock]

HistoryTypes ==
  hfHistory \in [Users -> Seq(HfSeenAt)] /\ \A u \in Users : Len(hfHistory[u]) <= Window
AheadTypes ==
  /\ preSimQueue \in [Users -> Int] /\ prestageCache \in [Users -> SUBSET Scenarios]
  /\ staging \subseteq Users \X Scenarios
ClearedTypes == prestageCacheLastClearBlock \in 0 .. MaxBlock
StagedTypes ==
  candidates \in [Users -> PreparedAt] /\ Cardinality(Stage!Staged) <= MaxPrestaged
TemplateTypes == templates \in [Pairs -> TemplateAt]
SubmitTypes == submit \in [Submits -> SentAt] /\ isShuttingDown \in BOOLEAN
CleanupTypes == cleanup \in 0 .. MaxBlock
BlockTypes == block \in 1 .. MaxBlock /\ stageNow \in 1 .. StageTime

StageInv == Stage!TypeOK /\ Stage!WithinLimits

LEMMA StageParts ==
  /\ StageInv <=> /\ HistoryTypes /\ AheadTypes /\ ClearedTypes /\ StagedTypes
                  /\ TemplateTypes /\ SubmitTypes /\ CleanupTypes /\ BlockTypes
  /\ StageInv' <=> /\ HistoryTypes' /\ AheadTypes' /\ ClearedTypes' /\ StagedTypes'
                   /\ TemplateTypes' /\ SubmitTypes' /\ CleanupTypes' /\ BlockTypes'
<1>1. /\ Stage!WithinLimits <=> /\ \A u \in Users : Len(hfHistory[u]) <= Window
                                /\ Cardinality(Stage!Staged) <= MaxPrestaged
      /\ Stage!WithinLimits' <=> /\ \A u \in Users : Len(hfHistory'[u]) <= Window
                                 /\ Cardinality(Stage!Staged') <= MaxPrestaged
  BY SameCounts DEF Stage!WithinLimits
<1> QED BY <1>1 DEF StageInv, Stage!TypeOK, HistoryTypes, AheadTypes, ClearedTypes, StagedTypes,
           TemplateTypes, SubmitTypes, CleanupTypes, BlockTypes, HfSeenAt, PreparedAt,
           TemplateAt, SentAt

LEMMA StageBounds ==
  /\ IsFiniteSet(Users) /\ Window \in Nat \ {0} /\ MaxPrestaged \in Nat \ {0}
  /\ MaxBlock \in Nat \ {0} /\ StageTime \in Nat \ {0} /\ MaxBatch \in Nat \ {0}
  /\ StageHfs \subseteq Nat \ {0}
  BY PartAssumptions, SameCounts DEF Stage!PrestageAssumption

LEMMA StageRanges ==
  /\ 0 \in 0 .. MaxBlock /\ 0 \in 0 .. StageTime
  /\ BlockTypes => block \in 0 .. MaxBlock /\ stageNow \in 0 .. StageTime
  BY StageBounds DEF BlockTypes

LEMMA StageKept ==
  /\ HistoryTypes /\ UNCHANGED hfHistory => HistoryTypes'
  /\ AheadTypes /\ UNCHANGED <<preSimQueue, prestageCache, staging>> => AheadTypes'
  /\ ClearedTypes /\ UNCHANGED prestageCacheLastClearBlock => ClearedTypes'
  /\ StagedTypes /\ UNCHANGED candidates => StagedTypes'
  /\ TemplateTypes /\ UNCHANGED templates => TemplateTypes'
  /\ SubmitTypes /\ UNCHANGED <<submit, isShuttingDown>> => SubmitTypes'
  /\ CleanupTypes /\ UNCHANGED cleanup => CleanupTypes'
  /\ BlockTypes /\ UNCHANGED <<block, stageNow>> => BlockTypes'
<1>1. HistoryTypes /\ UNCHANGED hfHistory => HistoryTypes'
  BY DEF HistoryTypes
<1>2. AheadTypes /\ UNCHANGED <<preSimQueue, prestageCache, staging>> => AheadTypes'
  BY DEF AheadTypes
<1>3. StagedTypes /\ UNCHANGED candidates => StagedTypes'
  BY DEF StagedTypes, Stage!Staged
<1>4. SubmitTypes /\ UNCHANGED <<submit, isShuttingDown>> => SubmitTypes'
  BY DEF SubmitTypes
<1> QED BY <1>1, <1>2, <1>3, <1>4 DEF ClearedTypes, TemplateTypes, CleanupTypes, BlockTypes

LEMMA StagedFinite ==
  /\ IsFiniteSet(Stage!Staged) /\ Cardinality(Stage!Staged) \in Nat
  /\ Cardinality(Stage!Staged') \in Nat
<1>1. Stage!Staged \subseteq Users /\ Stage!Staged' \subseteq Users
  BY DEF Stage!Staged
<1> QED BY <1>1, StageBounds, FS_Subset, FS_CardinalityType

LEMMA StageInit == Stage!Init => StageInv
<1> SUFFICES ASSUME Stage!Init PROVE StageInv
  OBVIOUS
<1>1. HistoryTypes
  <2>1. PICK none : none = <<>>
    OBVIOUS
  <2>2. none \in Seq(HfSeenAt) /\ Len(none) = 0
    BY <2>1, EmptySeq
  <2>3. hfHistory = [u \in Users |-> none]
    BY <2>1 DEF Stage!Init
  <2> QED BY <2>2, <2>3, StageBounds DEF HistoryTypes
<1>2. AheadTypes
  BY DEF Stage!Init, AheadTypes, Stage!None
<1>3. ClearedTypes /\ CleanupTypes
  BY StageRanges DEF Stage!Init, ClearedTypes, CleanupTypes, Stage!None
<1>4. StagedTypes
  <2>1. Stage!NoCandidate \in PreparedAt
    BY StageRanges DEF Stage!NoCandidate, Stage!None, PreparedAt
  <2>2. Stage!Staged = {} /\ Cardinality({}) = 0
    BY FS_EmptySet DEF Stage!Init, Stage!Staged
  <2>3. Cardinality(Stage!Staged) <= MaxPrestaged
    BY <2>2, StageBounds
  <2> QED BY <2>1, <2>3 DEF Stage!Init, StagedTypes
<1>5. TemplateTypes
  BY StageRanges DEF Stage!Init, Stage!NoTemplate, Stage!None, TemplateTypes, TemplateAt
<1>6. SubmitTypes
  BY StageRanges DEF Stage!Init, SubmitTypes, SentAt
<1>7. BlockTypes
  BY StageBounds DEF Stage!Init, BlockTypes
<1> QED BY <1>1, <1>2, <1>3, <1>4, <1>5, <1>6, <1>7, StageParts

\* A bounded set of numbers with a member has a greatest one.
LEMMA GreatestNumber ==
  ASSUME NEW n \in Nat, NEW S \in SUBSET (1 .. n), S # {}
  PROVE  \E i \in S : \A j \in S : j <= i
<1> DEFINE T == {n - i : i \in S}
<1>1. T \subseteq Nat /\ T # {}
  OBVIOUS
<1> HIDE DEF T
<1>2. PICK t \in T : \A s \in T : ~ (<<s, t>> \in OpToRel(<, Nat))
  BY <1>1, NatLessThanWellFounded, WFMin
<1>3. PICK i \in S : t = n - i
  BY DEF T
<1>4. ASSUME NEW j \in S PROVE j <= i
  <2>1. n - j \in T
    BY DEF T
  <2>2. ~ (n - j < n - i)
    BY <1>1, <1>2, <1>3, <2>1 DEF OpToRel
  <2>3. n - j \in Int /\ n - i \in Int /\ i \in Int /\ j \in Int
    OBVIOUS
  <2> QED BY <2>2, <2>3
<1> QED BY <1>4

\* A history with a health factor more is no longer than its window, and what is
\* projected from it is a number.
LEMMA HistoryGrows ==
  ASSUME NEW s \in Seq(HfSeenAt), Len(s) <= Window, NEW r \in HfSeenAt,
         NEW t, t = Stage!Kept(Append(s, r))
  PROVE  /\ t \in Seq(HfSeenAt) /\ Len(t) <= Window
         /\ Stage!Projects(t) => Stage!Projected(t) \in Int
<1>1. PICK q : q = Append(s, r)
  OBVIOUS
<1>2. q \in Seq(HfSeenAt) /\ q # <<>> /\ Len(q) = Len(s) + 1 /\ Len(s) \in Nat
  BY <1>1, AppendProperties, LenProperties
<1>3. Tail(q) \in Seq(HfSeenAt) /\ Len(Tail(q)) = Len(q) - 1
  BY <1>2, HeadTailProperties
<1>4. t = IF Len(q) > Window THEN Tail(q) ELSE q
  BY <1>1 DEF Stage!Kept
<1>5. t \in Seq(HfSeenAt) /\ Len(t) <= Window
  BY <1>2, <1>3, <1>4, StageBounds
<1>6. ASSUME Stage!Projects(t) PROVE Stage!Projected(t) \in Int
  <2>1. Len(t) \in Nat /\ Len(t) >= 2 /\ t[1].block # t[Len(t)].block
    BY <1>5, <1>6, LenProperties DEF Stage!Projects
  <2>2. t[1] \in HfSeenAt /\ t[Len(t)] \in HfSeenAt
    BY <1>5, <2>1, ElementOfSeq
  <2>3. PICK x : x = t[1]
    OBVIOUS
  <2>4. PICK y : y = t[Len(t)]
    OBVIOUS
  <2>5. /\ x.hf \in Int /\ y.hf \in Int /\ x.block \in Int /\ y.block \in Int
        /\ x.block # y.block
    <3>1. \A z \in HfSeenAt : z.hf \in StageHfs /\ z.block \in 1 .. MaxBlock
      BY DEF HfSeenAt
    <3>2. x.hf \in StageHfs /\ y.hf \in StageHfs
          /\ x.block \in 1 .. MaxBlock /\ y.block \in 1 .. MaxBlock
      BY <2>2, <2>3, <2>4, <3>1
    <3>3. x.block # y.block
      BY <2>1, <2>3, <2>4
    <3>4. \A n \in StageHfs : n \in Int
      BY StageBounds
    <3>5. \A n \in 1 .. MaxBlock : n \in Int
      OBVIOUS
    <3> QED BY <3>2, <3>3, <3>4, <3>5
  <2>6. PICK d : d = y.hf - x.hf
    OBVIOUS
  <2>7. PICK n : n = y.block - x.block
    OBVIOUS
  <2>8. d \in Int /\ n \in Int /\ n # 0
    BY <2>5, <2>6, <2>7
  <2>9. Stage!PerBlock(d, n) \in Int
    BY <2>8 DEF Stage!PerBlock
  <2>10. Stage!Projected(t) = y.hf + Stage!PerBlock(d, n)
    BY <2>3, <2>4, <2>6, <2>7 DEF Stage!Projected
  <2> QED BY <2>5, <2>9, <2>10
<1> QED BY <1>5, <1>6

\* One that is staged makes the lowest priority leave, when there are enough.
LEMMA CandidateStaged ==
  ASSUME StageInv, NEW u \in Users, NEW hf \in StageHfs, NEW p \in Pairs, Stage!Stage(u, hf, p)
  PROVE  StagedTypes' /\ TemplateTypes'
<1>p. StagedTypes /\ TemplateTypes /\ BlockTypes
  BY StageParts
<1>1. PICK r : r = [hf |-> hf, prepared |-> block]
  OBVIOUS
<1>2. r \in PreparedAt
  BY <1>1, <1>p, StageRanges DEF PreparedAt
<1>3. Stage!NoCandidate \in PreparedAt
  BY StageRanges DEF Stage!NoCandidate, Stage!None, PreparedAt
<1>4. StagedTypes'
  <2>1. CASE Cardinality(Stage!Staged) >= MaxPrestaged /\ u \notin Stage!Staged
    <3>1. PICK v \in Stage!Highest :
            candidates' = [[candidates EXCEPT ![v] = Stage!NoCandidate] EXCEPT ![u] = r]
      BY <2>1, <1>1, SameCounts DEF Stage!Stage
    <3>2. v \in Stage!Staged /\ v \in Users /\ v # u
      BY <2>1 DEF Stage!Highest, Stage!Staged
    <3>3. candidates' \in [Users -> PreparedAt]
      BY <3>1, <1>2, <1>3, <1>p DEF StagedTypes
    <3>4. Stage!Staged' \subseteq (Stage!Staged \ {v}) \cup {u}
      BY <3>1, <3>2, <1>p DEF Stage!Staged, StagedTypes
    <3>5. Cardinality(Stage!Staged') <= Cardinality(Stage!Staged)
      BY <3>2, <3>4, StagedFinite, MadeRoom
    <3>6. Cardinality(Stage!Staged) <= MaxPrestaged
      BY <1>p DEF StagedTypes
    <3>7. Cardinality(Stage!Staged') <= MaxPrestaged
      BY <3>5, <3>6, StagedFinite, StageBounds
    <3> QED BY <3>3, <3>7 DEF StagedTypes
  <2>2. CASE ~ (Cardinality(Stage!Staged) >= MaxPrestaged /\ u \notin Stage!Staged)
    <3>1. candidates' = [candidates EXCEPT ![u] = r]
      BY <2>2, <1>1, SameCounts DEF Stage!Stage
    <3>2. candidates' \in [Users -> PreparedAt]
      BY <3>1, <1>2, <1>p DEF StagedTypes
    <3>3. Stage!Staged' \subseteq Stage!Staged \cup {u}
      BY <3>1, <1>p DEF Stage!Staged, StagedTypes
    <3>4. Cardinality(Stage!Staged) <= MaxPrestaged
      BY <1>p DEF StagedTypes
    <3>5. Cardinality(Stage!Staged') <= MaxPrestaged
      <4>1. CASE u \in Stage!Staged
        <5>1. Stage!Staged' \subseteq Stage!Staged
          BY <3>3, <4>1
        <5> QED BY <5>1, <3>4, StagedFinite, NoMore, StageBounds
      <4>2. CASE u \notin Stage!Staged
        <5>1. Cardinality(Stage!Staged) < MaxPrestaged
          BY <2>2, <4>2, StagedFinite, StageBounds
        <5>2. Cardinality(Stage!Staged') <= Cardinality(Stage!Staged) + 1
          BY <3>3, StagedFinite, OneJoins
        <5> QED BY <5>1, <5>2, StagedFinite, StageBounds
      <4> QED BY <4>1, <4>2
    <3> QED BY <3>2, <3>5 DEF StagedTypes
  <2> QED BY <2>1, <2>2
<1>5. TemplateTypes'
  <2>1. block \in 0 .. MaxBlock /\ stageNow \in 0 .. StageTime
    BY <1>p, StageRanges
  <2>2. templates \in [Pairs -> TemplateAt] /\ templates[p] \in TemplateAt
    BY <1>p DEF TemplateTypes
  <2>3. PICK new : new = [created |-> block, used |-> stageNow]
    OBVIOUS
  <2>4. PICK built : built = [templates EXCEPT ![p] = new]
    OBVIOUS
  <2>5. new \in TemplateAt /\ Stage!NoTemplate \in TemplateAt
    BY <2>1, <2>3, StageRanges DEF TemplateAt, Stage!NoTemplate, Stage!None
  <2>6. built \in [Pairs -> TemplateAt]
    BY <2>2, <2>4, <2>5
  <2>7. PICK again : again = [templates[p] EXCEPT !.used = stageNow]
    OBVIOUS
  <2>8. again \in TemplateAt
    BY <2>1, <2>2, <2>7 DEF TemplateAt
  <2>9. [templates EXCEPT ![p].used = stageNow] = [templates EXCEPT ![p] = again]
    BY <2>2, <2>7
  <2>10. Stage!TemplateOf(p) \subseteq
           {[templates EXCEPT ![p].used = stageNow], built}
             \cup {[built EXCEPT ![q] = Stage!NoTemplate] : q \in Stage!Oldest(built)}
    BY <2>3, <2>4 DEF Stage!TemplateOf
  <2>11. templates' \in Stage!TemplateOf(p)
    BY DEF Stage!Stage
  <2> QED BY <2>2, <2>5, <2>6, <2>8, <2>9, <2>10, <2>11 DEF TemplateTypes
<1> QED BY <1>4, <1>5

\* Candidates that leave make no more of them.
LEMMA FewerStaged ==
  ASSUME StagedTypes, candidates' \in [Users -> PreparedAt], Stage!Staged' \subseteq Stage!Staged
  PROVE  StagedTypes'
<1>1. Cardinality(Stage!Staged') <= Cardinality(Stage!Staged)
  BY StagedFinite, NoMore
<1>2. Cardinality(Stage!Staged) <= MaxPrestaged
  BY DEF StagedTypes
<1>3. Cardinality(Stage!Staged') <= MaxPrestaged
  BY <1>1, <1>2, StagedFinite, StageBounds
<1> QED BY <1>3 DEF StagedTypes

LEMMA StageNext == StageInv /\ (Stage!Next \/ UNCHANGED Stage!vars) => StageInv'
<1> SUFFICES ASSUME StageInv, Stage!Next \/ UNCHANGED Stage!vars
             PROVE  /\ HistoryTypes' /\ AheadTypes' /\ ClearedTypes' /\ StagedTypes'
                    /\ TemplateTypes' /\ SubmitTypes' /\ CleanupTypes' /\ BlockTypes'
  BY StageParts
<1>p. /\ HistoryTypes /\ AheadTypes /\ ClearedTypes /\ StagedTypes
      /\ TemplateTypes /\ SubmitTypes /\ CleanupTypes /\ BlockTypes
  BY StageParts
<1> DEFINE Goal == /\ HistoryTypes' /\ AheadTypes' /\ ClearedTypes' /\ StagedTypes'
                   /\ TemplateTypes' /\ SubmitTypes' /\ CleanupTypes' /\ BlockTypes'
<1>1. ASSUME NEW u \in Users, NEW hf \in StageHfs, NEW b \in 1 .. MaxBlock,
             Stage!HfSeen(u, hf, b)
      PROVE  Goal
  <2>1. /\ UNCHANGED <<block, stageNow, prestageCache, prestageCacheLastClearBlock, staging,
                       Stage!sprinter, Stage!submits>>
    BY <1>1 DEF Stage!HfSeen
  <2>2. PICK s : s = hfHistory[u]
    OBVIOUS
  <2>3. s \in Seq(HfSeenAt) /\ Len(s) <= Window
    BY <2>2, <1>p DEF HistoryTypes
  <2>4. PICK r : r = [hf |-> hf, block |-> b]
    OBVIOUS
  <2>5. r \in HfSeenAt
    BY <2>4 DEF HfSeenAt
  <2>6. PICK t : t = Stage!Kept(Append(s, r))
    OBVIOUS
  <2>7. /\ t \in Seq(HfSeenAt) /\ Len(t) <= Window
        /\ Stage!Projects(t) => Stage!Projected(t) \in Int
    BY <2>3, <2>5, <2>6, HistoryGrows
  <2>8. /\ hfHistory' = [hfHistory EXCEPT ![u] = t]
        /\ \/ preSimQueue' = preSimQueue
           \/ Stage!Projects(t) /\ preSimQueue' = [preSimQueue EXCEPT ![u] = Stage!Projected(t)]
    BY <1>1, <2>2, <2>4, <2>6 DEF Stage!HfSeen
  <2>9. HistoryTypes'
    BY <2>7, <2>8, <1>p DEF HistoryTypes
  <2>10. preSimQueue' \in [Users -> Int]
    BY <2>7, <2>8, <1>p DEF AheadTypes
  <2>11. AheadTypes'
    BY <2>1, <2>10, <1>p DEF AheadTypes
  <2> QED BY <2>1, <2>9, <2>11, <1>p, StageKept DEF Stage!sprinter, Stage!submits
<1>2. ASSUME NEW b \in Stage!Batches, Stage!Ingest(b) PROVE Goal
  <2>1. UNCHANGED <<block, stageNow, hfHistory, prestageCacheLastClearBlock, Stage!sprinter,
                    Stage!submits>>
    BY <1>2 DEF Stage!Ingest
  <2>2. PICK n \in 1 .. MaxBatch :
          b \in [1 .. n -> [user : Users, scenario : Scenarios, hf : StageHfs]]
    BY DEF Stage!Batches
  <2>3. \A i \in 1 .. n : /\ b[i].user \in Users /\ b[i].scenario \in Scenarios
                          /\ b[i].hf \in StageHfs
    BY <2>2
  <2> DEFINE handled == Stage!Handled(b)
             of(u) == {i \in handled : b[i].user = u}
             put == {i \in handled : Stage!Stageable(b[i]) /\ ~ Stage!Known(b[i])}
  <2>4. handled \subseteq 1 .. n
    BY <2>2 DEF Stage!Handled, Stage!Firsts
  <2>5. /\ preSimQueue' = [u \in Users |->
             IF of(u) = {} THEN preSimQueue[u]
             ELSE b[CHOOSE i \in of(u) : \A j \in of(u) : j <= i].hf]
        /\ prestageCache' = [u \in Users |->
             prestageCache[u] \cup {b[i].scenario : i \in put \cap of(u)}]
        /\ staging' = staging \cup {<<b[i].user, b[i].scenario>> :
                                     i \in {k \in put : b[k].hf \in NearBand}}
    BY <1>2 DEF Stage!Ingest
  <2>6. \A u : of(u) \subseteq 1 .. n
    BY <2>4
  <2>7. put \subseteq 1 .. n
    BY <2>4
  <2> HIDE DEF handled, of, put
  <2>8. ASSUME NEW u \in Users, of(u) # {}
        PROVE  b[CHOOSE i \in of(u) : \A j \in of(u) : j <= i].hf \in Int
    <3>1. \E i \in of(u) : \A j \in of(u) : j <= i
      <4>1. n \in Nat
        BY StageBounds
      <4> QED BY <2>6, <2>8, <4>1, GreatestNumber
    <3>2. PICK m : m = CHOOSE i \in of(u) : \A j \in of(u) : j <= i
      OBVIOUS
    <3>3. m \in of(u)
      BY <3>1, <3>2
    <3>4. b[m].hf \in StageHfs
      BY <2>3, <2>6, <3>3
    <3>5. \A hf \in StageHfs : hf \in Int
      BY StageBounds
    <3> QED BY <3>2, <3>4, <3>5
  <2>9. preSimQueue' \in [Users -> Int]
    BY <2>5, <2>8, <1>p DEF AheadTypes
  <2>10. prestageCache' \in [Users -> SUBSET Scenarios]
    <3>1. \A u \in Users : {b[i].scenario : i \in put \cap of(u)} \subseteq Scenarios
      BY <2>3, <2>7
    <3>2. \A u \in Users : prestageCache[u] \subseteq Scenarios
      BY <1>p DEF AheadTypes
    <3> QED BY <2>5, <3>1, <3>2
  <2>11. staging' \subseteq Users \X Scenarios
    BY <2>3, <2>5, <2>7, <1>p DEF AheadTypes
  <2> QED BY <2>1, <2>9, <2>10, <2>11, <1>p, StageKept
          DEF AheadTypes, Stage!sprinter, Stage!submits
<1>3. ASSUME NEW u \in Users, NEW s \in Scenarios, NEW hf \in StageHfs,
             Stage!StageAgain(u, s, hf)
      PROVE  Goal
  <2>1. /\ UNCHANGED <<block, stageNow, hfHistory, preSimQueue, prestageCache,
                       prestageCacheLastClearBlock, Stage!sprinter, Stage!submits>>
        /\ staging' = staging \cup {<<u, s>>}
    BY <1>3 DEF Stage!StageAgain
  <2>2. AheadTypes'
    BY <2>1, <1>p DEF AheadTypes
  <2> QED BY <2>1, <2>2, <1>p, StageKept DEF Stage!sprinter, Stage!submits
<1>4. ASSUME NEW r \in staging, Stage!StagingEnds(r) PROVE Goal
  <2>1. /\ UNCHANGED <<block, stageNow, hfHistory, preSimQueue, prestageCache,
                       prestageCacheLastClearBlock, Stage!sprinter, Stage!submits>>
        /\ staging' = staging \ {r}
    BY <1>4 DEF Stage!StagingEnds
  <2>2. AheadTypes'
    BY <2>1, <1>p DEF AheadTypes
  <2> QED BY <2>1, <2>2, <1>p, StageKept DEF Stage!sprinter, Stage!submits
<1>5. ASSUME Stage!NewBlock PROVE Goal
  <2>1. UNCHANGED <<stageNow, hfHistory, preSimQueue, staging, Stage!sprinter, Stage!submits>>
    BY <1>5 DEF Stage!NewBlock
  <2>2. BlockTypes'
    BY <1>5, <2>1, <1>p, StageBounds DEF Stage!NewBlock, BlockTypes
  <2>3. prestageCacheLastClearBlock' \in {prestageCacheLastClearBlock, block'}
    BY <1>5 DEF Stage!NewBlock
  <2>4. ClearedTypes'
    BY <2>2, <2>3, <1>p, StageBounds DEF BlockTypes, ClearedTypes
  <2>5. prestageCache' \in {prestageCache, [u \in Users |-> {}]}
    BY <1>5 DEF Stage!NewBlock
  <2>6. AheadTypes'
    BY <2>1, <2>5, <1>p DEF AheadTypes
  <2> QED BY <2>1, <2>2, <2>4, <2>6, <1>p, StageKept DEF Stage!sprinter, Stage!submits
<1>6. ASSUME NEW u \in Users, NEW hf \in StageHfs, NEW p \in Pairs, Stage!Stage(u, hf, p)
      PROVE  Goal
  <2>1. UNCHANGED <<block, stageNow, Stage!ahead, Stage!submits>>
    BY <1>6 DEF Stage!Stage
  <2>2. StagedTypes' /\ TemplateTypes'
    BY <1>6, CandidateStaged
  <2> QED BY <2>1, <2>2, <1>p, StageKept DEF Stage!ahead, Stage!submits
<1>7. ASSUME NEW u \in Users, Stage!Unstage(u) PROVE Goal
  <2>1. UNCHANGED <<block, stageNow, Stage!ahead, templates, Stage!submits>>
        /\ candidates' = [candidates EXCEPT ![u] = Stage!NoCandidate]
    BY <1>7 DEF Stage!Unstage
  <2>2. Stage!NoCandidate \in PreparedAt
    BY StageRanges DEF Stage!NoCandidate, Stage!None, PreparedAt
  <2>3. candidates' \in [Users -> PreparedAt] /\ Stage!Staged' \subseteq Stage!Staged
    BY <2>1, <2>2, <1>p DEF StagedTypes, Stage!Staged
  <2> QED BY <2>1, <2>3, <1>p, FewerStaged, StageKept DEF Stage!ahead, Stage!submits
<1>8. ASSUME Stage!EvictStale PROVE Goal
  <2>1. /\ UNCHANGED <<block, stageNow, Stage!ahead, templates, Stage!submits>>
        /\ candidates' = [u \in Users |-> IF candidates[u].prepared < block - StaleBlocks
                                          THEN Stage!NoCandidate ELSE candidates[u]]
    BY <1>8 DEF Stage!EvictStale
  <2>2. Stage!NoCandidate \in PreparedAt
    BY StageRanges DEF Stage!NoCandidate, Stage!None, PreparedAt
  <2>3. \A u \in Users : candidates[u] \in PreparedAt
    BY <1>p DEF StagedTypes
  <2>4. candidates' \in [Users -> PreparedAt]
    BY <2>1, <2>2, <2>3
  <2>5. Stage!Staged' \subseteq Stage!Staged
    BY <2>1 DEF Stage!Staged
  <2> QED BY <2>1, <2>4, <2>5, <1>p, FewerStaged, StageKept DEF Stage!ahead, Stage!submits
<1>9. ASSUME Stage!RefreshTemplates PROVE Goal
  <2>1. /\ UNCHANGED <<block, stageNow, Stage!ahead, candidates, Stage!submits>>
        /\ templates' = [q \in Pairs |-> IF q \in Stage!Templates /\ Stage!StaleTemplate(q)
                                         THEN Stage!NoTemplate ELSE templates[q]]
    BY <1>9 DEF Stage!RefreshTemplates
  <2>2. Stage!NoTemplate \in TemplateAt
    BY StageRanges DEF Stage!NoTemplate, Stage!None, TemplateAt
  <2>3. TemplateTypes'
    BY <2>1, <2>2, <1>p DEF TemplateTypes
  <2> QED BY <2>1, <2>3, <1>p, StageKept DEF Stage!ahead, Stage!submits
<1>10. ASSUME NEW t \in Submits,
              \/ Stage!OnPredictiveCandidate(t) \/ Stage!Broadcast(t) \/ Stage!Recorded(t)
              \/ Stage!SubmitFailed(t) \/ Stage!RemovePending(t)
       PROVE  Goal
  <2>1. UNCHANGED <<block, stageNow, Stage!ahead, Stage!sprinter, cleanup, isShuttingDown>>
    BY <1>10 DEF Stage!OnPredictiveCandidate, Stage!Broadcast, Stage!Recorded,
       Stage!SubmitFailed, Stage!RemovePending
  <2>2. submit[t] \in SentAt /\ block \in 0 .. MaxBlock
    BY <1>p, StageRanges DEF SubmitTypes
  <2>3. \E s \in SentAt : submit' = [submit EXCEPT ![t] = s]
    <3>1. \A pc \in {"building", "sent", "gone"} : [submit[t] EXCEPT !.pc = pc] \in SentAt
      BY <2>2 DEF SentAt
    <3>2. [submit[t] EXCEPT !.pc = "pending", !.block = block] \in SentAt
      BY <2>2 DEF SentAt
    <3>3. CASE Stage!Recorded(t)
      <4>1. submit' = [submit EXCEPT ![t] = [submit[t] EXCEPT !.pc = "pending", !.block = block]]
        BY <3>3, <1>p DEF Stage!Recorded, SubmitTypes
      <4> QED BY <3>2, <4>1
    <3>4. CASE \E pc \in {"building", "sent", "gone"} : submit' = [submit EXCEPT ![t].pc = pc]
      <4>1. PICK pc \in {"building", "sent", "gone"} : submit' = [submit EXCEPT ![t].pc = pc]
        BY <3>4
      <4>2. submit' = [submit EXCEPT ![t] = [submit[t] EXCEPT !.pc = pc]]
        BY <4>1
      <4> QED BY <3>1, <4>2
    <3> QED BY <1>10, <3>3, <3>4 DEF Stage!OnPredictiveCandidate, Stage!Broadcast,
               Stage!SubmitFailed, Stage!RemovePending
  <2>4. SubmitTypes'
    BY <2>1, <2>3, <1>p DEF SubmitTypes
  <2> QED BY <2>1, <2>4, <1>p, StageKept DEF Stage!ahead, Stage!sprinter
<1>11. ASSUME Stage!CleanupStarts \/ Stage!CleanupExpired PROVE Goal
  <2>1. UNCHANGED <<block, stageNow, Stage!ahead, Stage!sprinter, isShuttingDown>>
    BY <1>11 DEF Stage!CleanupStarts, Stage!CleanupExpired
  <2>2. CleanupTypes'
    BY <1>11, <1>p, StageRanges DEF Stage!CleanupStarts, Stage!CleanupExpired, CleanupTypes,
       Stage!None
  <2>3. SubmitTypes'
    <3>1. \A t \in Submits : submit[t] \in SentAt /\ [submit[t] EXCEPT !.pc = "gone"] \in SentAt
      BY <1>p DEF SubmitTypes, SentAt
    <3>2. CASE UNCHANGED submit
      BY <2>1, <3>2, <1>p DEF SubmitTypes
    <3>3. CASE ~ UNCHANGED submit
      <4>1. submit' = [t \in Submits |->
              IF Stage!SubmitAt(t, "pending") /\ cleanup - submit[t].block > TtlBlocks
              THEN [submit[t] EXCEPT !.pc = "gone"] ELSE submit[t]]
        BY <1>11, <3>3 DEF Stage!CleanupStarts, Stage!CleanupExpired
      <4> QED BY <2>1, <3>1, <4>1, <1>p DEF SubmitTypes
    <3> QED BY <3>2, <3>3
  <2> QED BY <2>1, <2>2, <2>3, <1>p, StageKept DEF Stage!ahead, Stage!sprinter
<1>12. ASSUME Stage!Shutdown PROVE Goal
  <2>1. /\ UNCHANGED <<block, stageNow, Stage!ahead, Stage!sprinter, submit, cleanup>>
        /\ isShuttingDown' = TRUE
    BY <1>12 DEF Stage!Shutdown
  <2>2. SubmitTypes'
    BY <2>1, <1>p DEF SubmitTypes
  <2> QED BY <2>1, <2>2, <1>p, StageKept DEF Stage!ahead, Stage!sprinter
<1>13. ASSUME Stage!Tick PROVE Goal
  <2>1. UNCHANGED <<block, Stage!ahead, Stage!sprinter, Stage!submits>>
    BY <1>13 DEF Stage!Tick
  <2>2. BlockTypes'
    BY <1>13, <2>1, <1>p, StageBounds DEF Stage!Tick, BlockTypes
  <2> QED BY <2>1, <2>2, <1>p, StageKept DEF Stage!ahead, Stage!sprinter, Stage!submits
<1>14. ASSUME UNCHANGED Stage!vars PROVE Goal
  BY <1>14, <1>p, StageKept DEF Stage!vars, Stage!ahead, Stage!sprinter, Stage!submits
<1> QED
  <2>1. CASE Stage!AheadStep
    BY <2>1, <1>1, <1>5 DEF Stage!AheadStep
  <2>2. CASE Stage!IngestStep
    BY <2>2, <1>2, <1>3, <1>4, <1>5 DEF Stage!IngestStep
  <2>3. CASE Stage!SprinterStep
    BY <2>3, <1>5, <1>6, <1>7, <1>8, <1>9, <1>13 DEF Stage!SprinterStep
  <2>4. CASE Stage!SubmitStep
    BY <2>4, <1>5, <1>10, <1>11, <1>12 DEF Stage!SubmitStep
  <2> QED BY <2>1, <2>2, <2>3, <2>4, <1>14 DEF Stage!Next

-----------------------------------------------------------------------------
\* The hot sets.

HotRated == [Users -> HotHfs \cup {Hot!None}]
HotOrder == [Users -> Priorities \cup {Hot!Absent}]

SetTypes ==
  /\ hotSet \in HotRated /\ Cardinality(Hot!In(hotSet)) <= MaxHotSize
  /\ warmSet \in HotRated /\ Cardinality(Hot!In(warmSet)) <= MaxWarmSize
HotPlanTypes ==
  precomputed \in [Users -> 0 .. MaxBlock] /\ readings \subseteq Users \X (1 .. MaxBlock)
OrderTypes ==
  /\ hotQueue \in HotOrder /\ Cardinality(Hot!Queued(hotQueue)) <= MaxHotSize
  /\ warmQueue \in HotOrder /\ Cardinality(Hot!Queued(warmQueue)) <= MaxWarmSize
IntentTypes == {intent, building} \subseteq Hot!Intents \cup {Hot!NoIntent}
TrackedTypes == tracked \subseteq Assets /\ Cardinality(tracked) <= MaxCacheSize
PricedTypes == cached \in [Assets -> 0 .. HotTime] /\ priced \subseteq Assets
HotClockTypes == hotBlock \in 1 .. MaxBlock /\ hotNow \in 1 .. HotTime

HotInv == Hot!TypeOK /\ Hot!WithinLimits

LEMMA HotParts ==
  /\ HotInv <=> /\ SetTypes /\ HotPlanTypes /\ OrderTypes /\ IntentTypes /\ TrackedTypes
                /\ PricedTypes /\ HotClockTypes
  /\ HotInv' <=> /\ SetTypes' /\ HotPlanTypes' /\ OrderTypes' /\ IntentTypes' /\ TrackedTypes'
                 /\ PricedTypes' /\ HotClockTypes'
<1>1. Hot!WithinLimits <=>
        /\ Cardinality(Hot!In(hotSet)) <= MaxHotSize
        /\ Cardinality(Hot!In(warmSet)) <= MaxWarmSize
        /\ Cardinality(Hot!Queued(hotQueue)) <= MaxHotSize
        /\ Cardinality(Hot!Queued(warmQueue)) <= MaxWarmSize
        /\ Cardinality(tracked) <= MaxCacheSize
  BY SameCounts DEF Hot!WithinLimits
<1>2. Hot!WithinLimits' <=>
        /\ Cardinality(Hot!In(hotSet')) <= MaxHotSize
        /\ Cardinality(Hot!In(warmSet')) <= MaxWarmSize
        /\ Cardinality(Hot!Queued(hotQueue')) <= MaxHotSize
        /\ Cardinality(Hot!Queued(warmQueue')) <= MaxWarmSize
        /\ Cardinality(tracked') <= MaxCacheSize
  BY SameCounts DEF Hot!WithinLimits, Hot!In, Hot!Queued
<1>3. /\ SetTypes' <=> /\ hotSet' \in HotRated /\ Cardinality(Hot!In(hotSet')) <= MaxHotSize
                       /\ warmSet' \in HotRated /\ Cardinality(Hot!In(warmSet')) <= MaxWarmSize
      /\ OrderTypes' <=> /\ hotQueue' \in HotOrder
                         /\ Cardinality(Hot!Queued(hotQueue')) <= MaxHotSize
                         /\ warmQueue' \in HotOrder
                         /\ Cardinality(Hot!Queued(warmQueue')) <= MaxWarmSize
  BY DEF SetTypes, OrderTypes, Hot!In, Hot!Queued
<1> QED BY <1>1, <1>2, <1>3 DEF HotInv, Hot!TypeOK, HotRated, HotOrder, SetTypes, HotPlanTypes,
           OrderTypes, IntentTypes, TrackedTypes, PricedTypes, HotClockTypes

LEMMA HotBounds ==
  /\ IsFiniteSet(Users) /\ IsFiniteSet(Assets)
  /\ MaxHotSize \in Nat \ {0} /\ MaxWarmSize \in Nat \ {0} /\ MaxCacheSize \in Nat \ {0}
  /\ MaxBlock \in Nat \ {0} /\ HotTime \in Nat \ {0}
  BY PartAssumptions, SameCounts DEF Hot!HotSetsAssumption

LEMMA HotRanges ==
  /\ 0 \in 0 .. MaxBlock /\ 0 \in 0 .. HotTime
  /\ HotClockTypes => hotNow \in 0 .. HotTime
  BY HotBounds DEF HotClockTypes

LEMMA HotCounts ==
  \A f : /\ IsFiniteSet(Hot!In(f)) /\ Cardinality(Hot!In(f)) \in Nat
         /\ IsFiniteSet(Hot!Queued(f)) /\ Cardinality(Hot!Queued(f)) \in Nat
<1> TAKE f
<1>1. Hot!In(f) \subseteq Users /\ Hot!Queued(f) \subseteq Users
  BY DEF Hot!In, Hot!Queued
<1> QED BY <1>1, HotBounds, FS_Subset, FS_CardinalityType

LEMMA HotKept ==
  /\ SetTypes /\ UNCHANGED <<hotSet, warmSet>> => SetTypes'
  /\ HotPlanTypes /\ UNCHANGED <<precomputed, readings>> => HotPlanTypes'
  /\ OrderTypes /\ UNCHANGED <<hotQueue, warmQueue>> => OrderTypes'
  /\ IntentTypes /\ UNCHANGED <<intent, building>> => IntentTypes'
  /\ TrackedTypes /\ UNCHANGED tracked => TrackedTypes'
  /\ PricedTypes /\ UNCHANGED <<cached, priced>> => PricedTypes'
  /\ HotClockTypes /\ UNCHANGED <<hotBlock, hotNow>> => HotClockTypes'
<1>1. SetTypes /\ UNCHANGED <<hotSet, warmSet>> => SetTypes'
  BY DEF SetTypes, Hot!In
<1>2. OrderTypes /\ UNCHANGED <<hotQueue, warmQueue>> => OrderTypes'
  BY DEF OrderTypes, Hot!Queued
<1>3. TrackedTypes /\ UNCHANGED tracked => TrackedTypes'
  BY DEF TrackedTypes
<1> QED BY <1>1, <1>2, <1>3 DEF HotPlanTypes, IntentTypes, PricedTypes, HotClockTypes

LEMMA HotInit == Hot!Init => HotInv
<1> SUFFICES ASSUME Hot!Init PROVE HotInv
  OBVIOUS
<1>0. Cardinality({}) = 0
  BY FS_EmptySet
<1>1. SetTypes
  <2>1. Hot!In(hotSet) = {} /\ Hot!In(warmSet) = {}
    BY DEF Hot!Init, Hot!In
  <2>2. Cardinality(Hot!In(hotSet)) <= MaxHotSize /\ Cardinality(Hot!In(warmSet)) <= MaxWarmSize
    BY <1>0, <2>1, HotBounds
  <2> QED BY <2>2 DEF Hot!Init, SetTypes, HotRated
<1>2. HotPlanTypes
  BY HotRanges DEF Hot!Init, HotPlanTypes, Hot!None
<1>3. OrderTypes
  <2>1. Hot!Queued(hotQueue) = {} /\ Hot!Queued(warmQueue) = {}
    BY DEF Hot!Init, Hot!Queued
  <2>2. /\ Cardinality(Hot!Queued(hotQueue)) <= MaxHotSize
        /\ Cardinality(Hot!Queued(warmQueue)) <= MaxWarmSize
    BY <1>0, <2>1, HotBounds
  <2> QED BY <2>2 DEF Hot!Init, OrderTypes, HotOrder
<1>4. IntentTypes
  BY DEF Hot!Init, IntentTypes
<1>5. TrackedTypes
  BY <1>0, HotBounds DEF Hot!Init, TrackedTypes
<1>6. PricedTypes
  BY HotRanges DEF Hot!Init, PricedTypes, Hot!None
<1>7. HotClockTypes
  BY HotBounds DEF Hot!Init, HotClockTypes
<1> QED BY <1>1, <1>2, <1>3, <1>4, <1>5, <1>6, <1>7, HotParts

\* A set that gets a member it has not, and a queue that gets any.
LEMMA AddedFits ==
  ASSUME NEW set \in HotRated, NEW max \in Nat \ {0}, Cardinality(Hot!In(set)) <= max,
         NEW u \in Users, set[u] = Hot!None, NEW hf \in HotHfs,
         NEW q \in Hot!Added(set, max, u, hf)
  PROVE  q \in HotRated /\ Cardinality(Hot!In(q)) <= max
<1>1. CASE Cardinality(Hot!In(set)) >= max
  <2>1. PICK v \in Hot!In(set) : q = [set EXCEPT ![v] = Hot!None, ![u] = hf]
    BY <1>1, SameCounts DEF Hot!Added
  <2>2. v \in Users /\ v # u
    BY DEF Hot!In
  <2>3. q \in HotRated
    BY <2>1, <2>2 DEF HotRated
  <2>4. Hot!In(q) \subseteq (Hot!In(set) \ {v}) \cup {u}
    BY <2>1, <2>2 DEF Hot!In, HotRated
  <2>5. Cardinality(Hot!In(q)) <= Cardinality(Hot!In(set))
    BY <2>4, HotCounts, MadeRoom
  <2> QED BY <2>3, <2>5, HotCounts
<1>2. CASE ~ (Cardinality(Hot!In(set)) >= max)
  <2>1. q = [set EXCEPT ![u] = hf]
    BY <1>2, SameCounts DEF Hot!Added
  <2>2. q \in HotRated
    BY <2>1 DEF HotRated
  <2>3. Hot!In(q) \subseteq Hot!In(set) \cup {u}
    BY <2>1 DEF Hot!In, HotRated
  <2>4. Cardinality(Hot!In(q)) <= Cardinality(Hot!In(set)) + 1
    BY <2>3, HotCounts, OneJoins
  <2> QED BY <1>2, <2>2, <2>4, HotCounts
<1> QED BY <1>1, <1>2

LEMMA EnqueuedFits ==
  ASSUME NEW q \in HotOrder, NEW max \in Nat \ {0}, Cardinality(Hot!Queued(q)) <= max,
         NEW u \in Users, NEW n \in Priorities, NEW r \in Hot!Enqueued(q, max, u, n)
  PROVE  r \in HotOrder /\ Cardinality(Hot!Queued(r)) <= max
<1>1. CASE Cardinality(Hot!Queued(q)) >= max /\ u \notin Hot!Queued(q)
  <2>1. PICK v \in Hot!Queued(q) : r = [q EXCEPT ![v] = Hot!Absent, ![u] = n]
    BY <1>1, SameCounts DEF Hot!Enqueued
  <2>2. v \in Users /\ v # u
    BY <1>1 DEF Hot!Queued
  <2>3. r \in HotOrder
    BY <2>1, <2>2 DEF HotOrder
  <2>4. Hot!Queued(r) \subseteq (Hot!Queued(q) \ {v}) \cup {u}
    BY <2>1, <2>2 DEF Hot!Queued, HotOrder
  <2>5. Cardinality(Hot!Queued(r)) <= Cardinality(Hot!Queued(q))
    BY <2>4, HotCounts, MadeRoom
  <2> QED BY <2>3, <2>5, HotCounts
<1>2. CASE ~ (Cardinality(Hot!Queued(q)) >= max /\ u \notin Hot!Queued(q))
  <2>1. r = [q EXCEPT ![u] = n]
    BY <1>2, SameCounts DEF Hot!Enqueued
  <2>2. r \in HotOrder
    BY <2>1 DEF HotOrder
  <2>3. Hot!Queued(r) \subseteq Hot!Queued(q) \cup {u}
    BY <2>1 DEF Hot!Queued, HotOrder
  <2>4. CASE u \in Hot!Queued(q)
    <3>1. Hot!Queued(r) \subseteq Hot!Queued(q)
      BY <2>3, <2>4
    <3>2. Cardinality(Hot!Queued(r)) <= Cardinality(Hot!Queued(q))
      BY <3>1, HotCounts, NoMore
    <3> QED BY <2>2, <3>2, HotCounts
  <2>5. CASE u \notin Hot!Queued(q)
    <3>1. Cardinality(Hot!Queued(r)) <= Cardinality(Hot!Queued(q)) + 1
      BY <2>3, HotCounts, OneJoins
    <3> QED BY <1>2, <2>2, <2>5, <3>1, HotCounts
  <2> QED BY <2>4, <2>5
<1> QED BY <1>1, <1>2

\* A member that leaves.
LEMMA RemovedFits ==
  ASSUME NEW u \in Users
  PROVE  /\ \A set \in HotRated :
              LET out == [set EXCEPT ![u] = Hot!None] IN
              /\ out \in HotRated /\ out[u] = Hot!None
              /\ Cardinality(Hot!In(out)) <= Cardinality(Hot!In(set))
         /\ \A q \in HotOrder :
              LET out == [q EXCEPT ![u] = Hot!Absent] IN
              /\ out \in HotOrder
              /\ Cardinality(Hot!Queued(out)) <= Cardinality(Hot!Queued(q))
<1>1. ASSUME NEW set \in HotRated, NEW out, out = [set EXCEPT ![u] = Hot!None]
      PROVE  /\ out \in HotRated /\ out[u] = Hot!None
             /\ Cardinality(Hot!In(out)) <= Cardinality(Hot!In(set))
  <2>1. out \in HotRated /\ out[u] = Hot!None
    BY <1>1 DEF HotRated
  <2>2. Hot!In(out) \subseteq Hot!In(set)
    BY <1>1 DEF HotRated, Hot!In
  <2> QED BY <2>1, <2>2, HotCounts, NoMore
<1>2. ASSUME NEW q \in HotOrder, NEW out, out = [q EXCEPT ![u] = Hot!Absent]
      PROVE  /\ out \in HotOrder
             /\ Cardinality(Hot!Queued(out)) <= Cardinality(Hot!Queued(q))
  <2>1. out \in HotOrder
    BY <1>2 DEF HotOrder
  <2>2. Hot!Queued(out) \subseteq Hot!Queued(q)
    BY <1>2 DEF HotOrder, Hot!Queued
  <2> QED BY <2>1, <2>2, HotCounts, NoMore
<1> QED BY <1>1, <1>2

LEMMA SetsUpdated ==
  ASSUME SetTypes, NEW u \in Users, NEW hf \in HotHfs, Hot!Update(u, hf)
  PROVE  SetTypes'
<1>1. PICK hot : hot = [hotSet EXCEPT ![u] = Hot!None]
  OBVIOUS
<1>2. PICK warm : warm = [warmSet EXCEPT ![u] = Hot!None]
  OBVIOUS
<1>3. /\ hot \in HotRated /\ hot[u] = Hot!None
      /\ Cardinality(Hot!In(hot)) <= Cardinality(Hot!In(hotSet))
      /\ warm \in HotRated /\ warm[u] = Hot!None
      /\ Cardinality(Hot!In(warm)) <= Cardinality(Hot!In(warmSet))
  BY <1>1, <1>2, RemovedFits DEF SetTypes
<1>4. Cardinality(Hot!In(hotSet)) <= MaxHotSize /\ Cardinality(Hot!In(warmSet)) <= MaxWarmSize
  BY DEF SetTypes
<1>5. Cardinality(Hot!In(hot)) <= MaxHotSize /\ Cardinality(Hot!In(warm)) <= MaxWarmSize
  BY <1>3, <1>4, HotCounts, HotBounds
<1>6. /\ hotSet' \in Hot!Added(hot, MaxHotSize, u, hf) \cup {hot}
      /\ warmSet' \in Hot!Added(warm, MaxWarmSize, u, hf) \cup {warm}
  BY <1>1, <1>2 DEF Hot!Update
<1>7. hotSet' \in HotRated /\ Cardinality(Hot!In(hotSet')) <= MaxHotSize
  BY <1>3, <1>5, <1>6, HotBounds, AddedFits
<1>8. warmSet' \in HotRated /\ Cardinality(Hot!In(warmSet')) <= MaxWarmSize
  BY <1>3, <1>5, <1>6, HotBounds, AddedFits
<1> QED BY <1>7, <1>8 DEF SetTypes, Hot!In

LEMMA AssetsTracked ==
  ASSUME TrackedTypes, NEW as \in SUBSET Assets, Hot!TrackAssets(as)
  PROVE  TrackedTypes'
<1>1. PICK all : all = tracked \cup as
  OBVIOUS
<1>2. all \subseteq Assets /\ IsFiniteSet(all) /\ Cardinality(all) \in Nat
  <2>1. all \subseteq Assets
    BY <1>1 DEF TrackedTypes
  <2> QED BY <2>1, HotBounds, FS_Subset, FS_CardinalityType
<1>3. PICK over : over = Cardinality(all) - MaxCacheSize
  OBVIOUS
<1>4. CASE over > 0
  <2>1. PICK t \in SUBSET all : Cardinality(t) = over /\ tracked' = all \ t
    BY <1>1, <1>3, <1>4, SameCounts DEF Hot!TrackAssets
  <2>2. all \cap t = t
    OBVIOUS
  <2>3. Cardinality(all \ t) = Cardinality(all) - Cardinality(t)
    BY <1>2, <2>2, FS_Difference
  <2>4. Cardinality(tracked') = MaxCacheSize
    BY <1>2, <1>3, <2>1, <2>3, HotBounds
  <2> QED BY <1>2, <2>1, <2>4, HotBounds DEF TrackedTypes
<1>5. CASE ~ (over > 0)
  <2>1. tracked' = all
    BY <1>1, <1>3, <1>5, SameCounts DEF Hot!TrackAssets
  <2>2. Cardinality(tracked') <= MaxCacheSize
    BY <1>2, <1>3, <1>5, <2>1, HotBounds
  <2> QED BY <1>2, <2>1, <2>2 DEF TrackedTypes
<1> QED BY <1>4, <1>5

LEMMA HotNext == HotInv /\ (Hot!Next \/ UNCHANGED Hot!vars) => HotInv'
<1> SUFFICES ASSUME HotInv, Hot!Next \/ UNCHANGED Hot!vars
             PROVE  /\ SetTypes' /\ HotPlanTypes' /\ OrderTypes' /\ IntentTypes' /\ TrackedTypes'
                    /\ PricedTypes' /\ HotClockTypes'
  BY HotParts
<1>p. /\ SetTypes /\ HotPlanTypes /\ OrderTypes /\ IntentTypes /\ TrackedTypes
      /\ PricedTypes /\ HotClockTypes
  BY HotParts
<1> DEFINE Goal == /\ SetTypes' /\ HotPlanTypes' /\ OrderTypes' /\ IntentTypes'
                   /\ TrackedTypes' /\ PricedTypes' /\ HotClockTypes'
<1>1. ASSUME NEW u \in Users, NEW hf \in HotHfs, Hot!Update(u, hf) PROVE Goal
  <2>1. UNCHANGED <<hotBlock, hotNow, Hot!plans, Hot!queues, Hot!intents, Hot!prices>>
    BY <1>1 DEF Hot!Update
  <2>2. SetTypes'
    BY <1>1, <1>p, SetsUpdated
  <2> QED BY <2>1, <2>2, <1>p, HotKept DEF Hot!plans, Hot!queues, Hot!intents, Hot!prices
<1>2. ASSUME NEW u \in Users, Hot!Remove(u) PROVE Goal
  <2>1. /\ UNCHANGED <<hotBlock, hotNow, Hot!plans, Hot!queues, Hot!intents, Hot!prices>>
        /\ hotSet' = [hotSet EXCEPT ![u] = Hot!None]
        /\ warmSet' = [warmSet EXCEPT ![u] = Hot!None]
    BY <1>2 DEF Hot!Remove
  <2>2. /\ hotSet' \in HotRated
        /\ Cardinality(Hot!In(hotSet')) <= Cardinality(Hot!In(hotSet))
        /\ warmSet' \in HotRated
        /\ Cardinality(Hot!In(warmSet')) <= Cardinality(Hot!In(warmSet))
    BY <2>1, <1>p, RemovedFits DEF SetTypes
  <2>3. Cardinality(Hot!In(hotSet)) <= MaxHotSize /\ Cardinality(Hot!In(warmSet)) <= MaxWarmSize
    BY <1>p DEF SetTypes
  <2>4. Cardinality(Hot!In(hotSet')) <= MaxHotSize /\ Cardinality(Hot!In(warmSet')) <= MaxWarmSize
    BY <2>2, <2>3, HotCounts, HotBounds
  <2>5. SetTypes'
    BY <2>2, <2>4 DEF SetTypes, Hot!In
  <2> QED BY <2>1, <2>5, <1>p, HotKept DEF Hot!plans, Hot!queues, Hot!intents, Hot!prices
<1>3. ASSUME Hot!Precompute PROVE Goal
  <2>1. PICK s \in Hot!LowestHot(TopK) :
          /\ precomputed' = [u \in Users |-> IF precomputed[u] < hotBlock THEN Hot!None
                                             ELSE precomputed[u]]
          /\ readings' = readings \cup (s \X {hotBlock})
          /\ UNCHANGED <<hotBlock, hotNow, Hot!tracker, Hot!queues, Hot!intents, Hot!prices>>
    BY <1>3 DEF Hot!Precompute
  <2>2. s \subseteq Users
    BY DEF Hot!LowestHot, Hot!In
  <2>3. precomputed' \in [Users -> 0 .. MaxBlock]
    <3>1. \A u \in Users : precomputed[u] \in 0 .. MaxBlock
      BY <1>p DEF HotPlanTypes
    <3> QED BY <2>1, <3>1, HotRanges DEF Hot!None
  <2>4. readings' \subseteq Users \X (1 .. MaxBlock)
    BY <2>1, <2>2, <1>p DEF HotPlanTypes, HotClockTypes
  <2>5. HotPlanTypes'
    BY <2>3, <2>4 DEF HotPlanTypes
  <2> QED BY <2>1, <2>5, <1>p, HotKept DEF Hot!tracker, Hot!queues, Hot!intents, Hot!prices
<1>4. ASSUME NEW r \in readings, NEW written \in BOOLEAN, Hot!PrecomputedForUser(r, written)
      PROVE  Goal
  <2>1. /\ UNCHANGED <<hotBlock, hotNow, Hot!tracker, Hot!queues, Hot!intents, Hot!prices>>
        /\ readings' = readings \ {r}
        /\ precomputed' \in {precomputed, [precomputed EXCEPT ![r[1]] = r[2]]}
    BY <1>4 DEF Hot!PrecomputedForUser
  <2>2. PICK n \in 1 .. MaxBlock : n = r[2]
    BY <1>p DEF HotPlanTypes
  <2>3. n \in 0 .. MaxBlock
    BY <2>2
  <2>4. precomputed' \in [Users -> 0 .. MaxBlock]
    BY <2>1, <2>2, <2>3, <1>p DEF HotPlanTypes
  <2>5. HotPlanTypes'
    BY <2>1, <2>4, <1>p DEF HotPlanTypes
  <2> QED BY <2>1, <2>5, <1>p, HotKept DEF Hot!tracker, Hot!queues, Hot!intents, Hot!prices
<1>5. ASSUME NEW s \in SUBSET Users, Hot!Invalidate(s) PROVE Goal
  <2>1. /\ UNCHANGED <<hotBlock, hotNow, Hot!tracker, readings, Hot!queues, Hot!intents,
                       Hot!prices>>
        /\ precomputed' = [u \in Users |-> IF u \in s THEN Hot!None ELSE precomputed[u]]
    BY <1>5 DEF Hot!Invalidate
  <2>2. \A u \in Users : precomputed[u] \in 0 .. MaxBlock
    BY <1>p DEF HotPlanTypes
  <2>3. precomputed' \in [Users -> 0 .. MaxBlock]
    BY <2>1, <2>2, HotRanges DEF Hot!None
  <2>4. HotPlanTypes'
    BY <2>1, <2>3, <1>p DEF HotPlanTypes
  <2> QED BY <2>1, <2>4, <1>p, HotKept DEF Hot!tracker, Hot!queues, Hot!intents, Hot!prices
<1>6. ASSUME NEW u \in Users, NEW hf \in HotHfs, NEW n \in Priorities,
             \/ \E projected \in BOOLEAN : Hot!UpsertHot(u, hf, n, projected)
             \/ Hot!UpsertWarm(u, hf, n)
      PROVE  Goal
  <2>1. UNCHANGED <<hotBlock, hotNow, Hot!tracker, Hot!plans, Hot!intents, Hot!prices>>
    BY <1>6 DEF Hot!UpsertHot, Hot!UpsertWarm
  <2>2. /\ hotQueue' \in Hot!Enqueued(hotQueue, MaxHotSize, u, n) \cup {hotQueue}
        /\ warmQueue' \in Hot!Enqueued(warmQueue, MaxWarmSize, u, n) \cup {warmQueue}
    BY <1>6 DEF Hot!UpsertHot, Hot!UpsertWarm
  <2>3. hotQueue' \in HotOrder /\ Cardinality(Hot!Queued(hotQueue')) <= MaxHotSize
    BY <2>2, <1>p, HotBounds, EnqueuedFits DEF OrderTypes
  <2>4. warmQueue' \in HotOrder /\ Cardinality(Hot!Queued(warmQueue')) <= MaxWarmSize
    BY <2>2, <1>p, HotBounds, EnqueuedFits DEF OrderTypes
  <2>5. OrderTypes'
    BY <2>3, <2>4 DEF OrderTypes, Hot!Queued
  <2> QED BY <2>1, <2>5, <1>p, HotKept DEF Hot!tracker, Hot!plans, Hot!intents, Hot!prices
<1>7. ASSUME NEW u \in Users, Hot!Dequeue(u) PROVE Goal
  <2>1. /\ UNCHANGED <<hotBlock, hotNow, Hot!tracker, Hot!plans, Hot!intents, Hot!prices>>
        /\ hotQueue' \in {hotQueue, [hotQueue EXCEPT ![u] = Hot!Absent]}
        /\ warmQueue' \in {warmQueue, [warmQueue EXCEPT ![u] = Hot!Absent]}
    BY <1>7 DEF Hot!Dequeue
  <2>2. /\ hotQueue \in HotOrder /\ Cardinality(Hot!Queued(hotQueue)) <= MaxHotSize
        /\ warmQueue \in HotOrder /\ Cardinality(Hot!Queued(warmQueue)) <= MaxWarmSize
    BY <1>p DEF OrderTypes
  <2>3. /\ hotQueue' \in HotOrder
        /\ \/ hotQueue' = hotQueue
           \/ Cardinality(Hot!Queued(hotQueue')) <= Cardinality(Hot!Queued(hotQueue))
    BY <2>1, <2>2, RemovedFits
  <2>4. /\ warmQueue' \in HotOrder
        /\ \/ warmQueue' = warmQueue
           \/ Cardinality(Hot!Queued(warmQueue')) <= Cardinality(Hot!Queued(warmQueue))
    BY <2>1, <2>2, RemovedFits
  <2>5. /\ Cardinality(Hot!Queued(hotQueue')) <= MaxHotSize
        /\ Cardinality(Hot!Queued(warmQueue')) <= MaxWarmSize
    BY <2>2, <2>3, <2>4, HotCounts, HotBounds
  <2>6. OrderTypes'
    BY <2>3, <2>4, <2>5 DEF OrderTypes, Hot!Queued
  <2> QED BY <2>1, <2>6, <1>p, HotKept DEF Hot!tracker, Hot!plans, Hot!intents, Hot!prices
<1>8. ASSUME \/ \E d \in Debts, price \in Prices : Hot!BuildIntent(d, price)
             \/ \E price \in Prices : Hot!IntentBuilt(price)
             \/ Hot!InvalidateIntent
      PROVE  Goal
  <2>1. UNCHANGED <<hotBlock, hotNow, Hot!tracker, Hot!plans, Hot!queues, Hot!prices>>
    BY <1>8 DEF Hot!BuildIntent, Hot!IntentBuilt, Hot!InvalidateIntent
  <2>2. IntentTypes'
    <3>1. ASSUME NEW d \in Debts, NEW price \in Prices, Hot!BuildIntent(d, price)
          PROVE  IntentTypes'
      <4>1. PICK i : i = [Hot!NoIntent EXCEPT !.debt = d, !.debtPrice = price]
        OBVIOUS
      <4>2. i \in Hot!Intents
        BY <4>1, HotRanges DEF Hot!Intents, Hot!NoIntent, Hot!None
      <4>3. building' = i /\ intent' = intent
        BY <3>1, <4>1 DEF Hot!BuildIntent
      <4> QED BY <4>2, <4>3, <1>p DEF IntentTypes
    <3>2. ASSUME NEW price \in Prices, Hot!IntentBuilt(price) PROVE IntentTypes'
      <4>1. PICK i : i = [building EXCEPT !.collateralPrice = price, !.at = hotNow]
        OBVIOUS
      <4>2. building \in Hot!Intents
        BY <3>2, <1>p DEF IntentTypes, Hot!IntentBuilt
      <4>3. i \in Hot!Intents
        BY <4>1, <4>2, <1>p, HotRanges DEF Hot!Intents
      <4>4. building' = Hot!NoIntent /\ intent' \in {i, intent}
        BY <3>2, <4>1 DEF Hot!IntentBuilt
      <4> QED BY <4>3, <4>4, <1>p DEF IntentTypes
    <3>3. ASSUME Hot!InvalidateIntent PROVE IntentTypes'
      BY <3>3, <1>p DEF Hot!InvalidateIntent, IntentTypes
    <3> QED BY <1>8, <3>1, <3>2, <3>3
  <2> QED BY <2>1, <2>2, <1>p, HotKept DEF Hot!tracker, Hot!plans, Hot!queues, Hot!prices
<1>9. ASSUME NEW as \in SUBSET Assets, Hot!TrackAssets(as) \/ Hot!UntrackAssets(as) PROVE Goal
  <2>1. UNCHANGED <<hotBlock, hotNow, Hot!tracker, Hot!plans, Hot!queues, Hot!intents, cached,
                    priced>>
    BY <1>9 DEF Hot!TrackAssets, Hot!UntrackAssets
  <2>2. TrackedTypes'
    <3>1. CASE Hot!TrackAssets(as)
      BY <3>1, <1>p, AssetsTracked
    <3>2. CASE Hot!UntrackAssets(as)
      <4>1. tracked' = tracked \ as
        BY <3>2 DEF Hot!UntrackAssets
      <4>2. IsFiniteSet(tracked)
        BY <1>p, HotBounds, FS_Subset DEF TrackedTypes
      <4>3. /\ Cardinality(tracked') <= Cardinality(tracked)
            /\ Cardinality(tracked') \in Nat /\ Cardinality(tracked) \in Nat
        BY <4>1, <4>2, NoMore
      <4>4. Cardinality(tracked) <= MaxCacheSize
        BY <1>p DEF TrackedTypes
      <4>5. Cardinality(tracked') <= MaxCacheSize
        BY <4>3, <4>4, HotBounds
      <4> QED BY <4>1, <4>5, <1>p DEF TrackedTypes
    <3> QED BY <1>9, <3>1, <3>2
  <2> QED BY <2>1, <2>2, <1>p, HotKept DEF Hot!tracker, Hot!plans, Hot!queues, Hot!intents
<1>10. ASSUME Hot!RefreshPrices PROVE Goal
  <2>1. /\ UNCHANGED <<hotBlock, hotNow, Hot!tracker, Hot!plans, Hot!queues, Hot!intents,
                       tracked, cached>>
        /\ priced' = priced \cup tracked
    BY <1>10 DEF Hot!RefreshPrices
  <2>2. PricedTypes'
    BY <2>1, <1>p DEF PricedTypes, TrackedTypes
  <2> QED BY <2>1, <2>2, <1>p, HotKept DEF Hot!tracker, Hot!plans, Hot!queues, Hot!intents
<1>11. ASSUME NEW a \in priced, NEW got \in BOOLEAN, Hot!PriceFetched(a, got) PROVE Goal
  <2>1. /\ UNCHANGED <<hotBlock, hotNow, Hot!tracker, Hot!plans, Hot!queues, Hot!intents,
                       tracked>>
        /\ priced' = priced \ {a} /\ cached' \in {cached, [cached EXCEPT ![a] = hotNow]}
    BY <1>11 DEF Hot!PriceFetched
  <2>2. hotNow \in 0 .. HotTime
    BY <1>p, HotRanges
  <2>3. PricedTypes'
    BY <2>1, <2>2, <1>p DEF PricedTypes
  <2> QED BY <2>1, <2>3, <1>p, HotKept DEF Hot!tracker, Hot!plans, Hot!queues, Hot!intents
<1>12. ASSUME Hot!NewBlock \/ Hot!Tick PROVE Goal
  <2>1. UNCHANGED <<Hot!tracker, Hot!plans, Hot!queues, Hot!intents, Hot!prices>>
    BY <1>12 DEF Hot!NewBlock, Hot!Tick
  <2>2. HotClockTypes'
    BY <1>12, <1>p, HotBounds DEF Hot!NewBlock, Hot!Tick, HotClockTypes
  <2> QED BY <2>1, <2>2, <1>p, HotKept
          DEF Hot!tracker, Hot!plans, Hot!queues, Hot!intents, Hot!prices
<1>13. ASSUME UNCHANGED Hot!vars PROVE Goal
  BY <1>13, <1>p, HotKept
  DEF Hot!vars, Hot!tracker, Hot!plans, Hot!queues, Hot!intents, Hot!prices
<1> QED
  <2>1. CASE Hot!HotStep
    BY <2>1, <1>1, <1>2, <1>3, <1>4, <1>5, <1>12 DEF Hot!HotStep
  <2>2. CASE Hot!QueueStep
    BY <2>2, <1>6, <1>7 DEF Hot!QueueStep
  <2>3. CASE Hot!IntentStep
    BY <2>3, <1>8, <1>12 DEF Hot!IntentStep
  <2>4. CASE Hot!PriceStep
    BY <2>4, <1>9, <1>10, <1>11, <1>12 DEF Hot!PriceStep
  <2> QED BY <2>1, <2>2, <2>3, <2>4, <1>13 DEF Hot!Next

-----------------------------------------------------------------------------
\* The composition.

\* What each component's own steps keep, kept by whichever of them steps.
ToolsInv ==
  /\ LookupInv /\ AaveInv /\ TrackersInv /\ Seeding!TypeOK /\ Critical!TypeOK /\ StageInv
  /\ HotInv

LEMMA ToolsStart == ToolsInit => ToolsInv
<1> SUFFICES ASSUME ToolsInit PROVE ToolsInv
  OBVIOUS
<1>1. /\ Init /\ Aave!Init /\ Trackers!Init /\ Seeding!Init /\ Critical!Init /\ Stage!Init
      /\ Hot!Init
  BY DEF ToolsInit
<1> QED BY <1>1, LookupInit, AaveInit, TrackersInit, SeedingInit, CriticalInit, StageInit,
           HotInit DEF ToolsInv

\* A step of the composition is a step of each component, or leaves it alone.
LEMMA ToolsSteps ==
  [ToolsNext]_toolsVars =>
    /\ LookupStep \/ UNCHANGED vars
    /\ [Aave!Next]_(Aave!vars)
    /\ Trackers!Next \/ UNCHANGED Trackers!vars
    /\ Seeding!Next \/ UNCHANGED Seeding!vars
    /\ Critical!Next \/ UNCHANGED Critical!vars
    /\ Stage!Next \/ UNCHANGED Stage!vars
    /\ Hot!Next \/ UNCHANGED Hot!vars
<1> SUFFICES ASSUME [ToolsNext]_toolsVars
             PROVE  /\ LookupStep \/ UNCHANGED vars
                    /\ [Aave!Next]_(Aave!vars)
                    /\ Trackers!Next \/ UNCHANGED Trackers!vars
                    /\ Seeding!Next \/ UNCHANGED Seeding!vars
                    /\ Critical!Next \/ UNCHANGED Critical!vars
                    /\ Stage!Next \/ UNCHANGED Stage!vars
                    /\ Hot!Next \/ UNCHANGED Hot!vars
  OBVIOUS
<1> USE DEF ToolsNext, toolsVars, FollowLookup, FollowAave, FollowTrackers, FollowSeeding,
            FollowCritical, FollowPrestage, FollowHotsets
<1>1. LookupStep \/ UNCHANGED vars
  BY LookupSteps, AssetSteps, ResolverSteps
<1>2. [Aave!Next]_(Aave!vars)
  BY DEF aaveVars, Aave!vars, Aave!chain, Aave!provider, Aave!consistency, Aave!metadata,
         Aave!Next
<1>3. Trackers!Next \/ UNCHANGED Trackers!vars
  BY DEF trackersVars, Trackers!vars, Trackers!candidates, Trackers!tracker, Trackers!reserves
<1>4. Seeding!Next \/ UNCHANGED Seeding!vars
  BY DEF seedingVars, Seeding!vars, Seeding!chain, Seeding!seeding, Seeding!known
<1>5. Critical!Next \/ UNCHANGED Critical!vars
  BY DEF criticalVars, Critical!vars, Critical!lane, Critical!process, Critical!Next
<1>6. Stage!Next \/ UNCHANGED Stage!vars
  BY DEF prestageVars, Stage!vars, Stage!ahead, Stage!sprinter, Stage!submits, Stage!Next
<1>7. Hot!Next \/ UNCHANGED Hot!vars
  BY DEF hotsetsVars, Hot!vars, Hot!tracker, Hot!plans, Hot!queues, Hot!intents, Hot!prices,
         Hot!Next
<1> QED BY <1>1, <1>2, <1>3, <1>4, <1>5, <1>6, <1>7

\* Whatever the lookups, readings, checks, reads ahead and refreshes under way, and however
\* they interleave, every variable keeps its type and nothing kept at hand outgrows its limit:
\* the candidates, the low health factors, the reserves of a user, the history of a health
\* factor, the candidates staged, the hot and the warm set and their queues, the prices.
THEOREM ToolsTypeCorrect == ToolsSpec => []ToolsTypeOK
<1>1. ToolsInv /\ [ToolsNext]_toolsVars => ToolsInv'
  BY ToolsSteps, LookupNext, AaveNext, TrackersNext, SeedingNext, CriticalNext, StageNext,
     HotNext DEF ToolsInv
<1>2. ToolsInv => ToolsTypeOK
  BY AaveTypes DEF ToolsInv, LookupInv, TrackersInv, StageInv, HotInv, ToolsTypeOK
<1>3. ToolsSpec => ToolsInit /\ [][ToolsNext]_toolsVars
  BY PTL DEF ToolsSpec
<1> QED BY <1>1, <1>2, <1>3, ToolsStart, PTL

\* The bound of AnswersAreRecent for all who ask of one registry here: those the table
\* answers, the cache of assets for which the table has everything, and those that read the
\* chain themselves.
THEOREM NoAnswerOutlives == ToolsSpec => []AgeBounded
<1>1. AgeInv /\ [ToolsNext]_toolsVars => AgeInv'
  BY ToolsSteps, AgeNext
<1>2. ToolsInit => AgeInv
  BY AgeInit DEF ToolsInit
<1>3. AgeInv => AgeBounded
  BY DEF AgeInv, Stored, Aged, AgeBounded
<1>4. ToolsSpec => ToolsInit /\ [][ToolsNext]_toolsVars
  BY PTL DEF ToolsSpec
<1> QED BY <1>1, <1>2, <1>3, <1>4, PTL
=============================================================================
