-------------------------------- MODULE Prestage --------------------------------
(***************************************************************************)
(* What the first bot prepares for users it expects to fall.               *)
(* RealTimeHFService.ts projects each health factor from the last ones it  *)
(* saw, takes the candidates of the predictive orchestrator, and reads     *)
(* their reserves to have them staged.  SprinterEngine.ts and              *)
(* TemplateCache.ts keep what is staged, and PreSubmitManager.ts sends     *)
(* transactions ahead of the fall.                                         *)
(***************************************************************************)
EXTENDS Integers, Sequences, FiniteSets

CONSTANTS
  Users, Scenarios,
  Hfs,            \* health factors, in percent
  Window,         \* PRE_SIM_HISTORY_WINDOW
  PreSimHf,       \* preSimHfWindow
  PrestageHf,     \* prestageHfBps
  NearBand,       \* the health factors of the band that is read for, a set
  ClearInterval,  \* PRESTAGE_CACHE_CLEAR_INTERVAL_BLOCKS
  MaxBatch,       \* bound: candidates of one call
  Pairs,          \* of a debt and a collateral token
  MaxPrestaged, StaleBlocks, MaxEntries,
  RefreshBlocks,  \* refreshIndexBps / 100
  TtlBlocks,      \* ttlBlocks
  Submits,        \* bound: transactions sent ahead
  MaxBlock, MaxTime

PrestageAssumption ==
  /\ IsFiniteSet(Users)
  /\ Hfs \subseteq Nat \ {0} /\ {PreSimHf, PrestageHf} \subseteq Nat /\ NearBand \subseteq Nat
  /\ {Window, ClearInterval, MaxBatch, MaxPrestaged, MaxEntries, RefreshBlocks,
      MaxBlock, MaxTime} \subseteq Nat \ {0}
  /\ {StaleBlocks, TtlBlocks} \subseteq Nat

None == 0

VARIABLES
  block, now,
  \* RealTimeHFService: hfHistory of each user; the health factor preSimQueue has for
  \* each; prestageCache and the block it was cleared at; the reads under way.
  hfHistory, preSimQueue, prestageCache, prestageCacheLastClearBlock, staging,
  \* SprinterEngine: of each user, the projected health factor and the block it was
  \* prepared at.  TemplateCache: of each pair, createdBlock and lastUsed.
  candidates, templates,
  \* PreSubmitManager: of each transaction, where it is, its user and submittedBlock;
  \* a cleanup under way, with the block it goes by; isShuttingDown.
  submit, cleanup, isShuttingDown

ahead == <<hfHistory, preSimQueue, prestageCache, prestageCacheLastClearBlock, staging>>
sprinter == <<candidates, templates>>
submits == <<submit, cleanup, isShuttingDown>>
vars == <<block, now, ahead, sprinter, submits>>

NoTemplate == [created |-> None, used |-> None]
NoCandidate == [hf |-> None, prepared |-> None]

Batches == UNION {[1 .. n -> [user : Users, scenario : Scenarios, hf : Hfs]] : n \in 1 .. MaxBatch}

TypeOK ==
  /\ block \in 1 .. MaxBlock /\ now \in 1 .. MaxTime
  /\ hfHistory \in [Users -> Seq([hf : Hfs, block : 1 .. MaxBlock])]
  /\ preSimQueue \in [Users -> Int]
  /\ prestageCache \in [Users -> SUBSET Scenarios]
  /\ prestageCacheLastClearBlock \in 0 .. MaxBlock
  /\ staging \subseteq Users \X Scenarios
  /\ candidates \in [Users -> [hf : Hfs \cup {None}, prepared : 0 .. MaxBlock]]
  /\ templates \in [Pairs -> [created : 0 .. MaxBlock, used : 0 .. MaxTime]]
  /\ submit \in [Submits -> [pc : {"unsent", "building", "sent", "pending", "gone"},
                             user : Users, block : 0 .. MaxBlock]]
  /\ cleanup \in 0 .. MaxBlock /\ isShuttingDown \in BOOLEAN

Staged == {u \in Users : candidates[u] # NoCandidate}

\* No history is longer than its window, and nobody is staged before another makes room.
WithinLimits ==
  /\ \A u \in Users : Len(hfHistory[u]) <= Window
  /\ Cardinality(Staged) <= MaxPrestaged

Init ==
  /\ block = 1 /\ now = 1
  /\ hfHistory = [u \in Users |-> <<>>]
  /\ preSimQueue = [u \in Users |-> None]
  /\ prestageCache = [u \in Users |-> {}] /\ prestageCacheLastClearBlock = 0
  /\ staging = {}
  /\ candidates = [u \in Users |-> NoCandidate]
  /\ templates = [p \in Pairs |-> NoTemplate]
  /\ submit \in [Submits -> [pc : {"unsent"}, user : Users, block : {0}]]
  /\ cleanup = None /\ isShuttingDown = FALSE

-----------------------------------------------------------------------------
\* RealTimeHFService.

\* The change per block, floored; the last batch to end may be of the older block.
PerBlock(delta, blocks) ==
  IF blocks > 0 THEN delta \div blocks ELSE (0 - delta) \div (0 - blocks)

\* Mutant: the history is never shortened.
KeptWhole(s) == s

Kept(s) == IF Len(s) > Window THEN Tail(s) ELSE s

\* A line through the oldest and the newest of the last health factors.
Projected(s) ==
  LET oldest == s[1]  newest == s[Len(s)] IN
  newest.hf + PerBlock(newest.hf - oldest.hf, newest.block - oldest.block)

Projects(s) == Len(s) >= 2 /\ s[1].block # s[Len(s)].block

\* updateHfDeltaTracking, with the block the batch was read at: batches of two blocks
\* may end in either order.  maybeSprinterMicroVerify goes by the same line.
HfSeen(u, hf, b) ==
  LET s == Kept(Append(hfHistory[u], [hf |-> hf, block |-> b])) IN
  /\ b <= block
  /\ hfHistory' = [hfHistory EXCEPT ![u] = s]
  /\ \E worth \in BOOLEAN :
       preSimQueue' = IF Projects(s) /\ worth
                      THEN IF Projected(s) < PreSimHf
                           THEN [preSimQueue EXCEPT ![u] = Projected(s)] ELSE preSimQueue
                      ELSE preSimQueue
  /\ UNCHANGED <<block, now, prestageCache, prestageCacheLastClearBlock, staging, sprinter, submits>>

Same(x, y) == x.user = y.user /\ x.scenario = y.scenario

\* The candidates of a batch that are not a second of their user and scenario.
Firsts(b) == {i \in DOMAIN b : \A j \in 1 .. i - 1 : ~Same(b[i], b[j])}

Stageable(c) == c.hf <= PrestageHf

Known(c) == c.scenario \in prestageCache[c.user]

\* One that was staged in this cycle ends the whole call.
Handled(b) ==
  {i \in Firsts(b) : \A j \in Firsts(b) : j < i => ~(Stageable(b[j]) /\ Known(b[j]))}

\* ingestPredictiveCandidates; the reads it begins are not waited for.
Ingest(b) ==
  LET handled == Handled(b)
      of(u) == {i \in handled : b[i].user = u}
      staged == {i \in handled : Stageable(b[i]) /\ ~Known(b[i])}
  IN
  /\ preSimQueue' = [u \in Users |->
       IF of(u) = {} THEN preSimQueue[u]
       ELSE b[CHOOSE i \in of(u) : \A j \in of(u) : j <= i].hf]
  /\ prestageCache' = [u \in Users |->
       prestageCache[u] \cup {b[i].scenario : i \in staged \cap of(u)}]
  /\ staging' = staging \cup {<<b[i].user, b[i].scenario>> :
                               i \in {k \in staged : b[k].hf \in NearBand}}
  /\ UNCHANGED <<block, now, hfHistory, prestageCacheLastClearBlock, sprinter, submits>>

\* prestageFromPredictiveCandidate, which the listener of the orchestrator calls too,
\* whatever the cache has.
StageAgain(u, s, hf) ==
  /\ hf \in NearBand
  /\ staging' = staging \cup {<<u, s>>}
  /\ UNCHANGED <<block, now, hfHistory, preSimQueue, prestageCache,
                 prestageCacheLastClearBlock, sprinter, submits>>

\* prestageFromPredictiveCandidateWithRealData ends, read or failed: nothing hands the
\* reserves to the engine.
StagingEnds(r) ==
  /\ r \in staging
  /\ staging' = staging \ {r}
  /\ UNCHANGED <<block, now, hfHistory, preSimQueue, prestageCache,
                 prestageCacheLastClearBlock, sprinter, submits>>

\* A new block, as performBatchHeadChecks takes it.
NewBlock ==
  /\ block < MaxBlock /\ block' = block + 1
  /\ IF block' - prestageCacheLastClearBlock >= ClearInterval
     THEN /\ prestageCache' = [u \in Users |-> {}]
          /\ prestageCacheLastClearBlock' = block'
     ELSE UNCHANGED <<prestageCache, prestageCacheLastClearBlock>>
  /\ UNCHANGED <<now, hfHistory, preSimQueue, staging, sprinter, submits>>

-----------------------------------------------------------------------------
\* SprinterEngine and TemplateCache.

Templates == {p \in Pairs : templates[p] # NoTemplate}

StaleTemplate(p) == block - templates[p].created >= RefreshBlocks

\* evictLRU: nothing that was used this very moment is evicted.
Oldest(ts) ==
  {p \in Pairs : /\ ts[p] # NoTemplate /\ ts[p].used < now
                 /\ \A q \in Pairs : ts[q] # NoTemplate => ts[p].used <= ts[q].used}

\* getTemplate.
TemplateOf(p) ==
  LET built == [templates EXCEPT ![p] = [created |-> block, used |-> now]]
      size == Cardinality({q \in Pairs : built[q] # NoTemplate})
  IN
  IF p \in Templates /\ ~StaleTemplate(p) THEN {[templates EXCEPT ![p].used = now]}
  ELSE IF size > MaxEntries /\ Oldest(built) # {}
       THEN {[built EXCEPT ![q] = NoTemplate] : q \in Oldest(built)}
       ELSE {built}

\* evictLowestPriority: the highest health factor, the first of equal ones.
Highest == {u \in Staged : \A v \in Staged : candidates[v].hf <= candidates[u].hf}

\* prestageFromPredictive, prestage: whatever health factor the new candidate has,
\* another one makes room for it.
Stage(u, hf, p) ==
  LET put(c) == [c EXCEPT ![u] = [hf |-> hf, prepared |-> block]] IN
  /\ hf <= PrestageHf
  /\ candidates' \in
       IF Cardinality(Staged) >= MaxPrestaged /\ u \notin Staged
       THEN {put([candidates EXCEPT ![v] = NoCandidate]) : v \in Highest}
       ELSE {put(candidates)}
  /\ templates' \in TemplateOf(p)
  /\ UNCHANGED <<block, now, ahead, submits>>

Unstage(u) ==
  /\ u \in Staged
  /\ candidates' = [candidates EXCEPT ![u] = NoCandidate]
  /\ UNCHANGED <<block, now, ahead, templates, submits>>

EvictStale ==
  /\ candidates' = [u \in Users |-> IF candidates[u].prepared < block - StaleBlocks
                                    THEN NoCandidate ELSE candidates[u]]
  /\ UNCHANGED <<block, now, ahead, templates, submits>>

RefreshTemplates ==
  /\ templates' = [p \in Pairs |-> IF p \in Templates /\ StaleTemplate(p)
                                   THEN NoTemplate ELSE templates[p]]
  /\ UNCHANGED <<block, now, ahead, candidates, submits>>

-----------------------------------------------------------------------------
\* PreSubmitManager.

SubmitAt(t, pc) == submit[t].pc = pc

\* onPredictiveCandidate, past its gates: nothing asks for transactions of the user
\* that are out already.
OnPredictiveCandidate(t) ==
  /\ SubmitAt(t, "unsent") /\ ~isShuttingDown
  /\ submit' = [submit EXCEPT ![t].pc = "building"]
  /\ UNCHANGED <<block, now, ahead, sprinter, cleanup, isShuttingDown>>

\* buildAndSubmit up to the broadcast; it may fail, and after the broadcast it may
\* fail to learn the block, and then the transaction is nobody's.
Broadcast(t) ==
  /\ SubmitAt(t, "building")
  /\ submit' = [submit EXCEPT ![t].pc = "sent"]
  /\ UNCHANGED <<block, now, ahead, sprinter, cleanup, isShuttingDown>>

Recorded(t) ==
  /\ SubmitAt(t, "sent")
  /\ submit' = [submit EXCEPT ![t].pc = "pending", ![t].block = block]
  /\ UNCHANGED <<block, now, ahead, sprinter, cleanup, isShuttingDown>>

SubmitFailed(t) ==
  /\ submit[t].pc \in {"building", "sent"}
  /\ submit' = [submit EXCEPT ![t].pc = "gone"]
  /\ UNCHANGED <<block, now, ahead, sprinter, cleanup, isShuttingDown>>

\* removePending.
RemovePending(t) ==
  /\ SubmitAt(t, "pending")
  /\ submit' = [submit EXCEPT ![t].pc = "gone"]
  /\ UNCHANGED <<block, now, ahead, sprinter, cleanup, isShuttingDown>>

\* cleanupExpired reads the block, and goes by it when it is answered.
CleanupStarts ==
  /\ cleanup = None /\ cleanup' = block
  /\ UNCHANGED <<block, now, ahead, sprinter, submit, isShuttingDown>>

CleanupExpired ==
  /\ cleanup # None /\ cleanup' = None
  /\ submit' = [t \in Submits |->
       IF SubmitAt(t, "pending") /\ cleanup - submit[t].block > TtlBlocks
       THEN [submit[t] EXCEPT !.pc = "gone"] ELSE submit[t]]
  /\ UNCHANGED <<block, now, ahead, sprinter, isShuttingDown>>

Shutdown ==
  /\ ~isShuttingDown /\ isShuttingDown' = TRUE
  /\ UNCHANGED <<block, now, ahead, sprinter, submit, cleanup>>

-----------------------------------------------------------------------------
Tick == now < MaxTime /\ now' = now + 1 /\ UNCHANGED <<block, ahead, sprinter, submits>>

AheadStep ==
  \/ \E u \in Users, hf \in Hfs, b \in 1 .. MaxBlock : HfSeen(u, hf, b)
  \/ NewBlock

IngestStep ==
  \/ \E b \in Batches : Ingest(b)
  \/ \E u \in Users, s \in Scenarios, hf \in Hfs : StageAgain(u, s, hf)
  \/ \E r \in staging : StagingEnds(r)
  \/ NewBlock

SprinterStep ==
  \/ \E u \in Users, hf \in Hfs, p \in Pairs : Stage(u, hf, p)
  \/ \E u \in Users : Unstage(u)
  \/ EvictStale \/ RefreshTemplates
  \/ NewBlock \/ Tick

SubmitStep ==
  \/ \E t \in Submits :
       \/ OnPredictiveCandidate(t) \/ Broadcast(t) \/ Recorded(t) \/ SubmitFailed(t)
       \/ RemovePending(t)
  \/ CleanupStarts \/ CleanupExpired \/ Shutdown
  \/ NewBlock

Next == AheadStep \/ IngestStep \/ SprinterStep \/ SubmitStep

Spec == Init /\ [][Next]_vars
=============================================================================
