------------------------------ MODULE SubgraphFeed ------------------------------
(***************************************************************************)
(* What the first bot takes from the subgraph: services/SubgraphService.ts *)
(* with its token bucket and its degraded mode, the poller of liquidations *)
(* (polling/), the at-risk scan of each poll, and the seeding of           *)
(* candidates (SubgraphSeeder, RealTimeHFService.performInitialSeeding)    *)
(* with the backfill from the chain behind it.  The poller's timer does    *)
(* not wait for the poll before, so polls overlap at every await.          *)
(***************************************************************************)
EXTENDS Integers, FiniteSets, SequencesExt

CONSTANTS
  Polls,        \* bound: polls under way at one time
  PollLimit,    \* liquidations a poll asks for
  TrackMax,     \* ids the tracker remembers
  Capacity,     \* subgraphRateLimitCapacity
  Failures,     \* subgraphFailureThreshold
  Pages,        \* bound: pages of users there are for a query
  SeedQueries,  \* queries of a seeding: variable debtors, stable debtors, suppliers
  Chunks,       \* chunks of the backfill
  MaxEvents     \* bound: liquidations on the chain, numbered in their order

SubgraphAssumption ==
  /\ {PollLimit, TrackMax, Capacity, Failures, Pages, SeedQueries, Chunks, MaxEvents}
       \subseteq Nat \ {0}
  /\ PollLimit <= TrackMax

VARIABLES
  ignoreBootstrap,   \* IGNORE_BOOTSTRAP_BATCH, fixed at the start
  tokens, consecutiveFailures, degraded,
  events,            \* liquidations so far
  idQueue,           \* the tracker's ids, in the order they came
  isFirstPoll,
  polls,
  seeding,           \* performInitialSeeding, and later seedFromSubgraphSeeder
  told,              \* history: how often a liquidation was told as new
  bootstrap,         \* history: what the first batch held
  forgotten          \* history: ids the tracker dropped

service == <<tokens, consecutiveFailures, degraded>>
poller == <<idQueue, isFirstPoll, polls, told, bootstrap, forgotten>>
vars == <<ignoreBootstrap, service, events, poller, seeding>>

Ids == 1 .. MaxEvents
Idle == [at |-> "idle"]

TypeOK ==
  /\ ignoreBootstrap \in BOOLEAN /\ degraded \in BOOLEAN /\ isFirstPoll \in BOOLEAN
  /\ tokens \in 0 .. Capacity /\ consecutiveFailures \in Nat
  /\ events \in 0 .. MaxEvents
  /\ idQueue \in Seq(Ids)
  /\ polls \in [Polls -> {Idle} \cup [at : {"list", "health", "scan"}, from : 0 .. MaxEvents,
                                      new : SUBSET Ids, page : 0 .. Pages]]
  /\ seeding \in [at : {"query", "backfill", "done"}, query : 1 .. SeedQueries, step : Nat,
                  found : BOOLEAN, failed : BOOLEAN, fellBack : BOOLEAN]
  /\ told \in [Ids -> Nat]
  /\ bootstrap \subseteq Ids /\ forgotten \subseteq Ids

Init ==
  /\ ignoreBootstrap \in BOOLEAN
  /\ tokens = Capacity /\ consecutiveFailures = 0 /\ degraded = FALSE
  /\ events \in 0 .. 1
  /\ idQueue = <<>> /\ isFirstPoll = TRUE
  /\ polls = [p \in Polls |-> Idle]
  /\ seeding = [at |-> "query", query |-> 1, step |-> 0, found |-> FALSE, failed |-> FALSE,
                fellBack |-> FALSE]
  /\ told = [e \in Ids |-> 0] /\ bootstrap = {} /\ forgotten = {}

-----------------------------------------------------------------------------
\* SubgraphService.perform.

\* consumeTokenOrDrop, of a bucket that fills again when an interval has passed.
Consume == tokens > 0 /\ tokens' = tokens - 1
Refill ==
  /\ tokens' = Capacity
  /\ UNCHANGED <<ignoreBootstrap, consecutiveFailures, degraded, events, poller, seeding>>

\* A request and its retries succeed, answer what does not parse, or fail; a request
\* that was already degraded when it was made is not counted.
Counted(how) ==
  /\ consecutiveFailures' = CASE degraded -> consecutiveFailures
                              [] ~degraded /\ how = "ok" -> 0
                              [] ~degraded /\ how = "failed" -> consecutiveFailures + 1
                              [] OTHER -> consecutiveFailures
  /\ degraded' = (degraded \/ consecutiveFailures' >= Failures)

-----------------------------------------------------------------------------
\* The tracker.

\* Mutant: an event counts as seen when it is told only.
DiffOfTold(snapshot) ==
  [new |-> {e \in ToSet(snapshot) : told[e] = 0 /\ e \notin bootstrap}, queue |-> idQueue]

\* The n-th place of places; the elements of s that are in S, in their order.
Place(n, places) == CHOOSE i \in places : Cardinality({j \in places : j <= i}) = n
Among(s, S) ==
  LET places == {i \in DOMAIN s : s[i] \in S}
  IN  [n \in 1 .. Cardinality(places) |-> s[Place(n, places)]]

\* diff: the events that are new, and the ids with the oldest ones dropped.
Diff(snapshot) ==
  LET fresh == Among(snapshot, Ids \ ToSet(idQueue))
      ids == idQueue \o fresh
      over == IF Len(ids) > TrackMax THEN Len(ids) - TrackMax ELSE 0
  IN  [new |-> ToSet(fresh), queue |-> SubSeq(ids, over + 1, Len(ids))]

\* getLiquidationCalls: the newest first.
Snapshot(upTo) ==
  LET n == IF upTo < PollLimit THEN upTo ELSE PollLimit
  IN  [i \in 1 .. n |-> upTo + 1 - i]

Latest(new) == CHOOSE e \in new : \A f \in new : f <= e

-----------------------------------------------------------------------------
\* tick of the poller.

Over(p) == polls' = [polls EXCEPT ![p] = Idle]

\* Liquidations are asked for; a degraded service answers that there are none.
StartPoll(p) ==
  /\ polls[p] = Idle
  /\ \/ /\ ~degraded /\ Consume
        /\ polls' = [polls EXCEPT ![p] = [at |-> "list", from |-> events, new |-> {},
                                          page |-> 0]]
        /\ UNCHANGED isFirstPoll
     \/ /\ degraded
        /\ isFirstPoll' = FALSE
        /\ UNCHANGED <<tokens, polls>>
  /\ UNCHANGED <<ignoreBootstrap, consecutiveFailures, degraded, events, idQueue, told,
                 bootstrap, forgotten, seeding>>

\* They came, as they stood at some moment since: what is new is noted at once, and
\* the health factor of the newest one's user is read.
Listed(p) ==
  /\ polls[p].at = "list"
  /\ \/ /\ Counted("ok")
        /\ \E upTo \in polls[p].from .. events :
             LET diff == Diff(Snapshot(upTo)) IN
             /\ idQueue' = diff.queue
             /\ forgotten' = forgotten \cup (ToSet(idQueue) \ ToSet(diff.queue))
             /\ bootstrap' = IF isFirstPoll /\ bootstrap = {} THEN diff.new ELSE bootstrap
             /\ IF diff.new = {}
                  THEN /\ isFirstPoll' = FALSE
                       /\ polls' = [polls EXCEPT ![p].at = "scan"]
                  ELSE /\ polls' = [polls EXCEPT ![p].at = "health", ![p].new = diff.new]
                       /\ UNCHANGED isFirstPoll
     \/ /\ Counted("failed") \/ Counted("unparsed")
        /\ Over(p)
        /\ UNCHANGED <<idQueue, isFirstPoll, bootstrap, forgotten>>
  /\ UNCHANGED <<ignoreBootstrap, tokens, events, told, seeding>>

\* OnDemandHealthFactor answered, with a health factor or null.  The batch of the
\* first poll is ignored, of any other the newest event is told.
HealthRead(p) ==
  /\ polls[p].at = "health"
  /\ IF isFirstPoll /\ ignoreBootstrap
       THEN Over(p) /\ UNCHANGED told
       ELSE /\ told' = [told EXCEPT ![Latest(polls[p].new)] = @ + 1]
            /\ polls' = [polls EXCEPT ![p].at = "scan", ![p].new = {}]
  /\ isFirstPoll' = FALSE
  /\ UNCHANGED <<ignoreBootstrap, service, events, idQueue, bootstrap, forgotten, seeding>>

\* AtRiskScanner.scanAndClassify pages through the borrowers.  A page is asked for
\* although the service was degraded since the scan began, then without a token.
Page(p) ==
  /\ polls[p].at = "scan" /\ polls[p].page < Pages
  /\ polls[p].page > 0 \/ ~degraded
  /\ \/ /\ degraded \/ tokens > 0
        /\ tokens' = IF degraded THEN tokens ELSE tokens - 1
        /\ \/ Counted("ok") /\ polls' = [polls EXCEPT ![p].page = @ + 1]
           \/ (Counted("failed") \/ Counted("unparsed")) /\ Over(p)
     \/ /\ ~degraded /\ tokens = 0
        /\ Over(p)
        /\ UNCHANGED service
  /\ UNCHANGED <<ignoreBootstrap, events, idQueue, isFirstPoll, told, bootstrap,
                 forgotten, seeding>>

\* The users of the scan are classified and told of one after the other.
ScanOver(p) ==
  /\ polls[p].at = "scan"
  /\ Over(p)
  /\ UNCHANGED <<ignoreBootstrap, service, events, idQueue, isFirstPoll, told, bootstrap,
                 forgotten, seeding>>

-----------------------------------------------------------------------------
\* Seeding.

\* What seed answered is what performInitialSeeding makes do with, nothing included:
\* seed throws for nothing.
Seeded(found, failed) ==
  IF seeding.query < SeedQueries
    THEN [seeding EXCEPT !.query = @ + 1, !.step = 0, !.found = found, !.failed = failed]
    ELSE [seeding EXCEPT !.at = "done", !.found = found, !.failed = failed]

\* fetchUsersPaginated: a full page goes on to the next; one that fails, or finds no
\* token, ends its query.  A degraded service answers no users.
SeedPage ==
  /\ seeding.at = "query"
  /\ \/ /\ degraded
        /\ seeding' = Seeded(seeding.found, seeding.failed)
        /\ UNCHANGED tokens
     \/ /\ ~degraded /\ Consume
        /\ \/ /\ seeding.step < Pages
              /\ seeding' = [seeding EXCEPT !.step = @ + 1, !.found = TRUE]
           \/ seeding' = Seeded(seeding.found, seeding.failed)
           \/ seeding' = Seeded(seeding.found, TRUE)
     \/ /\ ~degraded /\ tokens = 0
        /\ seeding' = Seeded(seeding.found, TRUE)
        /\ UNCHANGED tokens
  /\ UNCHANGED <<ignoreBootstrap, consecutiveFailures, degraded, events, poller>>

\* Without the subgraph: OnChainBackfillService reads chunk after chunk and leaves out
\* one it cannot read.
Backfill ==
  /\ seeding.at = "backfill"
  /\ IF seeding.step < Chunks
       THEN \E read, found \in BOOLEAN :
              seeding' = [seeding EXCEPT !.step = @ + 1, !.found = @ \/ (read /\ found),
                            !.failed = @ \/ ~read]
       ELSE seeding' = [seeding EXCEPT !.at = "done"]
  /\ UNCHANGED <<ignoreBootstrap, service, events, poller>>
NoSubgraph ==
  /\ seeding.at = "query" /\ seeding.query = 1 /\ seeding.step = 0
  /\ seeding' = [seeding EXCEPT !.at = "backfill", !.fellBack = TRUE]
  /\ UNCHANGED <<ignoreBootstrap, service, events, poller>>

\* startPeriodicSeeding: a refresh adds to the candidates there are.
SeedAgain ==
  /\ seeding.at = "done" /\ ~seeding.fellBack /\ seeding.found
  /\ seeding' = [seeding EXCEPT !.at = "query", !.query = 1, !.step = 0]
  /\ UNCHANGED <<ignoreBootstrap, service, events, poller>>

-----------------------------------------------------------------------------
Liquidation ==
  /\ events < MaxEvents /\ events' = events + 1
  /\ UNCHANGED <<ignoreBootstrap, service, poller, seeding>>

Next ==
  \/ Liquidation \/ Refill
  \/ SeedPage \/ Backfill \/ NoSubgraph \/ SeedAgain
  \/ \E p \in Polls : StartPoll(p) \/ Listed(p) \/ HealthRead(p) \/ Page(p) \/ ScanOver(p)

Spec == Init /\ [][Next]_vars

-----------------------------------------------------------------------------
\* Properties.

\* A liquidation is told as new at most once while the tracker remembers it, though
\* polls overlap and their answers come out of order.  (A batch enters newest first, so
\* the newest ids are the first to be forgotten.)
ToldOnce == \A e \in Ids \ forgotten : told[e] <= 1

\* README.md: "First poll batch suppressed if IGNORE_BOOTSTRAP_BATCH=true".
BootstrapSuppressed == ignoreBootstrap => \A e \in bootstrap : told[e] = 0

\* "Subgraph seeding failed, falling back to on-chain backfill."
SeedFallsBack ==
  seeding.at = "done" /\ seeding.failed /\ ~seeding.found => seeding.fellBack
=============================================================================
