------------------------------ MODULE PriceService ------------------------------
(***************************************************************************)
(* services/PriceService.ts of the first bot with the part of              *)
(* services/NotificationService.ts that waits for it.  A request that the  *)
(* cache does not answer asks one source after the other, each an await,   *)
(* while other requests, the reading of the feeds' decimals and updates of *)
(* other sources go on.  Of a price the model keeps whether it was scaled  *)
(* with its feed's own decimals, and when it was cached.                   *)
(***************************************************************************)
EXTENDS Integers, FiniteSets, Sequences

CONSTANTS
  Direct,        \* symbols with a feed of their own
  Ratio,         \* symbols with a feed in ETH
  Eth,           \* the ETH feed, one of Direct
  Requests,      \* bound: requests under way at one time
  Opportunities, \* bound: opportunities to notify of
  CacheTtl,      \* cacheTtlMs
  DisableAfter,  \* pricePollDisableAfterErrors
  MaxPerBlock,   \* size at which perBlockPriceCache is pruned; Keep: blocks kept
  Keep,
  MaxBlock, MaxTime  \* bounds: blocks asked for, time followed

PriceAssumption ==
  /\ Direct \cap Ratio = {} /\ Eth \in Direct
  /\ {DisableAfter, MaxPerBlock, CacheTtl, MaxTime} \subseteq Nat \ {0}
  /\ {Keep, MaxBlock} \subseteq Nat

Symbols == Direct \cup Ratio
Blocks == 1 .. MaxBlock

VARIABLES
  clock,
  feedDecimals,     \* feeds of Symbols: "unread", "read" or "failed"
  readAt,           \* history: when they were read
  priceCache,       \* symbol -> [scaled, at]
  feedErrorCounts, disabledFeeds,
  perBlockPriceCache, \* <<symbol, block>> -> how often it was resolved
  requests,
  pending,          \* pendingPriceResolutions
  notices           \* opportunity -> what became of its notification

vars == <<clock, feedDecimals, readAt, priceCache, feedErrorCounts, disabledFeeds,
          perBlockPriceCache, requests, pending, notices>>

Entry == [scaled : BOOLEAN, at : Nat]
Idle == [at |-> "idle"]
\* What a price is for; a strict caller sets throwOnMissing.
Purposes == {[kind |-> "caller"], [kind |-> "strict"]}
              \cup [kind : {"block"}, block : Blocks]
              \cup [kind : {"notice"}, notice : Opportunities]
Request == [at : {"feed", "ratio", "eth", "oracle"}, symbol : Symbols, for : Purposes]

feedsReady == \A s \in Symbols : feedDecimals[s] # "unread"

TypeOK ==
  /\ clock \in 1 .. MaxTime
  /\ feedDecimals \in [Symbols -> {"unread", "read", "failed"}]
  /\ readAt \in [Symbols -> 0 .. MaxTime]
  /\ DOMAIN priceCache \subseteq Symbols
  /\ \A s \in DOMAIN priceCache : priceCache[s] \in Entry
  /\ feedErrorCounts \in [Direct -> Nat] /\ disabledFeeds \subseteq Direct
  /\ DOMAIN perBlockPriceCache \subseteq Symbols \X Blocks
  /\ \A k \in DOMAIN perBlockPriceCache : perBlockPriceCache[k] \in {1, 2}
  /\ requests \in [Requests -> Request \cup {Idle}]
  /\ pending \in Seq(Symbols)
  /\ notices \in [Opportunities -> {"none", "open", "sent", "deferred", "revalued"}]

Init ==
  /\ clock = 1
  /\ feedDecimals = [s \in Symbols |-> "unread"] /\ readAt = [s \in Symbols |-> 0]
  /\ priceCache = <<>>
  /\ feedErrorCounts = [s \in Direct |-> 0] /\ disabledFeeds = {}
  /\ perBlockPriceCache = <<>>
  /\ requests = [r \in Requests |-> Idle]
  /\ pending = <<>>
  /\ notices = [o \in Opportunities |-> "none"]

-----------------------------------------------------------------------------
\* What a price does once it is there.

\* getPriceAtBlock: the price is kept for its block; a full cache loses old blocks.
Kept(symbol, block) ==
  LET key == <<symbol, block>>
      filled == DOMAIN perBlockPriceCache \cup {key}
      kept == IF Cardinality(filled) <= MaxPerBlock THEN filled
              ELSE {k \in filled : k[2] >= block - Keep}
  IN  [k \in kept |-> IF k \notin DOMAIN perBlockPriceCache THEN 1
                      ELSE IF k = key THEN 2 ELSE perBlockPriceCache[k]]

\* checkScalingSanity of a notification whose collateral has no value yet.
NoticeOf == IF feedsReady THEN "sent" ELSE "deferred"

\* The request q is answered (FALSE: it throws).  A notification whose collateral has
\* no value yet is deferred by checkScalingSanity while decimals are read; afterwards
\* its price, in the cache by now, is asked for again and it is sent.  Nothing is put
\* in the pending queue.
Answered(r, symbol, for, ok) ==
  /\ requests' = [requests EXCEPT ![r] = Idle]
  /\ notices' = IF for.kind = "notice"
                  THEN [notices EXCEPT ![for.notice] = NoticeOf]
                  ELSE notices
  /\ perBlockPriceCache' = IF for.kind = "block" /\ ok THEN Kept(symbol, for.block)
                           ELSE perBlockPriceCache
  /\ UNCHANGED pending

Fresh(s) == s \in DOMAIN priceCache /\ clock - priceCache[s].at < CacheTtl

Stored(s, scaled, at) ==
  priceCache' = [x \in DOMAIN priceCache \cup {s} |->
                   IF x = s THEN [scaled |-> scaled, at |-> at] ELSE priceCache[x]]

\* A source answered: the price is cached, told and returned.
Found(r, scaled) ==
  /\ Stored(requests[r].symbol, scaled, clock)
  /\ Answered(r, requests[r].symbol, requests[r].for, TRUE)

\* The next source, and the stub when there is none: a strict caller gets an error.
OnTo(r, step) ==
  /\ requests' = [requests EXCEPT ![r].at = step]
  /\ UNCHANGED <<priceCache, perBlockPriceCache, pending, notices>>
Stub(r) ==
  IF requests[r].for.kind = "strict"
    THEN Answered(r, requests[r].symbol, requests[r].for, FALSE) /\ UNCHANGED priceCache
    ELSE Found(r, TRUE)

-----------------------------------------------------------------------------
\* getPrice and its sources.

FirstSource(s) == IF s \in Direct THEN "feed" ELSE "ratio"

\* A request that the cache answers, or that asks its first source.
Asked(r, symbol, for) ==
  /\ requests[r] = Idle
  /\ IF Fresh(symbol) THEN Answered(r, symbol, for, TRUE)
     ELSE /\ requests' = [requests EXCEPT ![r] =
                            [at |-> FirstSource(symbol), symbol |-> symbol, for |-> for]]
          /\ notices' = IF for.kind = "notice" THEN [notices EXCEPT ![for.notice] = "open"]
                        ELSE notices
          /\ UNCHANGED <<perBlockPriceCache, pending>>
  /\ UNCHANGED <<clock, feedDecimals, readAt, priceCache, feedErrorCounts, disabledFeeds>>

GetPrice(r, symbol, for) == for.kind \in {"caller", "strict"} /\ Asked(r, symbol, for)

\* A price of the block is looked for before the await and kept after it.
GetPriceAtBlock(r, symbol, for) ==
  /\ for.kind = "block"
  /\ <<symbol, for.block>> \notin DOMAIN perBlockPriceCache
  /\ Asked(r, symbol, for)

\* validateOpportunityActionable asks for prices and is content with any: the stub is
\* above zero.
Validated(r, symbol, for) == Asked(r, symbol, for)

\* notifyOpportunity: a realtime one asks for prices first; any other is deferred at
\* once while the decimals are read.
NotifyOpportunity(r, symbol, for, realtime) ==
  /\ for.kind = "notice" /\ notices[for.notice] = "none"
  /\ IF realtime \/ feedsReady THEN Validated(r, symbol, for)
     ELSE /\ notices' = [notices EXCEPT ![for.notice] = "deferred"]
          /\ UNCHANGED <<clock, feedDecimals, readAt, priceCache, feedErrorCounts,
                         disabledFeeds, perBlockPriceCache, requests, pending>>

\* Mutant: an answer is scaled with the decimals there were when the asset was first
\* priced.
ChainlinkAnswersScaledOnce(r) ==
  LET s == requests[r].symbol IN
  /\ requests[r].at = "feed"
  /\ \/ /\ feedErrorCounts' = [feedErrorCounts EXCEPT ![s] = 0]
        /\ UNCHANGED disabledFeeds
        /\ Found(r, IF s \in DOMAIN priceCache THEN priceCache[s].scaled
                            ELSE feedDecimals[s] = "read")
     \/ /\ feedErrorCounts' = [feedErrorCounts EXCEPT ![s] = IF @ < DisableAfter THEN @ + 1 ELSE @]
        /\ disabledFeeds' = disabledFeeds
             \cup (IF feedErrorCounts[s] + 1 >= DisableAfter THEN {s} ELSE {})
        /\ OnTo(r, "oracle")
  /\ UNCHANGED <<clock, feedDecimals, readAt>>

\* getChainlinkPrice: scaled with the decimals of this moment, the default until they
\* are read; a failed, negative or unfinished round counts as an error of the feed,
\* and enough of them in a row take it off the poll for good.
ChainlinkAnswers(r) ==
  LET s == requests[r].symbol IN
  /\ requests[r].at = "feed"
  /\ \/ /\ feedErrorCounts' = [feedErrorCounts EXCEPT ![s] = 0]
        /\ UNCHANGED disabledFeeds
        /\ Found(r, feedDecimals[s] = "read")
     \/ /\ feedErrorCounts' = [feedErrorCounts EXCEPT ![s] = IF @ < DisableAfter THEN @ + 1 ELSE @]
        /\ disabledFeeds' = disabledFeeds
             \cup (IF feedErrorCounts[s] + 1 >= DisableAfter THEN {s} ELSE {})
        /\ OnTo(r, "oracle")
  /\ UNCHANGED <<clock, feedDecimals, readAt>>

\* getRatioComposedPrice: the ratio, then ETH; one that is late or fails goes to the
\* oracle and counts for no feed.
RatioAnswers(r) ==
  /\ requests[r].at = "ratio"
  /\ OnTo(r, "eth") \/ OnTo(r, "oracle")
  /\ UNCHANGED <<clock, feedDecimals, readAt, feedErrorCounts, disabledFeeds>>
EthAnswers(r) ==
  /\ requests[r].at = "eth"
  /\ \/ Found(r, feedDecimals[requests[r].symbol] = "read" /\ feedDecimals[Eth] = "read")
     \/ OnTo(r, "oracle")
  /\ UNCHANGED <<clock, feedDecimals, readAt, feedErrorCounts, disabledFeeds>>

\* getAaveOraclePrice; the stub price is the last resort.
OracleAnswers(r) ==
  /\ requests[r].at = "oracle"
  /\ Found(r, TRUE) \/ Stub(r)
  /\ UNCHANGED <<clock, feedDecimals, readAt, feedErrorCounts, disabledFeeds>>

-----------------------------------------------------------------------------
\* The rest of the service.

\* flushPending asks for each queued price and empties the queue.  Nobody calls
\* queuePriceResolution, so there is none.
Flushed == <<>>

\* initializeFeedDecimals: feed after feed; a failed read leaves the default for good.
\* The last one makes the service ready, and the pending queue is flushed.
ReadDecimals(s, answer) ==
  /\ feedDecimals[s] = "unread"
  /\ feedDecimals' = [feedDecimals EXCEPT ![s] = answer]
  /\ readAt' = [readAt EXCEPT ![s] = clock]
  /\ pending' = IF \A x \in Symbols \ {s} : feedDecimals[x] # "unread" THEN Flushed ELSE pending
  /\ UNCHANGED <<clock, priceCache, feedErrorCounts, disabledFeeds, perBlockPriceCache,
                 requests, notices>>

\* acceptExternalUpdate: it replaces what is cached, however old it is.
AcceptExternalUpdate(s, at) ==
  /\ at \in 1 .. clock
  /\ Stored(s, TRUE, at)
  /\ UNCHANGED <<clock, feedDecimals, readAt, feedErrorCounts, disabledFeeds,
                 perBlockPriceCache, requests, pending, notices>>

Tick ==
  /\ clock < MaxTime /\ clock' = clock + 1
  /\ UNCHANGED <<feedDecimals, readAt, priceCache, feedErrorCounts, disabledFeeds,
                 perBlockPriceCache, requests, pending, notices>>

SourceAnswers(r) == ChainlinkAnswers(r) \/ RatioAnswers(r) \/ EthAnswers(r) \/ OracleAnswers(r)

Next ==
  \/ Tick
  \/ \E s \in Symbols :
       \/ ReadDecimals(s, "read") \/ ReadDecimals(s, "failed")
       \/ \E at \in 1 .. clock : AcceptExternalUpdate(s, at)
  \/ \E r \in Requests :
       \/ SourceAnswers(r)
       \/ \E s \in Symbols, for \in Purposes :
            \/ GetPrice(r, s, for) \/ GetPriceAtBlock(r, s, for)
            \/ \E realtime \in BOOLEAN : NotifyOpportunity(r, s, for, realtime)

\* Awaited reads end.
FairSpec ==
  /\ Init /\ [][Next]_vars
  /\ \A r \in Requests : WF_vars(SourceAnswers(r))
  /\ \A s \in Symbols : WF_vars(ReadDecimals(s, "read") \/ ReadDecimals(s, "failed"))

-----------------------------------------------------------------------------
\* Properties.

\* A price scaled with default decimals because nobody had read the feed's own yet is
\* forgotten one cacheTtlMs after they are read, whatever requests were under way.
ScaledInTime ==
  \A s \in Symbols :
    LET known == {s} \cup (IF s \in Ratio THEN {Eth} ELSE {}) IN
    (Fresh(s) /\ ~priceCache[s].scaled /\ \A x \in known : feedDecimals[x] = "read")
      => \E x \in known : clock < readAt[x] + CacheTtl

\* "Guarantees one price resolution per symbol per blockTag."
OneResolutionPerBlock ==
  \A k \in DOMAIN perBlockPriceCache : perBlockPriceCache[k] = 1

\* PRICE_READINESS_FEATURE.md: flushPending "revalues queued items once feedsReady
\* becomes true".
DeferredAreRevalued ==
  \A o \in Opportunities : notices[o] = "deferred" ~> notices[o] = "revalued"
=============================================================================
