------------------------------- MODULE PriceFeed -------------------------------
(***************************************************************************)
(* One Chainlink feed of backend-v2, from start-up on: ChainlinkListener   *)
(* keeps the price of the last transmission it handled, priceMath keeps a  *)
(* price with a time to live per symbol, and getUsdPrice looks in one      *)
(* after the other before it asks an RPC node.  Pyth ticks write into the  *)
(* same price cache.  A Chainlink price is told by the round that          *)
(* published it: scaling to 1e18 is one-to-one on the feeds' decimals.     *)
(***************************************************************************)
EXTENDS Integers, FiniteSets

CONSTANTS
  Symbols,    \* symbols configured with this feed, an alias among them
  Own,        \* the symbol the listener knows the feed by; one of the form
              \* "addr:0x.." is not in Symbols, nobody asks for it
  Asks,       \* getUsdPrice / getUsdPriceForAddress calls that overlap
  Ttl,        \* config.PRICE_CACHE_TTL_MS
  MaxRpc,     \* bound: how long an RPC request may take
  NoSymbol,
  MaxRounds,  \* bound: transmissions
  Horizon     \* bound: the clock stops here

FeedAssumption ==
  /\ NoSymbol \notin Symbols
  /\ Ttl \in Nat
  /\ MaxRpc \in Nat \ {0}
  /\ MaxRounds \in Nat \ {0}
  /\ Horizon \in Nat

VARIABLES
  now,
  round,     \* the chain: the feed's latest round
  logs,      \* transmissions the subscription has not delivered yet
  boot,      \* how far main() has come
  warm,      \* the RPC read of start-up: [since, round], round 0 until read
  decimals,  \* decimalsCache has the feed
  delivered, \* transmissions the subscription has delivered
  seen,      \* dedupeCache
  listener,  \* latestPrice1e18: a round, 0 for none
  local,     \* priceCache per symbol
  ask,       \* per call: its locals
  heldSince, \* history: since when the listener has been at a round or past it
  served     \* history: the last answer, [by, round, late]

vars == <<now, round, logs, delivered, boot, warm, decimals, seen, listener, local, ask,
          heldSince, served>>

-----------------------------------------------------------------------------
Rounds == 1 .. MaxRounds
Never == -1

\* A price in the cache: by "none" is no entry, by "pyth" has no round.
Entry == [by : {"none", "chainlink", "pyth"}, round : 0 .. MaxRounds, at : 0 .. Horizon]
NoEntry == [by |-> "none", round |-> 0, at |-> 0]

AskState ==
  [pc     : {"idle", "asked", "read"},
   symbol : Symbols \cup {NoSymbol},
   stores : BOOLEAN,            \* getUsdPrice stores what RPC answers
   since  : 0 .. Horizon,
   round  : 0 .. MaxRounds]

IdleAsk ==
  [pc |-> "idle", symbol |-> NoSymbol, stores |-> FALSE, since |-> 0, round |-> 0]

TypeOK ==
  /\ now \in 0 .. Horizon
  /\ round \in Rounds
  /\ logs \subseteq Rounds
  /\ delivered \subseteq Rounds
  /\ boot \in {"adding", "subscribed", "warming", "running", "dead"}
  /\ warm \in [since : 0 .. Horizon, round : 0 .. MaxRounds]
  /\ decimals \in BOOLEAN
  /\ seen \subseteq Rounds
  /\ listener \in 0 .. MaxRounds
  /\ local \in [Symbols -> Entry]
  /\ ask \in [Asks -> AskState]
  /\ heldSince \in [Rounds -> (0 .. Horizon) \cup {Never}]
  /\ served \in [by : {"none", "chainlink", "pyth"}, round : 0 .. MaxRounds,
                 late : (0 .. Horizon) \cup {Never}]

Init ==
  /\ now = 0
  /\ round = 1
  /\ logs = {}
  /\ delivered = {}
  /\ boot = "adding"
  /\ warm = [since |-> 0, round |-> 0]
  /\ decimals = FALSE
  /\ seen = {}
  /\ listener = 0
  /\ local = [s \in Symbols |-> NoEntry]
  /\ ask = [a \in Asks |-> IdleAsk]
  /\ heldSince = [r \in Rounds |-> Never]
  /\ served = [by |-> "none", round |-> 0, late |-> Never]

-----------------------------------------------------------------------------
\* The environment.

\* Time passes, but no RPC request outlives its timeout.
Tick ==
  /\ now < Horizon
  /\ \A a \in Asks : ask[a].pc # "idle" => now - ask[a].since < MaxRpc
  /\ boot = "warming" => now - warm.since < MaxRpc
  /\ now' = now + 1
  /\ UNCHANGED <<round, logs, delivered, boot, warm, decimals, seen, listener, local, ask,
                 heldSince, served>>

Transmit ==
  /\ round < MaxRounds
  /\ round' = round + 1
  /\ logs' = IF boot = "adding" THEN logs ELSE logs \cup {round + 1}
  /\ UNCHANGED <<now, delivered, boot, warm, decimals, seen, listener, local, ask,
                 heldSince, served>>

-----------------------------------------------------------------------------
\* Start-up (index.ts, ChainlinkListener.addFeed and start).

\* The listener takes over round r: it goes on to it, or back to it.
TakeOver(r) ==
  /\ listener' = r
  /\ heldSince' = [q \in Rounds |-> IF q > r THEN Never
                                   ELSE IF heldSince[q] = Never THEN now
                                   ELSE heldSince[q]]

\* updateCachedPrice, under several symbols.
Store(symbols, by, r) ==
  local' = [s \in Symbols |->
              IF s \in symbols THEN [by |-> by, round |-> r, at |-> now] ELSE local[s]]

\* decimals() and latestRoundData() answer, or one of them fails, and the feed is
\* subscribed to all the same.
AddFeed ==
  /\ boot = "adding"
  /\ \E answers \in {"none", "decimals", "both"} :
       /\ decimals' = (answers # "none")
       /\ IF answers = "both" THEN TakeOver(round)
                              ELSE UNCHANGED <<listener, heldSince>>
  /\ boot' = "subscribed"
  /\ UNCHANGED <<now, round, logs, delivered, warm, seen, local, ask, served>>

\* The price of ETH and WETH is made ready, from the listener or over RPC.
Ready ==
  /\ boot = "subscribed"
  /\ IF listener # 0
       THEN /\ boot' = "running"
            /\ Store(Symbols, "chainlink", listener)
            /\ UNCHANGED warm
       ELSE /\ boot' = "warming"
            /\ warm' = [since |-> now, round |-> 0]
            /\ UNCHANGED local
  /\ UNCHANGED <<now, round, logs, delivered, decimals, seen, listener, ask,
                 heldSince, served>>

WarmRead ==
  /\ boot = "warming"
  /\ warm.round = 0
  /\ warm' = [warm EXCEPT !.round = round]
  /\ UNCHANGED <<now, round, logs, delivered, boot, decimals, seen, listener, local, ask,
                 heldSince, served>>

\* The answer is stored under every symbol, or main() gives up.
WarmEnds ==
  /\ boot = "warming"
  /\ \/ /\ warm.round # 0
        /\ boot' = "running"
        /\ Store(Symbols, "chainlink", warm.round)
     \/ boot' = "dead" /\ UNCHANGED local
  /\ UNCHANGED <<now, round, logs, delivered, warm, decimals, seen, listener, ask,
                 heldSince, served>>

-----------------------------------------------------------------------------
\* ChainlinkListener.handleLog, with the callback updateCachedPrice.

Known(r) == r \in seen

\* Logs come in order; a node may deliver one again.  What dedupeCache does not
\* know is taken over, be it older than what the listener has.
Deliver(r) ==
  /\ boot # "dead"
  /\ r \in logs \cup delivered
  /\ \A q \in logs : r <= q
  /\ logs' = logs \ {r}
  /\ delivered' = delivered \cup {r}
  /\ seen' = seen \cup {r}
  /\ IF ~Known(r) /\ decimals
       THEN TakeOver(r) /\ Store({Own}, "chainlink", r)
       ELSE UNCHANGED <<listener, local, heldSince>>
  /\ UNCHANGED <<now, round, boot, warm, decimals, ask, served>>

\* The timer of start(): dedupeCache is emptied every ten minutes.
ClearDedupe ==
  /\ boot \notin {"adding", "dead"}
  /\ seen # {}
  /\ seen' = {}
  /\ UNCHANGED <<now, round, logs, delivered, boot, warm, decimals, listener, local,
                 ask, heldSince, served>>

\* The subscription misses a transmission.
Miss(r) ==
  /\ r \in logs
  /\ logs' = logs \ {r}
  /\ UNCHANGED <<now, round, delivered, boot, warm, decimals, seen, listener, local, ask,
                 heldSince, served>>

\* A Pyth update of a symbol goes into the same cache, however old it is.
PythTick(s) ==
  /\ boot \notin {"adding", "dead"}
  /\ Store({s}, "pyth", 0)
  /\ UNCHANGED <<now, round, logs, delivered, boot, warm, decimals, seen, listener, ask,
                 heldSince, served>>

-----------------------------------------------------------------------------
\* getUsdPrice and getUsdPriceForAddress.

\* How long the listener has been past round r, if it is.
Late(r) == IF r < listener THEN now - heldSince[r + 1] ELSE Never

Serve(by, r) ==
  served' = [by |-> by, round |-> r,
             late |-> IF by = "chainlink" THEN Late(r) ELSE Never]

\* Mutant: the age of a cached price is not looked at.
FreshAlways(s) == local[s].by # "none"

Fresh(s) == local[s].by # "none" /\ now - local[s].at <= Ttl

AskPrice(a, s, stores) ==
  /\ boot = "running"
  /\ ask[a].pc = "idle"
  /\ \/ Fresh(s) /\ Serve(local[s].by, local[s].round) /\ UNCHANGED ask
     \/ ~Fresh(s) /\ listener # 0 /\ Serve("chainlink", listener) /\ UNCHANGED ask
     \/ /\ ~Fresh(s) /\ listener = 0
        /\ ask' = [ask EXCEPT ![a] = [pc |-> "asked", symbol |-> s, stores |-> stores,
                                       since |-> now, round |-> 0]]
        /\ UNCHANGED served
  /\ UNCHANGED <<now, round, logs, delivered, boot, warm, decimals, seen, listener, local,
                 heldSince>>

RpcRead(a) ==
  /\ ask[a].pc = "asked"
  /\ ask' = [ask EXCEPT ![a].pc = "read", ![a].round = round]
  /\ UNCHANGED <<now, round, logs, delivered, boot, warm, decimals, seen, listener, local,
                 heldSince, served>>

RpcAnswer(a) ==
  /\ ask[a].pc = "read"
  /\ Serve("chainlink", ask[a].round)
  /\ IF ask[a].stores THEN Store({ask[a].symbol}, "chainlink", ask[a].round)
     ELSE UNCHANGED local
  /\ ask' = [ask EXCEPT ![a] = IdleAsk]
  /\ UNCHANGED <<now, round, logs, delivered, boot, warm, decimals, seen, listener,
                 heldSince>>

RpcFails(a) ==
  /\ ask[a].pc # "idle"
  /\ ask' = [ask EXCEPT ![a] = IdleAsk]
  /\ UNCHANGED <<now, round, logs, delivered, boot, warm, decimals, seen, listener, local,
                 heldSince, served>>

Next ==
  \/ Tick \/ Transmit
  \/ AddFeed \/ Ready \/ WarmRead \/ WarmEnds
  \/ \E r \in Rounds : Deliver(r) \/ Miss(r)
  \/ ClearDedupe
  \/ \E s \in Symbols : PythTick(s)
  \/ \E a \in Asks :
       \/ \E s \in Symbols, stores \in BOOLEAN : AskPrice(a, s, stores)
       \/ RpcRead(a) \/ RpcAnswer(a) \/ RpcFails(a)

Spec == Init /\ [][Next]_vars

-----------------------------------------------------------------------------
\* Properties.

\* While the listener does not go back, caches and requests keep up with it: a
\* Chainlink price that is served has been superseded in the listener for no longer
\* than the time to live and an RPC request.  Neither the alias, which no
\* transmission updates, nor RPC answers that overtake transmissions break it.
LagBounded == served.late <= Ttl + MaxRpc

\* What "Dedupe by roundId:feedAddress" suggests, and what does not hold: the
\* listener never goes back to an older round.  Once dedupeCache was cleared a round
\* delivered again replaces a newer price.
ListenerGoesOn == [][listener' >= listener]_vars
=============================================================================
