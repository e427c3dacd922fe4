-------------------------------- MODULE AaveData --------------------------------
(***************************************************************************)
(* What the first bot reads from Aave.  services/AaveDataService.ts makes  *)
(* every read on a WebSocket provider, or over HTTP when that provider is  *)
(* unhealthy or destroyed, and lists the reserves of a user by one read    *)
(* after the other.  aave/AaveMetadata.ts keeps the reserves of the pool   *)
(* and reads them again when they are five minutes old; several callers    *)
(* may find them old at once.                                              *)
(***************************************************************************)
EXTENDS Integers, FiniteSets

CONSTANTS
  Reserves,
  Refreshes,        \* bound: refreshes of the metadata under way
  RefreshInterval,  \* refreshIntervalMs
  MaxChanges,       \* bound: changes on the chain
  MaxTime           \* bound on the clock

AaveDataAssumption ==
  /\ {RefreshInterval, MaxTime} \subseteq Nat \ {0} /\ MaxChanges \in Nat

NoReserve == "none"

VARIABLES
  now, changes,
  \* The chain: the reserves a user has debt in, and the active reserves.
  owed, active,
  \* AaveDataService: whether its provider is a WebSocket and whether there is an HTTP
  \* provider; whether the socket was not destroyed; wsHealthy; the probe of the constructor.
  link, open, wsHealthy, probing,
  \* A listing of the reserves of a user.
  read,
  \* The canonical view of the account, and its verdict on a listing.
  hasCache, account,
  \* AaveMetadata: the reserves it knows; lastRefreshTime; isInitialized; the refreshes.
  known, lastRefreshTime, isInitialized, refresh

chain == <<now, changes, owed, active>>
provider == <<link, open, wsHealthy, probing>>
consistency == <<hasCache, account>>
metadata == <<known, lastRefreshTime, isInitialized, refresh>>
vars == <<chain, provider, read, consistency, metadata>>

\* The last listing, or the one under way: where it is, who made the call, the reserves it
\* has before it and has listed; those the user had debt in all the while since it began,
\* and those dropped for an error or an amount that has nothing to do with the socket.
NoRead == [pc |-> "idle", canonical |-> FALSE, via |-> "http", left |-> {}, asset |-> NoReserve,
           listed |-> {}, owing |-> {}, failed |-> {}]
NoRefresh == [pc |-> "idle", list |-> {}]
NoAccount == [pc |-> "idle", odd |-> FALSE]

\* The calls of a listing: getReservesList, then for every reserve getUserReserveData, once
\* more in getTotalDebt, and either the configuration and the price or, in the canonical
\* listing, what the cache of prices knows.
Calls == {"list", "user", "total", "config", "price", "cache"}

TypeOK ==
  /\ now \in 1 .. MaxTime /\ changes \in 0 .. MaxChanges
  /\ owed \subseteq Reserves /\ active \subseteq Reserves
  /\ link \in [socket : BOOLEAN, http : BOOLEAN] /\ {open, wsHealthy, probing} \subseteq BOOLEAN
  /\ read \in [pc : Calls \cup {"idle"}, canonical : BOOLEAN, via : {"ws", "http"},
               left : SUBSET Reserves, asset : Reserves \cup {NoReserve},
               listed : SUBSET Reserves, owing : SUBSET Reserves, failed : SUBSET Reserves]
  /\ hasCache \in BOOLEAN
  /\ account \in [pc : {"idle", "first", "again", "consistent", "inconsistent"}, odd : BOOLEAN]
  /\ known \subseteq Reserves
  /\ lastRefreshTime \in 0 .. MaxTime /\ isInitialized \in BOOLEAN
  /\ refresh \in [Refreshes -> [pc : {"idle", "list", "configs"}, list : SUBSET Reserves]]

\* The program gives the service no cache of prices (hasCache), and begins with the
\* refresh of initialize.
Init ==
  /\ now = 1 /\ changes = 0
  /\ owed \in SUBSET Reserves /\ active = Reserves
  /\ link \in {l \in [socket : BOOLEAN, http : BOOLEAN] : l.socket \/ l.http}
  /\ open = link.socket /\ wsHealthy = FALSE /\ probing = link.socket
  /\ read = NoRead
  /\ hasCache \in BOOLEAN /\ account = NoAccount
  /\ known = {}
  /\ lastRefreshTime = 0 /\ isInitialized = FALSE
  /\ \E first \in Refreshes :
       refresh = [f \in Refreshes |-> IF f = first THEN [NoRefresh EXCEPT !.pc = "list"]
                                     ELSE NoRefresh]

-----------------------------------------------------------------------------
\* Providers.

\* setupDualProviders: the probe, whenever it is answered.
Probed ==
  /\ probing /\ probing' = FALSE
  /\ wsHealthy' \in IF open THEN BOOLEAN ELSE {FALSE}
  /\ UNCHANGED <<chain, link, open, read, consistency, metadata>>

\* The listener of errors; nothing sets the flag again but the probe.
SocketError ==
  /\ link.socket /\ wsHealthy
  /\ wsHealthy' = FALSE
  /\ UNCHANGED <<chain, link, open, probing, read, consistency, metadata>>

\* RealTimeHFService replaces its provider, not the service that was made with it.
SocketDestroyed ==
  /\ open /\ open' = FALSE
  /\ UNCHANGED <<chain, link, wsHealthy, probing, read, consistency, metadata>>

\* The calls made through callWithFallback; AssetMetadataCache asks its one provider.
WithFallbackButPrice == {"list", "user", "total", "config"}
WithFallback == {"list", "user", "total", "config", "price"}

\* Where a call goes when it is made.
Route == IF ~wsHealthy /\ link.http THEN "http" ELSE "ws"
Own == IF link.socket THEN "ws" ELSE "http"

Answers == read.via = "http" \/ open

-----------------------------------------------------------------------------
\* getAllUserReserves, and getUserReservesCanonical, which needs the cache.

Call(pc, r) == [r EXCEPT !.pc = pc, !.via = IF pc \in WithFallback THEN Route ELSE Own]

StartRead(canonical) ==
  /\ read.pc = "idle"
  /\ canonical => hasCache
  /\ read' = Call("list", [NoRead EXCEPT !.canonical = canonical, !.owing = owed])
  /\ UNCHANGED <<chain, provider, consistency, metadata>>

\* The next reserve, or the end.
Onward(r) ==
  IF r.left = {} THEN {[r EXCEPT !.pc = "idle", !.asset = NoReserve]}
  ELSE {Call("user", [r EXCEPT !.asset = a, !.left = @ \ {a}]) : a \in r.left}

\* A reserve that holds nothing is passed over. The cache may answer from what it keeps.
CallAnswered ==
  /\ read.pc # "idle" /\ (Answers \/ read.pc = "cache")
  /\ CASE read.pc = "list" -> read' \in Onward([read EXCEPT !.left = Reserves])
       [] read.pc = "user" -> read' = Call("total", read)
       [] read.pc = "total" ->
            \E supplied \in BOOLEAN :
              IF read.asset \notin owed /\ ~supplied
              THEN read' \in Onward(read)
              ELSE read' = Call(IF read.canonical THEN "cache" ELSE "config", read)
       [] read.pc = "config" -> read' = Call("price", read)
       [] OTHER -> read' \in Onward([read EXCEPT !.listed = @ \cup {read.asset}])
  /\ UNCHANGED <<chain, provider, consistency, metadata>>

\* Without the list there is no answer; any other error drops the reserve.
Without(r) == IF r.pc = "list" THEN {[r EXCEPT !.pc = "idle"]} ELSE Onward(r)

\* An error of the node, or in the canonical listing an amount that cannot be.
CallFailed ==
  /\ read.pc # "idle" /\ (Answers \/ read.pc = "cache")
  /\ read' \in Without([read EXCEPT !.failed =
                          IF read.pc = "list" THEN Reserves ELSE @ \cup {read.asset}])
  /\ UNCHANGED <<chain, provider, consistency, metadata>>

\* isProviderDestroyedError: callWithFallback makes the same call over HTTP; the cache has
\* nothing else to ask.
CallDestroyed ==
  /\ read.pc # "idle" /\ ~Answers
  /\ wsHealthy' = (wsHealthy /\ read.pc \notin WithFallback)
  /\ IF read.pc \in WithFallback /\ link.http
     THEN read' = [read EXCEPT !.via = "http"]
     ELSE read' \in Without(read)
  /\ UNCHANGED <<chain, link, open, probing, consistency, metadata>>

-----------------------------------------------------------------------------
\* validateConsistency over getUserAccountDataCanonical.

Validate ==
  /\ account.pc \notin {"first", "again"}
  /\ account' = [NoAccount EXCEPT !.pc = "first"]
  /\ UNCHANGED <<chain, provider, read, hasCache, metadata>>

\* Totals are compared when there is a cache to convert them; otherwise they are zero,
\* and nothing speaks against the listing.
Verdict == IF hasCache THEN {"consistent", "inconsistent"} ELSE {"consistent"}

\* A low health factor without collateral is read again after half a second.
AccountRead ==
  /\ account.pc \in {"first", "again"}
  /\ \E odd \in BOOLEAN :
       account' \in IF odd /\ account.pc = "first"
                    THEN {[account EXCEPT !.pc = "again"]}
                    ELSE {[account EXCEPT !.pc = v, !.odd = odd] : v \in Verdict}
  /\ UNCHANGED <<chain, provider, read, hasCache, metadata>>

AccountFailed ==
  /\ account.pc \in {"first", "again"}
  /\ account' = [account EXCEPT !.pc = "inconsistent"]
  /\ UNCHANGED <<chain, provider, read, hasCache, metadata>>

-----------------------------------------------------------------------------
\* AaveMetadata.

\* maybeRefresh: the time of the last refresh is set when it ends, so that more of them
\* may begin.
StartRefresh(f) ==
  /\ refresh[f].pc = "idle"
  /\ isInitialized /\ now - lastRefreshTime > RefreshInterval
  /\ refresh' = [refresh EXCEPT ![f].pc = "list"]
  /\ UNCHANGED <<chain, provider, read, consistency, known, lastRefreshTime, isInitialized>>

ReservesListed(f) ==
  /\ refresh[f].pc = "list"
  /\ refresh' = [refresh EXCEPT ![f] = [pc |-> "configs", list |-> active]]
  /\ UNCHANGED <<chain, provider, read, consistency, known, lastRefreshTime, isInitialized>>

RefreshFailed(f) ==
  /\ refresh[f].pc = "list"
  /\ refresh' = [refresh EXCEPT ![f] = NoRefresh]
  /\ UNCHANGED <<chain, provider, read, consistency, known, lastRefreshTime, isInitialized>>

\* refreshReserves: a reserve whose configuration could not be read is forgotten, like
\* one that is not active.
ReservesRead(f) ==
  /\ refresh[f].pc = "configs"
  /\ \E failed \in SUBSET refresh[f].list :
       known' = (refresh[f].list \ failed) \cap active
  /\ lastRefreshTime' = now /\ isInitialized' = TRUE
  /\ refresh' = [refresh EXCEPT ![f] = NoRefresh]
  /\ UNCHANGED <<chain, provider, read, consistency>>

-----------------------------------------------------------------------------
ChainChanges ==
  /\ changes < MaxChanges /\ changes' = changes + 1
  /\ \E r \in Reserves :
       \/ owed' = (owed \ {r}) \cup ({r} \ owed) /\ UNCHANGED active
       \/ active' = (active \ {r}) \cup ({r} \ active) /\ UNCHANGED owed
  /\ read' = IF read.pc = "idle" THEN read ELSE [read EXCEPT !.owing = @ \cap owed']
  /\ UNCHANGED <<now, provider, consistency, metadata>>

Tick ==
  /\ now < MaxTime /\ now' = now + 1
  /\ UNCHANGED <<changes, owed, active, provider, read, consistency, metadata>>

ReadStep ==
  \/ Probed \/ SocketError \/ SocketDestroyed
  \/ \E canonical \in BOOLEAN : StartRead(canonical)
  \/ CallAnswered \/ CallFailed \/ CallDestroyed
  \/ ChainChanges

MetadataStep ==
  \/ \E f \in Refreshes :
       StartRefresh(f) \/ ReservesListed(f) \/ RefreshFailed(f) \/ ReservesRead(f)
  \/ Validate \/ AccountRead \/ AccountFailed
  \/ ChainChanges \/ Tick

Next == ReadStep \/ MetadataStep

Spec == Init /\ [][Next]_vars

-----------------------------------------------------------------------------
\* A listing has every debt of the user that stood from its first call to its last, unless
\* the reserve was dropped for an error of its own: whatever became of the socket, and in
\* the middle of whichever of its calls, while HTTP is there.
Whole == read.pc = "idle" /\ link.http => read.owing \subseteq read.listed \cup read.failed

\* "Service will automatically route through HTTP when needed": so in getAllUserReserves.
ListingIsWhole == ~read.canonical => Whole

\* Not so in getUserReservesCanonical, whose cache of prices has one provider: a reserve
\* whose price is not kept is dropped when that provider is gone.
CanonicalIsWhole == read.canonical => Whole
=============================================================================
