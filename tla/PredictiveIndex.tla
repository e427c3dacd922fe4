---------------------------- MODULE PredictiveIndex ----------------------------
(***************************************************************************)
(* UserIndex (token -> users, user -> tokens), the ActiveRiskSet that      *)
(* refreshes it in the background, and PredictiveLoop.handlePriceUpdate,   *)
(* which walks the index entry of a token while refreshes rewrite it.      *)
(*                                                                         *)
(* A JavaScript Set being iterated yields elements added behind the        *)
(* cursor, and yields an element again that was deleted and added back;    *)
(* todo is the part of the set the iterator has still to yield.  The order *)
(* within a set is left open.                                              *)
(***************************************************************************)
EXTENDS Integers, FiniteSets

CONSTANTS
  Users, Tokens,
  Sweeps,      \* activations of handlePriceUpdate that may overlap
  Fetches,     \* bound: activations of updateUserIndexForUser at a time
  RateLimit,   \* config.PREDICT_MIN_RESCORE_INTERVAL_MS
  Throttle,    \* config.INDEX_REFRESH_MS
  NoUser, NoToken,
  Horizon,     \* bound: the clock stops here
  MaxTrades    \* bound: changes of holdings

IndexAssumption ==
  /\ NoUser \notin Users
  /\ NoToken \notin Tokens
  /\ RateLimit \in Nat \ {0}
  /\ Throttle \in Nat \ {0}
  /\ Horizon \in Nat
  /\ MaxTrades \in Nat

VARIABLES
  holdings,      \* the chain: tokens a user has exposure to, anchors included
  trades,        \* the chain: changes of holdings so far
  now,
  risk,          \* ActiveRiskSet.candidates
  refreshedAt,   \* lastIndexRefresh per candidate
  fetch,         \* per activation of updateUserIndexForUser: its locals
  userTokens,    \* UserIndex.userToTokens; {} is no entry, or an empty one
  tokenUsers,    \* UserIndex.tokenToUsers; {} is no entry
  lastRescore,   \* PredictiveLoop.lastRescoreTime
  sweep          \* per activation of handlePriceUpdate: its locals

riskVars == <<risk, refreshedAt>>
indexVars == <<userTokens, tokenUsers>>
vars == <<holdings, trades, now, risk, refreshedAt, fetch, userTokens, tokenUsers,
          lastRescore, sweep>>

\* A time before every other by more than any interval.
Never == -(RateLimit + Throttle)

-----------------------------------------------------------------------------
FetchState ==
  [pc : {"idle", "reading", "read"}, user : Users \cup {NoUser},
   tokens : SUBSET Tokens]

SweepState ==
  [pc    : {"idle", "checking", "preparing"},   \* the await it is at
   token : Tokens \cup {NoToken},
   now   : 0 .. Horizon,            \* Date.now() when the walk began
   live  : BOOLEAN,                 \* the walked Set is still the index's entry
   todo  : SUBSET Users,
   user  : Users \cup {NoUser},
   done  : SUBSET Users]            \* history: users this sweep rescored

IdleFetch == [pc |-> "idle", user |-> NoUser, tokens |-> {}]
IdleSweep ==
  [pc |-> "idle", token |-> NoToken, now |-> 0, live |-> TRUE, todo |-> {},
   user |-> NoUser, done |-> {}]

Times == (0 .. Horizon) \cup {Never}

TypeOK ==
  /\ holdings \in [Users -> SUBSET Tokens]
  /\ trades \in 0 .. MaxTrades
  /\ now \in 0 .. Horizon
  /\ risk \subseteq Users
  /\ refreshedAt \in [Users -> Times]
  /\ fetch \in [Fetches -> FetchState]
  /\ userTokens \in [Users -> SUBSET Tokens]
  /\ tokenUsers \in [Tokens -> SUBSET Users]
  /\ lastRescore \in [Users -> Times]
  /\ sweep \in [Sweeps -> SweepState]

Init ==
  /\ holdings \in [Users -> SUBSET Tokens]
  /\ trades = 0
  /\ now = 0
  /\ risk = {}
  /\ refreshedAt = [u \in Users |-> Never]
  /\ fetch = [f \in Fetches |-> IdleFetch]
  /\ userTokens = [u \in Users |-> {}]
  /\ tokenUsers = [k \in Tokens |-> {}]
  /\ lastRescore = [u \in Users |-> Never]
  /\ sweep = [s \in Sweeps |-> IdleSweep]

-----------------------------------------------------------------------------
\* The environment.

Tick ==
  /\ now < Horizon
  /\ now' = now + 1
  /\ UNCHANGED <<holdings, trades, riskVars, fetch, indexVars, lastRescore, sweep>>

Trade(u) ==
  /\ trades < MaxTrades
  /\ \E held \in SUBSET Tokens : holdings' = [holdings EXCEPT ![u] = held]
  /\ trades' = trades + 1
  /\ UNCHANGED <<now, riskVars, fetch, indexVars, lastRescore, sweep>>

-----------------------------------------------------------------------------
\* ActiveRiskSet.

StartFetch(u) ==
  \E f \in Fetches :
    /\ fetch[f].pc = "idle"
    /\ fetch' = [fetch EXCEPT ![f] = [pc |-> "reading", user |-> u, tokens |-> {}]]

\* add(): an existing entry is replaced, its lastIndexRefresh with it, and the
\* index is refreshed at once.
Add(u) ==
  /\ risk' = risk \cup {u}
  /\ refreshedAt' = [refreshedAt EXCEPT ![u] = Never]
  /\ StartFetch(u)

\* updateHF(): a dust position is removed, but stays in the index.
UpdateHF(u, dust) ==
  IF dust THEN risk' = risk \ {u} /\ UNCHANGED <<refreshedAt, fetch>>
  ELSE IF u \notin risk THEN Add(u)
  ELSE IF now - refreshedAt[u] >= Throttle
    THEN /\ refreshedAt' = [refreshedAt EXCEPT ![u] = now]
         /\ StartFetch(u)
         /\ UNCHANGED risk
    ELSE UNCHANGED <<riskVars, fetch>>

\* The verifier loop's checks; start-up's addBulk is the check that adds.
Recheck(u) ==
  /\ \E dust \in BOOLEAN : UpdateHF(u, dust)
  /\ UNCHANGED <<holdings, trades, now, indexVars, lastRescore, sweep>>

\* getAllUserReserves reads the chain now and answers later.
FetchRead(f) ==
  LET u == fetch[f].user IN
  /\ fetch[f].pc = "reading"
  /\ fetch' = [fetch EXCEPT ![f] = [pc |-> "read", user |-> u,
                                    tokens |-> holdings[u]]]
  /\ UNCHANGED <<holdings, trades, now, riskVars, indexVars, lastRescore, sweep>>

FetchFails(f) ==
  /\ fetch[f].pc # "idle"
  /\ fetch' = [fetch EXCEPT ![f] = IdleFetch]
  /\ UNCHANGED <<holdings, trades, now, riskVars, indexVars, lastRescore, sweep>>

-----------------------------------------------------------------------------
\* UserIndex.setUserTokens.

EntryAfter(k, u, tokens) ==
  IF k \in tokens THEN tokenUsers[k] \cup {u} ELSE tokenUsers[k] \ {u}

\* The removal empties the entry: it is dropped, and u is added to a new one,
\* which the iterator of the old one never sees.
Dropped(k, u) == tokenUsers[k] = {u}

TodoAfter(s, u, tokens) ==
  IF ~sweep[s].live \/ Dropped(sweep[s].token, u) THEN {}
  ELSE IF sweep[s].token \in tokens THEN sweep[s].todo \cup {u}
  ELSE sweep[s].todo \ {u}

FetchApply(f) ==
  LET u == fetch[f].user
      tokens == fetch[f].tokens
  IN  /\ fetch[f].pc = "read"
      /\ userTokens' = [userTokens EXCEPT ![u] = tokens]
      /\ tokenUsers' = [k \in Tokens |-> EntryAfter(k, u, tokens)]
      /\ sweep' = [s \in Sweeps |->
           IF sweep[s].pc = "idle" THEN sweep[s]
           ELSE [sweep[s] EXCEPT !.todo = TodoAfter(s, u, tokens),
                                 !.live = @ /\ ~Dropped(sweep[s].token, u)]]
      /\ fetch' = [fetch EXCEPT ![f] = IdleFetch]
      /\ UNCHANGED <<holdings, trades, now, riskVars, lastRescore>>

-----------------------------------------------------------------------------
\* PredictiveLoop.handlePriceUpdate.

\* Mutant: the limit is taken against the clock instead of the sweep's start.
TooSoonByClock(w, u) == now - lastRescore[u] < RateLimit

TooSoon(w, u) == w.now - lastRescore[u] < RateLimit

\* The loop from one await to the next: users under the limit are skipped.  The
\* limit stays in force for the rest of a walk, so they are left in todo.
Walk(s, w) ==
  \/ \E u \in w.todo :
       /\ ~TooSoon(w, u)
       /\ sweep' = [sweep EXCEPT ![s] =
            [w EXCEPT !.pc = "checking", !.user = u, !.todo = @ \ {u},
                      !.done = @ \cup {u}]]
       /\ lastRescore' = [lastRescore EXCEPT ![u] = w.now]
  \/ /\ \A u \in w.todo : TooSoon(w, u)
     /\ sweep' = [sweep EXCEPT ![s] = IdleSweep]
     /\ UNCHANGED lastRescore

\* The price of k moved by its threshold and the index knows users of k.
Trigger(s, k) ==
  /\ sweep[s].pc = "idle"
  /\ tokenUsers[k] # {}
  /\ Walk(s, [pc |-> "idle", token |-> k, now |-> now, live |-> TRUE,
               todo |-> tokenUsers[k], user |-> NoUser, done |-> {}])
  /\ UNCHANGED <<holdings, trades, now, riskVars, fetch, indexVars>>

\* rescoreUser: checkSingle answers, or has no answer, or throws.
Checked(s) ==
  /\ sweep[s].pc = "checking"
  /\ \/ \E dust \in BOOLEAN : UpdateHF(sweep[s].user, dust)
     \/ UNCHANGED <<riskVars, fetch>>
  /\ sweep' = [sweep EXCEPT ![s].pc = "preparing"]
  /\ UNCHANGED <<holdings, trades, now, indexVars, lastRescore>>

\* preparePlan, if it was called, is over.
WalkOn(s) ==
  /\ sweep[s].pc = "preparing"
  /\ Walk(s, sweep[s])
  /\ UNCHANGED <<holdings, trades, now, riskVars, fetch, indexVars>>

SweepStep(s) == Checked(s) \/ WalkOn(s)

Next ==
  \/ Tick
  \/ \E u \in Users : Trade(u) \/ Recheck(u)
  \/ \E f \in Fetches : FetchRead(f) \/ FetchFails(f) \/ FetchApply(f)
  \/ \E s \in Sweeps : \/ \E k \in Tokens : Trigger(s, k)
                       \/ SweepStep(s)

Spec == Init /\ [][Next]_vars

-----------------------------------------------------------------------------
\* Properties.

\* The two maps of UserIndex are inverse to each other, whatever refreshes
\* overlap and in whatever order they are applied.
MapsInverse ==
  \A u \in Users, k \in Tokens : u \in tokenUsers[k] <=> k \in userTokens[u]

Rescores(s, u) ==
  sweep[s].pc # "checking" /\ sweep'[s].pc = "checking" /\ sweep'[s].user = u

\* No sweep rescores a user twice, although a refresh puts the user back in
\* front of the iterator.
RescoredOnce ==
  [][\A s \in Sweeps, u \in Users : Rescores(s, u) => u \notin sweep[s].done]_vars
=============================================================================
