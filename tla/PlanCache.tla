------------------------------- MODULE PlanCache -------------------------------
(***************************************************************************)
(* execution/PlanCache.ts: a bounded map from user to prepared plan.  A    *)
(* plan is the record [user, createdAt]; what it says is not looked at.    *)
(* Time is in units small enough that the TTL is a few of them.            *)
(***************************************************************************)
EXTENDS Integers, FiniteSets

CONSTANTS
  Users,
  MaxUsers,   \* config.PLAN_MAX_USERS
  Ttl,        \* config.PLAN_TTL_MS
  NoPlan,
  Horizon     \* bound: the clock stops here

PlanCacheAssumption ==
  /\ MaxUsers \in Nat \ {0}
  /\ Ttl \in Nat
  /\ Horizon \in Nat
  /\ NoPlan \notin [user : Users, createdAt : Nat]

VARIABLES
  cache,   \* the plans in the map
  now,     \* Date.now()
  served   \* what the last get returned: a plan or NoPlan

vars == <<cache, now, served>>

Plan == [user : Users, createdAt : 0 .. Horizon]

TypeOK ==
  /\ cache \subseteq Plan
  /\ now \in 0 .. Horizon
  /\ served \in Plan \cup {NoPlan}

Init ==
  /\ cache = {}
  /\ now = 0
  /\ served = NoPlan

Tick ==
  /\ now < Horizon
  /\ now' = now + 1
  /\ served' = NoPlan
  /\ UNCHANGED cache

Of(u) == {p \in cache : p.user = u}

\* Mutant: a full map evicts its newest plan.
VictimsNewest(u) ==
  IF Cardinality(cache) >= MaxUsers /\ Of(u) = {}
    THEN {p \in cache : \A q \in cache : p.createdAt >= q.createdAt}
    ELSE {}

\* The plans evictOldest may take to make room for u: one of them goes, the
\* first in map order.
Victims(u) ==
  IF Cardinality(cache) >= MaxUsers /\ Of(u) = {}
    THEN {p \in cache : \A q \in cache : p.createdAt <= q.createdAt}
    ELSE {}

\* preparePlan stamps the plan and stores it without an await in between.
Prepare(u) ==
  /\ LET kept == cache \ Of(u)
         plan == [user |-> u, createdAt |-> now]
     IN  IF Victims(u) = {}
           THEN cache' = kept \cup {plan}
           ELSE \E v \in Victims(u) : cache' = (kept \ {v}) \cup {plan}
  /\ served' = NoPlan
  /\ UNCHANGED now

Expired(p) == now - p.createdAt > Ttl

GetHit(u) ==
  /\ \E p \in Of(u) : ~Expired(p) /\ served' = p
  /\ UNCHANGED <<cache, now>>

\* No plan, or an expired one, which is deleted.
GetMiss(u) ==
  /\ \A p \in Of(u) : Expired(p)
  /\ cache' = cache \ Of(u)
  /\ served' = NoPlan
  /\ UNCHANGED now

Invalidate(u) ==
  /\ cache' = cache \ Of(u)
  /\ served' = NoPlan
  /\ UNCHANGED now

Next ==
  \/ Tick
  \/ \E u \in Users : Prepare(u) \/ GetHit(u) \/ GetMiss(u) \/ Invalidate(u)

Spec == Init /\ [][Next]_vars

-----------------------------------------------------------------------------
\* Properties.

\* A full map gives up another user's plan only for want of room, and then
\* one that no plan it keeps is older than.
EvictsOldestOnly ==
  [][\A u \in Users : Prepare(u) =>
       \A v \in cache \ cache' : v.user # u =>
         /\ Cardinality(cache) = MaxUsers /\ Of(u) = {}
         /\ \A p \in cache \cap cache' : v.createdAt <= p.createdAt]_vars
=============================================================================
