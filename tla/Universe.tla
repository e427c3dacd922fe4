-------------------------------- MODULE Universe --------------------------------
(***************************************************************************)
(* Which users backend-v2 knows and how it hears of them: the seeding from *)
(* the subgraph (subgraph/), the first check of main() in index.ts, the    *)
(* snapshot of the risk set the pool listeners keep, the index of tokens   *)
(* the price loop walks, the members the two of them add and remove later, *)
(* and what liquidationAudit.ts says when somebody else liquidates a user. *)
(* LiquidationPipeline models an attempt, PredictiveIndex the index.       *)
(***************************************************************************)
EXTENDS Integers, FiniteSets

CONSTANTS
  Users,
  MaxCandidates,   \* UNIVERSE_MAX_CANDIDATES
  BatchSize,       \* users of a multicall: 100 in main()
  Attempts,        \* attempts at a page of the subgraph: 3 in the code
  MaxMoves         \* bound: changes of positions

UniverseAssumption ==
  /\ Users # {}
  /\ {MaxCandidates, BatchSize, Attempts} \subseteq Nat \ {0} /\ MaxMoves \in Nat

\* A position as the code tells it apart: no debt, a debt under MIN_DEBT_USD, more
\* and safe, or at most at HF_THRESHOLD_EXECUTE.
Positions == {"none", "dust", "safe", "under"}
Small(p) == p \in {"none", "dust"}

Out == "out"               \* not a member of the risk set
Unchecked == "unchecked"   \* a member with an infinite health factor and no debt

Statuses == {"none", "running", "included", "pending", "reverted", "failed", "error",
             "unsafe", "skip_no_pair"}

Queries == <<"variableDebt", "stableDebt", "collateral">>

VARIABLES
  position, moves,   \* the chain
  stage,             \* how far main() is
  query,             \* the seeder: the list it pages through, and failures of a page
  seed,              \* users found so far
  unread,            \* members the first check has still to read
  risk,              \* ActiveRiskSet
  watched,           \* activeRiskSetSet, taken once
  indexed,           \* members of UserIndex
  fetching,          \* updateUserIndexForUser under way
  dirty,
  last,              \* AttemptHistory: status of the last record
  verdict            \* the last audit, and the record it is about

chain == <<position, moves>>
seeding == <<query, seed>>
known == <<risk, indexed, fetching>>
vars == <<chain, stage, seeding, unread, known, watched, dirty, last, verdict>>

Members == {u \in Users : risk[u] # Out}
NoVerdict == [reason |-> "none", last |-> "none"]

TypeOK ==
  /\ position \in [Users -> Positions] /\ moves \in 0 .. MaxMoves
  /\ stage \in {"seeding", "checking", "running", "dead"}
  /\ query \in [list : 1 .. 4, failures : 0 .. Attempts]
  /\ {seed, unread, watched, indexed, fetching, dirty} \subseteq SUBSET Users
  /\ risk \in [Users -> Positions \cup {Out, Unchecked}]
  /\ last \in [Users -> Statuses]
  /\ verdict \in [reason : {"none", "not_in_active_set", "priced_out", "attempted_pending_late_inclusion",
                           "attempt_failed_or_late", "hf_never_crossed_execute"},
                 last : Statuses]

Init ==
  /\ position \in [Users -> Positions] /\ moves = 0
  /\ stage = "seeding" /\ query = [list |-> 1, failures |-> 0] /\ seed = {}
  /\ unread = {} /\ watched = {} /\ indexed = {} /\ fetching = {} /\ dirty = {}
  /\ risk = [u \in Users |-> Out]
  /\ last = [u \in Users |-> "none"]
  /\ verdict = NoVerdict

-----------------------------------------------------------------------------
\* SubgraphSeeder.seed.

\* The users a list of the subgraph may name now: it may lag behind the chain, but it
\* does not name users of another kind.
Listed(list) ==
  CASE list = "variableDebt" -> {u \in Users : position[u] # "none"}
    [] list = "stableDebt" -> {}
    [] list = "collateral" -> Users

NextList == [list |-> query.list + 1, failures |-> 0]

\* retry: a request that failed too often ends the list.
Retried ==
  IF query.failures + 1 < Attempts THEN [query EXCEPT !.failures = @ + 1] ELSE NextList

\* fetchUsersPaginated: a page is there, the last one or not; when a page
\* cannot be had, what came before it is kept.
Page ==
  /\ stage = "seeding" /\ query.list <= 3
  /\ \/ \E found \in SUBSET Listed(Queries[query.list]) :
          /\ seed' = seed \cup found
          /\ query' \in {NextList, [query EXCEPT !.failures = 0]}
     \/ UNCHANGED seed /\ query' = Retried
  /\ UNCHANGED <<chain, stage, unread, known, watched, dirty, last, verdict>>

\* seedBorrowerUniverse returns, addBulk: every user a member, and its tokens read.
Seeded ==
  /\ stage = "seeding" /\ query.list = 4
  /\ \E users \in SUBSET seed :
       /\ Cardinality(users) =
            IF Cardinality(seed) > MaxCandidates THEN MaxCandidates ELSE Cardinality(seed)
       /\ risk' = [u \in Users |-> IF u \in users THEN Unchecked ELSE Out]
       /\ fetching' = users /\ unread' = users
  /\ stage' = "checking"
  /\ UNCHANGED <<chain, seeding, indexed, watched, dirty, last, verdict>>

-----------------------------------------------------------------------------
\* ActiveRiskSet.

\* updateHF of the positions read: small debts leave, others become members or are
\* brought up to date, and the tokens of some are read again (the interval of it is
\* PredictiveIndex's).
UpdateHF(read) ==
  /\ risk' = [u \in Users |-> IF u \notin read THEN risk[u]
                              ELSE IF Small(position[u]) THEN Out ELSE position[u]]
  /\ \E again \in SUBSET {u \in read : ~Small(position[u])} :
       /\ {u \in read : ~Small(position[u]) /\ risk[u] = Out} \subseteq again
       /\ fetching' = fetching \cup again

\* updateUserIndexForUser returns.  The list of reserves may not be read, which changes
\* nothing; a reserve that is not read counts as not held, so the user may lose every
\* token, as one without a position does.  Who left the risk set stays indexed.
Indexed(u) ==
  /\ u \in fetching /\ fetching' = fetching \ {u}
  /\ indexed' \in {indexed, indexed \cup {u}, indexed \ {u}}
  /\ UNCHANGED <<chain, stage, seeding, unread, risk, watched, dirty, last, verdict>>

\* main(): a batch of the first check.  Answers may be missing; a multicall that fails
\* ends the program.  A liquidatable user is counted, not marked.
FirstCheck ==
  /\ stage = "checking" /\ unread # {}
  /\ \/ \E batch \in SUBSET unread :
          /\ Cardinality(batch) =
               IF Cardinality(unread) > BatchSize THEN BatchSize ELSE Cardinality(unread)
          /\ \E read \in SUBSET batch : UpdateHF(read)
          /\ unread' = unread \ batch
          /\ UNCHANGED <<stage, indexed>>
     \/ stage' = "dead" /\ UNCHANGED <<unread, known>>
  /\ UNCHANGED <<chain, seeding, watched, dirty, last, verdict>>

\* The listeners and the audit get a copy of the addresses.
Listen ==
  /\ stage = "checking" /\ unread = {}
  /\ stage' = "running" /\ watched' = Members
  /\ UNCHANGED <<chain, seeding, unread, known, dirty, last, verdict>>

-----------------------------------------------------------------------------
\* While it runs.

\* A position changes, by an event of the pool about the user or by a price.
Moves(u) ==
  /\ moves < MaxMoves /\ moves' = moves + 1
  /\ \E p \in Positions \ {position[u]} :
       /\ position' = [position EXCEPT ![u] = p]
       /\ \/ dirty' = IF stage = "running" /\ u \in watched THEN dirty \cup {u} ELSE dirty
          \/ ~(Small(p) \/ Small(position[u])) /\ UNCHANGED dirty
  /\ UNCHANGED <<stage, seeding, unread, known, watched, last, verdict>>

\* VerifierLoop.tick of one user: it reads the position, and starts an attempt for a
\* user that is under the threshold; the answer may be missing.
Verify(u) ==
  /\ stage = "running" /\ u \in dirty /\ dirty' = dirty \ {u}
  /\ \/ UNCHANGED <<risk, fetching, last>>
     \/ /\ UpdateHF({u})
        /\ last' = IF position[u] = "under" /\ last[u] # "pending"
                   THEN [last EXCEPT ![u] = "running"] ELSE last
  /\ UNCHANGED <<chain, stage, seeding, unread, indexed, watched, verdict>>

\* onExecute ends with its record.
Attempted(u) ==
  /\ last[u] = "running"
  /\ \E s \in Statuses \ {"none", "running"} : last' = [last EXCEPT ![u] = s]
  /\ UNCHANGED <<chain, stage, seeding, unread, known, watched, dirty, verdict>>

\* PredictiveLoop.rescoreUser, for a user the index names.
Rescore(u) ==
  /\ stage = "running" /\ u \in indexed
  /\ UpdateHF({u})
  /\ UNCHANGED <<chain, stage, seeding, unread, indexed, watched, dirty, last, verdict>>

-----------------------------------------------------------------------------
\* LiquidationAudit.handleLiquidation; an attempt that runs has no record yet.  A debt
\* of zero is taken for an unknown one, and members have no other debt under the
\* minimum, so "debt_below_min" is never given; "priced_out" asks for the status
\* "error", and an attempt the safety checks refused is recorded as "failed".
AuditReason(u) ==
  CASE u \notin watched -> "not_in_active_set"
    [] u \in watched /\ last[u] = "pending" -> "attempted_pending_late_inclusion"
    [] u \in watched /\ last[u] \in {"reverted", "error", "failed", "unsafe"}
         -> "attempt_failed_or_late"
    [] OTHER -> "hf_never_crossed_execute"

\* Somebody else liquidates a user.
Liquidated(u) ==
  /\ position[u] = "under" /\ moves < MaxMoves /\ moves' = moves + 1
  /\ \E p \in {"none", "dust", "safe"} : position' = [position EXCEPT ![u] = p]
  /\ verdict' = IF stage # "running" THEN verdict
                ELSE [reason |-> AuditReason(u), last |-> last[u]]
  /\ UNCHANGED <<stage, seeding, unread, known, watched, dirty, last>>

Next ==
  \/ Page \/ Seeded \/ FirstCheck \/ Listen
  \/ \E u \in Users :
       \/ Indexed(u) \/ Moves(u) \/ Verify(u) \/ Attempted(u) \/ Rescore(u) \/ Liquidated(u)

Spec == Init /\ [][Next]_vars

-----------------------------------------------------------------------------
\* A user whose attempt the safety checks refused is reported as priced out ("Check if
\* attempt failed due to safety checks (priced_out)", handleLiquidation).
SafetyIsPricedOut == verdict.last = "unsafe" => verdict.reason = "priced_out"
=============================================================================
