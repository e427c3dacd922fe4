------------------------------- MODULE Candidates -------------------------------
(***************************************************************************)
(* The users the first bot watches: services/CandidateManager.ts, the      *)
(* tracker of low health factors beside it (LowHFTracker.ts), and what     *)
(* RealTimeHFService.ts selects from them for a reserve whose indices      *)
(* moved (handleLog, ReserveIndexTracker.ts) and for an asset whose price  *)
(* fell (selectCandidatesForEmergencyScan).  A check reads health factors  *)
(* of the chain and writes them later, so candidates come and go between.  *)
(***************************************************************************)
EXTENDS Integers, SequencesExt

CONSTANTS
  Users, Assets,
  Symbols,        \* symbols of the assets: no asset is its own symbol
  Hfs,            \* health factors, in hundredths
  MaxCandidates,
  Touched,        \* reserves remembered of a user: 5 in the code
  AlwaysInclude,  \* alwaysIncludeHfBelow
  MaxEntries,     \* lowHfTrackerMax
  MaxBatch,       \* reserveRecheckMaxBatch
  ScanMax,        \* priceTriggerMaxScan
  MinDelta,       \* reserveMinIndexDeltaBps
  MaxIndex,       \* bound: the indices, counted in basis points
  MaxTime         \* bound on the clock

Healthy == 110
NearCritical == 102

CandidatesAssumption ==
  /\ Users # {} /\ IsFiniteSet(Users)
  /\ Assets # {} /\ Assets \cap Symbols = {}
  /\ Hfs \subseteq Nat
  /\ {MaxCandidates, Touched, MaxEntries, MaxBatch, ScanMax, MinDelta, MaxIndex, MaxTime}
       \subseteq Nat \ {0}

NoHf == -1      \* lastHF: null
NoIndex == -1   \* a reserve whose indices were never seen

VARIABLES
  recordMode,           \* lowHfRecordMode, fixed at the start
  now,
  lastHF, touchedAt,    \* of each user; touchedAt is 0 when it is no candidate
  lastTouchedReserves,
  entries, minHF,       \* LowHFTracker
  index, reserveIndices,  \* of each asset: on the chain, and of the last event
  checks,               \* users whose health factors were asked for
  recorded,             \* history: the last health factor recorded of each user
  scan                  \* history: the last selection for an emergency scan

candidates == <<lastHF, touchedAt, lastTouchedReserves>>
tracker == <<entries, minHF, recorded>>
reserves == <<index, reserveIndices>>
vars == <<recordMode, now, candidates, tracker, reserves, checks, scan>>

Candidate == {u \in Users : touchedAt[u] # 0}

TypeOK ==
  /\ recordMode \in {"all", "min"}
  /\ now \in 1 .. MaxTime
  /\ lastHF \in [Users -> Hfs \cup {NoHf}]
  /\ touchedAt \in [Users -> 0 .. MaxTime]
  /\ lastTouchedReserves \in [Users -> Seq(Assets)]
  /\ entries \in [Users -> Hfs \cup {NoHf}]
  /\ minHF \in Hfs \cup {NoHf}
  /\ index \in [Assets -> 0 .. MaxIndex]
  /\ reserveIndices \in [Assets -> 0 .. MaxIndex \cup {NoIndex}]
  /\ checks \subseteq Users
  /\ recorded \in [Users -> Hfs \cup {NoHf}]
  /\ scan \in [of : Symbols, users : SUBSET Users, known : SUBSET Users]

\* The entries of the tracker: users whose health factor was low.
Entries == {u \in Users : entries[u] # NoHf}

\* Nobody is added before another makes room for him.
WithinLimits ==
  /\ Cardinality(Candidate) <= MaxCandidates
  /\ Cardinality(Entries) <= MaxEntries
  /\ \A u \in Users : Len(lastTouchedReserves[u]) <= Touched

Init ==
  /\ recordMode \in {"all", "min"}
  /\ now = 1
  /\ lastHF = [u \in Users |-> NoHf] /\ touchedAt = [u \in Users |-> 0]
  /\ lastTouchedReserves = [u \in Users |-> <<>>]
  /\ entries = [u \in Users |-> NoHf] /\ minHF = NoHf
  /\ index = [a \in Assets |-> 0] /\ reserveIndices = [a \in Assets |-> NoIndex]
  /\ checks = {}
  /\ recorded = [u \in Users |-> NoHf]
  /\ \E s \in Symbols : scan = [of |-> s, users |-> {}, known |-> {}]

-----------------------------------------------------------------------------
\* CandidateManager.

Oldest(us) == {u \in us : \A v \in us : touchedAt[u] <= touchedAt[v]}

\* evictOne: of the users known to be healthy, or of all, the one touched longest
\* ago; a health factor of zero counts as unknown.
Evictable ==
  LET healthy == {u \in Candidate : lastHF[u] # NoHf /\ lastHF[u] > Healthy} IN
  Oldest(IF healthy # {} THEN healthy ELSE Candidate)

\* add, without a health factor.
Add(u) ==
  IF u \in Candidate \/ Cardinality(Candidate) < MaxCandidates
  THEN /\ touchedAt' = [touchedAt EXCEPT ![u] = now]
       /\ UNCHANGED lastHF
  ELSE \E out \in Evictable :
         /\ touchedAt' = [touchedAt EXCEPT ![out] = 0, ![u] = now]
         /\ lastHF' = [lastHF EXCEPT ![out] = NoHf]

\* touchReserve: the newest last, the oldest of too many dropped.
TouchReserve(u, a) ==
  LET seen == lastTouchedReserves[u]
      others == IF Contains(seen, a)
                THEN RemoveAt(seen, CHOOSE i \in DOMAIN seen : seen[i] = a) ELSE seen
      ids == Append(others, a)
  IN
  lastTouchedReserves' = [lastTouchedReserves EXCEPT
    ![u] = IF Len(ids) > Touched THEN Tail(ids) ELSE ids]

GetUsersForReserve(key) == {u \in Users : Contains(lastTouchedReserves[u], key)}

\* A selection of at most n users, no user left out being nearer to liquidation.
Lowest(n, us) ==
  {s \in SUBSET us : /\ Cardinality(s) <= n
                     /\ s # us => Cardinality(s) = n
                     /\ \A u \in s, v \in us \ s : lastHF[u] <= lastHF[v]}

-----------------------------------------------------------------------------
\* LowHFTracker.record.

\* 'min' mode: one entry, of the lowest health factor there was.
RecordMin(u, hf) ==
  IF \E v \in Entries : entries[v] <= hf THEN entries
  ELSE [v \in Users |-> IF v = u THEN hf ELSE NoHf]

\* 'all' mode: a user who is not yet an entry replaces the highest one of a full
\* tracker, when it is lower.
RecordAll(u, hf) ==
  IF u \in Entries \/ Cardinality(Entries) < MaxEntries THEN {[entries EXCEPT ![u] = hf]}
  ELSE LET highest == {v \in Entries : \A w \in Entries : entries[w] <= entries[v]} IN
       {IF hf < entries[v] THEN [entries EXCEPT ![v] = NoHf, ![u] = hf] ELSE entries :
          v \in highest}

\* minHF, an all-time minimum.
LowestSeen(hf) == IF minHF = NoHf \/ hf < minHF THEN hf ELSE minHF

Record(u, hf) ==
  IF hf >= AlwaysInclude THEN UNCHANGED tracker
  ELSE /\ minHF' = LowestSeen(hf)
       /\ entries' \in IF recordMode = "min" THEN {RecordMin(u, hf)} ELSE RecordAll(u, hf)
       /\ recorded' = [recorded EXCEPT ![u] = hf]

-----------------------------------------------------------------------------
\* Events of the pool.

\* An event of a user and a reserve: the association, and the queue of a batch that
\* adds the user.
UserEvent(u, a) ==
  /\ TouchReserve(u, a) /\ Add(u)
  /\ checks' = checks \cup {u}
  /\ UNCHANGED <<recordMode, now, tracker, reserves, scan>>

\* addBulk of a seeding.
Seed(u) ==
  /\ Add(u)
  /\ UNCHANGED <<recordMode, now, lastTouchedReserves, tracker, reserves, checks, scan>>

\* calculateDelta: the first event of a reserve is always worth a recheck.
ShouldRecheck(a) ==
  reserveIndices[a] = NoIndex \/ index[a] - reserveIndices[a] >= MinDelta

\* ReserveDataUpdated: the indices are stored whether or not a recheck follows, and
\* the first borrowers of the index, of those the near critical, are checked.
ReserveDataUpdated(a) ==
  /\ reserveIndices' = [reserveIndices EXCEPT ![a] = index[a]]
  /\ IF ShouldRecheck(a)
     THEN \E borrowers \in SUBSET Users :
            /\ Cardinality(borrowers) <= MaxBatch
            /\ checks' = checks \cup {u \in borrowers \cap Candidate :
                                         lastHF[u] # NoHf /\ lastHF[u] < NearCritical}
     ELSE UNCHANGED checks
  /\ UNCHANGED <<recordMode, now, candidates, tracker, index, scan>>

\* batchCheckCandidates writes what it read: a candidate that left is not added
\* again, but the tracker records it; a debt of zero or dust is passed over.
CheckLands(u) ==
  /\ u \in checks /\ checks' = checks \ {u}
  /\ \/ UNCHANGED <<lastHF, touchedAt, tracker>>
     \/ \E hf \in Hfs :
          /\ IF u \in Candidate
             THEN lastHF' = [lastHF EXCEPT ![u] = hf]
                  /\ touchedAt' = [touchedAt EXCEPT ![u] = now]
             ELSE UNCHANGED <<lastHF, touchedAt>>
          /\ Record(u, hf)
  /\ UNCHANGED <<recordMode, now, lastTouchedReserves, reserves, scan>>

\* A sharp fall of the price of an asset, given by its symbol: the users of that key,
\* else the candidates with the lowest health factors.
EmergencyScan(symbol, a) ==
  LET users == GetUsersForReserve(symbol)
      known == {u \in Candidate : lastHF[u] # NoHf}
  IN  /\ \E s \in IF users # {} THEN {t \in SUBSET users : Cardinality(t) <= ScanMax}
                  ELSE Lowest(ScanMax, known) :
           /\ checks' = checks \cup s
           /\ scan' = [of |-> symbol, users |-> s,
                       known |-> GetUsersForReserve(a) \cap known]
      /\ UNCHANGED <<recordMode, now, candidates, tracker, reserves>>

\* clear of the service's stop: the associations go with the candidates.
Clear ==
  /\ Candidate # {}
  /\ lastHF' = [u \in Users |-> NoHf] /\ touchedAt' = [u \in Users |-> 0]
  /\ lastTouchedReserves' = [u \in Users |-> <<>>]
  /\ UNCHANGED <<recordMode, now, tracker, reserves, checks, scan>>

Environment ==
  /\ \/ /\ now < MaxTime /\ now' = now + 1 /\ UNCHANGED index
     \/ \E a \in Assets :
          /\ index[a] < MaxIndex
          /\ index' = [index EXCEPT ![a] = @ + 1]
          /\ UNCHANGED now
  /\ UNCHANGED <<recordMode, candidates, tracker, reserveIndices, checks, scan>>

Next ==
  \/ \E u \in Users : Seed(u) \/ CheckLands(u) \/ \E a \in Assets : UserEvent(u, a)
  \/ \E a \in Assets : ReserveDataUpdated(a) \/ \E s \in Symbols : EmergencyScan(s, a)
  \/ Clear
  \/ Environment

Spec == Init /\ [][Next]_vars

-----------------------------------------------------------------------------

\* An emergency scan takes the users associated with the reserve when there are any
\* ("Get users associated with this reserve", selectCandidatesForEmergencyScan).
EmergencyScansHolders == scan.known # {} => scan.users \subseteq scan.known
=============================================================================
