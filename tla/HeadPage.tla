------------------------------- MODULE HeadPage -------------------------------
(***************************************************************************)
(* Which candidates a head run checks (checkAllCandidates with the paged   *)
(* strategy) and how the page adapts to the runs: the users with a low     *)
(* health factor and the marked users every time, the others by a window   *)
(* that rotates over the list of candidates.  Candidates are named by      *)
(* their position in the list.                                             *)
(***************************************************************************)
EXTENDS Integers, FiniteSets

CONSTANTS
  Totals,     \* bound: lengths the list of candidates may have
  Sample,     \* MAINTENANCE_SAMPLE_SIZE
  MinPage,    \* headPageMin
  MaxPage,    \* headPageMax
  HotSets     \* bound: sets of positions that may be low or marked in a run

PageAssumption ==
  /\ Totals \subseteq Nat \ {0} /\ IsFiniteSet(Totals) /\ Totals # {}
  /\ Sample \in Nat \ {0}
  /\ MinPage \in Nat \ {0} /\ MaxPage \in Nat /\ MinPage <= MaxPage

VARIABLES
  total,      \* length of the list
  rotating,   \* headCheckRotatingIndex
  pageSize,   \* currentDynamicPageSize
  watched,    \* history: the candidate a behaviour follows
  advanced    \* history: how far the window moved since its check, up to total

vars == <<total, rotating, pageSize, watched, advanced>>

Positions(n) == 0 .. n - 1

TypeOK ==
  /\ total \in Totals
  /\ rotating \in Nat
  /\ pageSize \in MinPage .. MaxPage
  /\ watched \in Positions(total)
  /\ advanced \in 0 .. total

Init ==
  /\ total \in Totals
  /\ rotating = 0
  /\ pageSize \in {MinPage, MaxPage}
  /\ watched \in Positions(total)
  /\ advanced = 0

-----------------------------------------------------------------------------
\* The rotating page: the sample when some candidate is low and not all are
\* hot, and the whole adaptive page when none is low.
WindowSize(low, marked) ==
  LET cold == total - Cardinality(low \cup marked) IN
  IF low = {} THEN pageSize ELSE IF cold < Sample THEN cold ELSE Sample

\* Mutant: the window does not wrap around.
WindowCut(size) ==
  LET start == rotating % total IN
  {p \in Positions(total) : start <= p /\ p < start + size}

\* The window wraps around only when it is shorter than the list.
Window(size) ==
  LET start == rotating % total IN
  IF size < total THEN {(start + i) % total : i \in 0 .. size - 1}
                  ELSE start .. total - 1

\* The candidates of a head run: checkAllCandidates.
Run(low, marked) ==
  LET size == WindowSize(low, marked)
      checked == low \cup marked \cup Window(size) IN
  /\ rotating' = IF size = 0 THEN rotating ELSE (rotating + size) % total
  /\ advanced' = IF watched \in checked THEN 0
                  ELSE IF advanced + size > total THEN total ELSE advanced + size

\* adjustDynamicPageSize: less by 15 % when the last runs were too long or ran
\* into timeouts, more by 12 % when they were short.
Adjusted ==
  LET less == (pageSize * 85) \div 100
      more == (pageSize * 112) \div 100 IN
  {pageSize,
   IF less < MinPage THEN MinPage ELSE less,
   IF more > MaxPage THEN MaxPage ELSE more}

HeadRun ==
  /\ \E low, marked \in HotSets :
       /\ low \cup marked \subseteq Positions(total)
       /\ Run(low, marked)
  /\ pageSize' \in Adjusted
  /\ UNCHANGED <<total, watched>>

\* Candidates come or go: the positions name other candidates.
ListChanges ==
  /\ total' \in Totals
  /\ total' # total
  /\ watched' \in Positions(total')
  /\ advanced' = 0
  /\ UNCHANGED <<rotating, pageSize>>

Next == HeadRun \/ ListChanges

Spec == Init /\ [][Next]_vars

-----------------------------------------------------------------------------
\* Properties.

\* While the list stays the same, each candidate is checked before the window
\* has moved once around it, however the hot set and the page change between
\* the runs.  Only a page as long as the list may pass candidates over.
RotationCovers ==
  total > MaxPage => advanced < total
=============================================================================
