------------------------------- MODULE HeadSweep -------------------------------
(***************************************************************************)
(* The head checks of services/RealTimeHFService.ts: the request for a     *)
(* sweep of the candidates at each new block, the loop that serves the     *)
(* requests, the watchdog that aborts a stalled run, and the marks of the  *)
(* users an Aave event touched, which a sweep takes first.  An abort does  *)
(* not cancel the awaits of the run it aborts: that run goes on beside the *)
(* loop started in its place.  Every sweep reads under the lock of its     *)
(* block in the ScanRegistry.                                              *)
(***************************************************************************)
EXTENDS Integers, FiniteSets

CONSTANTS
  Users,      \* the candidates
  Loops,      \* bound: calls of runHeadCheckLoop under way at one time
  MaxBlock,   \* bound: blocks announced
  MaxHangs,   \* bound: calls to a node that do not answer
  MaxMarks,   \* bound: events
  MaxTouches  \* bound: chunks of other scans while a run is stalled

ASSUME HeadAssumption ==
  /\ MaxBlock \in Nat /\ MaxHangs \in Nat /\ MaxMarks \in Nat /\ MaxTouches \in Nat
  /\ IsFiniteSet(Loops)

VARIABLES
  tip,        \* the last block announced; 0 before the first
  latest,     \* latestRequestedHeadBlock; 0 is null
  scanning,   \* scanningHead
  progress,   \* lastProgressAt: "none", "fresh", or "stale" past runStallAbortMs
  watchdog,   \* the block of the armed run watchdog; 0 when there is none
  loops,      \* the calls of runHeadCheckLoop
  dirty,      \* dirtyUsers
  entry,      \* the ScanRegistry, by the block of a head scan
  unread,     \* history: users with an event that no sweep has read since
  lapsed,     \* history: blocks whose lock outlived its ttl
  hangs, marks, touches   \* counters of the bounds

vars == <<tip, latest, scanning, progress, watchdog, loops, dirty, entry, unread,
          lapsed, hangs, marks, touches>>

Blocks == 1 .. MaxBlock
Registry == INSTANCE ScanRegistry WITH Keys <- Blocks

\* A call of runHeadCheckLoop: before checkAllCandidates has chosen its users
\* (start, or hung in a micro verification), while it reads under the lock (sweep,
\* or stuck in a chunk), or while it works through the results.
LoopState == [at: {"off", "start", "hung", "sweep", "stuck", "results"},
              block: 0 .. MaxBlock, todo: SUBSET Users]
Off == [at |-> "off", block |-> 0, todo |-> {}]
Started(b) == [at |-> "start", block |-> b, todo |-> {}]

TypeOK ==
  /\ tip \in 0 .. MaxBlock
  /\ latest \in 0 .. MaxBlock
  /\ scanning \in BOOLEAN
  /\ progress \in {"none", "fresh", "stale"}
  /\ watchdog \in 0 .. MaxBlock
  /\ loops \in [Loops -> LoopState]
  /\ \A l \in Loops : loops[l].at # "off" => loops[l].block # 0
  /\ dirty \subseteq Users
  /\ Registry!TypeOK
  /\ unread \subseteq Users
  /\ lapsed \subseteq Blocks
  /\ hangs \in 0 .. MaxHangs
  /\ marks \in 0 .. MaxMarks
  /\ touches \in 0 .. MaxTouches

Init ==
  /\ tip = 0
  /\ latest = 0
  /\ scanning = FALSE
  /\ progress = "none"
  /\ watchdog = 0
  /\ loops = [l \in Loops |-> Off]
  /\ dirty = {}
  /\ Registry!Init
  /\ unread = {}
  /\ lapsed = {}
  /\ hangs = 0 /\ marks = 0 /\ touches = 0

-----------------------------------------------------------------------------
\* Mutant: the run starts without its watchdog.
StartRunUnwatched(l, b) ==
  /\ latest' = 0
  /\ scanning' = TRUE
  /\ progress' = "fresh"
  /\ loops' = [loops EXCEPT ![l] = Started(b)]
  /\ UNCHANGED watchdog

\* runHeadCheckLoop takes block b and starts performHeadCheck in loop l.
StartRun(l, b) ==
  /\ latest' = 0
  /\ scanning' = TRUE
  /\ progress' = "fresh"
  /\ watchdog' = b
  /\ loops' = [loops EXCEPT ![l] = Started(b)]

\* performHeadCheck is over in loop l: the marks are cleared, the watchdog is
\* stopped, whoever's it is, and the loop takes the next request or ends.
EndRun(l) ==
  /\ dirty' = {}
  /\ IF latest # 0
       THEN /\ latest' = 0
            /\ progress' = "fresh"
            /\ watchdog' = latest
            /\ loops' = [loops EXCEPT ![l] = Started(latest)]
            /\ UNCHANGED scanning
       ELSE /\ scanning' = FALSE
            /\ progress' = "none"
            /\ watchdog' = 0
            /\ loops' = [loops EXCEPT ![l] = Off]
            /\ UNCHANGED latest

\* A block is announced: requestHeadCheck.
NewBlock ==
  /\ tip < MaxBlock
  /\ tip' = tip + 1
  /\ IF scanning
       THEN /\ latest' = tip + 1
            /\ UNCHANGED <<scanning, progress, watchdog, loops>>
       ELSE \E l \in Loops : loops[l].at = "off" /\ StartRun(l, tip + 1)
  /\ UNCHANGED <<dirty, entry, unread, lapsed, hangs, marks, touches>>

\* An Aave event names user u: handleLog.
Mark(u) ==
  /\ marks < MaxMarks
  /\ marks' = marks + 1
  /\ dirty' = dirty \cup {u}
  /\ unread' = unread \cup {u}
  /\ UNCHANGED <<tip, latest, scanning, progress, watchdog, loops, entry, lapsed,
                 hangs, touches>>

\* A micro verification of the head start does not answer, or a hedged chunk,
\* which races two nodes without the timeout of an unhedged one.
Hang(l) ==
  /\ hangs < MaxHangs
  /\ loops[l].at \in {"start", "sweep"}
  /\ hangs' = hangs + 1
  /\ loops' = [loops EXCEPT ![l].at = IF @ = "start" THEN "hung" ELSE "stuck"]
  /\ UNCHANGED <<tip, latest, scanning, progress, watchdog, dirty, entry, unread,
                 lapsed, marks, touches>>

\* checkAllCandidates chooses the marked users and, with low health factors and
\* the rotating page, any others; batchCheckCandidates asks for the lock.
StartSweep(l) ==
  /\ loops[l].at \in {"start", "hung"}
  /\ \E page \in SUBSET Users :
       LET todo == dirty \cup page IN
       \/ /\ todo # {}
          /\ Registry!Acquire(loops[l].block)
          /\ loops' = [loops EXCEPT ![l].at = "sweep", ![l].todo = todo]
          /\ UNCHANGED <<latest, scanning, progress, watchdog, dirty>>
       \/ /\ todo # {} => Registry!Suppressed(loops[l].block)
          /\ UNCHANGED entry
          /\ EndRun(l)
  /\ UNCHANGED <<tip, unread, lapsed, hangs, marks, touches>>

\* The chunks of the multicall answer for some of the users; a chunk that
\* fails on every attempt answers for none of its users.
SweepRead(l) ==
  /\ loops[l].at \in {"sweep", "stuck"}
  /\ \E read \in SUBSET loops[l].todo :
       /\ unread' = unread \ read
       /\ progress' = IF read # {} THEN "fresh" ELSE progress
  /\ loops' = [loops EXCEPT ![l].at = "results"]
  /\ UNCHANGED <<tip, latest, scanning, watchdog, dirty, entry, lapsed, hangs,
                 marks, touches>>

\* The results are worked through, or the rate limiter refused the scan.
SweepDone(l) ==
  /\ loops[l].at \in {"sweep", "results"}
  /\ Registry!Release(loops[l].block)
  /\ EndRun(l)
  /\ UNCHANGED <<tip, unread, lapsed, hangs, marks, touches>>

\* runStallAbortMs pass without progress.
Stall ==
  /\ progress = "fresh"
  /\ progress' = "stale"
  /\ UNCHANGED <<tip, latest, scanning, watchdog, loops, dirty, entry, unread, lapsed,
                 hangs, marks, touches>>

\* A chunk of another scan counts as progress of the run.
Touch ==
  /\ touches < MaxTouches
  /\ touches' = touches + 1
  /\ progress' = "fresh"
  /\ UNCHANGED <<tip, latest, scanning, watchdog, loops, dirty, entry, unread, lapsed,
                 hangs, marks>>

\* Mutant: abortCurrentRun restarts a run only when no newer block waits.
AbortForNewer(b) ==
  IF latest = 0
    THEN \E l \in Loops : loops[l].at = "off" /\ StartRun(l, b)
    ELSE /\ progress' = "none"
         /\ watchdog' = 0
         /\ UNCHANGED <<latest, scanning, loops>>

\* abortCurrentRun: block b is requested again, over a newer request too, and
\* a new loop takes it at once.
Abort(b) == \E l \in Loops : loops[l].at = "off" /\ StartRun(l, b)

\* checkStall of the watchdog; it arms itself again while there is progress.
Watchdog ==
  /\ watchdog # 0
  /\ \/ /\ progress = "none"
        /\ watchdog' = 0
        /\ UNCHANGED <<latest, scanning, progress, loops>>
     \/ progress = "stale" /\ Abort(watchdog)
  /\ UNCHANGED <<tip, dirty, entry, unread, lapsed, hangs, marks, touches>>

\* The ttl of a lock or of a completed scan is over.
LockLapses(b) ==
  /\ Registry!Lapse(b)
  /\ lapsed' = lapsed \cup {b}
  /\ UNCHANGED <<tip, latest, scanning, progress, watchdog, loops, dirty, unread, hangs,
                 marks, touches>>

Next ==
  \/ NewBlock \/ Stall \/ Touch \/ Watchdog
  \/ \E u \in Users : Mark(u)
  \/ \E l \in Loops : Hang(l) \/ StartSweep(l) \/ SweepRead(l) \/ SweepDone(l)
  \/ \E b \in Blocks : LockLapses(b)

Spec == Init /\ [][Next]_vars

\* Unhedged chunks have timeouts and timers fire; what hangs may never answer.
LoopStep(l) ==
  \/ loops[l].at = "start" /\ StartSweep(l)
  \/ loops[l].at = "sweep" /\ SweepRead(l)
  \/ SweepDone(l)
FairSpec ==
  /\ Spec /\ WF_vars(Stall) /\ WF_vars(Watchdog)
  /\ \A l \in Loops : WF_vars(LoopStep(l))

-----------------------------------------------------------------------------
\* Properties.

\* Whichever runs were aborted and go on, and whosever watchdog they stop,
\* scanningHead is never left set without an armed watchdog that will see the
\* stall: requestHeadCheck relies on it when it leaves a request to the loop.
WatchdogCovers == scanning => watchdog # 0 /\ progress # "none"

\* A request that waits has a loop that will look at it.
RequestHasLoop == latest # 0 => scanning

\* Two runs of one block never read at the same time, also when one of them
\* was aborted, unless the lock of the block outlived its ttl.
OneReader ==
  \A l, m \in Loops :
    /\ l # m
    /\ loops[l].at \in {"sweep", "stuck", "results"}
    /\ loops[m].at \in {"sweep", "stuck", "results"}
    => loops[l].block # loops[m].block \/ loops[l].block \in lapsed

\* A verification or chunk that never answers does not end head checks: the watchdog
\* frees scanningHead and the waiting requests are taken.
HeadsRecover == (latest # 0 \/ scanning) ~> (latest = 0 /\ ~scanning)

\* "On success, clear dirty sets (users have been checked)": a user keeps the
\* mark until a sweep has read the user since the event.
DirtyMeansChecked == unread \subseteq dirty

\* Runs are serial.
OneSweep == Cardinality({l \in Loops : loops[l].at # "off"}) <= 1
=============================================================================
