---------------------------- MODULE SweepsProofs ----------------------------
(***************************************************************************)
(* Theorems about HeadSweep, for any number of users, loops, blocks, hangs *)
(* and events, and about the event batches and the rotating page that      *)
(* MCSweeps composes with it.                                              *)
(***************************************************************************)
EXTENDS MCSweeps, FiniteSetTheorems, TLAPS

Reading(l) == loops[l].at \in {"sweep", "stuck", "results"}

\* What makes "one reader per block" inductive: whoever reads a block whose lock
\* never lapsed still has that lock.
LockHeld ==
  \A l \in Loops :
    Reading(l) => loops[l].block \in lapsed \/ entry[loops[l].block] = "inFlight"

IInv == TypeOK /\ WatchdogCovers /\ RequestHasLoop /\ LockHeld /\ OneReader

\* The part of the state that StartRun and EndRun write.
RunType ==
  /\ latest \in 0 .. MaxBlock
  /\ scanning \in BOOLEAN
  /\ progress \in {"none", "fresh", "stale"}
  /\ watchdog \in 0 .. MaxBlock
  /\ loops \in [Loops -> LoopState]
  /\ \A l \in Loops : loops[l].at # "off" => loops[l].block # 0

-----------------------------------------------------------------------------
LEMMA StartedType ==
  ASSUME NEW b \in Blocks
  PROVE  Started(b) \in LoopState /\ Started(b).block # 0
  BY HeadAssumption DEF Blocks, Started, LoopState

LEMMA OffType == Off \in LoopState /\ Off.at = "off"
  BY HeadAssumption DEF Off, LoopState

LEMMA StartRunType ==
  ASSUME RunType, NEW l \in Loops, NEW b \in Blocks, StartRun(l, b)
  PROVE  RunType' /\ WatchdogCovers' /\ RequestHasLoop'
<1>1. b \in 0 .. MaxBlock /\ b # 0 /\ 0 \in 0 .. MaxBlock
  BY HeadAssumption DEF Blocks
<1>2. loops' \in [Loops -> LoopState]
  BY StartedType DEF StartRun, RunType
<1>3. \A m \in Loops : loops'[m].at # "off" => loops'[m].block # 0
  BY StartedType DEF StartRun, RunType
<1> QED BY <1>1, <1>2, <1>3 DEF StartRun, RunType, WatchdogCovers, RequestHasLoop

LEMMA EndRunType ==
  ASSUME RunType, NEW l \in Loops, EndRun(l)
  PROVE  RunType' /\ WatchdogCovers' /\ RequestHasLoop'
<1>1. 0 \in 0 .. MaxBlock
  BY HeadAssumption
<1>2. CASE latest # 0
  <2>1. latest \in Blocks
    BY <1>2, HeadAssumption DEF RunType, Blocks
  <2>2. loops' \in [Loops -> LoopState]
    BY <1>2, <2>1, StartedType DEF EndRun, RunType
  <2>3. \A m \in Loops : loops'[m].at # "off" => loops'[m].block # 0
    BY <1>2, <2>1, StartedType DEF EndRun, RunType
  <2> QED BY <1>1, <1>2, <2>2, <2>3 DEF EndRun, RunType, WatchdogCovers, RequestHasLoop
<1>3. CASE latest = 0
  <2>1. loops' \in [Loops -> LoopState]
    BY <1>3, OffType DEF EndRun, RunType
  <2>2. \A m \in Loops : loops'[m].at # "off" => loops'[m].block # 0
    BY <1>3, OffType DEF EndRun, RunType
  <2> QED BY <1>1, <1>3, <2>1, <2>2 DEF EndRun, RunType, WatchdogCovers, RequestHasLoop
<1> QED BY <1>2, <1>3

\* Whoever starts or ends a run in loop l, nobody but l changes, and l reads
\* nothing afterwards.
LEMMA RunReaders ==
  ASSUME RunType, NEW l \in Loops,
         EndRun(l) \/ \E b \in Blocks : StartRun(l, b)
  PROVE  /\ ~Reading(l)'
         /\ \A m \in Loops : m # l => loops'[m] = loops[m]
  BY DEF RunType, EndRun, StartRun, Started, Off, Reading

\* A step after which every reader of a block was one before, with the locks and
\* the lapsed blocks as they were, keeps the blocks apart.
LEMMA ReadersKept ==
  ASSUME LockHeld, OneReader, UNCHANGED <<entry, lapsed>>,
         \A m \in Loops : Reading(m)' => Reading(m) /\ loops'[m].block = loops[m].block
  PROVE  LockHeld' /\ OneReader'
<1>1. LockHeld'
  BY DEF LockHeld, Reading
<1>2. OneReader'
  BY DEF OneReader, Reading
<1> QED BY <1>1, <1>2

-----------------------------------------------------------------------------
LEMMA InitInv == ASSUME Init PROVE IInv
<1>1. TypeOK
  <2>1. 0 \in 0 .. MaxBlock /\ 0 \in 0 .. MaxHangs /\ 0 \in 0 .. MaxMarks
          /\ 0 \in 0 .. MaxTouches
    BY HeadAssumption
  <2>2. loops \in [Loops -> LoopState] /\ \A l \in Loops : loops[l].at = "off"
    BY OffType DEF Init
  <2>3. Registry!TypeOK
    BY DEF Init, Registry!Init, Registry!TypeOK
  <2> QED BY <2>1, <2>2, <2>3 DEF Init, TypeOK
<1>2. WatchdogCovers /\ RequestHasLoop
  BY DEF Init, WatchdogCovers, RequestHasLoop
<1>3. LockHeld /\ OneReader
  BY DEF Init, LockHeld, OneReader, Reading, Off
<1> QED BY <1>1, <1>2, <1>3 DEF IInv

LEMMA NextInv == ASSUME IInv, [Next]_vars PROVE IInv'
<1> USE DEF IInv
<1>0. RunType
  BY DEF TypeOK, RunType
<1>1. CASE NewBlock
  <2>1. tip + 1 \in Blocks /\ tip' \in 0 .. MaxBlock
    BY <1>1, HeadAssumption DEF NewBlock, TypeOK, Blocks
  <2>2. CASE scanning
    <3>1. TypeOK'
      BY <1>1, <2>1, <2>2 DEF NewBlock, TypeOK, Blocks, Registry!TypeOK
    <3>2. WatchdogCovers' /\ RequestHasLoop'
      BY <1>1, <2>2 DEF NewBlock, WatchdogCovers, RequestHasLoop
    <3>3. LockHeld' /\ OneReader'
      BY <1>1, <2>2, ReadersKept DEF NewBlock, Reading
    <3> QED BY <3>1, <3>2, <3>3
  <2>3. CASE ~scanning
    <3>1. PICK l \in Loops : StartRun(l, tip + 1)
      BY <1>1, <2>3 DEF NewBlock
    <3>2. RunType' /\ WatchdogCovers' /\ RequestHasLoop'
      BY <1>0, <2>1, <3>1, StartRunType
    <3>3. TypeOK'
      BY <1>1, <2>1, <3>2 DEF NewBlock, TypeOK, RunType, Registry!TypeOK
    <3>4. \A m \in Loops : Reading(m)' => Reading(m) /\ loops'[m].block = loops[m].block
      BY <1>0, <2>1, <3>1, RunReaders DEF Reading
    <3> QED BY <1>1, <3>2, <3>3, <3>4, ReadersKept DEF NewBlock
  <2> QED BY <2>2, <2>3
<1>2. CASE Stall
  <2>1. LockHeld' /\ OneReader'
    BY <1>2, ReadersKept DEF Stall, Reading
  <2> QED BY <1>2, <2>1 DEF Stall, TypeOK, WatchdogCovers, RequestHasLoop, Registry!TypeOK
<1>3. CASE Touch
  <2>1. LockHeld' /\ OneReader'
    BY <1>3, ReadersKept DEF Touch, Reading
  <2>2. touches' \in 0 .. MaxTouches
    BY <1>3, HeadAssumption DEF Touch, TypeOK
  <2> QED BY <1>3, <2>1, <2>2 DEF Touch, TypeOK, WatchdogCovers, RequestHasLoop,
             Registry!TypeOK
<1>4. CASE Watchdog
  <2>1. CASE progress = "none"
    <3>1. TypeOK'
      BY <1>4, <2>1, HeadAssumption DEF Watchdog, TypeOK, Registry!TypeOK
    <3>2. WatchdogCovers' /\ RequestHasLoop'
      BY <1>4, <2>1 DEF Watchdog, WatchdogCovers, RequestHasLoop
    <3>3. LockHeld' /\ OneReader'
      BY <1>4, <2>1, ReadersKept DEF Watchdog, Reading
    <3> QED BY <3>1, <3>2, <3>3
  <2>2. CASE progress # "none"
    <3>0. watchdog \in Blocks
      BY <1>4, HeadAssumption DEF Watchdog, TypeOK, Blocks
    <3>1. PICK l \in Loops : StartRun(l, watchdog)
      BY <1>4, <2>2 DEF Watchdog, Abort
    <3>2. RunType' /\ WatchdogCovers' /\ RequestHasLoop'
      BY <1>0, <3>0, <3>1, StartRunType
    <3>3. TypeOK'
      BY <1>4, <3>2 DEF Watchdog, TypeOK, RunType, Registry!TypeOK
    <3>4. \A m \in Loops : Reading(m)' => Reading(m) /\ loops'[m].block = loops[m].block
      BY <1>0, <3>0, <3>1, RunReaders DEF Reading
    <3> QED BY <1>4, <3>2, <3>3, <3>4, ReadersKept DEF Watchdog
  <2> QED BY <2>1, <2>2
<1>5. ASSUME NEW u \in Users, Mark(u) PROVE IInv'
  <2>1. LockHeld' /\ OneReader'
    BY <1>5, ReadersKept DEF Mark, Reading
  <2>2. marks' \in 0 .. MaxMarks
    BY <1>5, HeadAssumption DEF Mark, TypeOK
  <2> QED BY <1>5, <2>1, <2>2 DEF Mark, TypeOK, WatchdogCovers, RequestHasLoop,
             Registry!TypeOK
<1>6. ASSUME NEW l \in Loops, Hang(l) PROVE IInv'
  <2>0. /\ loops' \in [Loops -> LoopState]
        /\ \A m \in Loops : loops'[m].block = loops[m].block
        /\ \A m \in Loops : loops'[m].at # loops[m].at =>
             \/ loops'[m].at = "hung" /\ loops[m].at = "start"
             \/ loops'[m].at = "stuck" /\ loops[m].at = "sweep"
    BY <1>6 DEF Hang, TypeOK, LoopState
  <2>1. LockHeld' /\ OneReader'
    BY <1>6, <2>0, ReadersKept DEF Hang, Reading
  <2>2. hangs' \in 0 .. MaxHangs
    BY <1>6, HeadAssumption DEF Hang, TypeOK
  <2>3. \A m \in Loops : loops'[m].at # "off" => loops'[m].block # 0
    BY <2>0 DEF TypeOK
  <2> QED BY <1>6, <2>0, <2>1, <2>2, <2>3 DEF Hang, TypeOK, WatchdogCovers,
             RequestHasLoop, Registry!TypeOK
<1>7. ASSUME NEW l \in Loops, StartSweep(l) PROVE IInv'
  <2>0. loops[l].block \in Blocks
    BY <1>7, HeadAssumption DEF StartSweep, TypeOK, LoopState, Blocks
  <2>1. ASSUME NEW todo \in SUBSET Users, Registry!Acquire(loops[l].block),
               loops' = [loops EXCEPT ![l].at = "sweep", ![l].todo = todo],
               UNCHANGED <<latest, scanning, progress, watchdog, dirty>>
        PROVE  IInv'
    <3>1. /\ loops' \in [Loops -> LoopState]
          /\ \A m \in Loops : loops'[m].block = loops[m].block
          /\ \A m \in Loops : m # l => loops'[m] = loops[m]
      BY <2>1 DEF TypeOK, LoopState
    <3>2. \A m \in Loops : loops'[m].at # "off" => loops'[m].block # 0
      BY <2>0, <3>1 DEF TypeOK, Blocks
    <3>3. /\ entry[loops[l].block] = "free" /\ entry' \in [Blocks -> {"free", "inFlight", "done"}]
          /\ entry'[loops[l].block] = "inFlight"
          /\ \A b \in Blocks : b # loops[l].block => entry'[b] = entry[b]
      BY <2>0, <2>1 DEF Registry!Acquire, TypeOK, Registry!TypeOK
    <3>4. \A m \in Loops : m # l /\ Reading(m) /\ loops[m].block = loops[l].block
                              => loops[m].block \in lapsed
      BY <3>3 DEF LockHeld
    <3>5. UNCHANGED <<tip, unread, lapsed, hangs, marks, touches>>
      BY <1>7 DEF StartSweep
    <3>6. \A m \in Loops : Reading(m) => loops[m].block \in Blocks
      BY HeadAssumption DEF TypeOK, LoopState, Blocks, Reading
    <3>7. LockHeld'
      BY <3>1, <3>3, <3>5, <3>6 DEF LockHeld, Reading
    <3>8. OneReader'
      BY <3>1, <3>4, <3>5 DEF OneReader, Reading
    <3>9. TypeOK'
      BY <2>1, <3>1, <3>2, <3>3, <3>5 DEF TypeOK, Registry!TypeOK
    <3> QED BY <2>1, <3>7, <3>8, <3>9 DEF WatchdogCovers, RequestHasLoop
  <2>2. ASSUME EndRun(l), UNCHANGED entry PROVE IInv'
    <3>1. RunType' /\ WatchdogCovers' /\ RequestHasLoop'
      BY <1>0, <2>2, EndRunType
    <3>2. UNCHANGED <<tip, entry, unread, lapsed, hangs, marks, touches>> /\ dirty' = {}
      BY <1>7, <2>2 DEF StartSweep, EndRun
    <3>3. TypeOK'
      BY <3>1, <3>2 DEF TypeOK, RunType, Registry!TypeOK
    <3>4. \A m \in Loops : Reading(m)' => Reading(m) /\ loops'[m].block = loops[m].block
      BY <1>0, <2>2, RunReaders DEF Reading
    <3> QED BY <3>1, <3>2, <3>3, <3>4, ReadersKept
  <2>3. \A page \in SUBSET Users : dirty \cup page \in SUBSET Users
    BY DEF TypeOK
  <2> QED BY <1>7, <2>1, <2>2, <2>3 DEF StartSweep
<1>8. ASSUME NEW l \in Loops, SweepRead(l) PROVE IInv'
  <2>0. /\ loops' \in [Loops -> LoopState]
        /\ \A m \in Loops : loops'[m].block = loops[m].block
        /\ \A m \in Loops : loops'[m].at # loops[m].at =>
             loops'[m].at = "results" /\ loops[m].at \in {"sweep", "stuck"}
    BY <1>8 DEF SweepRead, TypeOK, LoopState
  <2>1. LockHeld' /\ OneReader'
    BY <1>8, <2>0, ReadersKept DEF SweepRead, Reading
  <2>2. \A m \in Loops : loops'[m].at # "off" => loops'[m].block # 0
    BY <2>0 DEF TypeOK
  <2>3. unread' \subseteq Users /\ progress' \in {progress, "fresh"}
    BY <1>8 DEF SweepRead, TypeOK
  <2> QED BY <1>8, <2>0, <2>1, <2>2, <2>3 DEF SweepRead, TypeOK, WatchdogCovers,
             RequestHasLoop, Registry!TypeOK
<1>9. ASSUME NEW l \in Loops, SweepDone(l) PROVE IInv'
  <2>0. /\ EndRun(l) /\ dirty' = {} /\ Reading(l)
        /\ UNCHANGED <<tip, unread, lapsed, hangs, marks, touches>>
    BY <1>9 DEF SweepDone, EndRun, Reading
  <2>1. RunType' /\ WatchdogCovers' /\ RequestHasLoop'
    BY <1>0, <2>0, EndRunType
  <2>2. /\ entry' \in [Blocks -> {"free", "inFlight", "done"}]
        /\ \A b \in Blocks : b # loops[l].block => entry'[b] = entry[b]
    BY <1>9 DEF SweepDone, Registry!Release, TypeOK, Registry!TypeOK
  <2>3. TypeOK'
    BY <2>0, <2>1, <2>2 DEF TypeOK, RunType, Registry!TypeOK
  <2>4. ~Reading(l)' /\ \A m \in Loops : m # l => loops'[m] = loops[m]
    BY <1>0, <2>0, RunReaders
  <2>5. \A m \in Loops : Reading(m) => loops[m].block \in Blocks
    BY HeadAssumption DEF TypeOK, LoopState, Blocks, Reading
  <2>6. \A m \in Loops : Reading(m)' => m # l /\ Reading(m) /\ loops'[m] = loops[m]
    BY <2>4 DEF Reading
  <2>7. \A m \in Loops : Reading(m)' =>
          loops[m].block \in lapsed \/ loops[m].block # loops[l].block
    BY <2>0, <2>6 DEF OneReader, Reading
  <2>8. LockHeld'
    BY <2>0, <2>2, <2>5, <2>6, <2>7 DEF LockHeld
  <2>9. OneReader'
    BY <2>0, <2>6 DEF OneReader, Reading
  <2> QED BY <2>1, <2>3, <2>8, <2>9
<1>10. ASSUME NEW b \in Blocks, LockLapses(b) PROVE IInv'
  <2>1. /\ entry' \in [Blocks -> {"free", "inFlight", "done"}]
        /\ \A c \in Blocks : c # b => entry'[c] = entry[c]
    BY <1>10 DEF LockLapses, Registry!Lapse, TypeOK, Registry!TypeOK
  <2>2. TypeOK'
    BY <1>10, <2>1 DEF LockLapses, TypeOK, Registry!TypeOK
  <2>3. \A m \in Loops : Reading(m) => loops[m].block \in Blocks
    BY HeadAssumption DEF TypeOK, LoopState, Blocks, Reading
  <2>4. LockHeld'
    BY <1>10, <2>1, <2>3 DEF LockLapses, LockHeld, Reading
  <2>5. OneReader'
    BY <1>10 DEF LockLapses, OneReader
  <2> QED BY <1>10, <2>2, <2>4, <2>5 DEF LockLapses, WatchdogCovers, RequestHasLoop
<1>11. CASE UNCHANGED vars
  <2>1. LockHeld' /\ OneReader'
    BY <1>11, ReadersKept DEF vars, Reading
  <2> QED BY <1>11, <2>1 DEF vars, TypeOK, WatchdogCovers, RequestHasLoop, Registry!TypeOK
<1> QED
  BY <1>1, <1>2, <1>3, <1>4, <1>5, <1>6, <1>7, <1>8, <1>9, <1>10, <1>11 DEF Next

LEMMA Inductive == Spec => []IInv
<1>1. Init => IInv
  BY InitInv
<1>2. IInv /\ [Next]_vars => IInv'
  BY NextInv
<1> QED BY <1>1, <1>2, PTL DEF Spec

-----------------------------------------------------------------------------
\* Every state of the head checks is well typed.
THEOREM SweepTypeCorrect == Spec => []TypeOK
<1>1. IInv => TypeOK
  BY DEF IInv
<1> QED BY <1>1, Inductive, PTL

\* However many aborted runs go on and stop each other's watchdogs, scanningHead
\* is never left set without a watchdog that will see the stall.
THEOREM RunsWatched == Spec => []WatchdogCovers
<1>1. IInv => WatchdogCovers
  BY DEF IInv
<1> QED BY <1>1, Inductive, PTL

\* A request for a block that waits is never left without a loop.
THEOREM RequestsServed == Spec => []RequestHasLoop
<1>1. IInv => RequestHasLoop
  BY DEF IInv
<1> QED BY <1>1, Inductive, PTL

\* However many loops run at once, a block whose lock did not outlive its ttl is
\* read by one of them.
THEOREM OneReaderPerBlock == Spec => []OneReader
<1>1. IInv => OneReader
  BY DEF IInv
<1> QED BY <1>1, Inductive, PTL

-----------------------------------------------------------------------------
\* What the composition does to its parts.

LEMMA SweepsSteps == SweepsSpec => SweepsInit /\ [][SweepsNext]_sweepVars
  BY PTL DEF SweepsSpec

-----------------------------------------------------------------------------
\* EventBatches, for any number of users, reserves, slots, blocks and events.

BatchStates ==
  [at : {"off", "borrowers", "scan", "laneBorrowers", "laneScan", "targeted"},
   scan : {"event", "reserve"} \cup Reserves, block : 0 .. BatchBlocks]

\* The batches that hold a slot.
Holds(x) == batches[x].at \in {"borrowers", "scan"}
Holding == {x \in Slots : Holds(x)}

\* The count of a block that no cleanup may have reset yet is not behind what ran.
BatchInv ==
  /\ batches \in [Slots -> BatchStates]
  /\ perBlock \in [Batches!Blocks -> Nat] /\ ran \in [Batches!Blocks -> Nat]
  /\ newest \in 0 .. BatchBlocks /\ level \in MinLevel .. MaxLevel
  /\ \A x \in Slots : batches[x].at # "off" => batches[x].block \in Batches!Blocks
  /\ running = Cardinality(Holding) /\ running <= MaxLevel
  /\ \A b \in Batches!Blocks :
       perBlock[b] <= MaxPerBlock /\ (b >= newest - Keep => ran[b] <= perBlock[b])

LEMMA BatchBounds ==
  /\ BatchBlocks \in Nat /\ MaxPerBlock \in Nat /\ Keep \in Nat
  /\ MinLevel \in Nat \ {0} /\ MaxLevel \in Nat /\ MinLevel <= MaxLevel
  /\ IsFiniteSet(Slots)
  BY PartAssumptions DEF Batches!BatchAssumption, Batches!IsFiniteSet, IsFiniteSet

\* What the instance counts is what FiniteSets counts.
LEMMA BatchesCounted == \A S : Batches!Cardinality(S) = Cardinality(S)
  BY DEF Batches!Cardinality, Cardinality

LEMMA BatchesIdle == Batches!Idle \in BatchStates /\ Batches!Idle.at = "off"
<1>1. 0 \in 0 .. BatchBlocks
  BY BatchBounds
<1> QED BY <1>1 DEF Batches!Idle, BatchStates

LEMMA HoldingCounted == IsFiniteSet(Holding) /\ Cardinality(Holding) \in Nat
<1>1. IsFiniteSet(Holding)
  BY BatchBounds, FS_Subset DEF Holding
<1> QED BY <1>1, FS_CardinalityType

LEMMA BatchInit == Batches!Init => BatchInv
<1> SUFFICES ASSUME Batches!Init PROVE BatchInv
  OBVIOUS
<1>1. /\ 0 \in 0 .. BatchBlocks /\ MinLevel \in MinLevel .. MaxLevel /\ 0 <= MaxLevel
      /\ 0 <= MaxPerBlock
  BY BatchBounds
<1>3. Holding = {}
  BY BatchesIdle DEF Batches!Init, Holding, Holds
<1>4. running = Cardinality(Holding) /\ running <= MaxLevel
  BY <1>1, <1>3, FS_EmptySet DEF Batches!Init
<1>5. /\ batches \in [Slots -> BatchStates]
      /\ \A x \in Slots : batches[x].at = "off"
  BY BatchesIdle DEF Batches!Init
<1>6. /\ perBlock \in [Batches!Blocks -> Nat] /\ ran \in [Batches!Blocks -> Nat]
      /\ \A b \in Batches!Blocks : perBlock[b] = 0 /\ ran[b] = 0
  BY DEF Batches!Init
<1>7. /\ newest \in 0 .. BatchBlocks /\ level \in MinLevel .. MaxLevel
  BY <1>1 DEF Batches!Init
<1> QED BY <1>1, <1>4, <1>5, <1>6, <1>7 DEF BatchInv

\* One batch takes a slot, or gives it back, or nothing changes for it.
LEMMA SlotTaken ==
  ASSUME NEW x \in Slots, ~ Holds(x), Holds(x)',
         \A y \in Slots \ {x} : Holds(y)' <=> Holds(y)
  PROVE  Cardinality(Holding)' = Cardinality(Holding) + 1
<1>1. Holding' = Holding \cup {x} /\ x \notin Holding
  BY DEF Holding
<1> QED BY <1>1, HoldingCounted, FS_AddElement

LEMMA SlotGiven ==
  ASSUME NEW x \in Slots, Holds(x), ~ Holds(x)',
         \A y \in Slots \ {x} : Holds(y)' <=> Holds(y)
  PROVE  Cardinality(Holding)' = Cardinality(Holding) - 1
<1>1. Holding' = Holding \ {x} /\ x \in Holding
  BY DEF Holding
<1> QED BY <1>1, HoldingCounted, FS_RemoveElement

LEMMA SlotsSame ==
  ASSUME \A y \in Slots : Holds(y)' <=> Holds(y)
  PROVE  Cardinality(Holding)' = Cardinality(Holding)
<1>1. Holding' = Holding
  BY DEF Holding
<1> QED BY <1>1

\* A cleanup forgets counts of blocks only that are too old by the newest block.
LEMMA CountsKept ==
  ASSUME BatchInv, NEW b \in Batches!Blocks,
         NEW counts \in [Batches!Blocks -> Nat],
         \A c \in Batches!Blocks :
           counts[c] <= MaxPerBlock /\ (c >= newest - Keep => ran'[c] <= counts[c]),
         perBlock' = Batches!Cleanup(counts, b), newest' = Batches!Newest(b)
  PROVE  /\ perBlock' \in [Batches!Blocks -> Nat] /\ newest' \in 0 .. BatchBlocks
         /\ \A c \in Batches!Blocks :
              perBlock'[c] <= MaxPerBlock /\ (c >= newest' - Keep => ran'[c] <= perBlock'[c])
<1>1. b \in 1 .. BatchBlocks /\ b \in Int /\ newest \in Int
  BY BatchBounds DEF Batches!Blocks, BatchInv
<1>2. newest' \in 0 .. BatchBlocks /\ newest' >= newest /\ newest' >= b
  BY <1>1, BatchBounds DEF Batches!Newest, BatchInv
<1>3. perBlock' \in [Batches!Blocks -> Nat]
  BY DEF Batches!Cleanup
<1>4. ASSUME NEW c \in Batches!Blocks
      PROVE  /\ perBlock'[c] <= MaxPerBlock
             /\ c >= newest' - Keep => ran'[c] <= perBlock'[c]
  <2>1. c \in Int
    BY DEF Batches!Blocks
  <2>2. perBlock'[c] = IF c < b - Keep THEN 0 ELSE counts[c]
    BY DEF Batches!Cleanup
  <2>3. c >= newest' - Keep => c >= b - Keep /\ c >= newest - Keep
    BY <1>1, <1>2, <2>1, BatchBounds
  <2>4. c >= newest' - Keep => ~ (c < b - Keep)
    BY <1>1, <2>1, <2>3, BatchBounds
  <2>5. 0 <= MaxPerBlock
    BY BatchBounds
  <2> QED BY <2>2, <2>3, <2>4, <2>5
<1> QED BY <1>2, <1>3, <1>4

LEMMA BatchEnds ==
  ASSUME BatchInv, NEW x \in Slots, batches[x].at # "off", Batches!End(x),
         UNCHANGED <<level, ran>>
  PROVE  BatchInv'
<1>1. /\ batches' \in [Slots -> BatchStates]
      /\ batches' = [batches EXCEPT ![x] = Batches!Idle]
      /\ ~ Holds(x)' /\ \A y \in Slots \ {x} : batches'[y] = batches[y]
      /\ (\A y \in Slots : batches[y].at # "off" => batches[y].block \in Batches!Blocks)'
  BY BatchesIdle DEF Batches!End, BatchInv, Holds
<1>2. \A y \in Slots \ {x} : Holds(y)' <=> Holds(y)
  BY <1>1 DEF Holds
<1>3. CASE Holds(x)
  <2>1. PICK b \in Batches!Blocks : b = batches[x].block
    BY DEF BatchInv
  <2>2. /\ running' = running - 1 /\ perBlock' = Batches!Cleanup(perBlock, b)
        /\ newest' = Batches!Newest(b)
    BY <1>3, <2>1 DEF Batches!End, Holds
  <2>3. PICK counts \in [Batches!Blocks -> Nat] : counts = perBlock
    BY DEF BatchInv
  <2>4. \A c \in Batches!Blocks :
          counts[c] <= MaxPerBlock /\ (c >= newest - Keep => ran'[c] <= counts[c])
    BY <2>3 DEF BatchInv
  <2>5. /\ perBlock' \in [Batches!Blocks -> Nat] /\ newest' \in 0 .. BatchBlocks
        /\ \A c \in Batches!Blocks :
             perBlock'[c] <= MaxPerBlock /\ (c >= newest' - Keep => ran'[c] <= perBlock'[c])
    BY <2>2, <2>3, <2>4, CountsKept
  <2>6. Cardinality(Holding)' = Cardinality(Holding) - 1
    BY <1>1, <1>2, <1>3, SlotGiven
  <2>7. running' = Cardinality(Holding)' /\ running' <= MaxLevel
    BY <2>2, <2>6, HoldingCounted, BatchBounds DEF BatchInv
  <2> QED BY <1>1, <2>5, <2>7 DEF BatchInv
<1>4. CASE ~ Holds(x)
  <2>1. UNCHANGED <<perBlock, running, newest>>
    BY <1>4 DEF Batches!End, Holds
  <2>2. Cardinality(Holding)' = Cardinality(Holding)
    BY <1>1, <1>2, <1>4, SlotsSame
  <2> QED BY <1>1, <2>1, <2>2 DEF BatchInv
<1> QED BY <1>3, <1>4

\* A step that gives no slot and takes none, and counts nothing.
LEMMA BatchMoves ==
  ASSUME BatchInv, UNCHANGED <<perBlock, running, ran, newest>>,
         level' \in MinLevel .. MaxLevel, batches' \in [Slots -> BatchStates],
         (\A y \in Slots : batches[y].at # "off" => batches[y].block \in Batches!Blocks)',
         \A y \in Slots : Holds(y)' <=> Holds(y)
  PROVE  BatchInv'
<1>1. Cardinality(Holding)' = Cardinality(Holding)
  BY SlotsSame
<1> QED BY <1>1 DEF BatchInv

\* The timer of a batch fires.
LEMMA BatchFires ==
  ASSUME BatchInv, NEW b \in Batches!Blocks, NEW r \in Reserves, Batches!Fire(b, r)
  PROVE  BatchInv'
<1>2. level' \in MinLevel .. MaxLevel
  <2>1. level \in Int /\ MinLevel \in Int /\ MaxLevel \in Int
    BY BatchBounds DEF BatchInv
  <2>2. level' \in Batches!LevelAfterRun
    BY DEF Batches!Fire, Batches!LevelAfterSkip
  <2> QED BY <2>1, <2>2 DEF Batches!LevelAfterRun
<1>3. CASE Batches!OverLimit(b)
  <2>1. UNCHANGED <<perBlock, running, batches, ran, newest>>
    BY <1>3 DEF Batches!Fire
  <2>2. \A y \in Slots : Holds(y)' <=> Holds(y)
    BY <2>1 DEF Holds
  <2>3. /\ batches' \in [Slots -> BatchStates]
        /\ (\A y \in Slots : batches[y].at # "off" => batches[y].block \in Batches!Blocks)'
    BY <2>1 DEF BatchInv
  <2> QED BY <1>2, <2>1, <2>2, <2>3, BatchMoves
<1>4. CASE ~ Batches!OverLimit(b)
  <2>1. /\ perBlock[b] \in Nat /\ perBlock[b] < MaxPerBlock
        /\ running \in Nat /\ running < level /\ level \in Int /\ level <= MaxLevel
    BY <1>4, HoldingCounted, BatchBounds DEF Batches!OverLimit, BatchInv
  <2>2. ran' = [ran EXCEPT ![b] = @ + 1] /\ ran' \in [Batches!Blocks -> Nat]
    <3>1. ran' = [ran EXCEPT ![b] = @ + 1]
      BY <1>4 DEF Batches!Fire
    <3> QED BY <3>1 DEF BatchInv
  <2>3. PICK counts : counts = [perBlock EXCEPT ![b] = @ + 1]
    OBVIOUS
  <2>4. counts \in [Batches!Blocks -> Nat]
    BY <2>3 DEF BatchInv
  <2>5. \A c \in Batches!Blocks :
          counts[c] <= MaxPerBlock /\ (c >= newest - Keep => ran'[c] <= counts[c])
    <3> SUFFICES ASSUME NEW c \in Batches!Blocks
                 PROVE counts[c] <= MaxPerBlock /\ (c >= newest - Keep => ran'[c] <= counts[c])
      OBVIOUS
    <3>1. CASE c = b
      <4>1. counts[c] = perBlock[b] + 1 /\ ran'[c] = ran[b] + 1 /\ ran[b] \in Nat
        BY <2>2, <2>3, <3>1 DEF BatchInv
      <4>2. c >= newest - Keep => ran[b] <= perBlock[b]
        BY <3>1 DEF BatchInv
      <4> QED BY <2>1, <4>1, <4>2, BatchBounds
    <3>2. CASE c # b
      BY <2>2, <2>3, <3>2 DEF BatchInv
    <3> QED BY <3>1, <3>2
  <2>6. ASSUME NEW x \in Slots, batches[x].at = "off",
               NEW state \in {"scan", "borrowers"}, NEW scan \in {"event", "reserve"},
               batches' = [batches EXCEPT ![x] = [at |-> state, scan |-> scan, block |-> b]],
               running' = running + 1, perBlock' = counts, newest' = newest
        PROVE  BatchInv'
    <3>1. PICK new : new = [at |-> state, scan |-> scan, block |-> b]
      OBVIOUS
    <3>2. b \in 0 .. BatchBlocks
      BY BatchBounds DEF Batches!Blocks
    <3>3. new \in BatchStates /\ new.block = b /\ new.at \in {"borrowers", "scan"}
      BY <3>1, <3>2 DEF BatchStates
    <3>4. batches' = [batches EXCEPT ![x] = new]
      BY <2>6, <3>1
    <3>5. /\ batches' \in [Slots -> BatchStates]
          /\ (\A y \in Slots : batches[y].at # "off" => batches[y].block \in Batches!Blocks)'
          /\ Holds(x)' /\ \A y \in Slots \ {x} : Holds(y)' <=> Holds(y)
      BY <3>3, <3>4 DEF BatchInv, Holds
    <3>6. ~ Holds(x)
      BY <2>6 DEF Holds
    <3>7. Cardinality(Holding)' = Cardinality(Holding) + 1
      BY <3>5, <3>6, SlotTaken
    <3>8. running' = Cardinality(Holding)' /\ running' <= MaxLevel
      BY <2>1, <2>6, <3>7, BatchBounds DEF BatchInv
    <3>9. perBlock' \in [Batches!Blocks -> Nat] /\ newest' \in 0 .. BatchBlocks
      BY <2>4, <2>6 DEF BatchInv
    <3>10. \A c \in Batches!Blocks :
             perBlock'[c] <= MaxPerBlock /\ (c >= newest' - Keep => ran'[c] <= perBlock'[c])
      BY <2>5, <2>6
    <3> QED BY <1>2, <2>2, <3>5, <3>8, <3>9, <3>10 DEF BatchInv
  <2>7. ASSUME perBlock' = Batches!Cleanup(counts, b), newest' = Batches!Newest(b),
               UNCHANGED <<running, batches>>
        PROVE  BatchInv'
    <3>1. /\ perBlock' \in [Batches!Blocks -> Nat] /\ newest' \in 0 .. BatchBlocks
          /\ \A c \in Batches!Blocks :
               perBlock'[c] <= MaxPerBlock /\ (c >= newest' - Keep => ran'[c] <= perBlock'[c])
      BY <2>4, <2>5, <2>7, CountsKept
    <3>2. Cardinality(Holding)' = Cardinality(Holding)
      BY <2>7, SlotsSame DEF Holds
    <3> QED BY <1>2, <2>2, <2>7, <3>1, <3>2 DEF BatchInv
  <2>8. \/ \E x \in Slots, state \in {"scan", "borrowers"}, scan \in {"event", "reserve"} :
             /\ batches[x].at = "off"
             /\ batches' = [batches EXCEPT ![x] = [at |-> state, scan |-> scan, block |-> b]]
             /\ running' = running + 1 /\ perBlock' = counts /\ newest' = newest
        \/ /\ perBlock' = Batches!Cleanup(counts, b) /\ newest' = Batches!Newest(b)
           /\ UNCHANGED <<running, batches>>
    BY <1>4, <2>3 DEF Batches!Fire
  <2> QED BY <2>6, <2>7, <2>8
<1> QED BY <1>3, <1>4

LEMMA BatchNext == BatchInv /\ [Batches!Next]_(Batches!vars) => BatchInv'
<1> SUFFICES ASSUME BatchInv, [Batches!Next]_(Batches!vars) PROVE BatchInv'
  OBVIOUS
<1>1. ASSUME NEW b \in Batches!Blocks, NEW r \in Reserves, NEW users \in SUBSET Users,
             Batches!Enqueue(b, r, users)
      PROVE  BatchInv'
  <2>1. UNCHANGED <<perBlock, running, level, batches, ran, newest>>
    BY <1>1 DEF Batches!Enqueue
  <2>2. \A y \in Slots : Holds(y)' <=> Holds(y)
    BY <2>1 DEF Holds
  <2> QED BY <2>1, <2>2, BatchMoves DEF BatchInv
<1>2. ASSUME NEW b \in Batches!Blocks, NEW r \in Reserves, NEW x \in Slots,
             Batches!FastLane(b, r, x) \/ Batches!Targeted(b, r, x)
      PROVE  BatchInv'
  <2>1. /\ UNCHANGED <<perBlock, running, level, ran, newest>>
        /\ batches[x].at = "off"
    BY <1>2 DEF Batches!FastLane, Batches!Targeted
  <2>2. PICK state \in {"laneBorrowers", "targeted"} :
          batches' = [batches EXCEPT ![x] = [at |-> state, scan |-> r, block |-> b]]
    BY <1>2 DEF Batches!FastLane, Batches!Targeted
  <2>3. PICK new : new = [at |-> state, scan |-> r, block |-> b]
    OBVIOUS
  <2>4. b \in 0 .. BatchBlocks
    BY BatchBounds DEF Batches!Blocks
  <2>5. /\ new \in BatchStates /\ new.block = b /\ new.at \notin {"borrowers", "scan"}
        /\ batches' = [batches EXCEPT ![x] = new]
    BY <2>2, <2>3, <2>4 DEF BatchStates
  <2>6. /\ batches' \in [Slots -> BatchStates]
        /\ (\A y \in Slots : batches[y].at # "off" => batches[y].block \in Batches!Blocks)'
        /\ \A y \in Slots : Holds(y)' <=> Holds(y)
    BY <2>1, <2>5 DEF BatchInv, Holds
  <2> QED BY <2>1, <2>6, BatchMoves DEF BatchInv
<1>3. ASSUME NEW x \in Slots, Batches!TargetedEnds(x) PROVE BatchInv'
  <2>1. /\ UNCHANGED <<perBlock, running, level, ran, newest>>
        /\ batches[x].at = "targeted"
    BY <1>3 DEF Batches!TargetedEnds
  <2>2. PICK lane : lane = [batches[x] EXCEPT !.at = "laneBorrowers"]
    OBVIOUS
  <2>3. lane \in BatchStates /\ lane.at = "laneBorrowers" /\ lane.block = batches[x].block
    BY <2>2 DEF BatchInv, BatchStates
  <2>4. batches' = [batches EXCEPT ![x] = lane] \/ batches' = [batches EXCEPT ![x] = Batches!Idle]
    BY <1>3, <2>2 DEF Batches!TargetedEnds
  <2>5. batches' \in [Slots -> BatchStates]
    BY <2>3, <2>4, BatchesIdle DEF BatchInv
  <2>6. (\A y \in Slots : batches[y].at # "off" => batches[y].block \in Batches!Blocks)'
    BY <2>1, <2>3, <2>4, BatchesIdle DEF BatchInv
  <2>7. \A y \in Slots : Holds(y)' <=> Holds(y)
    BY <2>1, <2>3, <2>4, BatchesIdle DEF BatchInv, Holds
  <2> QED BY <2>1, <2>5, <2>6, <2>7, BatchMoves DEF BatchInv
<1>4. ASSUME NEW x \in Slots, Batches!Borrowers(x) PROVE BatchInv'
  <2>1. /\ UNCHANGED <<level, ran>>
        /\ batches[x].at \in {"borrowers", "laneBorrowers"}
    BY <1>4 DEF Batches!Borrowers
  <2>2. CASE Batches!End(x)
    BY <2>1, <2>2, BatchEnds
  <2>3. CASE /\ batches' = [batches EXCEPT ![x].at =
                              IF @ = "borrowers" THEN "scan" ELSE "laneScan"]
             /\ UNCHANGED <<perBlock, running, newest>>
    <3>1. /\ batches' \in [Slots -> BatchStates]
          /\ (\A y \in Slots : batches[y].at # "off" => batches[y].block \in Batches!Blocks)'
          /\ \A y \in Slots : Holds(y)' <=> Holds(y)
      BY <2>1, <2>3 DEF BatchInv, Holds, BatchStates
    <3> QED BY <2>1, <2>3, <3>1, BatchMoves DEF BatchInv
  <2> QED BY <1>4, <2>2, <2>3 DEF Batches!Borrowers
<1>5. ASSUME NEW x \in Slots, Batches!ScanEnds(x) PROVE BatchInv'
  BY <1>5, BatchEnds DEF Batches!ScanEnds
<1>6. CASE (\E k \in Batches!Scans : Batches!LockLapses(k)) \/ UNCHANGED Batches!vars
  <2>1. UNCHANGED <<perBlock, running, level, batches, ran, newest>>
    BY <1>6 DEF Batches!LockLapses, Batches!vars
  <2>2. \A y \in Slots : Holds(y)' <=> Holds(y)
    BY <2>1 DEF Holds
  <2> QED BY <2>1, <2>2, BatchMoves DEF BatchInv
<1> QED BY <1>1, <1>2, <1>3, <1>4, <1>5, <1>6, BatchFires DEF Batches!Next

\* Whichever way a batch ends, and however batches of a block, late timers, the fast lane
\* and the adaptive level interleave, a batch holds one slot while it runs, no more run
\* than the highest level, and no block gets more than its share.
THEOREM BatchesStayLimited == SweepsSpec => []BatchesKeepLimits
<1>1. SweepsInit => BatchInv
  BY BatchInit DEF SweepsInit
<1>2. [SweepsNext]_sweepVars => [Batches!Next]_(Batches!vars)
  BY DEF SweepsNext, sweepVars, batchVars, Batches!vars, FollowHeads, FollowPage,
         FollowBatches
<1>3. BatchInv => BatchesKeepLimits
  <2> SUFFICES ASSUME BatchInv PROVE BatchesKeepLimits
    OBVIOUS
  <2>1. Batches!SlotsReturned
    <3>1. Holding = {x \in Slots : batches[x].at \in {"borrowers", "scan"}}
      BY DEF Holding, Holds
    <3> QED BY <3>1, BatchesCounted DEF BatchInv, Batches!SlotsReturned
  <2>2. Batches!CapPerBlock
    <3> SUFFICES ASSUME NEW b \in Batches!Blocks, b >= newest - Keep
                 PROVE ran[b] <= MaxPerBlock
      BY DEF Batches!CapPerBlock
    <3>1. ran[b] \in Nat /\ perBlock[b] \in Nat /\ ran[b] <= perBlock[b]
          /\ perBlock[b] <= MaxPerBlock
      BY DEF BatchInv
    <3> QED BY <3>1, BatchBounds
  <2> QED BY <2>1, <2>2 DEF BatchesKeepLimits
<1> QED BY <1>1, <1>2, <1>3, BatchNext, SweepsSteps, PTL

-----------------------------------------------------------------------------
\* HeadPage, for any lengths of the list, page sizes and hot sets.

\* Division with rest, and that the rest is unique.
LEMMA RestOf ==
  \A m \in Nat, n \in Nat \ {0} : m % n \in 0 .. n - 1 /\ m = n * (m \div n) + (m % n)
                                  /\ m \div n \in Nat
  OBVIOUS

LEMMA RestIsUnique ==
  ASSUME NEW n \in Nat \ {0}, NEW p \in Int, NEW q \in Int, NEW r \in 0 .. n - 1,
         NEW t \in 0 .. n - 1, n * p + r = n * q + t
  PROVE  r = t
<1>1. n * (p - q) = t - r
  <2>1. n * (p - q) = n * p - n * q
    OBVIOUS
  <2> QED BY <2>1
<1>2. t - r < n /\ t - r > -n
  OBVIOUS
<1>3. CASE p > q
  <2>1. n * (p - q) >= n
    BY <1>3
  <2> QED BY <1>1, <1>2, <2>1
<1>4. CASE p < q
  <2>1. n * (q - p) >= n
    BY <1>4
  <2>2. n * (q - p) = - (n * (p - q))
    OBVIOUS
  <2> QED BY <1>1, <1>2, <2>1, <2>2
<1>5. CASE p = q
  BY <1>1, <1>5
<1> QED BY <1>3, <1>4, <1>5

\* A position that moves by less than the length wraps around at most once.
LEMMA MovedRest ==
  ASSUME NEW n \in Nat \ {0}, NEW m \in Nat, NEW size \in 0 .. n - 1
  PROVE  (m + size) % n = IF (m % n) + size < n THEN (m % n) + size ELSE (m % n) + size - n
<1>1. PICK e \in Nat : e = m + size
  OBVIOUS
<1>2. /\ m % n \in 0 .. n - 1 /\ m = n * (m \div n) + (m % n) /\ m \div n \in Nat
  BY RestOf, Zenon
<1>3. /\ e % n \in 0 .. n - 1 /\ e = n * (e \div n) + (e % n) /\ e \div n \in Nat
  BY RestOf, Zenon
<1>4. PICK k \in Nat, r \in 0 .. n - 1, j \in Nat, t \in 0 .. n - 1 :
        /\ k = m \div n /\ r = m % n /\ j = e \div n /\ t = e % n
  BY <1>2, <1>3
<1>5. n * k + r + size = n * j + t
  <2>1. m = n * k + r /\ e = n * j + t
    BY <1>2, <1>3, <1>4
  <2> QED BY <1>1, <2>1
<1>6. CASE r + size < n
  <2>1. r + size \in 0 .. n - 1
    BY <1>6
  <2>2. n * k + (r + size) = n * j + t
    BY <1>5
  <2>3. r + size = t
    BY <2>1, <2>2, RestIsUnique
  <2> QED BY <1>1, <1>4, <1>6, <2>3
<1>7. CASE r + size >= n
  <2>1. r + size - n \in 0 .. n - 1
    BY <1>7
  <2>2. n * (k + 1) = n * k + n
    OBVIOUS
  <2>3. n * (k + 1) + (r + size - n) = n * j + t
    BY <1>5, <2>2
  <2>4. PICK l \in Int, u \in 0 .. n - 1 : l = k + 1 /\ u = r + size - n
    BY <2>1
  <2>5. n * l + u = n * j + t
    BY <2>3, <2>4
  <2>6. u = t
    BY <2>5, RestIsUnique
  <2> QED BY <1>1, <1>4, <1>7, <2>4, <2>6
<1> QED BY <1>6, <1>7

\* How far the window, which starts at start, has to move to reach position p.
Ahead(p, start, n) == IF p >= start THEN p - start ELSE p - start + n
Distance == Ahead(watched, rotating % total, total)

\* What the window has moved since the check of the watched candidate and what it has
\* still to move to the next make less than one turn.
PageInv ==
  /\ total \in Totals /\ rotating \in Nat /\ pageSize \in MinPage .. MaxPage
  /\ watched \in 0 .. total - 1 /\ advanced \in Nat
  /\ total > MaxPage => advanced + Distance < total

LEMMA PageBounds ==
  /\ Totals \subseteq Nat \ {0} /\ Sample \in Nat \ {0} /\ MinPage \in Nat \ {0}
  /\ MaxPage \in Nat /\ MinPage <= MaxPage
  BY PartAssumptions DEF Page!PageAssumption

LEMMA DistanceBound ==
  ASSUME NEW n \in Nat \ {0}, NEW m \in Nat, NEW p \in 0 .. n - 1
  PROVE  Ahead(p, m % n, n) \in 0 .. n - 1
<1>1. m % n \in 0 .. n - 1
  BY RestOf
<1>2. PICK start \in 0 .. n - 1 : start = m % n
  BY <1>1
<1> QED BY <1>2 DEF Ahead

\* The window that misses a position moves towards it and not past it.
Misses(p, m, size, n) == \A i \in 0 .. size - 1 : ((m % n) + i) % n # p

LEMMA WindowMoves ==
  ASSUME NEW n \in Nat \ {0}, NEW m \in Nat, NEW p \in 0 .. n - 1, NEW size \in 0 .. n - 1,
         Misses(p, m, size, n)
  PROVE  Ahead(p, ((m + size) % n) % n, n) = Ahead(p, m % n, n) - size
<1>1. m % n \in 0 .. n - 1
  BY RestOf
<1>2. PICK start \in 0 .. n - 1 : start = m % n
  BY <1>1
<1>3. \A x \in 0 .. n - 1 : x % n = x
  <2> SUFFICES ASSUME NEW x \in 0 .. n - 1 PROVE x % n = x
    OBVIOUS
  <2>1. x \in Nat
    OBVIOUS
  <2>2. x % n \in 0 .. n - 1 /\ x = n * (x \div n) + (x % n) /\ x \div n \in Nat
    BY <2>1, RestOf, Zenon
  <2>3. n * 0 + x = n * (x \div n) + (x % n)
    BY <2>1, <2>2
  <2> QED BY <2>2, <2>3, RestIsUnique
<1>4. Ahead(p, start, n) >= size
  <2> SUFFICES ASSUME Ahead(p, start, n) < size PROVE FALSE
    BY <1>2 DEF Ahead
  <2>1. PICK i \in 0 .. size - 1 : i = Ahead(p, start, n)
    <3>1. Ahead(p, start, n) \in Nat /\ Ahead(p, start, n) < size
      BY <1>2 DEF Ahead
    <3> QED BY <3>1
  <2>2. i \in 0 .. n - 1 /\ start \in Nat
    BY <2>1
  <2>3. (start + i) % n = IF (start % n) + i < n THEN (start % n) + i ELSE (start % n) + i - n
    BY <2>2, MovedRest
  <2>4. start % n = start
    BY <1>3
  <2>5. (start + i) % n = p
    BY <2>1, <2>2, <2>3, <2>4 DEF Ahead
  <2> QED BY <1>2, <2>1, <2>5 DEF Misses
<1>5. (m + size) % n = IF start + size < n THEN start + size ELSE start + size - n
  BY <1>2, MovedRest
<1>6. PICK next \in 0 .. n - 1 : next = (m + size) % n
  BY <1>2, <1>5
<1>7. ((m + size) % n) % n = next
  BY <1>3, <1>6
<1>8. Ahead(p, next, n) = Ahead(p, start, n) - size
  BY <1>4, <1>5, <1>6 DEF Ahead
<1> QED BY <1>2, <1>7, <1>8

\* What the instance counts is what FiniteSets counts.
LEMMA PageCounted == \A S : Page!Cardinality(S) = Cardinality(S)
  BY DEF Page!Cardinality, Cardinality

\* The window is shorter than a list that is longer than the largest page.
LEMMA WindowBound ==
  ASSUME PageInv, NEW low \in HotSets, NEW marked \in HotSets,
         low \cup marked \subseteq Page!Positions(total)
  PROVE  /\ Page!WindowSize(low, marked) \in Nat
         /\ total > MaxPage => Page!WindowSize(low, marked) < total
<1>1. PICK n \in Nat \ {0} : n = total
  BY PageBounds DEF PageInv
<1>2. /\ IsFiniteSet(0 .. n - 1) /\ Cardinality(0 .. n - 1) = n
  BY FS_Interval
<1>3. low \cup marked \in SUBSET (0 .. n - 1)
  BY <1>1 DEF Page!Positions
<1>4. IsFiniteSet(low \cup marked) /\ Cardinality(low \cup marked) <= n
  BY <1>2, <1>3, FS_Subset
<1>5. Cardinality(low \cup marked) \in Nat
  BY <1>4, FS_CardinalityType
<1>6. low # {} => Cardinality(low \cup marked) # 0
  BY <1>4, FS_EmptySet
<1>7. PICK cold \in Int : cold = n - Cardinality(low \cup marked)
  BY <1>5
<1>8. cold \in Nat /\ (low # {} => cold < n)
  BY <1>4, <1>5, <1>6, <1>7
<1>9. Page!WindowSize(low, marked) =
        IF low = {} THEN pageSize ELSE IF cold < Sample THEN cold ELSE Sample
  BY <1>1, <1>7, PageCounted DEF Page!WindowSize
<1>10. pageSize \in Nat /\ pageSize <= MaxPage /\ MaxPage \in Nat
  BY PageBounds DEF PageInv
<1>11. CASE low = {}
  BY <1>1, <1>9, <1>10, <1>11
<1>12. CASE low # {}
  <2>1. Page!WindowSize(low, marked) \in Nat /\ Page!WindowSize(low, marked) <= cold
    BY <1>8, <1>9, <1>12, PageBounds
  <2> QED BY <1>1, <1>8, <1>12, <2>1
<1> QED BY <1>11, <1>12

LEMMA PageInit == Page!Init => PageInv
<1> SUFFICES ASSUME Page!Init PROVE PageInv
  OBVIOUS
<1>1. PICK n \in Nat \ {0} : n = total
  BY PageBounds DEF Page!Init
<1>2. PICK p \in 0 .. n - 1 : p = watched
  BY <1>1 DEF Page!Init, Page!Positions
<1>3. Ahead(p, 0 % n, n) \in 0 .. n - 1
  BY DistanceBound
<1>4. Distance \in 0 .. n - 1
  BY <1>1, <1>2, <1>3 DEF Distance, Page!Init
<1>5. pageSize \in MinPage .. MaxPage /\ 0 \in Nat
  BY PageBounds DEF Page!Init
<1> QED BY <1>1, <1>2, <1>4, <1>5 DEF Page!Init, PageInv

\* A run that does not check the watched candidate moves the window towards it.
LEMMA PageRuns ==
  ASSUME PageInv, NEW low \in HotSets, NEW marked \in HotSets,
         low \cup marked \subseteq Page!Positions(total), Page!Run(low, marked),
         UNCHANGED <<total, watched>>
  PROVE  /\ rotating' \in Nat /\ advanced' \in Nat
         /\ total > MaxPage => advanced' + Distance' < total
<1>. PICK n \in Nat \ {0} : n = total
  BY PageBounds DEF PageInv
<1>. PICK p \in 0 .. n - 1, m \in Nat, a \in Nat, size \in Nat :
        /\ p = watched /\ m = rotating /\ a = advanced
        /\ size = Page!WindowSize(low, marked)
  BY WindowBound DEF PageInv
<1>1. /\ n = total /\ p = watched /\ m = rotating /\ a = advanced
      /\ size = Page!WindowSize(low, marked)
  OBVIOUS
<1>2. n > MaxPage => size < n
  BY <1>1, WindowBound
<1>3. rotating' = IF size = 0 THEN m ELSE (m + size) % n
  BY <1>1 DEF Page!Run
<1>4. advanced' = IF p \in low \cup marked \cup Page!Window(size) THEN 0
                  ELSE IF a + size > n THEN n ELSE a + size
  BY <1>1 DEF Page!Run
<1>5. rotating' \in Nat
  <2>1. PICK e \in Nat : e = m + size
    OBVIOUS
  <2>2. e % n \in 0 .. n - 1
    BY RestOf
  <2> QED BY <1>3, <2>1, <2>2
<1>6. advanced' \in Nat
  BY <1>4
<1>7. Distance' = Ahead(p, rotating' % n, n)
  BY <1>1 DEF Distance
<1>8. ASSUME n > MaxPage PROVE advanced' + Distance' < n
  <2>1. size \in 0 .. n - 1
    BY <1>2, <1>8
  <2>2. CASE p \in low \cup marked \cup Page!Window(size)
    <3>1. PICK k \in Nat : k = rotating'
      BY <1>5
    <3>2. Ahead(p, k % n, n) \in 0 .. n - 1
      BY DistanceBound
    <3> QED BY <1>4, <1>7, <2>2, <3>1, <3>2
  <2>3. CASE p \notin low \cup marked \cup Page!Window(size)
    <3>1. Misses(p, m, size, n)
      <4>1. Page!Window(size) = {((m % n) + i) % n : i \in 0 .. size - 1}
        BY <1>1, <1>2, <1>8 DEF Page!Window
      <4> QED BY <2>3, <4>1 DEF Misses
    <3>2. Distance = Ahead(p, m % n, n) /\ a + Distance < n
      BY <1>1, <1>8 DEF Distance, PageInv
    <3>3. Distance \in 0 .. n - 1
      BY <3>2, DistanceBound
    <3>4. Distance' = Distance - size
      <4>1. CASE size = 0
        BY <1>3, <1>7, <3>2, <3>3, <4>1
      <4>2. CASE size # 0
        <5>1. rotating' = (m + size) % n
          BY <1>3, <4>2
        <5>2. Ahead(p, ((m + size) % n) % n, n) = Ahead(p, m % n, n) - size
          BY <2>1, <3>1, WindowMoves
        <5> QED BY <1>7, <3>2, <5>1, <5>2
      <4> QED BY <4>1, <4>2
    <3>5. Distance' \in Nat
      <4>1. PICK k \in Nat : k = rotating'
        BY <1>5
      <4>2. Ahead(p, k % n, n) \in 0 .. n - 1
        BY DistanceBound
      <4> QED BY <1>7, <4>1, <4>2
    <3>6. a + size <= n /\ advanced' = a + size
      BY <1>4, <2>3, <3>2, <3>3, <3>4, <3>5
    <3> QED BY <3>2, <3>3, <3>4, <3>6
  <2> QED BY <2>2, <2>3
<1> QED BY <1>1, <1>5, <1>6, <1>8

LEMMA PageAdjusts == PageInv => \A size \in Page!Adjusted : size \in MinPage .. MaxPage
<1> SUFFICES ASSUME PageInv, NEW size \in Page!Adjusted PROVE size \in MinPage .. MaxPage
  OBVIOUS
<1>1. PICK n \in Nat : n = pageSize /\ MinPage <= n /\ n <= MaxPage
  BY PageBounds DEF PageInv
<1>2. /\ (n * 85) \div 100 \in Nat /\ (n * 85) \div 100 <= n
      /\ (n * 112) \div 100 \in Nat /\ (n * 112) \div 100 >= n
  OBVIOUS
<1> QED BY <1>1, <1>2, PageBounds DEF Page!Adjusted

LEMMA PageNext == PageInv /\ [Page!Next]_(Page!vars) => PageInv'
<1> SUFFICES ASSUME PageInv, [Page!Next]_(Page!vars) PROVE PageInv'
  OBVIOUS
<1>1. CASE Page!HeadRun
  <2>1. /\ pageSize' \in MinPage .. MaxPage /\ UNCHANGED <<total, watched>>
    BY <1>1, PageAdjusts DEF Page!HeadRun
  <2>2. /\ rotating' \in Nat /\ advanced' \in Nat
        /\ total > MaxPage => advanced' + Distance' < total
    BY <1>1, <2>1, PageRuns DEF Page!HeadRun
  <2> QED BY <2>1, <2>2 DEF PageInv
<1>2. CASE Page!ListChanges
  <2>1. /\ total' \in Totals /\ watched' \in 0 .. total' - 1 /\ advanced' = 0
        /\ UNCHANGED <<rotating, pageSize>>
    BY <1>2 DEF Page!ListChanges, Page!Positions
  <2>. PICK n \in Nat \ {0} : n = total'
    BY <2>1, PageBounds
  <2>. PICK p \in 0 .. n - 1, m \in Nat : p = watched' /\ m = rotating'
    BY <2>1 DEF PageInv
  <2>2. n = total' /\ p = watched' /\ m = rotating'
    OBVIOUS
  <2>3. Ahead(p, m % n, n) \in 0 .. n - 1
    BY DistanceBound
  <2>4. advanced' + Distance' < total'
    <3>1. advanced' = 0 /\ total' = n
      BY <2>1, <2>2
    <3>. PICK d \in 0 .. n - 1 : d = Ahead(p, m % n, n)
      BY <2>3
    <3>2. Distance' = d
      BY <2>2 DEF Distance
    <3> QED BY <3>1, <3>2
  <2> QED BY <2>1, <2>4 DEF PageInv
<1>3. CASE UNCHANGED Page!vars
  BY <1>3 DEF Page!vars, PageInv, Distance
<1> QED BY <1>1, <1>2, <1>3 DEF Page!Next

\* However the hot set, the adaptive page and the list change from run to run, the window
\* comes to each candidate before it has gone once around a list that stays.
THEOREM RotationMissesNobody == SweepsSpec => []RotationCovers
<1>1. SweepsInit => PageInv
  BY PageInit DEF SweepsInit
<1>2. [SweepsNext]_sweepVars => [Page!Next]_(Page!vars)
  BY DEF SweepsNext, sweepVars, pageVars, Page!vars, FollowHeads, FollowPage,
         FollowBatches
<1>3. PageInv => RotationCovers
  <2> SUFFICES ASSUME PageInv, total > MaxPage PROVE advanced < total
    BY DEF RotationCovers, Page!RotationCovers
  <2>. PICK n \in Nat \ {0} : n = total
    BY PageBounds DEF PageInv
  <2>. PICK p \in 0 .. n - 1, m \in Nat : p = watched /\ m = rotating
    BY DEF PageInv
  <2>1. n = total /\ p = watched /\ m = rotating
    OBVIOUS
  <2>2. Ahead(p, m % n, n) \in 0 .. n - 1
    BY DistanceBound
  <2>3. Distance \in Nat /\ advanced \in Nat /\ advanced + Distance < n
    BY <2>1, <2>2 DEF Distance, PageInv
  <2> QED BY <2>1, <2>3
<1> QED BY <1>1, <1>2, <1>3, PageNext, SweepsSteps, PTL
=============================================================================
