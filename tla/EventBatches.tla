----------------------------- MODULE EventBatches -----------------------------
(***************************************************************************)
(* The rechecks that Aave events cause in services/RealTimeHFService.ts:   *)
(* events of a block and reserve coalesce into a batch behind a timer that *)
(* each of them sets again; a batch whose timer fires is dropped when its  *)
(* block had its share of batches or too many run, and otherwise scans its *)
(* users, or the borrowers of its reserve, under a ScanRegistry lock whose *)
(* key names the trigger and the block but not the users.  In the fast     *)
(* lane a reserve's recheck passes the queue and the limits by.            *)
(***************************************************************************)
EXTENDS Integers, FiniteSets

CONSTANTS
  Users,
  Reserves,     \* one of them may stand for events without a reserve
  Slots,        \* bound: batches under way at one time
  MaxBlock,     \* bound: blocks
  MaxPerBlock,  \* eventBatchMaxPerBlock
  Keep,         \* blocks whose count survives the cleanup, 10 in the code
  MinLevel,     \* maxParallelEventBatches
  MaxLevel,     \* maxParallelEventBatchesHigh
  MaxEvents     \* bound: events

BatchAssumption ==
  /\ MaxBlock \in Nat /\ MaxPerBlock \in Nat /\ Keep \in Nat /\ MaxEvents \in Nat
  /\ MinLevel \in Nat \ {0} /\ MaxLevel \in Nat /\ MinLevel <= MaxLevel
  /\ IsFiniteSet(Slots)

VARIABLES
  queue,      \* eventBatchQueue: per block and reserve
  perBlock,   \* eventBatchesPerBlock; 0 is no entry
  running,    \* runningEventBatches
  level,      \* currentMaxEventBatches
  batches,    \* the calls of executeEventBatch and executeFastLaneBatch under way
  entry,      \* the ScanRegistry, by scan key
  fastLane,   \* config.fastLaneEnabled
  ran,        \* history: batches run per block
  newest,     \* history: the newest block whose batch cleaned up
  events      \* counter of the bound

vars == <<queue, perBlock, running, level, batches, entry, fastLane, ran, newest,
          events>>

Blocks == 1 .. MaxBlock
\* The scans of a batch ask for the lock without naming the reserve; only the
\* fast lane names it.
Scans == ({"event", "reserve"} \cup Reserves) \X Blocks
Registry == INSTANCE ScanRegistry WITH Keys <- Scans

NoBatch == [queued |-> FALSE, users |-> {}]
Idle == [at |-> "off", scan |-> "event", block |-> 0]

TypeOK ==
  /\ queue \in [Blocks \X Reserves -> [queued: BOOLEAN, users: SUBSET Users]]
  /\ perBlock \in [Blocks -> Nat]
  /\ running \in Int
  /\ level \in MinLevel .. MaxLevel
  /\ batches \in [Slots -> [at: {"off", "borrowers", "scan", "laneBorrowers", "laneScan",
                                 "targeted"},
                            scan: {"event", "reserve"} \cup Reserves,
                            block: 0 .. MaxBlock]]
  /\ Registry!TypeOK
  /\ fastLane \in BOOLEAN
  /\ ran \in [Blocks -> Nat]
  /\ newest \in 0 .. MaxBlock
  /\ events \in 0 .. MaxEvents

Init ==
  /\ queue = [k \in Blocks \X Reserves |-> NoBatch]
  /\ perBlock = [b \in Blocks |-> 0]
  /\ running = 0
  /\ level = MinLevel
  /\ batches = [x \in Slots |-> Idle]
  /\ Registry!Init
  /\ fastLane \in BOOLEAN
  /\ ran = [b \in Blocks |-> 0]
  /\ newest = 0
  /\ events = 0

-----------------------------------------------------------------------------
\* An event of block b on reserve r joins the batch of the two and sets its
\* timer again: enqueueEventBatch.  ReserveDataUpdated names no users.
Enqueue(b, r, users) ==
  /\ events < MaxEvents
  /\ ~(fastLane /\ users = {})
  /\ events' = events + 1
  /\ queue' = [queue EXCEPT ![<<b, r>>] =
                 [queued |-> TRUE, users |-> @.users \cup users]]
  /\ UNCHANGED <<perBlock, running, level, batches, entry, fastLane, ran, newest>>

\* ReserveDataUpdated in the fast lane: executeFastLaneBatch asks for the
\* borrowers at once.
FastLane(b, r, x) ==
  /\ events < MaxEvents
  /\ fastLane
  /\ batches[x].at = "off"
  /\ events' = events + 1
  /\ batches' = [batches EXCEPT ![x] = [at |-> "laneBorrowers", scan |-> r, block |-> b]]
  /\ UNCHANGED <<queue, perBlock, running, level, entry, fastLane, ran, newest>>

\* ReserveDataUpdated past the delta gate scans the reserve's borrowers close to
\* one first, under the key of the fast lane.
Targeted(b, r, x) ==
  /\ events < MaxEvents
  /\ batches[x].at = "off"
  /\ Registry!Acquire(<<r, b>>)
  /\ events' = events + 1
  /\ batches' = [batches EXCEPT ![x] = [at |-> "targeted", scan |-> r, block |-> b]]
  /\ UNCHANGED <<queue, perBlock, running, level, fastLane, ran, newest>>

\* Then it asks for the recheck of all borrowers.
TargetedEnds(x) ==
  LET b == batches[x].block
      r == batches[x].scan IN
  /\ batches[x].at = "targeted"
  /\ Registry!Release(<<r, b>>)
  /\ IF fastLane
       THEN /\ batches' = [batches EXCEPT ![x].at = "laneBorrowers"]
            /\ UNCHANGED queue
       ELSE /\ batches' = [batches EXCEPT ![x] = Idle]
            /\ queue' = [queue EXCEPT ![<<b, r>>].queued = TRUE]
  /\ UNCHANGED <<perBlock, running, level, fastLane, ran, newest, events>>

\* adjustEventConcurrency after a batch ran and after one was dropped: skips
\* and short head runs raise the level; it falls only when nothing was skipped.
LevelAfterRun == {l \in level - 1 .. level + 1 : MinLevel <= l /\ l <= MaxLevel}
LevelAfterSkip == LevelAfterRun \ {level - 1}

\* The two limits of executeEventBatch.
OverLimit(b) == perBlock[b] >= MaxPerBlock \/ running >= level

\* Mutant: the cleanup deletes the oldest count it should keep.
CleanupEager(counts, b) ==
  [c \in Blocks |-> IF c <= b - Keep THEN 0 ELSE counts[c]]

\* The counts of blocks older than Keep are deleted when a batch ends.
Cleanup(counts, b) == [c \in Blocks |-> IF c < b - Keep THEN 0 ELSE counts[c]]

Newest(b) == IF b > newest THEN b ELSE newest

\* The timer of a batch fires: executeEventBatch up to its first await.  A
\* batch with users scans them and leaves its reserve aside.
Fire(b, r) ==
  /\ queue[b, r].queued
  /\ queue' = [queue EXCEPT ![<<b, r>>] = NoBatch]
  /\ \/ /\ OverLimit(b)
        /\ level' \in LevelAfterSkip
        /\ UNCHANGED <<perBlock, running, batches, entry, ran, newest>>
     \/ /\ ~OverLimit(b)
        /\ level' \in LevelAfterRun
        /\ ran' = [ran EXCEPT ![b] = @ + 1]
        /\ LET counted == [perBlock EXCEPT ![b] = @ + 1]
               scan == IF queue[b, r].users # {} THEN "event" ELSE "reserve" IN
           \/ /\ scan = "event" => Registry!Acquire(<<scan, b>>)
              /\ scan = "reserve" => UNCHANGED entry
              /\ \E x \in Slots :
                   /\ batches[x].at = "off"
                   /\ batches' = [batches EXCEPT ![x] =
                        [at |-> IF scan = "event" THEN "scan" ELSE "borrowers",
                         scan |-> scan, block |-> b]]
              /\ running' = running + 1
              /\ perBlock' = counted
              /\ UNCHANGED newest
           \/ \* another scan of the block has or had the lock: nothing is read
              /\ scan = "event" /\ Registry!Suppressed(<<scan, b>>)
              /\ perBlock' = Cleanup(counted, b)
              /\ newest' = Newest(b)
              /\ UNCHANGED <<running, batches>>
  /\ UNCHANGED <<fastLane, events>>

\* The finally of executeEventBatch; the fast lane counts nothing.
End(x) ==
  /\ batches' = [batches EXCEPT ![x] = Idle]
  /\ IF batches[x].at \in {"borrowers", "scan"}
       THEN /\ running' = running - 1
            /\ perBlock' = Cleanup(perBlock, batches[x].block)
            /\ newest' = Newest(batches[x].block)
       ELSE UNCHANGED <<perBlock, running, newest>>

\* The borrowers are known, and near-threshold ones verified: the recheck asks
\* for its lock; there may be no borrowers to recheck.
Borrowers(x) ==
  /\ batches[x].at \in {"borrowers", "laneBorrowers"}
  /\ LET scan == <<batches[x].scan, batches[x].block>> IN
     \/ /\ Registry!Acquire(scan)
        /\ batches' = [batches EXCEPT ![x].at =
                         IF @ = "borrowers" THEN "scan" ELSE "laneScan"]
        /\ UNCHANGED <<perBlock, running, newest>>
     \/ Registry!Suppressed(scan) /\ End(x)
     \/ UNCHANGED entry /\ End(x)
  /\ UNCHANGED <<queue, level, fastLane, ran, events>>

\* The scan is over, or the rate limiter refused it.  After a scan of a few
\* near-threshold borrowers the recheck of the others finds the key done.
ScanEnds(x) ==
  /\ batches[x].at \in {"scan", "laneScan"}
  /\ Registry!Release(<<batches[x].scan, batches[x].block>>)
  /\ End(x)
  /\ UNCHANGED <<queue, level, fastLane, ran, events>>

\* The ttl of a lock or of a completed scan is over.
LockLapses(k) ==
  /\ Registry!Lapse(k)
  /\ UNCHANGED <<queue, perBlock, running, level, batches, fastLane, ran, newest,
                 events>>

Next ==
  \/ \E b \in Blocks, r \in Reserves :
       \/ \E users \in SUBSET Users : Enqueue(b, r, users)
       \/ \E x \in Slots : FastLane(b, r, x) \/ Targeted(b, r, x)
       \/ Fire(b, r)
  \/ \E x \in Slots : TargetedEnds(x) \/ Borrowers(x) \/ ScanEnds(x)
  \/ \E k \in Scans : LockLapses(k)

Spec == Init /\ [][Next]_vars

-----------------------------------------------------------------------------
\* Properties.

\* A batch that runs holds one slot and gives it back on every way it can end,
\* and adapting the level never lets more than the highest level run.
SlotsReturned ==
  /\ running = Cardinality({x \in Slots : batches[x].at \in {"borrowers", "scan"}})
  /\ running <= MaxLevel

\* No block gets more than its share of batches, late ones included, as long as
\* the cleanup of a newer block may not have forgotten its count.
CapPerBlock ==
  \A b \in Blocks : b >= newest - Keep => ran[b] <= MaxPerBlock
=============================================================================
