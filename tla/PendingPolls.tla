------------------------------ MODULE PendingPolls ------------------------------
(***************************************************************************)
(* services/RealTimeHFService.ts with Flashblocks: the pending block is    *)
(* asked for again and again, after a tick that grows while the provider   *)
(* answers that it is asked too much, as the chunks of a multicall shrink. *)
(* Every connection that is set up starts a loop of its own.               *)
(***************************************************************************)
EXTENDS Integers

CONSTANTS
  BaseTick,    \* flashblocksTickMs
  BatchSize,   \* multicallBatchSize
  Reconnects   \* bound: connections set up after the first

MinChunk == 50   \* the 50 of handleRateLimit

PendingPollsAssumption ==
  /\ BaseTick \in Nat \ {0} /\ BatchSize \in Nat /\ BatchSize >= MinChunk
  /\ Reconnects \in Nat

VARIABLES
  connected, reconnects, isShuttingDown,
  waiting, polling,       \* loops that wait for their timer, and for an answer
  currentChunkSize, currentPendingTickMs,
  consecutiveRateLimits   \* 2 for more: the code asks for two or more

loops == <<waiting, polling>>
pace == <<currentChunkSize, currentPendingTickMs, consecutiveRateLimits>>
vars == <<connected, reconnects, isShuttingDown, loops, pace>>

TypeOK ==
  /\ {connected, isShuttingDown} \subseteq BOOLEAN /\ reconnects \in 0 .. Reconnects
  /\ waiting \in 0 .. Reconnects + 1 /\ polling \in 0 .. Reconnects + 1
  /\ currentChunkSize \in MinChunk .. BatchSize
  /\ currentPendingTickMs \in BaseTick .. 4 * BaseTick
  /\ consecutiveRateLimits \in 0 .. 2

Init ==
  /\ connected = TRUE /\ reconnects = 0 /\ isShuttingDown = FALSE
  /\ waiting = 1 /\ polling = 0
  /\ currentChunkSize = BatchSize /\ currentPendingTickMs = BaseTick
  /\ consecutiveRateLimits = 0

Least(a, b) == IF a < b THEN a ELSE b
Most(a, b) == IF a > b THEN a ELSE b

-----------------------------------------------------------------------------
\* The timer of a loop: a loop that finds no provider ends here.
PollFires ==
  /\ waiting > 0 /\ waiting' = waiting - 1
  /\ polling' = IF isShuttingDown \/ ~connected THEN polling ELSE polling + 1
  /\ UNCHANGED <<connected, reconnects, isShuttingDown, pace>>

\* Answered, checked or failed, it sets its timer again.
PollEnds ==
  /\ polling > 0 /\ polling' = polling - 1
  /\ waiting' = IF isShuttingDown THEN waiting ELSE waiting + 1
  /\ UNCHANGED <<connected, reconnects, isShuttingDown, pace>>

\* The provider goes, and setupRealtime runs with the next one.
Disconnect ==
  /\ connected /\ ~isShuttingDown /\ reconnects < Reconnects
  /\ connected' = FALSE
  /\ UNCHANGED <<reconnects, isShuttingDown, loops, pace>>

SetUp ==
  /\ ~connected /\ ~isShuttingDown
  /\ connected' = TRUE /\ reconnects' = reconnects + 1
  /\ waiting' = waiting + 1
  /\ UNCHANGED <<isShuttingDown, polling, pace>>

\* stop clears the timer that was set last.
Stop ==
  /\ ~isShuttingDown /\ isShuttingDown' = TRUE
  /\ waiting' = Most(0, waiting - 1)
  /\ UNCHANGED <<connected, reconnects, polling, pace>>

-----------------------------------------------------------------------------
\* handleRateLimit, after a chunk refused with an error that isRateLimitError knows.
ChunkLimited ==
  /\ ~isShuttingDown
  /\ consecutiveRateLimits' = Least(2, consecutiveRateLimits + 1)
  /\ IF consecutiveRateLimits >= 1
     THEN /\ currentChunkSize' = Most(MinChunk, (currentChunkSize * 67) \div 100)
          /\ currentPendingTickMs' = Least(4 * BaseTick, 2 * currentPendingTickMs)
     ELSE UNCHANGED <<currentChunkSize, currentPendingTickMs>>
  /\ UNCHANGED <<connected, reconnects, isShuttingDown, loops>>

\* clearRateLimitTracking, after a chunk that was answered: one step back, by the first
\* answer after a refusal only.
ChunkAnswered ==
  /\ ~isShuttingDown
  /\ IF consecutiveRateLimits > 0
     THEN /\ consecutiveRateLimits' = 0
          /\ currentChunkSize' = Least(BatchSize, currentChunkSize + 10)
          /\ currentPendingTickMs' = Most(BaseTick, (currentPendingTickMs * 4) \div 5)
     ELSE UNCHANGED pace
  /\ UNCHANGED <<connected, reconnects, isShuttingDown, loops>>

Next ==
  \/ PollFires \/ PollEnds \/ Disconnect \/ SetUp \/ Stop
  \/ ChunkLimited \/ ChunkAnswered

Spec == Init /\ [][Next]_vars

\* A running program goes on reading chunks, and its provider answers in the end.
Fairness == WF_vars(ChunkAnswered)

FairSpec == Spec /\ Fairness

-----------------------------------------------------------------------------
\* "Gradually restores interval when operations succeed", "Gradually restores chunk
\* size": while no chunk is refused any more the pace is the configured one again.
PaceRecovers ==
  []~isShuttingDown /\ <>[][~ChunkLimited]_vars =>
    <>[](currentPendingTickMs = BaseTick /\ currentChunkSize = BatchSize)
=============================================================================
