----------------------------- MODULE PriceTrigger -----------------------------
(***************************************************************************)
(* The price trigger of services/RealTimeHFService.ts for one asset: the   *)
(* answers of its feeds, from events and from polls, the drop that         *)
(* triggers an emergency scan of the asset's users, the debounce, the      *)
(* jittered timer and the scan with its per-block and in-flight guards.    *)
(***************************************************************************)
EXTENDS Integers, FiniteSets

CONSTANTS
  Feeds,      \* the feeds whose symbol normalises to the asset
  Answers,    \* bound: prices
  DropBps,    \* getDropBps / priceTriggerDropBps
  Scans,      \* bound: emergency scans under way at one time
  MaxBlock,   \* bound: blocks
  MaxMoves    \* bound: price moves

TriggerAssumption ==
  /\ Answers \subseteq Nat \ {0} /\ IsFiniteSet(Answers) /\ Answers # {}
  /\ DropBps \in Nat
  /\ MaxBlock \in Nat \ {0} /\ MaxMoves \in Nat

VARIABLES
  cumulative, \* config.priceTriggerCumulative
  tip,        \* the newest block
  answer,     \* the newest answer of each feed
  polled,     \* per feed: an answer a poll has read and not yet processed; 0 is none
  baseline,   \* baselineAnswer; 0 is null
  last,       \* lastAnswer; 0 is null
  resting,    \* lastTriggerTs is less than the debounce ago
  timer,      \* priceTriggerDebounceTimers: the block of the waiting scan; 0 is none
  processed,  \* lastProcessedBlockBySymbol; 0 is none
  inFlight,   \* inFlightPriceTriggerBySymbol
  scans,      \* calls of executeEmergencyScan under way: their block, or 0
  anchor,     \* history: per feed, the answer first seen since the last connect or last
              \* triggered on; 0 is none
  moves       \* counter of the bound

vars == <<cumulative, tip, answer, polled, baseline, last, resting, timer, processed,
          inFlight, scans, anchor, moves>>

Blocks == 1 .. MaxBlock

TypeOK ==
  /\ cumulative \in BOOLEAN
  /\ tip \in Blocks
  /\ answer \in [Feeds -> Answers]
  /\ {polled, baseline, last, anchor} \subseteq [Feeds -> Answers \cup {0}]
  /\ resting \in [Feeds -> BOOLEAN]
  /\ timer \in 0 .. MaxBlock
  /\ processed \in 0 .. MaxBlock
  /\ inFlight \in BOOLEAN
  /\ scans \in [Scans -> 0 .. MaxBlock]
  /\ moves \in 0 .. MaxMoves

Init ==
  /\ cumulative \in BOOLEAN
  /\ tip = 1
  /\ answer \in [Feeds -> Answers]
  /\ polled = [f \in Feeds |-> 0]
  /\ baseline = [f \in Feeds |-> 0]
  /\ last = [f \in Feeds |-> 0]
  /\ resting = [f \in Feeds |-> FALSE]
  /\ timer = 0
  /\ processed = 0
  /\ inFlight = FALSE
  /\ scans = [s \in Scans |-> 0]
  /\ anchor = [f \in Feeds |-> 0]
  /\ moves = 0

-----------------------------------------------------------------------------
NewBlock ==
  /\ tip < MaxBlock
  /\ tip' = tip + 1
  /\ UNCHANGED <<cumulative, answer, polled, baseline, last, resting, timer, processed,
                 inFlight, scans, anchor, moves>>

Dropped(reference, a) == (reference - a) * 10000 > DropBps * reference

\* Mutant: in cumulative mode the baseline follows every answer.
ProcessFollowing(f, a, b) ==
  LET reference == IF cumulative THEN baseline[f] ELSE last[f] IN
  /\ last' = [last EXCEPT ![f] = a]
  /\ baseline' = [baseline EXCEPT ![f] = a]
  /\ IF baseline[f] = 0 \/ ~Dropped(reference, a) \/ resting[f]
       THEN /\ anchor' = IF baseline[f] = 0 THEN [anchor EXCEPT ![f] = a] ELSE anchor
            /\ UNCHANGED <<resting, timer>>
       ELSE /\ resting' = [resting EXCEPT ![f] = TRUE]
            /\ anchor' = [anchor EXCEPT ![f] = a]
            /\ timer' \in {timer, b}

\* processPriceUpdate of answer a at block b: the first answer is the baseline; a drop past the
\* threshold outside the debounce triggers, moves the baseline in cumulative
\* mode, and replaces the timer of the asset when there are users to scan.
ProcessPriceUpdate(f, a, b) ==
  LET reference == IF cumulative THEN baseline[f] ELSE last[f] IN
  /\ last' = [last EXCEPT ![f] = a]
  /\ \/ /\ baseline[f] = 0
        /\ baseline' = [baseline EXCEPT ![f] = a]
        /\ anchor' = [anchor EXCEPT ![f] = a]
        /\ UNCHANGED <<resting, timer>>
     \/ /\ baseline[f] # 0
        /\ ~Dropped(reference, a) \/ resting[f]
        /\ UNCHANGED <<baseline, resting, timer, anchor>>
     \/ /\ baseline[f] # 0
        /\ Dropped(reference, a) /\ ~resting[f]
        /\ resting' = [resting EXCEPT ![f] = TRUE]
        /\ baseline' = IF cumulative THEN [baseline EXCEPT ![f] = a] ELSE baseline
        /\ anchor' = [anchor EXCEPT ![f] = a]
        /\ timer' \in {timer, b}

\* The price moves; the event is handled, or missed by the subscription.
Move(f, a) ==
  /\ moves < MaxMoves
  /\ moves' = moves + 1
  /\ a # answer[f]
  /\ answer' = [answer EXCEPT ![f] = a]
  /\ \/ ProcessPriceUpdate(f, a, tip)
     \/ UNCHANGED <<baseline, last, resting, timer, anchor>>
  /\ UNCHANGED <<cumulative, tip, polled, processed, inFlight, scans>>

\* pollChainlinkFeeds reads the feed and processes the answer later, under the
\* block at which the poll of all feeds began.
PollRead(f) ==
  /\ polled[f] = 0
  /\ polled' = [polled EXCEPT ![f] = answer[f]]
  /\ UNCHANGED <<cumulative, tip, answer, baseline, last, resting, timer, processed,
                 inFlight, scans, anchor, moves>>

PollAnswer(f) ==
  /\ polled[f] # 0
  /\ polled' = [polled EXCEPT ![f] = 0]
  /\ \E b \in 1 .. tip : ProcessPriceUpdate(f, polled[f], b)
  /\ UNCHANGED <<cumulative, tip, answer, processed, inFlight, scans, moves>>

DebounceOver(f) ==
  /\ resting[f]
  /\ resting' = [resting EXCEPT ![f] = FALSE]
  /\ UNCHANGED <<cumulative, tip, answer, polled, baseline, last, timer, processed,
                 inFlight, scans, anchor, moves>>

\* setupRealtime after a reconnect forgets the answers of the feeds.
Resubscribe ==
  /\ \E f \in Feeds : baseline[f] # 0
  /\ baseline' = [f \in Feeds |-> 0]
  /\ last' = [f \in Feeds |-> 0]
  /\ resting' = [f \in Feeds |-> FALSE]
  /\ anchor' = [f \in Feeds |-> 0]
  /\ UNCHANGED <<cumulative, tip, answer, polled, timer, processed, inFlight, scans,
                 moves>>

\* The jitter is over: executeEmergencyScan.  Its finally clears the in-flight
\* flag also when a guard turned the scan away.
TimerFires ==
  /\ timer # 0
  /\ timer' = 0
  /\ IF timer = processed \/ inFlight
       THEN inFlight' = FALSE /\ UNCHANGED <<processed, scans>>
       ELSE /\ inFlight' = TRUE
            /\ processed' = timer
            /\ \E s \in Scans :
                 scans[s] = 0 /\ scans' = [scans EXCEPT ![s] = timer]
  /\ UNCHANGED <<cumulative, tip, answer, polled, baseline, last, resting, anchor, moves>>

ScanEnds(s) ==
  /\ scans[s] # 0
  /\ scans' = [scans EXCEPT ![s] = 0]
  /\ inFlight' = FALSE
  /\ UNCHANGED <<cumulative, tip, answer, polled, baseline, last, resting, timer,
                 processed, anchor, moves>>

Next ==
  \/ NewBlock \/ TimerFires \/ Resubscribe
  \/ \E f \in Feeds :
       \/ \E a \in Answers : Move(f, a)
       \/ PollRead(f) \/ PollAnswer(f) \/ DebounceOver(f)
  \/ \E s \in Scans : ScanEnds(s)

Spec == Init /\ [][Next]_vars

\* The polling interval and the timers run, and polls answer.
FairSpec ==
  /\ Spec
  /\ \A f \in Feeds :
       WF_vars(PollRead(f)) /\ WF_vars(PollAnswer(f)) /\ WF_vars(DebounceOver(f))

-----------------------------------------------------------------------------
\* Properties.

\* In cumulative mode a fall since the last trigger or reconnect that lasts is
\* triggered on, also when its event was missed or fell into the debounce.
Fallen(f) == anchor[f] # 0 /\ Dropped(anchor[f], answer[f])
LastingFallTriggers ==
  \A f \in Feeds : (cumulative /\ Fallen(f)) ~> ~Fallen(f)
=============================================================================
