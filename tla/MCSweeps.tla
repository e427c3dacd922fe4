------------------------------- MODULE MCSweeps -------------------------------
(***************************************************************************)
(* The head checks, their page and the event batches of                    *)
(* RealTimeHFService for TLC.  A behaviour follows one of them, component, *)
(* and the others stay where they start; the scan keys of the head checks  *)
(* and of the events are different keys, so neither waits for the other.   *)
(***************************************************************************)
EXTENDS HeadSweep

CONSTANTS
  Totals, Sample, MinPage, MaxPage, HotSets,      \* HeadPage
  Reserves, Slots, BatchBlocks, MaxPerBlock,      \* EventBatches
  Keep, MinLevel, MaxLevel, MaxEvents

VARIABLES
  component,
  total, rotating, pageSize, watched, advanced,
  queue, perBlock, running, level, batches, eventEntry, fastLane, ran, newest, events

Page == INSTANCE HeadPage
Batches == INSTANCE EventBatches WITH MaxBlock <- BatchBlocks, entry <- eventEntry

ASSUME PartAssumptions == Page!PageAssumption /\ Batches!BatchAssumption

pageVars == <<total, rotating, pageSize, watched, advanced>>
batchVars == <<queue, perBlock, running, level, batches, eventEntry, fastLane, ran,
               newest, events>>
sweepVars == <<component, vars, pageVars, batchVars>>

SweepsInit ==
  /\ component \in {"heads", "page", "batches"}
  /\ Init
  /\ Page!Init
  /\ component # "page" => total = (CHOOSE n \in Totals : TRUE) /\ pageSize = MinPage /\ watched = 0
  /\ Batches!Init
  /\ component # "batches" => fastLane = FALSE

\* A step of one component leaves the variables of the others alone.
FollowHeads == component = "heads" /\ UNCHANGED <<component, pageVars, batchVars>>
FollowPage == component = "page" /\ UNCHANGED <<component, vars, batchVars>>
FollowBatches == component = "batches" /\ UNCHANGED <<component, vars, pageVars>>

SweepsNext ==
  \/ FollowHeads /\ Next
  \/ FollowPage /\ Page!Next
  \/ FollowBatches /\ Batches!Next

\* With the fairness of HeadSweep's FairSpec.
SweepsSpec ==
  /\ SweepsInit /\ [][SweepsNext]_sweepVars
  /\ WF_sweepVars(FollowHeads /\ Stall)
  /\ WF_sweepVars(FollowHeads /\ Watchdog)
  /\ \A l \in Loops : WF_sweepVars(FollowHeads /\ LoopStep(l))

-----------------------------------------------------------------------------
\* The properties; those of HeadSweep are stated there.

\* HeadPage: no candidate is passed over by the rotating page.
RotationCovers == Page!RotationCovers

\* EventBatches: every way out of a batch gives its slot back, and a block keeps to
\* its share of batches while the limit adapts.
BatchesKeepLimits == Batches!SlotsReturned /\ Batches!CapPerBlock
=============================================================================
