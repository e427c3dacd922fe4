------------------------------ MODULE EdgeTrigger ------------------------------
(***************************************************************************)
(* When services/RealTimeHFService.ts announces one user as liquidatable:  *)
(* the scans, which ask shouldEmit after up to two awaited micro           *)
(* verifications, the micro verification itself, and the fast path of      *)
(* watched users, which keeps the same state by a threshold of its own.    *)
(* Health factors are scaled by 10^4 (one is 10000).                       *)
(***************************************************************************)
EXTENDS Integers, FiniteSets

CONSTANTS
  Hfs,        \* bound: health factors the user may have
  Threshold,  \* executionHfThresholdBps
  Band,       \* nearThresholdBandBps
  Hysteresis, \* hysteresisBps
  MaxBlock,   \* bound: blocks
  Flows,      \* bound: checks of the user under way at one time
  MaxChecks   \* bound: checks started

EdgeAssumption ==
  /\ Hfs \subseteq Nat \ {0} /\ IsFiniteSet(Hfs) /\ Hfs # {}
  /\ Threshold \in Nat /\ Band \in Nat /\ Hysteresis \in Nat
  /\ MaxBlock \in Nat \ {0} /\ MaxChecks \in Nat

One == 10000

VARIABLES
  tip,          \* the newest block
  hfAt,         \* the user's health factor at each block so far
  status,       \* userStates: "none", "safe" or "liq"
  lastHf,       \* the lastHf of userStates
  lastEmit,     \* lastEmitBlock; 0 is none
  seen,         \* the user is in seenUsersThisBlock
  headBlock,    \* currentBlockNumber; 0 is null
  near,         \* nearThresholdUsers: the health factor, 0 when absent
  flows,        \* batchCheckCandidates and checkWatchedUserFastpath under way
  emits,        \* history: announcements per block
  told,         \* history: announced since the status last became liq
  checks        \* counter of the bound

vars == <<tip, hfAt, status, lastHf, lastEmit, seen, headBlock, near, flows, emits,
          told, checks>>

Blocks == 1 .. MaxBlock

FlowState == [at: {"off", "scan", "sprinter", "micro", "watch", "publish"},
              block: 0 .. MaxBlock, hf: Hfs \cup {0}, crossed: BOOLEAN]
NoFlow == [at |-> "off", block |-> 0, hf |-> 0, crossed |-> FALSE]

TypeOK ==
  /\ tip \in Blocks
  /\ hfAt \in [Blocks -> Hfs \cup {0}]
  /\ status \in {"none", "safe", "liq"}
  /\ lastHf \in Hfs \cup {0}
  /\ lastEmit \in 0 .. MaxBlock
  /\ seen \in BOOLEAN
  /\ headBlock \in 0 .. MaxBlock
  /\ near \in Hfs \cup {0}
  /\ flows \in [Flows -> FlowState]
  /\ emits \in [Blocks -> Nat]
  /\ told \in BOOLEAN
  /\ checks \in 0 .. MaxChecks

Init ==
  /\ tip = 1
  /\ hfAt \in {[b \in Blocks |-> IF b = 1 THEN h ELSE 0] : h \in Hfs}
  /\ status = "none" /\ lastHf = 0
  /\ lastEmit = 0
  /\ seen = FALSE
  /\ headBlock = 0
  /\ near = 0
  /\ flows = [f \in Flows |-> NoFlow]
  /\ emits = [b \in Blocks |-> 0]
  /\ told = FALSE
  /\ checks = 0

-----------------------------------------------------------------------------
\* A block with a health factor of its own.
NewBlock ==
  /\ tip < MaxBlock
  /\ tip' = tip + 1
  /\ \E h \in Hfs : hfAt' = [hfAt EXCEPT ![tip + 1] = h]
  /\ UNCHANGED <<status, lastHf, lastEmit, seen, headBlock, near, flows, emits, told,
                 checks>>

\* A head check of block b begins: performHeadCheck clears the seen users.
HeadCheck(b) ==
  /\ b <= tip
  /\ headBlock # b
  /\ headBlock' = b
  /\ seen' = FALSE
  /\ UNCHANGED <<tip, hfAt, status, lastHf, lastEmit, near, flows, emits, told, checks>>

\* A scan of block b, of a head check or an event or a price, or the fast path.
Start(f, at, b) ==
  /\ checks < MaxChecks
  /\ checks' = checks + 1
  /\ flows[f].at = "off"
  /\ b <= tip
  /\ flows' = [flows EXCEPT ![f] = [NoFlow EXCEPT !.at = at, !.block = b]]
  /\ UNCHANGED <<tip, hfAt, status, lastHf, lastEmit, seen, headBlock, near, emits, told>>

Emit(b) ==
  /\ emits' = [emits EXCEPT ![b] = @ + 1]
  /\ told' = TRUE

Silent(s) ==
  /\ told' = IF s = "liq" /\ status # "liq" THEN FALSE ELSE told
  /\ UNCHANGED emits

Worsened(h) == (lastHf - h) * 10000 >= Hysteresis * lastHf

\* Mutant: the user's state is brought up to date before the block is compared.
ShouldEmitLate(h, b, last) ==
  LET liq == h < Threshold IN
  /\ status' = IF liq THEN "liq" ELSE "safe"
  /\ lastHf' = h
  /\ IF last # b /\ liq /\ (status # "liq" \/ Worsened(h))
       THEN Emit(b) /\ seen' = TRUE /\ lastEmit' = b
       ELSE Silent(status') /\ lastEmit' = last /\ UNCHANGED seen

\* shouldEmit, and the announcement in batchCheckCandidates, when the last
\* announcement was for block last: at most one per block, on becoming
\* liquidatable or after a fall since the last check.
ShouldEmit(h, b, last) ==
  IF last = b
    THEN lastEmit' = last /\ UNCHANGED <<status, lastHf, seen, emits, told>>
    ELSE LET liq == h < Threshold IN
         /\ status' = IF liq THEN "liq" ELSE "safe"
         /\ lastHf' = h
         /\ IF liq /\ (status # "liq" \/ Worsened(h))
              THEN Emit(b) /\ seen' = TRUE /\ lastEmit' = b
              ELSE Silent(status') /\ lastEmit' = last /\ UNCHANGED seen

\* The multicall answers with the state of its block: batchCheckCandidates up
\* to the sprinter's verification, whose answer is not used.
ScanRead(f) ==
  /\ flows[f].at = "scan"
  /\ flows' = IF seen THEN [flows EXCEPT ![f] = NoFlow]
              ELSE [flows EXCEPT ![f].at = "sprinter",
                                 ![f].hf = hfAt[flows[f].block]]
  /\ UNCHANGED <<tip, hfAt, status, lastHf, lastEmit, seen, headBlock, near, emits, told,
                 checks>>

\* maybeScheduleMicroVerify: a user near the threshold who worsens, or whose
\* history points below one, is verified; others are decided upon at once.
Schedule(f) ==
  LET h == flows[f].hf
      inBand == Threshold <= h /\ h <= Threshold + Band
      worsens == inBand /\ near # 0 /\ h < near IN
  /\ flows[f].at = "sprinter"
  /\ near' = IF inBand THEN h ELSE 0
  /\ \/ /\ flows' = [flows EXCEPT ![f].at = "micro"]
        /\ UNCHANGED <<status, lastHf, lastEmit, seen, emits, told>>
     \/ /\ ~worsens
        /\ flows' = [flows EXCEPT ![f] = NoFlow]
        /\ ShouldEmit(h, flows[f].block, lastEmit)
  /\ UNCHANGED <<tip, hfAt, headBlock, checks>>

\* The verification answers with the newest state, or not, and shouldEmit
\* decides on the older reading.
Verified(f) ==
  LET b == flows[f].block IN
  /\ flows[f].at = "micro"
  /\ flows' = [flows EXCEPT ![f] = NoFlow]
  /\ \/ ShouldEmit(flows[f].hf, b, lastEmit)
     \/ /\ hfAt[tip] < One /\ ~seen
        /\ Emit(b)
        /\ seen' = TRUE
        /\ lastEmit' = b
        /\ UNCHANGED <<status, lastHf>>
  /\ UNCHANGED <<tip, hfAt, headBlock, near, checks>>

\* checkWatchedUserFastpath: the user was not below one before.
Crossed(h) == h < One /\ status # "liq"

\* The fast path reads the newest state and keeps it; below the execution
\* threshold it awaits the publication before it announces.
WatchRead(f) ==
  LET h == hfAt[tip] IN
  /\ flows[f].at = "watch"
  /\ status' = IF h < One THEN "liq" ELSE "safe"
  /\ lastHf' = h
  /\ \/ /\ h < Threshold
        /\ flows' = [flows EXCEPT ![f] = [NoFlow EXCEPT !.at = "publish",
                                          !.block = flows[f].block, !.crossed = Crossed(h)]]
        /\ Silent(status')
     \/ /\ flows' = [flows EXCEPT ![f] = NoFlow]
        /\ IF Crossed(h) THEN Emit(flows[f].block) ELSE Silent(status')
  /\ UNCHANGED <<tip, hfAt, lastEmit, seen, headBlock, near, checks>>

\* The publication answered; a failed one answers false.
WatchPublished(f) ==
  /\ flows[f].at = "publish"
  /\ flows' = [flows EXCEPT ![f] = NoFlow]
  /\ IF flows[f].crossed THEN Emit(flows[f].block) ELSE UNCHANGED <<emits, told>>
  /\ UNCHANGED <<tip, hfAt, status, lastHf, lastEmit, seen, headBlock, near, checks>>

Next ==
  \/ NewBlock
  \/ \E b \in Blocks : HeadCheck(b)
  \/ \E f \in Flows :
       \/ \E b \in Blocks : Start(f, "scan", b) \/ Start(f, "watch", b)
       \/ ScanRead(f) \/ Schedule(f) \/ Verified(f) \/ WatchRead(f) \/ WatchPublished(f)

Spec == Init /\ [][Next]_vars

-----------------------------------------------------------------------------
\* Properties.

\* A user the service takes for liquidatable has been announced since becoming
\* so, or a fast path that awaits its publication is about to: scans and fast
\* paths that overlap never use up the edge without an announcement.
EdgeIsTold ==
  status = "liq" => told \/ \E f \in Flows : flows[f].at = "publish" /\ flows[f].crossed

\* "Never emit more than once per block per user".
OncePerBlock == \A b \in Blocks : emits[b] <= 1
=============================================================================
