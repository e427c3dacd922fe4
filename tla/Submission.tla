------------------------------- MODULE Submission -------------------------------
(***************************************************************************)
(* How the first bot's fast path sends a signed transaction:               *)
(* execution/ExecutionRpcPool.ts and execution/TxSubmitter.ts,             *)
(* exec/fastpath/WriteRacer.ts, the replacements of                        *)
(* exec/fastpath/GasBurstManager.ts, the reverts that                      *)
(* OptimisticExecutor.ts and ReversionBudget.ts allow in a day, and        *)
(* MultiKeyManager.ts.                                                     *)
(***************************************************************************)
EXTENDS Integers, Sequences, FiniteSets, Functions

CONSTANTS
  Publics,       \* the public endpoints, in their order
  Relay,         \* the private one
  Submissions, Modes,   \* transactions of TxSubmitter, and the modes it may be in
  Races,         \* transactions of WriteRacer
  Bursts,        \* transactions of GasBurstManager
  MaxBumps,
  Optimists,     \* transactions sent without a check
  MaxReverts,
  Keys,          \* number of executor keys
  Days           \* bound

Endpoints == Range(Publics) \cup {Relay}
Stages == {"first", "second"}

SubmissionAssumption ==
  /\ Publics \in Seq(Endpoints) /\ Len(Publics) > 0
  /\ Modes \subseteq {"public", "private", "race", "bundle"}
  /\ {MaxBumps, MaxReverts, Keys, Days} \subseteq Nat \ {0}

VARIABLES
  healthy,       \* endpoints that are not marked unhealthy
  submission,    \* of each: its state, who was asked and did not answer, who accepted it
  race,          \* the same of WriteRacer's
  burst,         \* of each transaction: whether it is tracked, bumpCount, its gas price in
                 \* steps, and the price of the one that was mined
  bump,          \* of each transaction and stage: where it is, and the price it computed
  revertCount, lastResetDate, day,
  optimist,      \* where each optimistic transaction is
  currentIndex

pool == <<healthy, submission>>
burstVars == <<burst, bump>>
budget == <<revertCount, lastResetDate, day, optimist, currentIndex>>
vars == <<pool, race, burstVars, budget>>

Outcomes == {"unsent", "sent", "won", "failed"}
Sends == [pc : Outcomes, open : SUBSET Endpoints, accepted : SUBSET Endpoints]
Unsent == [pc |-> "unsent", open |-> {}, accepted |-> {}]
NotMined == 0 - 1

\* Both timers may pass the check of maxBumps before either replacement is taken.
BumpPrices == 0 .. MaxBumps + 1

TypeOK ==
  /\ healthy \subseteq Endpoints
  /\ submission \in [Submissions -> Sends] /\ race \in [Races -> Sends]
  /\ burst \in [Bursts -> [tracked : BOOLEAN, bumps : BumpPrices, price : BumpPrices,
                          mined : {NotMined} \cup BumpPrices]]
  /\ bump \in [Bursts \X Stages -> [pc : {"idle", "waiting", "asking", "sending"},
                                   price : BumpPrices]]
  /\ revertCount \in Nat /\ {day, lastResetDate} \subseteq 1 .. Days
  /\ optimist \in [Optimists -> {"unsent", "sent", "over"}]
  /\ currentIndex \in 0 .. Keys - 1

Init ==
  /\ healthy = Endpoints
  /\ submission = [s \in Submissions |-> Unsent] /\ race = [r \in Races |-> Unsent]
  /\ burst = [b \in Bursts |-> [tracked |-> FALSE, bumps |-> 0, price |-> 0, mined |-> NotMined]]
  /\ bump = [x \in Bursts \X Stages |-> [pc |-> "idle", price |-> 0]]
  /\ revertCount = 0 /\ lastResetDate = 1 /\ day = 1
  /\ optimist = [o \in Optimists |-> "unsent"]
  /\ currentIndex = 0

-----------------------------------------------------------------------------
\* ExecutionRpcPool and TxSubmitter.

\* getPublicWriteEndpoints: the first of the healthy ones, if there is one.
FirstHealthy ==
  {Publics[n] : n \in {m \in DOMAIN Publics :
     Publics[m] \in healthy /\ \A i \in 1 .. m - 1 : Publics[i] \notin healthy}}

\* And getPrivateRelayEndpoint: whom a mode asks.
Asked(mode) ==
  CASE mode = "public" -> FirstHealthy
    [] mode = "private" -> {Relay} \cap healthy
    [] OTHER -> healthy

\* submitTransaction.
Submit(s, mode) ==
  /\ submission[s].pc = "unsent"
  /\ submission' = [submission EXCEPT ![s].pc = IF Asked(mode) = {} THEN "failed" ELSE "sent",
                                      ![s].open = Asked(mode)]
  /\ UNCHANGED <<healthy, race, burstVars, budget>>

\* An endpoint answers: the first answer decides, an error too, and only an error that
\* decides marks its endpoint.
Settled(x, e, ok) ==
  [x EXCEPT !.pc = IF @ = "sent" THEN IF ok THEN "won" ELSE "failed" ELSE @,
            !.open = @ \ {e},
            !.accepted = IF ok THEN @ \cup {e} ELSE @]

Answer(s, e, ok) ==
  /\ e \in submission[s].open
  /\ submission' = [submission EXCEPT ![s] = Settled(@, e, ok)]
  /\ healthy' = IF submission[s].pc = "sent" /\ ~ok THEN healthy \ {e} ELSE healthy
  /\ UNCHANGED <<race, burstVars, budget>>

\* markHealthy.
MarkHealthy(e) ==
  /\ healthy' = healthy \cup {e}
  /\ UNCHANGED <<submission, race, burstVars, budget>>

-----------------------------------------------------------------------------
\* WriteRacer.
BroadcastTransaction(r) ==
  /\ race[r].pc = "unsent"
  /\ race' = [race EXCEPT ![r].pc = "sent", ![r].open = Range(Publics)]
  /\ UNCHANGED <<pool, burstVars, budget>>

RaceAnswer(r, e, ok) ==
  /\ e \in race[r].open
  /\ race' = [race EXCEPT ![r] = Settled(@, e, ok)]
  /\ UNCHANGED <<pool, burstVars, budget>>

RaceTimesOut(r) ==
  /\ race[r].pc = "sent"
  /\ race' = [race EXCEPT ![r].pc = "failed"]
  /\ UNCHANGED <<pool, burstVars, budget>>

-----------------------------------------------------------------------------
\* GasBurstManager: both timers are set when a transaction is tracked, and its
\* replacements are filed under the hash of the first.
TrackTransaction(b) ==
  /\ bump[b, "first"].pc = "idle" /\ bump[b, "second"].pc = "idle"
  /\ ~burst[b].tracked /\ burst[b].mined = NotMined
  /\ burst' = [burst EXCEPT ![b].tracked = TRUE]
  /\ bump' = [bump EXCEPT ![<<b, "first">>].pc = "waiting", ![<<b, "second">>].pc = "waiting"]
  /\ UNCHANGED <<pool, race, budget>>

\* checkAndBump up to the receipt: the second timer is the later one.
CheckAndBump(b, stage) ==
  /\ bump[b, stage].pc = "waiting"
  /\ stage = "second" => bump[b, "first"].pc # "waiting"
  /\ bump' = [bump EXCEPT ![<<b, stage>>].pc =
                IF burst[b].tracked /\ burst[b].bumps < MaxBumps THEN "asking" ELSE "idle"]
  /\ UNCHANGED <<pool, race, burst, budget>>

\* The receipt of the first hash is answered, or not to be had: a replacement that was
\* mined is not seen.
ReceiptAnswered(b, stage, failed) ==
  /\ bump[b, stage].pc = "asking"
  /\ IF burst[b].mined = 0 /\ ~failed
     THEN /\ burst' = [burst EXCEPT ![b].tracked = FALSE]
          /\ bump' = [bump EXCEPT ![<<b, stage>>].pc = "idle"]
     ELSE /\ bump' = [bump EXCEPT ![<<b, stage>>] = [pc |-> "sending", price |-> burst[b].price + 1]]
          /\ UNCHANGED burst
  /\ UNCHANGED <<pool, race, budget>>

\* The replacement is refused, or taken if it outbids what was taken before.
BumpSent(b, stage, taken) ==
  /\ bump[b, stage].pc = "sending"
  /\ taken => burst[b].mined = NotMined /\ bump[b, stage].price > burst[b].price
  /\ burst' = IF taken THEN [burst EXCEPT ![b].bumps = @ + 1, ![b].price = bump[b, stage].price]
                       ELSE burst
  /\ bump' = [bump EXCEPT ![<<b, stage>>] = [pc |-> "idle", price |-> 0]]
  /\ UNCHANGED <<pool, race, budget>>

ConfirmTransaction(b) ==
  /\ burst' = [burst EXCEPT ![b].tracked = FALSE]
  /\ UNCHANGED <<pool, race, bump, budget>>

\* One of the prices that were taken is mined.
Mined(b, price) ==
  /\ burst[b].tracked /\ burst[b].mined = NotMined /\ price <= burst[b].price
  /\ burst' = [burst EXCEPT ![b].mined = price]
  /\ UNCHANGED <<pool, race, bump, budget>>

-----------------------------------------------------------------------------
\* ReversionBudget and OptimisticExecutor: checkAndResetIfNeeded in each.
Reverts == IF day # lastResetDate THEN 0 ELSE revertCount

\* shouldExecuteOptimistic: the transactions that are out are not counted.
ShouldExecuteOptimistic(o, below) ==
  /\ optimist[o] = "unsent"
  /\ revertCount' = Reverts /\ lastResetDate' = day
  /\ optimist' = IF below /\ Reverts < MaxReverts THEN [optimist EXCEPT ![o] = "sent"] ELSE optimist
  /\ UNCHANGED <<pool, race, burstVars, day, currentIndex>>

\* verifyPostExecution: a revert is counted on the day it is found, and one whose check
\* fails is not.
VerifyPostExecution(o, reverted) ==
  /\ optimist[o] = "sent" /\ optimist' = [optimist EXCEPT ![o] = "over"]
  /\ IF reverted THEN revertCount' = Reverts + 1 /\ lastResetDate' = day
                 ELSE UNCHANGED <<revertCount, lastResetDate>>
  /\ UNCHANGED <<pool, race, burstVars, day, currentIndex>>

\* MultiKeyManager.selectKey, in turn.
SelectKey ==
  /\ currentIndex' = (currentIndex + 1) % Keys
  /\ UNCHANGED <<pool, race, burstVars, revertCount, lastResetDate, day, optimist>>

NewDay ==
  /\ day < Days /\ day' = day + 1
  /\ UNCHANGED <<pool, race, burstVars, revertCount, lastResetDate, optimist, currentIndex>>

-----------------------------------------------------------------------------
PoolStep ==
  \/ \E s \in Submissions :
       \/ \E mode \in Modes : Submit(s, mode)
       \/ \E e \in Endpoints, ok \in BOOLEAN : Answer(s, e, ok)
  \/ \E e \in Endpoints : MarkHealthy(e)

RaceStep ==
  \E r \in Races :
    \/ BroadcastTransaction(r)
    \/ \E e \in Endpoints, ok \in BOOLEAN : RaceAnswer(r, e, ok)
    \/ RaceTimesOut(r)

BurstStep ==
  \E b \in Bursts :
    \/ TrackTransaction(b) \/ ConfirmTransaction(b)
    \/ \E stage \in Stages :
         \/ CheckAndBump(b, stage)
         \/ \E x \in BOOLEAN : ReceiptAnswered(b, stage, x) \/ BumpSent(b, stage, x)
    \/ \E price \in BumpPrices : Mined(b, price)

BudgetStep ==
  \/ \E o \in Optimists, x \in BOOLEAN : ShouldExecuteOptimistic(o, x) \/ VerifyPostExecution(o, x)
  \/ SelectKey \/ NewDay

Next == PoolStep \/ RaceStep \/ BurstStep \/ BudgetStep

Spec == Init /\ [][Next]_vars
=============================================================================
