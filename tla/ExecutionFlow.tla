----------------------------- MODULE ExecutionFlow -----------------------------
(***************************************************************************)
(* The first bot from an announced user to a mined transaction: the        *)
(* 'liquidatable' handler of index.ts and services/ExecutionService.ts.    *)
(* Every await is a place where other handlers run, so an execution is a   *)
(* record that moves from read to read.  A read answers any value of the   *)
(* moment, or fails; two reads of one price need not agree.  Amounts are   *)
(* in tokens, values in units of the oracle's prices, and the decimals of  *)
(* the tokens, which the code looks up again, are left out.                *)
(***************************************************************************)
EXTENDS Integers, FiniteSets

CONSTANTS
  Users,
  Handlers,     \* bound: handlers under way at one time
  Reserves,     \* the two reserves a user may hold
  Balances,     \* what a user may owe or own of a reserve
  Prices,       \* what the oracle may answer, 0 among them
  Hfs,          \* health factors a read may answer, in percent
  Bonus,        \* the liquidation bonus, in percent
  Preferred,    \* LIQUIDATION_DEBT_ASSETS
  TokenBound,   \* REALISTIC_MAX_TOKEN: amounts above it are taken for scaling errors
  DustMin,      \* DUST_MIN_USD; DustBase: EXECUTION_DUST_WEI
  DustBase,
  MinRepay, ProfitMin,  \* MIN_REPAY_USD, PROFIT_MIN_USD
  MaxBlock      \* bound: blocks followed

ASSUME FlowAssumption ==
  /\ Balances \subseteq Nat /\ Prices \subseteq Nat /\ Hfs \subseteq Nat
  /\ {Bonus, TokenBound, DustMin, DustBase, MinRepay, MaxBlock} \subseteq Nat
  /\ ProfitMin \in Nat \ {0}
  /\ Preferred \subseteq Reserves /\ Cardinality(Preferred) <= 1

VARIABLES
  lock,               \* executionInflightLock, fixed at the start
  mode,               \* "dry" (DRY_RUN_EXECUTION), "fixed50" or "full"
  tip,                \* block of the latest announcements
  lastNotifiedBlock,
  inflightExecutions,
  handlers

vars == <<lock, mode, tip, lastNotifiedBlock, inflightExecutions, handlers>>

Idle == [at |-> "idle"]
Steps == {"prepare", "notify", "health", "dust", "feed", "debt", "price", "collateral",
          "value", "route", "mine"}
Reads == {"feed", "debt", "price", "collateral", "value"}
\* What an execution has read so far and still needs; account: what the dust guard
\* read; unread: the reads it goes on without.
Handling == [at : Steps, user : Users, block : 0 .. MaxBlock,
             account : {"none", "healthy", "owning", "empty"}, total : Nat, amount : Nat,
             repay : Nat, expected : Nat, unread : SUBSET Reads]

TypeOK ==
  /\ lock \in BOOLEAN /\ mode \in {"dry", "fixed50", "full"}
  /\ tip \in 0 .. MaxBlock
  /\ lastNotifiedBlock \in [Users -> -1 .. MaxBlock]
  /\ inflightExecutions \subseteq Users
  /\ handlers \in [Handlers -> Handling \cup {Idle}]

Init ==
  /\ lock \in BOOLEAN
  /\ mode \in {"dry", "fixed50", "full"}
  /\ tip = 0
  /\ lastNotifiedBlock = [u \in Users |-> -1]
  /\ inflightExecutions = {}
  /\ handlers = [h \in Handlers |-> Idle]

-----------------------------------------------------------------------------
\* prepareActionableOpportunityWithReason, on what its reads answered.

Value(amount, price) == amount * price
WithBonus(x) == (x * (100 + Bonus)) \div 100

\* The preferred debt, or the one worth most.
SelectedDebt(holding, price) ==
  LET owed == {r \in Reserves : holding[r].debt > 0}
      worth(r) == Value(holding[r].debt, price[r])
  IN  IF owed \cap Preferred # {} THEN owed \cap Preferred
      ELSE {r \in owed : \A s \in owed : worth(s) <= worth(r)}
SelectedCollateral(holding, price) ==
  LET owned == {r \in Reserves : holding[r].collateral > 0}
      worth(r) == Value(holding[r].collateral, price[r])
  IN  {r \in owned : \A s \in owned : worth(s) <= worth(r)}

\* All of the debt under 95 percent of health, else half of it.
DebtToCover(total, hf) == IF hf < 95 THEN total ELSE total \div 2

\* Neither side is worth more than dust.
DustPlan(amount, price, owned, collateralPrice) ==
  LET seizable == WithBonus(amount)
      seized == IF seizable > owned THEN owned ELSE seizable
  IN  Value(amount, price) < DustMin /\ Value(seized, collateralPrice) < DustMin

\* The total debts of the plans that pass every guard; the answers may be stale by
\* the time they are used.
PlansOf(holding, price, hf) ==
  {holding[d].debt : d \in {d \in SelectedDebt(holding, price) :
     LET amount == DebtToCover(holding[d].debt, hf)
         usd == Value(amount, price[d])
     IN  \E c \in SelectedCollateral(holding, price) :
           /\ price[d] > 0 /\ price[c] > 0
           /\ amount <= TokenBound /\ holding[c].collateral <= TokenBound
           /\ ~DustPlan(amount, price[d], holding[c].collateral, price[c])
           /\ usd >= MinRepay /\ usd >= ProfitMin}}

Holdings == [Reserves -> [debt : Balances, collateral : Balances]]
Plans == UNION {PlansOf(h, p, hf) : h \in Holdings, p \in [Reserves -> Prices], hf \in Hfs}

-----------------------------------------------------------------------------
\* The handler.

\* A 'liquidatable' event: handled unless its user was notified of in its block.
OnLiquidatable(h, u) ==
  /\ handlers[h] = Idle
  /\ lastNotifiedBlock[u] # tip
  /\ handlers' = [handlers EXCEPT ![h] =
       [at |-> "prepare", user |-> u, block |-> tip, account |-> "none", total |-> 0,
        amount |-> 0, repay |-> 0, expected |-> 0, unread |-> {}]]
  /\ UNCHANGED <<lock, mode, tip, lastNotifiedBlock, inflightExecutions>>

\* Without a plan the handler ends; with one the block is noted and the
\* notification sent.
Prepared(h) ==
  LET flow == handlers[h] IN
  /\ flow.at = "prepare"
  /\ \/ /\ handlers' = [handlers EXCEPT ![h] = Idle]
        /\ UNCHANGED lastNotifiedBlock
     \/ \E total \in Plans :
          /\ handlers' = [handlers EXCEPT ![h].at = "notify", ![h].total = total]
          /\ lastNotifiedBlock' = [lastNotifiedBlock EXCEPT ![flow.user] = flow.block]
  /\ UNCHANGED <<lock, mode, tip, inflightExecutions>>

\* execute answers a dry run without a read.
DryRun == mode = "dry"

\* Mutant: the lock is looked at when the event comes in only.
NotifiedUnlocked(h) ==
  LET flow == handlers[h] IN
  /\ flow.at = "notify"
  /\ IF DryRun
       THEN handlers' = [handlers EXCEPT ![h] = Idle] /\ UNCHANGED inflightExecutions
       ELSE /\ handlers' = [handlers EXCEPT ![h].at = "health"]
            /\ inflightExecutions' = inflightExecutions \cup {flow.user}
  /\ UNCHANGED <<lock, mode, tip, lastNotifiedBlock>>

\* The notification is sent: the lock is taken and execute begins, which a dry run
\* answers at once.
Notified(h) ==
  LET flow == handlers[h]
      refused == lock /\ flow.user \in inflightExecutions
  IN
  /\ flow.at = "notify"
  /\ IF refused
       THEN handlers' = [handlers EXCEPT ![h] = Idle] /\ UNCHANGED inflightExecutions
       ELSE IF DryRun
       THEN /\ handlers' = [handlers EXCEPT ![h] = Idle]
            /\ inflightExecutions' = inflightExecutions \ {flow.user}
       ELSE /\ handlers' = [handlers EXCEPT ![h].at = "health"]
            /\ inflightExecutions' = inflightExecutions \cup {flow.user}
  /\ UNCHANGED <<lock, mode, tip, lastNotifiedBlock>>

-----------------------------------------------------------------------------
\* execute, read by read.

\* Mutant: only a mined transaction gives the lock back.
EndsKeeping(h) ==
  /\ handlers' = [handlers EXCEPT ![h] = Idle]
  /\ inflightExecutions' = IF handlers[h].at = "mine"
                             THEN inflightExecutions \ {handlers[h].user}
                             ELSE inflightExecutions

\* execute returns or throws: the lock is given back in the finally.
Ends(h) ==
  /\ handlers' = [handlers EXCEPT ![h] = Idle]
  /\ inflightExecutions' = inflightExecutions \ {handlers[h].user}

GoesOn(h, flow) ==
  handlers' = [handlers EXCEPT ![h] = flow] /\ UNCHANGED inflightExecutions

\* checkAaveHealthFactor: a user that is healthy, owes nothing or could not be read
\* is left alone; a failed read says "liquidatable" with a debt of zero.
CheckAaveHealthFactor(h) ==
  LET flow == handlers[h] IN
  /\ flow.at = "health"
  /\ \/ Ends(h)
     \/ /\ \E hf \in Hfs : hf < 100
        /\ GoesOn(h, [flow EXCEPT !.at = "dust"])
  /\ UNCHANGED <<lock, mode, tip, lastNotifiedBlock>>

\* The account once more: with the health factor still under 1, dust on both sides
\* ends the execution, and so does a failed read.
CheckDust(h) ==
  LET flow == handlers[h] IN
  /\ flow.at = "dust"
  /\ \/ Ends(h)
     \/ \E debt, collateral \in Balances, hf \in Hfs :
          LET account == IF hf >= 100 THEN "healthy"
                         ELSE IF collateral > 0 THEN "owning" ELSE "empty"
          IN  /\ hf < 100 => debt >= DustBase \/ collateral >= DustBase
              /\ GoesOn(h, [flow EXCEPT !.at = "feed", !.account = account])
  /\ UNCHANGED <<lock, mode, tip, lastNotifiedBlock>>

\* The ETH/USD feed values the collateral: a value of zero under a health factor of 1
\* ends the execution. A feed that cannot be read is warned of and this guard skipped.
CheckCollateralUsd(h) ==
  LET flow == handlers[h]
      next(unread) ==
        GoesOn(h, [flow EXCEPT !.at = "debt", !.account = "none", !.unread = unread])
  IN
  /\ flow.at = "feed"
  /\ \/ \E price \in Prices :
          IF flow.account = "empty" \/ (flow.account = "owning" /\ price = 0)
            THEN Ends(h) ELSE next({})
     \/ next({"feed"})
  /\ UNCHANGED <<lock, mode, tip, lastNotifiedBlock>>

\* calculateDebtToCover: the debt of now, or the plan's when it cannot be read, all
\* or half of it, and a first estimate of its value, 0 when there is no price.
CalculateDebtToCover(h) ==
  LET flow == handlers[h]
      share(total) == IF mode = "full" THEN total ELSE total \div 2
      next(total, price, unread) ==
        IF share(total) = 0 THEN Ends(h)
        ELSE GoesOn(h, [flow EXCEPT !.at = "price", !.total = 0, !.amount = share(total),
                          !.repay = Value(share(total), price),
                          !.unread = @ \cup unread])
  IN
  /\ flow.at = "debt"
  /\ \E price \in Prices \cup {0} :
       \/ \E total \in Balances : next(total, price, {})
       \/ next(flow.total, price, {"debt"})
  /\ UNCHANGED <<lock, mode, tip, lastNotifiedBlock>>

\* The debt's price: without one the first estimate stays, and nothing is expected.
ReadDebtPrice(h) ==
  LET flow == handlers[h] IN
  /\ flow.at = "price"
  /\ IF flow.amount > TokenBound THEN Ends(h)
     ELSE \/ \E price \in Prices :
               GoesOn(h, [flow EXCEPT !.at = "collateral", !.amount = 0,
                            !.repay = Value(flow.amount, price),
                            !.expected = WithBonus(Value(flow.amount, price))])
          \/ GoesOn(h, [flow EXCEPT !.at = "collateral", !.amount = 0,
                            !.unread = @ \cup {"price"}])
  /\ UNCHANGED <<lock, mode, tip, lastNotifiedBlock>>

\* The collateral that is worth as much; without a price, or with one of zero, the
\* opportunity's collateralAmountRaw, which the handler always sets to 0.
ReadCollateralPrice(h) ==
  LET flow == handlers[h]
      next(expected, unread) ==
        IF expected > TokenBound THEN Ends(h)
        ELSE GoesOn(h, [flow EXCEPT !.at = "value", !.expected = expected,
                          !.unread = @ \cup unread])
  IN
  /\ flow.at = "collateral"
  /\ \/ \E price \in Prices \ {0} : next(flow.expected \div price, {})
     \/ next(0, {"collateral"})
  /\ UNCHANGED <<lock, mode, tip, lastNotifiedBlock>>

\* Mutant: a seized value that is not known passes.
CheckProfitLoosely(h) ==
  LET flow == handlers[h] IN
  /\ flow.at = "value"
  /\ \/ \E price \in Prices :
          IF Value(flow.expected, price) - flow.repay < ProfitMin THEN Ends(h)
          ELSE GoesOn(h, [flow EXCEPT !.at = "route"])
     \/ GoesOn(h, [flow EXCEPT !.at = "route", !.unread = @ \cup {"value"}])
  /\ UNCHANGED <<lock, mode, tip, lastNotifiedBlock>>

\* The value of what is seized, 0 without a price, and the profit guard.
CheckProfit(h) ==
  LET flow == handlers[h]
      next(seized, unread) ==
        IF seized - flow.repay < ProfitMin THEN Ends(h)
        ELSE GoesOn(h, [flow EXCEPT !.at = "route", !.repay = 0, !.unread = @ \cup unread])
  IN
  /\ flow.at = "value"
  /\ \/ \E price \in Prices : next(Value(flow.expected, price), {})
     \/ next(0, {"value"})
  /\ UNCHANGED <<lock, mode, tip, lastNotifiedBlock>>

\* 1inch quotes amounts above zero.
Quotable(amount) == amount > 0

\* The 1inch route and the transaction; the Uniswap quote is not used.
Submit(h) ==
  LET flow == handlers[h] IN
  /\ flow.at = "route"
  /\ \/ Ends(h)
     \/ /\ Quotable(flow.expected)
        /\ GoesOn(h, [flow EXCEPT !.at = "mine"])
  /\ UNCHANGED <<lock, mode, tip, lastNotifiedBlock>>

\* tx.wait() answers: mined, reverted or dropped.
Mined(h) ==
  /\ handlers[h].at = "mine"
  /\ Ends(h)
  /\ UNCHANGED <<lock, mode, tip, lastNotifiedBlock>>

NewBlock ==
  /\ tip < MaxBlock
  /\ tip' = tip + 1
  /\ UNCHANGED <<lock, mode, lastNotifiedBlock, inflightExecutions, handlers>>

ExecuteStep(h) ==
  \/ Prepared(h) \/ Notified(h) \/ CheckAaveHealthFactor(h) \/ CheckDust(h)
  \/ CheckCollateralUsd(h) \/ CalculateDebtToCover(h) \/ ReadDebtPrice(h)
  \/ ReadCollateralPrice(h) \/ CheckProfit(h) \/ Submit(h)

Next ==
  \/ NewBlock
  \/ \E h \in Handlers : ExecuteStep(h) \/ Mined(h) \/ \E u \in Users : OnLiquidatable(h, u)

Spec == Init /\ [][Next]_vars

\* Awaited reads answer or fail.  That a transaction is ever mined is not assumed:
\* tx.wait() has no timeout.
FairSpec == Spec /\ \A h \in Handlers : WF_vars(ExecuteStep(h))

-----------------------------------------------------------------------------
\* Properties.

Executing(u) == {h \in Handlers : handlers[h] # Idle /\ handlers[h].user = u
                                    /\ handlers[h].at \notin {"prepare", "notify"}}

\* "Execute if enabled and not already in-flight": with the lock on, a user has one
\* execution at a time, though events of several blocks are handled at once, and the
\* lock is held by executions only.
OneExecutionPerUser ==
  lock => \A u \in Users : /\ Cardinality(Executing(u)) <= 1
                           /\ u \in inflightExecutions <=> Executing(u) # {}

\* No transaction goes out on a guess of what it trades: every fallback of a price of
\* the debt or of the collateral that could not be read (the first estimate, an amount
\* of zero, a value of zero) ends in a refusal further down. The code does go on with
\* the plan's debt, and without the ETH/USD feed, which values the account as a whole:
\* then nothing refuses an account read with no collateral at all.
NeverBlind ==
  \A h \in Handlers :
    handlers[h].at \in {"route", "mine"} => handlers[h].unread \subseteq {"feed", "debt"}

\* An execution that begins gives its user free again, on every path out of it, or
\* waits for its transaction.
Mining(u) == \E h \in Handlers : handlers[h].at = "mine" /\ handlers[h].user = u
UsersAreFreed ==
  \A u \in Users : u \in inflightExecutions ~> u \notin inflightExecutions \/ Mining(u)
=============================================================================
