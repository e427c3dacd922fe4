-------------------------- MODULE LiquidationExecutor --------------------------
(***************************************************************************)
(* contracts/src/LiquidationExecutor.sol: one liquidation borrows the debt *)
(* asset from the Balancer vault, repays a debt on Aave, sells the seized  *)
(* collateral through the router, repays the loan and pays the rest out.   *)
(*                                                                         *)
(* A transaction is atomic: a call that reverts is a call that does not    *)
(* happen, so a guard of an action is a revert of the code.  The tokens    *)
(* the contract holds are kept per asset.  The vault, Aave and the router  *)
(* are external: what a call of theirs moves is chosen by \E.  Only flash  *)
(* loans the contract asked for itself are modelled.                       *)
(***************************************************************************)
EXTENDS Integers

CONSTANTS
  Accounts,       \* owners and payout addresses
  Deployer,
  Contracts,      \* addresses of vaults, pools and routers
  Zero,           \* address(0)
  Assets,
  MaxUnits,       \* bound: units of an asset that are ever held or moved
  MaxFee,         \* bound: what the vault asks for a loan
  NoEvent

ExecutorAssumption ==
  /\ Zero \notin Accounts \cup Contracts
  /\ Deployer \in Accounts
  /\ MaxUnits \in Nat
  /\ MaxFee \in Nat

VARIABLES
  owner, balancerVault, aavePool, oneInchRouter, payoutDefault,
  paused,
  whitelistedAssets,  \* the assets mapped to true
  held,               \* per asset: the contract's own balance
  event               \* history: the liquidation just executed, or NoEvent

links == <<balancerVault, aavePool, oneInchRouter>>
config == <<owner, links, payoutDefault, paused, whitelistedAssets>>
vars == <<config, held, event>>

Units == 0 .. MaxUnits

\* LiquidationExecuted, the parameters of the call, and what the router paid.
Event == [debtAsset : Assets, loan : Nat, fee : Nat, minOut : Nat,
          swapOut : Nat, profit : Nat, payout : Accounts]

TypeOK ==
  /\ owner \in Accounts
  /\ balancerVault \in Contracts
  /\ aavePool \in Contracts
  /\ oneInchRouter \in Contracts
  /\ payoutDefault \in Accounts
  /\ paused \in BOOLEAN
  /\ whitelistedAssets \subseteq Assets
  /\ held \in [Assets -> Nat]
  /\ event \in Event \cup {NoEvent}

\* The constructor; it refuses zero addresses.
Init ==
  /\ owner = Deployer
  /\ balancerVault \in Contracts
  /\ aavePool \in Contracts
  /\ oneInchRouter \in Contracts
  /\ payoutDefault \in Accounts
  /\ paused = FALSE
  /\ whitelistedAssets = {}
  /\ held = [a \in Assets |-> 0]
  /\ event = NoEvent

-----------------------------------------------------------------------------
\* A liquidation.

\* onlyOwner, whenNotPaused and the whitelist.
Admitted(caller, c, d) ==
  caller = owner /\ ~paused /\ {c, d} \subseteq whitelistedAssets

Repayment(loan, fee) == loan + fee

\* Steps 1 and 2: the loan arrives, Aave takes covered of it and hands over
\* seized.  It takes less than debtToCover when the close factor says so.
AfterAave(d, c, loan, covered, seized) ==
  LET lent == [held EXCEPT ![d] = @ + loan - covered]
  IN  [lent EXCEPT ![c] = @ + seized]

\* Steps 4 and 5: the router takes sold, at most the whole balance it was
\* approved for, and pays bought.
AfterSwap(balances, d, c, sold, bought) ==
  LET given == [balances EXCEPT ![c] = @ - sold]
  IN  [given EXCEPT ![d] = @ + bought]

\* Mutant: minOut is left to the router.
EnoughToRepay(balance, minOut, loan, fee) == balance >= Repayment(loan, fee)

\* Step 6, and the checked subtraction of step 8.
Enough(balance, minOut, loan, fee) ==
  balance >= minOut /\ balance >= Repayment(loan, fee)

\* Step 8: all that is left of the debt asset after the repayment.
Profit(balance, loan, fee) == balance - Repayment(loan, fee)

Payout(payout) == IF payout # Zero THEN payout ELSE payoutDefault

\* initiateLiquidation and, within it, receiveFlashLoan.
InitiateLiquidation(caller, c, d, loan, minOut, payout) ==
  /\ event = NoEvent
  /\ Admitted(caller, c, d)
  /\ \E fee \in 0 .. MaxFee, covered \in 1 .. loan, seized, bought \in Units :
     \E sold \in 0 .. AfterAave(d, c, loan, covered, seized)[c] :
       LET swap == AfterSwap(AfterAave(d, c, loan, covered, seized), d, c, sold, bought)
           profit == Profit(swap[d], loan, fee)
       IN  /\ Enough(swap[d], minOut, loan, fee)
           /\ held' = [swap EXCEPT ![d] = @ - Repayment(loan, fee) - profit]
           /\ \A a \in Assets : held'[a] <= MaxUnits
           /\ event' = [debtAsset |-> d, loan |-> loan, fee |-> fee,
                        minOut |-> minOut, swapOut |-> bought,
                        profit |-> profit, payout |-> Payout(payout)]
  /\ UNCHANGED config

\* The history of the last liquidation is put away; no code stands for it.
Settle ==
  /\ event # NoEvent
  /\ event' = NoEvent
  /\ UNCHANGED <<config, held>>

\* Tokens arrive by a plain transfer.
Receive(a) ==
  /\ event = NoEvent
  /\ held[a] < MaxUnits
  /\ held' = [held EXCEPT ![a] = @ + 1]
  /\ UNCHANGED <<config, event>>

EmergencyWithdraw(caller, a, amount) ==
  /\ event = NoEvent
  /\ caller = owner
  /\ amount <= held[a]
  /\ held' = [held EXCEPT ![a] = @ - amount]
  /\ UNCHANGED <<config, event>>

-----------------------------------------------------------------------------
\* The owner's settings.

OnlyOwner(caller) == event = NoEvent /\ caller = owner

SetVault(caller, a) ==
  /\ OnlyOwner(caller) /\ a # Zero
  /\ balancerVault' = a
  /\ UNCHANGED <<owner, aavePool, oneInchRouter, payoutDefault, paused,
                 whitelistedAssets, held, event>>

SetPool(caller, a) ==
  /\ OnlyOwner(caller) /\ a # Zero
  /\ aavePool' = a
  /\ UNCHANGED <<owner, balancerVault, oneInchRouter, payoutDefault, paused,
                 whitelistedAssets, held, event>>

SetRouter(caller, a) ==
  /\ OnlyOwner(caller) /\ a # Zero
  /\ oneInchRouter' = a
  /\ UNCHANGED <<owner, balancerVault, aavePool, payoutDefault, paused,
                 whitelistedAssets, held, event>>

SetPayoutDefault(caller, a) ==
  /\ OnlyOwner(caller) /\ a # Zero
  /\ payoutDefault' = a
  /\ UNCHANGED <<owner, links, paused, whitelistedAssets, held, event>>

SetWhitelist(caller, a, status) ==
  /\ OnlyOwner(caller)
  /\ whitelistedAssets' = IF status THEN whitelistedAssets \cup {a}
                                    ELSE whitelistedAssets \ {a}
  /\ UNCHANGED <<owner, links, payoutDefault, paused, held, event>>

\* pause and unpause.
SetPaused(caller, status) ==
  /\ OnlyOwner(caller)
  /\ paused' = status
  /\ UNCHANGED <<owner, links, payoutDefault, whitelistedAssets, held, event>>

TransferOwnership(caller, a) ==
  /\ OnlyOwner(caller) /\ a # Zero
  /\ owner' = a
  /\ UNCHANGED <<links, payoutDefault, paused, whitelistedAssets, held, event>>

Configure(caller) ==
  \/ \E a \in Contracts \cup {Zero} :
       SetVault(caller, a) \/ SetPool(caller, a) \/ SetRouter(caller, a)
  \/ \E a \in Accounts \cup {Zero} :
       SetPayoutDefault(caller, a) \/ TransferOwnership(caller, a)
  \/ \E a \in Assets, status \in BOOLEAN : SetWhitelist(caller, a, status)
  \/ \E status \in BOOLEAN : SetPaused(caller, status)

Next ==
  \/ \E caller \in Accounts :
       \/ Configure(caller)
       \/ \E c, d \in Assets, loan \in Units \ {0}, minOut \in Units,
             payout \in Accounts \cup {Zero} :
            InitiateLiquidation(caller, c, d, loan, minOut, payout)
       \/ \E a \in Assets, amount \in Units : EmergencyWithdraw(caller, a, amount)
  \/ \E a \in Assets : Receive(a)
  \/ Settle

Spec == Init /\ [][Next]_vars

-----------------------------------------------------------------------------
\* Properties; what a liquidation pays is stated against the plan in MCServices.

\* Nothing of the debt asset stays in the contract after a liquidation: not
\* what Aave left of the loan, not the swap's surplus, not an earlier balance.
DebtAssetSwept == event # NoEvent => held[event.debtAsset] = 0
=============================================================================
