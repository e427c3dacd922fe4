------------------------------- MODULE PlanChoice -------------------------------
(***************************************************************************)
(* How backend-v2 decides what to liquidate for one user: the planner's    *)
(* buildCandidatePlans (execution/liquidationPlanner.ts) scores pairs of a *)
(* debt and a collateral from oracle prices, and index.ts quotes the       *)
(* candidates and sends the best one, if performSafetyChecks               *)
(* (execution/executorClient.ts) lets it pass.  A plan PredictiveLoop      *)
(* prepared is the first candidate, quoted once, and is sent as it is.     *)
(* execution/safety.ts says what the output of a swap must be to repay the *)
(* loan.                                                                   *)
(*                                                                         *)
(* Amounts are integers in units of their token; Wad stands for 10^18.  A  *)
(* token of d decimals is scaled to 18 by Up = 10^(18-d), Down = 1, or by  *)
(* Up = 1, Down = 10^(d-18).                                               *)
(***************************************************************************)
EXTENDS Integers, Sequences, FiniteSets

CONSTANTS
  Assets,
  Up, Down,        \* per asset, see above
  Wad,
  FlashloanFeeBps, \* FLASHLOAN_FEE_BPS
  SafetyBufferBps, \* SAFETY_BUFFER_BPS
  CloseFactorBps,  \* CLOSE_FACTOR_BPS
  HaircutBps,      \* CONSERVATIVE_HAIRCUT_BPS
  TopN,            \* TOP_N_PAIRS
  Balances,        \* debts and collaterals of a position
  Prices,          \* USD prices, times Wad
  Bonuses,         \* liquidation bonuses, 10000 of them being no bonus
  Spread,          \* bound: quotes are within Spread of the loan's requirement
  NoCandidate

SafetyAssumption ==
  /\ FlashloanFeeBps \in Nat
  /\ SafetyBufferBps \in Nat

PlanAssumption ==
  /\ IsFiniteSet(Assets)
  /\ Up \in [Assets -> Nat \ {0}]
  /\ Down \in [Assets -> Nat \ {0}]
  /\ \A a \in Assets : Up[a] = 1 \/ Down[a] = 1
  /\ Wad \in Nat \ {0}
  /\ CloseFactorBps \in 0 .. 10000
  /\ HaircutBps \in 0 .. 10000
  /\ TopN \in Nat \ {0}
  /\ Balances \subseteq Nat
  /\ Prices \subseteq Nat \ {0}
  /\ Bonuses \subseteq Nat
  /\ Spread \in Nat

VARIABLES
  debt,        \* the position: totalDebt per asset
  collateral,  \* aToken balance per asset, 0 where it is no collateral
  price,       \* what the price of an asset is, when it can be read
  bonus,       \* liquidationBonus of the reserve configuration
  pc,
  prepared,    \* the plan in the cache is used
  candidates,  \* what buildCandidatePlans returned
  quoted,      \* the candidates quoted so far, with a positive net
  asked,       \* how many candidates were quoted
  chosen,      \* the quoted candidate to be sent, or NoCandidate
  sent         \* performSafetyChecks let it pass

position == <<debt, collateral, price, bonus>>
vars == <<position, pc, prepared, candidates, quoted, asked, chosen, sent>>

-----------------------------------------------------------------------------
\* The arithmetic of safety.ts; rates are in basis points, division rounds down.

Bps(amount, rate) == (amount * rate) \div 10000

ComputeMinRequiredOut(debtToCover) ==
  debtToCover + Bps(debtToCover, FlashloanFeeBps) + Bps(debtToCover, SafetyBufferBps)

ComputeNetDebtToken(minOut, debtToCover) ==
  minOut - debtToCover - Bps(debtToCover, FlashloanFeeBps)
         - Bps(debtToCover, SafetyBufferBps)

-----------------------------------------------------------------------------
\* The arithmetic of the planner.

Normalised(amount, a) == (amount * Up[a]) \div Down[a]
Denormalised(amount, a) == (amount * Down[a]) \div Up[a]

CalculateUsdValue(amount, a) == (Normalised(amount, a) * price[a]) \div Wad

DebtToCover(d) == Bps(debt[d], CloseFactorBps)

BonusBps(c) == IF bonus[c] > 10000 THEN bonus[c] - 10000 ELSE 500

CalculateExpectedCollateral(d, c) ==
  LET worth == CalculateUsdValue(DebtToCover(d), d)
      plain == (worth * Wad) \div price[c]
  IN  Denormalised(Bps(plain, 10000 + BonusBps(c)), c)

ProfitUsd(d, c) ==
  CalculateUsdValue(CalculateExpectedCollateral(d, c), c)
    - CalculateUsdValue(DebtToCover(d), d)

\* BigInt division truncates towards zero.
Truncated(x, rate) == IF x >= 0 THEN Bps(x, rate) ELSE -Bps(-x, rate)

Score(d, c) == ProfitUsd(d, c) - Truncated(ProfitUsd(d, c), HaircutBps)

\* Mutant: a pair is scored whatever it earns.
WorthwhileAlways(d, c) == CalculateExpectedCollateral(d, c) <= collateral[c]

Worthwhile(d, c) ==
  /\ CalculateExpectedCollateral(d, c) <= collateral[c]
  /\ Score(d, c) > 0

Candidate(d, c) ==
  [debtAsset |-> d, collateralAsset |-> c, debtToCover |-> DebtToCover(d),
   expectedCollateralOut |-> CalculateExpectedCollateral(d, c),
   oracleScore |-> Score(d, c)]

Candidates ==
  [debtAsset : Assets, collateralAsset : Assets, debtToCover : Nat,
   expectedCollateralOut : Nat, oracleScore : Int]

Quoted == [candidate : Candidates, minOut : Nat, net : Int]

TypeOK ==
  /\ debt \in [Assets -> Balances]
  /\ collateral \in [Assets -> Balances]
  /\ price \in [Assets -> Prices]
  /\ bonus \in [Assets -> Bonuses]
  /\ pc \in {"building", "quoting", "choosing", "checking", "done"}
  /\ prepared \in BOOLEAN
  /\ candidates \in Seq(Candidates) /\ Len(candidates) <= TopN
  /\ quoted \in Seq(Quoted)
  /\ asked \in 0 .. Len(candidates) /\ Len(quoted) <= asked
  /\ chosen \in Quoted \cup {NoCandidate}
  /\ sent \in BOOLEAN

Init ==
  /\ debt \in [Assets -> Balances]
  /\ collateral \in [Assets -> Balances]
  /\ price \in [Assets -> Prices]
  /\ bonus \in [Assets -> Bonuses]
  /\ pc = "building"
  /\ prepared \in BOOLEAN
  /\ candidates = <<>>
  /\ quoted = <<>>
  /\ asked = 0
  /\ chosen = NoCandidate
  /\ sent = FALSE

-----------------------------------------------------------------------------
\* buildCandidatePlans.

\* The pairs a plan may use: a read that fails leaves its asset out.
Pairs(known) ==
  {p \in known \X known : debt[p[1]] > 0 /\ collateral[p[2]] > 0
                          /\ Worthwhile(p[1], p[2])}

Fewer(m, n) == IF m < n THEN m ELSE n

\* The best TopN pairs, best first, ties in any order.  The code compares the
\* scores as doubles of USD; the model compares them exactly.
Ranked(pairs) ==
  {s \in [1 .. Fewer(TopN, Cardinality(pairs)) -> pairs] :
     /\ \A i, j \in DOMAIN s : i < j => /\ s[i] # s[j]
                                        /\ Score(s[i][1], s[i][2]) >= Score(s[j][1], s[j][2])
     /\ \A p \in pairs \ {s[i] : i \in DOMAIN s}, j \in DOMAIN s :
          Score(p[1], p[2]) <= Score(s[j][1], s[j][2])}

\* preparePlan keeps the first candidate only.
Build ==
  /\ pc = "building"
  /\ \E known \in SUBSET Assets : \E s \in Ranked(Pairs(known)) :
       candidates' = [i \in 1 .. (IF prepared THEN Fewer(1, Len(s)) ELSE Len(s)) |->
                        Candidate(s[i][1], s[i][2])]
  /\ pc' = IF candidates' = <<>> THEN "done" ELSE "quoting"
  /\ UNCHANGED <<position, prepared, quoted, asked, chosen, sent>>

-----------------------------------------------------------------------------
\* index.ts.

\* A prepared plan was not asked for its net.
Kept(net) == prepared \/ net > 0

\* 1inch answers with a positive minOut, or the quote fails.
Quote ==
  /\ pc = "quoting"
  /\ LET c == candidates[asked + 1]
     IN  \/ \E off \in -Spread .. Spread :
              LET minOut == ComputeMinRequiredOut(c.debtToCover) + off
                  net == ComputeNetDebtToken(minOut, c.debtToCover)
              IN  /\ minOut > 0
                  /\ quoted' = IF Kept(net)
                                 THEN Append(quoted, [candidate |-> c, minOut |-> minOut,
                                                      net |-> net])
                                 ELSE quoted
         \/ UNCHANGED quoted
  /\ asked' = asked + 1
  /\ pc' = IF asked' < Len(candidates) THEN "quoting" ELSE "choosing"
  /\ UNCHANGED <<position, prepared, candidates, chosen, sent>>

\* The candidate with the largest net, or none.
Choose ==
  /\ pc = "choosing"
  /\ IF quoted = <<>>
       THEN pc' = "done" /\ UNCHANGED chosen
       ELSE /\ pc' = "checking"
            /\ \E i \in DOMAIN quoted :
                 /\ \A j \in DOMAIN quoted : quoted[j].net <= quoted[i].net
                 /\ chosen' = quoted[i]
  /\ UNCHANGED <<position, prepared, candidates, quoted, asked, sent>>

PerformSafetyChecks(q) ==
  /\ q.candidate.debtToCover > 0
  /\ q.candidate.expectedCollateralOut > 0
  /\ q.minOut >= ComputeMinRequiredOut(q.candidate.debtToCover)

AttemptLiquidation ==
  /\ pc = "checking"
  /\ sent' = PerformSafetyChecks(chosen)
  /\ pc' = "done"
  /\ UNCHANGED <<position, prepared, candidates, quoted, asked, chosen>>

Next == Build \/ Quote \/ Choose \/ AttemptLiquidation

Spec == Init /\ [][Next]_vars

-----------------------------------------------------------------------------
\* Properties.

\* Rounding never makes a pair look better than its bonus: the oracle score
\* of a candidate is at most the bonus on the debt it covers.
ScoreWithinBonus ==
  \A i \in DOMAIN candidates :
    candidates[i].oracleScore * 10000 <=
      CalculateUsdValue(candidates[i].debtToCover, candidates[i].debtAsset)
        * BonusBps(candidates[i].collateralAsset)

\* A plan built and quoted on the spot always passes performSafetyChecks: the
\* filter on the net asks for no less than the check, and no candidate is
\* rounded down to a loan or a seizure of nothing.
FreshPlansPass == pc = "checking" /\ ~prepared => PerformSafetyChecks(chosen)
=============================================================================
