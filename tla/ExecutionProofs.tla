-------------------------- MODULE ExecutionProofs --------------------------
(***************************************************************************)
(* Theorems about ExecutionFlow, for any users, handlers, reserves,        *)
(* holdings and prices, and about what MCExecution composes with it: the   *)
(* predictive orchestrator, the price service, the subgraph feed and the   *)
(* audit.  Each part has an inductive invariant over its own variables.    *)
(***************************************************************************)
EXTENDS MCExecution, Sequences, SequenceTheorems, FiniteSetTheorems, TLAPS

\* The steps of executeReal after the user is marked as in flight.
Reading == Steps \ {"prepare", "notify"}

\* What has been read when: a price that is missing leaves nothing expected.
Honest(flow) ==
  /\ flow.at \in {"prepare", "notify", "health", "dust", "feed"} =>
       flow.unread = {} /\ flow.expected = 0
  /\ flow.at = "debt" => flow.unread \subseteq {"feed"} /\ flow.expected = 0
  /\ flow.at = "price" => flow.unread \subseteq {"feed", "debt"} /\ flow.expected = 0
  /\ flow.at = "collateral" =>
       /\ flow.unread \subseteq {"feed", "debt", "price"}
       /\ "price" \in flow.unread => flow.expected = 0
  /\ flow.at = "value" =>
       /\ flow.unread \subseteq {"feed", "debt", "price", "collateral"}
       /\ flow.unread \subseteq {"feed", "debt"} \/ flow.expected = 0
  /\ flow.at \in {"route", "mine"} => flow.unread \subseteq {"feed", "debt"}

\* Handler h executes for user u.
Executes(h, u) == handlers[h].at \in Reading /\ handlers[h].user = u

HonestInv == \A h \in Handlers : Honest(handlers[h])

\* OneExecutionPerUser without counting.
Exclusive ==
  lock => /\ \A g, h \in Handlers, u \in Users : Executes(g, u) /\ Executes(h, u) => g = h
          /\ \A u \in Users : u \in inflightExecutions <=> \E h \in Handlers : Executes(h, u)

IInv == TypeOK /\ HonestInv /\ Exclusive

\* The reads of executeReal, and the awaits of its transaction.
ReadStep(h) ==
  \/ CheckAaveHealthFactor(h) \/ CheckDust(h) \/ CheckCollateralUsd(h)
  \/ CalculateDebtToCover(h) \/ ReadDebtPrice(h) \/ ReadCollateralPrice(h)
  \/ CheckProfit(h) \/ Submit(h) \/ Mined(h)

-----------------------------------------------------------------------------
\* Values in base currency are naturals, and nothing is worth nothing.
LEMMA NatFacts ==
  /\ \A x, y \in Nat : Value(x, y) \in Nat
  /\ \A x \in Nat : WithBonus(x) \in Nat /\ x \div 2 \in Nat
  /\ \A x \in Nat, y \in Nat \ {0} : x \div y \in Nat
  /\ \A y \in Nat \ {0} : 0 \div y = 0
  /\ \A y \in Nat : Value(0, y) = 0
<1>1. \A x, y \in Nat : x * y \in Nat
  OBVIOUS
<1>2. \A x \in Nat, y \in Nat \ {0} : x \div y \in Nat
  OBVIOUS
<1>3. \A y \in Nat \ {0} : 0 \div y = 0
  OBVIOUS
<1>4. Bonus \in Nat
  BY FlowAssumption
<1>5. ASSUME NEW x \in Nat PROVE WithBonus(x) \in Nat /\ x \div 2 \in Nat
  <2>1. x * (100 + Bonus) \in Nat
    BY <1>1, <1>4
  <2> QED BY <2>1, <1>2 DEF WithBonus
<1>6. \A y \in Nat : 0 * y = 0
  OBVIOUS
<1> QED BY <1>1, <1>2, <1>3, <1>5, <1>6 DEF Value

LEMMA PlansType == Plans \subseteq Nat
<1>1. ASSUME NEW holding \in Holdings, NEW price, NEW hf
      PROVE  PlansOf(holding, price, hf) \subseteq Nat
  <2>1. SelectedDebt(holding, price) \subseteq Reserves
    BY FlowAssumption DEF SelectedDebt
  <2>2. \A d \in Reserves : holding[d].debt \in Nat
    BY FlowAssumption DEF Holdings
  <2> QED BY <2>1, <2>2 DEF PlansOf
<1> QED BY <1>1 DEF Plans

-----------------------------------------------------------------------------
\* One read of an execution: it ends, or goes on with an honest record.
Answered(h) ==
  /\ handlers[h] \in Handling /\ handlers[h].at \in Reading
  /\ \/ Ends(h)
     \/ \E flow \in Handling :
          /\ flow.at \in Reading /\ flow.user = handlers[h].user /\ Honest(flow)
          /\ GoesOn(h, flow)
  /\ UNCHANGED <<lock, mode, tip, lastNotifiedBlock>>

LEMMA ReadAnswers ==
  ASSUME TypeOK, HonestInv, NEW h \in Handlers, ReadStep(h)
  PROVE  Answered(h)
<1> USE DEF Honest, Reading, Steps, Reads
<1> DEFINE flow == handlers[h]
<1>1. flow \in Handling \cup {Idle} /\ Honest(flow)
  BY DEF TypeOK, HonestInv
<1>2. flow.at # "idle" => flow \in Handling
  BY <1>1 DEF Idle
<1>3. /\ Balances \subseteq Nat /\ Prices \subseteq Nat /\ ProfitMin \in Nat \ {0}
  BY FlowAssumption
<1> HIDE DEF flow
<1>4. CASE CheckAaveHealthFactor(h)
  <2>1. flow.at = "health" /\ flow \in Handling
    BY <1>2, <1>4 DEF CheckAaveHealthFactor, flow
  <2>2. [flow EXCEPT !.at = "dust"] \in Handling
    BY <2>1 DEF Handling
  <2>3. Honest([flow EXCEPT !.at = "dust"])
    BY <2>1, <1>1 DEF Handling
  <2> QED BY <1>4, <2>1, <2>2, <2>3 DEF CheckAaveHealthFactor, Answered, flow, Handling
<1>5. CASE CheckDust(h)
  <2>1. flow.at = "dust" /\ flow \in Handling
    BY <1>2, <1>5 DEF CheckDust, flow
  <2> DEFINE next(account) == [flow EXCEPT !.at = "feed", !.account = account]
  <2>2. ASSUME NEW account \in {"healthy", "owning", "empty"}
        PROVE  /\ next(account) \in Handling /\ Honest(next(account))
               /\ next(account).at = "feed" /\ next(account).user = flow.user
    BY <2>1, <1>1 DEF Handling
  <2>3. Ends(h) \/ \E account \in {"healthy", "owning", "empty"} : GoesOn(h, next(account))
    BY <1>5 DEF CheckDust, flow
  <2>4. UNCHANGED <<lock, mode, tip, lastNotifiedBlock>>
    BY <1>5 DEF CheckDust
  <2> HIDE DEF next
  <2> QED BY <2>1, <2>2, <2>3, <2>4 DEF Answered, flow
<1>12. CASE CheckCollateralUsd(h)
  <2>1. flow.at = "feed" /\ flow \in Handling
    BY <1>2, <1>12 DEF CheckCollateralUsd, flow
  <2> DEFINE next(unread) ==
        [flow EXCEPT !.at = "debt", !.account = "none", !.unread = unread]
  <2>2. ASSUME NEW unread \in SUBSET {"feed"}
        PROVE  /\ next(unread) \in Handling /\ Honest(next(unread))
               /\ next(unread).at = "debt" /\ next(unread).user = flow.user
    BY <2>1, <1>1 DEF Handling
  <2>3. Ends(h) \/ \E unread \in SUBSET {"feed"} : GoesOn(h, next(unread))
    BY <1>12 DEF CheckCollateralUsd, flow
  <2>4. UNCHANGED <<lock, mode, tip, lastNotifiedBlock>>
    BY <1>12 DEF CheckCollateralUsd
  <2> HIDE DEF next
  <2> QED BY <2>1, <2>2, <2>3, <2>4 DEF Answered, flow
<1>6. CASE CalculateDebtToCover(h)
  <2>1. flow.at = "debt" /\ flow \in Handling
    BY <1>2, <1>6 DEF CalculateDebtToCover, flow
  <2> DEFINE share(total) == IF mode = "full" THEN total ELSE total \div 2
             read(total, price, unread) ==
               [flow EXCEPT !.at = "price", !.total = 0, !.amount = share(total),
                            !.repay = Value(share(total), price),
                            !.unread = @ \cup unread]
  <2>2. ASSUME NEW total \in Nat, NEW price \in Nat, NEW unread \in SUBSET {"debt"}
        PROVE  /\ read(total, price, unread) \in Handling
               /\ Honest(read(total, price, unread))
               /\ read(total, price, unread).user = flow.user
               /\ read(total, price, unread).at = "price"
    <3>1. share(total) \in Nat
      BY NatFacts
    <3>2. Value(share(total), price) \in Nat
      BY <3>1, NatFacts
    <3> HIDE DEF share
    <3>3. read(total, price, unread) \in Handling
      BY <2>1, <3>1, <3>2 DEF Handling
    <3>4. /\ read(total, price, unread).at = "price"
          /\ read(total, price, unread).expected = 0
          /\ read(total, price, unread).unread \subseteq {"feed", "debt"}
          /\ read(total, price, unread).user = flow.user
      BY <2>1, <1>1 DEF Handling
    <3> QED BY <3>3, <3>4
  <2>3. flow.total \in Nat
    BY <2>1 DEF Handling
  <2>4. PICK price \in Prices \cup {0}, total \in Nat, unread \in SUBSET {"debt"} :
          IF share(total) = 0 THEN Ends(h) ELSE GoesOn(h, read(total, price, unread))
    BY <1>6, <1>3, <2>3 DEF CalculateDebtToCover, flow
  <2>5. price \in Nat
    BY <1>3
  <2>6. /\ read(total, price, unread) \in Handling
        /\ Honest(read(total, price, unread))
        /\ read(total, price, unread).user = flow.user
        /\ read(total, price, unread).at = "price"
    BY <2>2, <2>5
  <2>7. UNCHANGED <<lock, mode, tip, lastNotifiedBlock>>
    BY <1>6 DEF CalculateDebtToCover
  <2> HIDE DEF read, share
  <2>8. Ends(h) \/ GoesOn(h, read(total, price, unread))
    BY <2>4
  <2> QED BY <2>1, <2>6, <2>7, <2>8 DEF Answered, flow
<1>7. CASE ReadDebtPrice(h)
  <2>1. flow.at = "price" /\ flow \in Handling
    BY <1>2, <1>7 DEF ReadDebtPrice, flow
  <2>2. flow.unread \subseteq {"feed", "debt"} /\ flow.expected = 0 /\ flow.amount \in Nat
    BY <2>1, <1>1 DEF Handling
  <2>3. UNCHANGED <<lock, mode, tip, lastNotifiedBlock>>
    BY <1>7 DEF ReadDebtPrice
  <2>4. CASE Ends(h)
    BY <2>1, <2>3, <2>4 DEF Answered, flow
  <2>5. ASSUME NEW price \in Prices,
               GoesOn(h, [flow EXCEPT !.at = "collateral", !.amount = 0,
                            !.repay = Value(flow.amount, price),
                            !.expected = WithBonus(Value(flow.amount, price))])
        PROVE  Answered(h)
    <3> DEFINE worth == Value(flow.amount, price)
               next == [flow EXCEPT !.at = "collateral", !.amount = 0, !.repay = worth,
                                    !.expected = WithBonus(worth)]
    <3>1. worth \in Nat /\ WithBonus(worth) \in Nat
      BY <2>2, <1>3, NatFacts
    <3>2. GoesOn(h, next)
      BY <2>5
    <3> HIDE DEF worth
    <3>3. next \in Handling
      BY <2>1, <3>1 DEF Handling
    <3>4. next.at = "collateral" /\ next.unread = flow.unread /\ next.user = flow.user
      BY <2>1 DEF Handling
    <3> HIDE DEF next
    <3>5. Honest(next)
      BY <3>4, <2>2
    <3> QED BY <2>1, <2>3, <3>2, <3>3, <3>4, <3>5 DEF Answered, flow
  <2>6. ASSUME GoesOn(h, [flow EXCEPT !.at = "collateral", !.amount = 0,
                            !.unread = @ \cup {"price"}])
        PROVE  Answered(h)
    <3> DEFINE next == [flow EXCEPT !.at = "collateral", !.amount = 0,
                                    !.unread = @ \cup {"price"}]
    <3>1. next \in Handling
      BY <2>1, <2>2 DEF Handling
    <3>2. /\ next.at = "collateral" /\ next.unread = flow.unread \cup {"price"}
          /\ next.user = flow.user /\ next.expected = 0
      BY <2>1, <2>2 DEF Handling
    <3>3. GoesOn(h, next)
      BY <2>6
    <3> HIDE DEF next
    <3>4. Honest(next)
      BY <3>2, <2>2
    <3> QED BY <2>1, <2>3, <3>1, <3>2, <3>3, <3>4 DEF Answered, flow
  <2> QED BY <1>7, <2>4, <2>5, <2>6 DEF ReadDebtPrice, flow
<1>8. CASE ReadCollateralPrice(h)
  <2>1. flow.at = "collateral" /\ flow \in Handling
    BY <1>2, <1>8 DEF ReadCollateralPrice, flow
  <2>2. /\ flow.unread \subseteq {"feed", "debt", "price"} /\ flow.expected \in Nat
        /\ "price" \in flow.unread => flow.expected = 0
    BY <2>1, <1>1 DEF Handling
  <2>3. UNCHANGED <<lock, mode, tip, lastNotifiedBlock>>
    BY <1>8 DEF ReadCollateralPrice
  <2> DEFINE next(expected, unread) ==
        [flow EXCEPT !.at = "value", !.expected = expected, !.unread = @ \cup unread]
  <2>4. PICK expected \in Nat, unread \in SUBSET {"collateral"} :
          /\ Ends(h) \/ GoesOn(h, next(expected, unread))
          /\ flow.unread \cup unread \subseteq {"feed", "debt"} \/ expected = 0
    <3>1. ASSUME NEW price \in Prices \ {0}
          PROVE  /\ flow.expected \div price \in Nat
                 /\ flow.unread \subseteq {"feed", "debt"} \/ flow.expected \div price = 0
      <4>1. price \in Nat \ {0}
        BY <1>3
      <4> QED BY <4>1, <2>2, NatFacts
    <3>2. \/ \E price \in Prices \ {0} :
                IF flow.expected \div price > TokenBound THEN Ends(h)
                ELSE GoesOn(h, next(flow.expected \div price, {}))
          \/ IF 0 > TokenBound THEN Ends(h) ELSE GoesOn(h, next(0, {"collateral"}))
      BY <1>8 DEF ReadCollateralPrice, flow
    <3> HIDE DEF next
    <3>3. CASE \E price \in Prices \ {0} :
                 IF flow.expected \div price > TokenBound THEN Ends(h)
                 ELSE GoesOn(h, next(flow.expected \div price, {}))
      <4>1. PICK price \in Prices \ {0} :
                 IF flow.expected \div price > TokenBound THEN Ends(h)
                 ELSE GoesOn(h, next(flow.expected \div price, {}))
        BY <3>3
      <4>2. Ends(h) \/ GoesOn(h, next(flow.expected \div price, {}))
        BY <4>1
      <4> QED BY <3>1, <4>2
    <3>4. CASE IF 0 > TokenBound THEN Ends(h) ELSE GoesOn(h, next(0, {"collateral"}))
      <4>1. Ends(h) \/ GoesOn(h, next(0, {"collateral"}))
        BY <3>4
      <4> QED BY <4>1
    <3> QED BY <3>2, <3>3, <3>4
  <2>5. /\ next(expected, unread) \in Handling
        /\ next(expected, unread).at = "value"
        /\ next(expected, unread).user = flow.user
        /\ next(expected, unread).unread = flow.unread \cup unread
        /\ next(expected, unread).expected = expected
    BY <2>1, <2>2 DEF Handling
  <2> HIDE DEF next
  <2>6. Honest(next(expected, unread))
    BY <2>2, <2>4, <2>5
  <2> QED BY <2>1, <2>3, <2>4, <2>5, <2>6 DEF Answered, flow
<1>9. CASE CheckProfit(h)
  <2>1. flow.at = "value" /\ flow \in Handling
    BY <1>2, <1>9 DEF CheckProfit, flow
  <2>2. /\ flow.unread \subseteq {"feed", "debt", "price", "collateral"}
        /\ flow.expected \in Nat /\ flow.repay \in Nat
        /\ flow.unread \subseteq {"feed", "debt"} \/ flow.expected = 0
    BY <2>1, <1>1 DEF Handling
  <2>3. UNCHANGED <<lock, mode, tip, lastNotifiedBlock>>
    BY <1>9 DEF CheckProfit
  <2> DEFINE next(unread) ==
        [flow EXCEPT !.at = "route", !.repay = 0, !.unread = @ \cup unread]
  <2>4. \/ \E price \in Prices :
             IF Value(flow.expected, price) - flow.repay < ProfitMin THEN Ends(h)
             ELSE GoesOn(h, next({}))
        \/ IF 0 - flow.repay < ProfitMin THEN Ends(h) ELSE GoesOn(h, next({"value"}))
    BY <1>9 DEF CheckProfit, flow
  <2> HIDE DEF next
  <2>5. 0 - flow.repay < ProfitMin
    BY <2>2, <1>3
  <2>6. ASSUME NEW price \in Prices, flow.expected = 0
        PROVE  Value(flow.expected, price) - flow.repay < ProfitMin
    <3>1. Value(flow.expected, price) = 0
      BY <2>6, <1>3, NatFacts
    <3> QED BY <3>1, <2>5
  <2>7. Ends(h) \/ (flow.unread \subseteq {"feed", "debt"} /\ GoesOn(h, next({})))
    BY <2>2, <2>4, <2>5, <2>6
  <2>8. /\ next({}) \in Handling /\ next({}).at = "route" /\ next({}).user = flow.user
        /\ next({}).unread = flow.unread
    BY <2>1, <2>2 DEF next, Handling
  <2>9. flow.unread \subseteq {"feed", "debt"} => Honest(next({}))
    BY <2>8
  <2> QED BY <2>1, <2>3, <2>7, <2>8, <2>9 DEF Answered, flow
<1>10. CASE Submit(h)
  <2>1. flow.at = "route" /\ flow \in Handling
    BY <1>2, <1>10 DEF Submit, flow
  <2>2. [flow EXCEPT !.at = "mine"] \in Handling
    BY <2>1 DEF Handling
  <2>3. Honest([flow EXCEPT !.at = "mine"])
    BY <2>1, <1>1 DEF Handling
  <2> QED BY <1>10, <2>1, <2>2, <2>3 DEF Submit, Answered, flow, Handling
<1>11. CASE Mined(h)
  BY <1>2, <1>11 DEF Mined, Answered, flow
<1> QED BY <1>4, <1>5, <1>6, <1>7, <1>8, <1>9, <1>10, <1>11, <1>12 DEF ReadStep

\* What a read changes preserves the invariant, whichever it is.
LEMMA AnsweredInv ==
  ASSUME IInv, NEW h \in Handlers, Answered(h)
  PROVE  IInv'
<1>1. PICK next \in Handling \cup {Idle} :
        /\ handlers' = [handlers EXCEPT ![h] = next]
        /\ Honest(next)
        /\ \/ next = Idle /\ inflightExecutions' = inflightExecutions \ {handlers[h].user}
           \/ /\ next.at \in Reading /\ next.user = handlers[h].user
              /\ inflightExecutions' = inflightExecutions
  <2>1. Honest(Idle)
    BY DEF Honest, Idle
  <2> QED BY <2>1 DEF Answered, Ends, GoesOn
<1>2. handlers[h].at \in Reading /\ handlers[h].user \in Users
  BY DEF Answered, Handling
<1>3. handlers \in [Handlers -> Handling \cup {Idle}]
  BY DEF IInv, TypeOK
<1>4. TypeOK'
  BY <1>1, <1>3 DEF IInv, TypeOK, Answered
<1>5. HonestInv'
  BY <1>1, <1>3 DEF IInv, HonestInv
<1>6. ASSUME NEW g \in Handlers, NEW u \in Users
      PROVE  Executes(g, u)' <=> IF g = h THEN next # Idle /\ u = handlers[h].user
                                          ELSE Executes(g, u)
  <2>1. Idle.at \notin Reading
    BY DEF Idle, Reading, Steps
  <2>2. handlers'[g] = IF g = h THEN next ELSE handlers[g]
    BY <1>1, <1>3
  <2> QED BY <1>1, <2>1, <2>2 DEF Executes
<1>7. Exclusive'
  <2> SUFFICES ASSUME lock' PROVE Exclusive'
    BY DEF Exclusive
  <2>1. lock
    BY DEF Answered
  <2>2. Executes(h, handlers[h].user)
    BY <1>2 DEF Executes
  <2>3. /\ \A g, f \in Handlers, u \in Users : Executes(g, u) /\ Executes(f, u) => g = f
        /\ \A u \in Users : u \in inflightExecutions <=> \E g \in Handlers : Executes(g, u)
    BY <2>1 DEF IInv, Exclusive
  <2>4. \A g, f \in Handlers, u \in Users : Executes(g, u)' /\ Executes(f, u)' => g = f
    BY <1>6, <2>2, <2>3
  <2>5. ASSUME NEW u \in Users
        PROVE  u \in inflightExecutions' <=> \E g \in Handlers : Executes(g, u)'
    <3>1. CASE next = Idle
      <4>1. inflightExecutions' = inflightExecutions \ {handlers[h].user}
        BY <1>1, <3>1 DEF Idle, Reading, Steps
      <4>2. \A g \in Handlers : Executes(g, u)' <=> g # h /\ Executes(g, u)
        BY <1>6, <3>1
      <4>3. CASE u = handlers[h].user
        BY <4>1, <4>2, <4>3, <2>2, <2>3
      <4>4. CASE u # handlers[h].user
        <5>1. ~Executes(h, u)
          BY <4>4 DEF Executes
        <5> QED BY <4>1, <4>2, <4>4, <5>1, <2>3
      <4> QED BY <4>3, <4>4
    <3>2. CASE next # Idle
      <4>1. inflightExecutions' = inflightExecutions
        BY <1>1, <3>2
      <4>2. \A g \in Handlers : Executes(g, u)' <=> Executes(g, u)
        BY <1>6, <3>2, <1>2 DEF Executes
      <4> QED BY <4>1, <4>2, <2>3
    <3> QED BY <3>1, <3>2
  <2> QED BY <2>4, <2>5 DEF Exclusive
<1> QED BY <1>4, <1>5, <1>7 DEF IInv

LEMMA InitInv == Init => IInv
<1> SUFFICES ASSUME Init PROVE IInv
  OBVIOUS
<1>1. TypeOK
  BY FlowAssumption DEF Init, TypeOK
<1>2. \A h \in Handlers : handlers[h].at = "idle"
  BY DEF Init, Idle
<1>3. HonestInv
  BY <1>2 DEF HonestInv, Honest
<1>4. Exclusive
  BY <1>2 DEF Init, Exclusive, Executes, Reading, Steps
<1> QED BY <1>1, <1>3, <1>4 DEF IInv

\* A step that starts no execution and ends none: the handler stays among the steps
\* that precede it.
LEMMA WaitingInv ==
  ASSUME IInv, NEW h \in Handlers, handlers[h].at \notin Reading,
         NEW next \in Handling \cup {Idle}, Honest(next), next.at \notin Reading,
         handlers' = [handlers EXCEPT ![h] = next], lock' = lock,
         inflightExecutions' = inflightExecutions
  PROVE  HonestInv' /\ Exclusive' /\ handlers' \in [Handlers -> Handling \cup {Idle}]
<1>1. handlers \in [Handlers -> Handling \cup {Idle}]
  BY DEF IInv, TypeOK
<1>2. \A g \in Handlers : handlers'[g] = IF g = h THEN next ELSE handlers[g]
  BY <1>1
<1>3. \A g \in Handlers, u \in Users : Executes(g, u)' <=> Executes(g, u)
  BY <1>2 DEF Executes
<1>4. HonestInv'
  BY <1>2 DEF IInv, HonestInv
<1>5. Exclusive'
  BY <1>3 DEF IInv, Exclusive
<1> QED BY <1>1, <1>4, <1>5

LEMMA NextInv == IInv /\ [Next]_vars => IInv'
<1> SUFFICES ASSUME IInv, [Next]_vars PROVE IInv'
  OBVIOUS
<1>t. /\ lock \in BOOLEAN /\ mode \in {"dry", "fixed50", "full"}
      /\ tip \in 0 .. MaxBlock /\ MaxBlock \in Nat
      /\ lastNotifiedBlock \in [Users -> -1 .. MaxBlock]
      /\ inflightExecutions \subseteq Users
      /\ handlers \in [Handlers -> Handling \cup {Idle}]
  BY FlowAssumption DEF IInv, TypeOK
<1>h. \A h \in Handlers : handlers[h].at # "idle" => handlers[h] \in Handling
  BY <1>t DEF Idle
<1>i. Honest(Idle) /\ Idle.at = "idle"
  BY DEF Honest, Idle
<1>1. CASE UNCHANGED vars
  <2>1. \A h \in Handlers, u \in Users : Executes(h, u)' <=> Executes(h, u)
    BY <1>1 DEF vars, Executes
  <2> QED BY <1>1, <2>1 DEF vars, IInv, TypeOK, HonestInv, Exclusive
<1>2. CASE NewBlock
  <2>1. \A h \in Handlers, u \in Users : Executes(h, u)' <=> Executes(h, u)
    BY <1>2 DEF NewBlock, Executes
  <2>2. TypeOK'
    BY <1>2, <1>t DEF NewBlock, TypeOK
  <2>3. HonestInv' /\ Exclusive'
    BY <1>2, <2>1 DEF NewBlock, IInv, HonestInv, Exclusive
  <2> QED BY <2>2, <2>3 DEF IInv
<1>3. ASSUME NEW h \in Handlers, NEW u \in Users, OnLiquidatable(h, u) PROVE IInv'
  <2> DEFINE next == [at |-> "prepare", user |-> u, block |-> tip,
                      account |-> "none", total |-> 0, amount |-> 0, repay |-> 0,
                      expected |-> 0, unread |-> {}]
  <2>1. next \in Handling /\ Honest(next) /\ next.at = "prepare"
    BY <1>t DEF Handling, Honest, Steps
  <2>2. /\ handlers[h].at = "idle" /\ handlers' = [handlers EXCEPT ![h] = next]
        /\ UNCHANGED <<lock, mode, tip, lastNotifiedBlock, inflightExecutions>>
    BY <1>3, <1>i DEF OnLiquidatable
  <2> HIDE DEF next
  <2>3. HonestInv' /\ Exclusive' /\ handlers' \in [Handlers -> Handling \cup {Idle}]
    BY <2>1, <2>2, WaitingInv DEF Reading, Steps
  <2> QED BY <2>2, <2>3, <1>t DEF IInv, TypeOK
<1>4. ASSUME NEW h \in Handlers, Prepared(h) PROVE IInv'
  <2>1. handlers[h].at = "prepare" /\ handlers[h] \in Handling
    BY <1>4, <1>h DEF Prepared
  <2>2. Honest(handlers[h])
    BY DEF IInv, HonestInv
  <2>3. UNCHANGED <<lock, mode, tip, inflightExecutions>>
    BY <1>4 DEF Prepared
  <2>4. CASE handlers' = [handlers EXCEPT ![h] = Idle] /\ UNCHANGED lastNotifiedBlock
    <3>1. HonestInv' /\ Exclusive' /\ handlers' \in [Handlers -> Handling \cup {Idle}]
      BY <2>1, <2>3, <2>4, <1>i, WaitingInv DEF Reading, Steps
    <3> QED BY <2>3, <2>4, <3>1, <1>t DEF IInv, TypeOK
  <2>5. ASSUME NEW total \in Plans,
               handlers' = [handlers EXCEPT ![h].at = "notify", ![h].total = total],
               lastNotifiedBlock' =
                 [lastNotifiedBlock EXCEPT ![handlers[h].user] = handlers[h].block]
        PROVE  IInv'
    <3> DEFINE next == [handlers[h] EXCEPT !.at = "notify", !.total = total]
    <3>1. next \in Handling
      BY <2>1, PlansType DEF Handling, Steps
    <3>2. next.at = "notify" /\ next.unread = {} /\ next.expected = 0
      BY <2>1, <2>2 DEF Handling, Honest
    <3>3. handlers' = [handlers EXCEPT ![h] = next]
      BY <2>5, <1>t
    <3>4. lastNotifiedBlock' \in [Users -> -1 .. MaxBlock]
      BY <2>1, <2>5, <1>t DEF Handling
    <3> HIDE DEF next
    <3>5. Honest(next)
      BY <3>2 DEF Honest
    <3>6. HonestInv' /\ Exclusive' /\ handlers' \in [Handlers -> Handling \cup {Idle}]
      BY <2>1, <2>3, <3>1, <3>2, <3>3, <3>5, WaitingInv DEF Reading, Steps
    <3> QED BY <2>3, <3>4, <3>6, <1>t DEF IInv, TypeOK
  <2> QED BY <1>4, <2>4, <2>5 DEF Prepared
<1>5. ASSUME NEW h \in Handlers, Notified(h) PROVE IInv'
  <2>1. handlers[h].at = "notify" /\ handlers[h] \in Handling
    BY <1>5, <1>h DEF Notified
  <2>2. Honest(handlers[h]) /\ handlers[h].user \in Users
    BY <2>1 DEF IInv, HonestInv, Handling
  <2>3. UNCHANGED <<lock, mode, tip, lastNotifiedBlock>>
    BY <1>5 DEF Notified
  <2>4. CASE lock /\ handlers[h].user \in inflightExecutions
    <3>1. handlers' = [handlers EXCEPT ![h] = Idle] /\ UNCHANGED inflightExecutions
      BY <1>5, <2>4 DEF Notified
    <3>2. HonestInv' /\ Exclusive' /\ handlers' \in [Handlers -> Handling \cup {Idle}]
      BY <2>1, <2>3, <3>1, <1>i, WaitingInv DEF Reading, Steps
    <3> QED BY <2>3, <3>1, <3>2, <1>t DEF IInv, TypeOK
  <2>5. CASE ~(lock /\ handlers[h].user \in inflightExecutions) /\ DryRun
    <3>1. /\ handlers' = [handlers EXCEPT ![h] = Idle]
          /\ inflightExecutions' = inflightExecutions \ {handlers[h].user}
      BY <1>5, <2>5 DEF Notified
    <3>2. \A g \in Handlers : handlers'[g] = IF g = h THEN Idle ELSE handlers[g]
      BY <3>1, <1>t
    <3>3. HonestInv'
      BY <3>2, <1>i DEF IInv, HonestInv
    <3>4. \A g \in Handlers, u \in Users : Executes(g, u)' <=> Executes(g, u)
      BY <3>2, <2>1, <1>i DEF Executes, Reading, Steps
    <3>5. lock => inflightExecutions' = inflightExecutions
      BY <3>1, <2>5
    <3>6. Exclusive'
      BY <2>3, <3>4, <3>5 DEF IInv, Exclusive
    <3>7. TypeOK'
      BY <2>3, <3>1, <1>t DEF TypeOK
    <3> QED BY <3>3, <3>6, <3>7 DEF IInv
  <2>6. CASE ~(lock /\ handlers[h].user \in inflightExecutions) /\ ~DryRun
    <3> DEFINE next == [handlers[h] EXCEPT !.at = "health"]
    <3>1. /\ handlers' = [handlers EXCEPT ![h] = next]
          /\ inflightExecutions' = inflightExecutions \cup {handlers[h].user}
      BY <1>5, <2>6, <1>t DEF Notified
    <3>2. next \in Handling /\ next.at = "health" /\ next.user = handlers[h].user
      BY <2>1 DEF Handling, Steps
    <3>3. next.unread = {} /\ next.expected = 0
      BY <2>1, <2>2 DEF Handling, Honest
    <3> HIDE DEF next
    <3>4. \A g \in Handlers : handlers'[g] = IF g = h THEN next ELSE handlers[g]
      BY <3>1, <1>t
    <3>5. HonestInv'
      BY <3>2, <3>3, <3>4 DEF IInv, HonestInv, Honest
    <3>6. ASSUME NEW g \in Handlers, NEW u \in Users
          PROVE  Executes(g, u)' <=> IF g = h THEN u = handlers[h].user ELSE Executes(g, u)
      BY <3>2, <3>4 DEF Executes, Reading, Steps
    <3>7. Exclusive'
      <4> SUFFICES ASSUME lock' PROVE Exclusive'
        BY DEF Exclusive
      <4>1. lock /\ handlers[h].user \notin inflightExecutions
        BY <2>3, <2>6
      <4>2. /\ \A g, f \in Handlers, u \in Users : Executes(g, u) /\ Executes(f, u) => g = f
            /\ \A u \in Users : u \in inflightExecutions
                                  <=> \E g \in Handlers : Executes(g, u)
        BY <4>1 DEF IInv, Exclusive
      <4>3. \A g \in Handlers : ~Executes(g, handlers[h].user)
        BY <4>1, <4>2, <2>2
      <4>4. \A g, f \in Handlers, u \in Users :
              Executes(g, u)' /\ Executes(f, u)' => g = f
        BY <3>6, <4>2, <4>3
      <4>5. \A u \in Users : u \in inflightExecutions'
                               <=> \E g \in Handlers : Executes(g, u)'
        <5>1. \A u \in Users : ~Executes(h, u)
          BY <2>1 DEF Executes, Reading, Steps
        <5> QED BY <3>1, <3>6, <4>2, <5>1
      <4> QED BY <4>4, <4>5 DEF Exclusive
    <3>8. TypeOK'
      BY <2>2, <2>3, <3>1, <3>2, <1>t DEF TypeOK
    <3> QED BY <3>5, <3>7, <3>8 DEF IInv
  <2> QED BY <2>4, <2>5, <2>6
<1>6. ASSUME NEW h \in Handlers, ReadStep(h) PROVE IInv'
  BY <1>6, ReadAnswers, AnsweredInv DEF IInv
<1> QED BY <1>1, <1>2, <1>3, <1>4, <1>5, <1>6 DEF Next, ExecuteStep, ReadStep

-----------------------------------------------------------------------------
\* Every state of the liquidatable handlers and of executeReal is well formed.
THEOREM FlowTypeCorrect == Spec => []TypeOK
<1>1. IInv => TypeOK
  BY DEF IInv
<1> QED BY <1>1, InitInv, NextInv, PTL DEF Spec

\* However the feeds, the oracle and the protocol fail one after another, and however many
\* handlers overlap, what is submitted was valued with prices that were read: the checks
\* of executeReal treat what could not be read as nothing, and nothing makes no profit.
THEOREM NoGuess == Spec => []NeverBlind
<1>1. IInv => NeverBlind
  BY DEF IInv, HonestInv, Honest, NeverBlind
<1> QED BY <1>1, InitInv, NextInv, PTL DEF Spec

\* With the in-flight lock on, no two handlers execute for one user, and the lock holds
\* just the users for whom some handler executes, whichever way the executions end.
THEOREM OneAtATime == Spec => []OneExecutionPerUser
<1>1. IInv => OneExecutionPerUser
  <2> SUFFICES ASSUME IInv, lock, NEW u \in Users
               PROVE  /\ Cardinality(Executing(u)) <= 1
                      /\ u \in inflightExecutions <=> Executing(u) # {}
    BY DEF OneExecutionPerUser
  <2>1. Executing(u) = {h \in Handlers : Executes(h, u)}
    <3>1. \A h \in Handlers : handlers[h] = Idle \/ handlers[h].at \in Steps
      BY DEF IInv, TypeOK, Handling
    <3>2. Idle.at \notin Reading
      BY DEF Idle, Reading, Steps
    <3>3. \A h \in Handlers : handlers[h] # Idle /\ handlers[h].at \notin {"prepare", "notify"}
                                <=> handlers[h].at \in Reading
      BY <3>1, <3>2 DEF Reading
    <3> QED BY <3>3 DEF Executing, Executes
  <2>2. /\ \A g, h \in Handlers : Executes(g, u) /\ Executes(h, u) => g = h
        /\ u \in inflightExecutions <=> \E h \in Handlers : Executes(h, u)
    BY DEF IInv, Exclusive
  <2>3. CASE Executing(u) = {}
    BY <2>1, <2>2, <2>3, FS_EmptySet
  <2>4. CASE Executing(u) # {}
    <3>1. PICK h \in Handlers : Executing(u) = {h}
      BY <2>1, <2>2, <2>4
    <3>2. Cardinality(Executing(u)) = 1
      BY <3>1, FS_Singleton
    <3> QED BY <2>1, <2>2, <2>4, <3>2
  <2> QED BY <2>3, <2>4
<1> QED BY <1>1, InitInv, NextInv, PTL DEF Spec

-----------------------------------------------------------------------------
\* What the composition does to its parts.

LEMMA ExecutionSteps == ExecutionSpec => ExecutionInit /\ [][ExecutionNext]_executionVars
  BY PTL DEF ExecutionSpec

-----------------------------------------------------------------------------
\* PredictiveOrchestrator, for any users, assets, budgets and intervals.

\* The last fallback was no later than the last evaluation, which was of a block there is.
PacedInv ==
  /\ chainTip \in Int /\ lastEvaluationBlock \in Int /\ lastFallback \in Int
  /\ lastFallback <= lastEvaluationBlock /\ lastEvaluationBlock <= chainTip

LEMMA PacedInit == Predictive!Init => PacedInv
<1> SUFFICES ASSUME Predictive!Init PROVE PacedInv
  OBVIOUS
<1>1. IntervalBlocks \in Nat \ {0}
  BY PartAssumptions DEF Predictive!PredictiveAssumption
<1>2. chainTip = 0 /\ lastEvaluationBlock = -IntervalBlocks /\ lastFallback = -IntervalBlocks
  BY DEF Predictive!Init
<1> QED BY <1>1, <1>2 DEF PacedInv

LEMMA PacedNext ==
  PacedInv /\ [Predictive!Next]_(Predictive!vars) =>
    /\ PacedInv'
    /\ lastFallback' # lastFallback => lastFallback' - lastFallback >= IntervalBlocks
<1> DEFINE Paced ==
      lastFallback' # lastFallback => lastFallback' - lastFallback >= IntervalBlocks
<1> SUFFICES ASSUME PacedInv, [Predictive!Next]_(Predictive!vars) PROVE PacedInv' /\ Paced
  OBVIOUS
<1>1. ASSUME NEW f \in Evaluations, NEW a \in Assets, NEW s \in Strengths,
             Predictive!EvaluateOnSignal(f, a, s)
      PROVE  PacedInv' /\ Paced
  <2>1. /\ lastEvaluationBlock' = lastEvaluationBlock \/ lastEvaluationBlock' = chainTip
        /\ chainTip' = chainTip /\ lastFallback' = lastFallback
    BY <1>1 DEF Predictive!EvaluateOnSignal
  <2> QED BY <2>1 DEF PacedInv
<1>2. ASSUME NEW f \in Evaluations, Predictive!RecordEvaluation(f)
      PROVE  PacedInv' /\ Paced
  <2>1. UNCHANGED <<chainTip, lastEvaluationBlock, lastFallback>>
    BY <1>2, Zenon DEF Predictive!RecordEvaluation
  <2> QED BY <2>1 DEF PacedInv
<1>3. ASSUME NEW f \in Evaluations, Predictive!SnapshotsRead(f)
      PROVE  PacedInv' /\ Paced
  <2>1. chainTip' = chainTip
    BY <1>3 DEF Predictive!SnapshotsRead
  <2>2. PICK block \in 0 .. chainTip :
          \/ /\ block - lastEvaluationBlock >= IntervalBlocks
             /\ lastEvaluationBlock' = block /\ lastFallback' = block
          \/ UNCHANGED <<lastEvaluationBlock, lastFallback>>
    BY <1>3 DEF Predictive!SnapshotsRead
  <2>3. IntervalBlocks \in Nat \ {0}
    BY PartAssumptions DEF Predictive!PredictiveAssumption
  <2>4. CASE /\ block - lastEvaluationBlock >= IntervalBlocks
             /\ lastEvaluationBlock' = block /\ lastFallback' = block
    BY <2>1, <2>3, <2>4 DEF PacedInv
  <2>5. CASE UNCHANGED <<lastEvaluationBlock, lastFallback>>
    BY <2>1, <2>5 DEF PacedInv
  <2> QED BY <2>2, <2>4, <2>5
<1>4. CASE Predictive!Tick
  BY <1>4 DEF Predictive!Tick, PacedInv
<1>5. CASE \E f \in Evaluations : Predictive!StartFallback(f) \/ Predictive!FallbackOver(f)
  BY <1>5 DEF Predictive!StartFallback, Predictive!FallbackOver, PacedInv
<1>6. CASE UNCHANGED Predictive!vars
  BY <1>6 DEF Predictive!vars, PacedInv
<1> QED BY <1>1, <1>2, <1>3, <1>4, <1>5, <1>6 DEF Predictive!Next

LEMMA PredictivePart == ExecutionSpec => Predictive!Spec
<1>1. ExecutionInit => Predictive!Init
  BY DEF ExecutionInit
<1>2. [ExecutionNext]_executionVars => [Predictive!Next]_(Predictive!vars)
  BY DEF ExecutionNext, executionVars, predictiveVars, Predictive!vars, FollowFlow,
         FollowPredictive, FollowPrices, FollowAudit, FollowSubgraph
<1> QED BY <1>1, <1>2, ExecutionSteps, PTL DEF Predictive!Spec

\* Although several fallback evaluations may wait for snapshots of one moment, and
\* signals evaluate in between, two fallbacks are never of closer blocks than
\* fallbackIntervalBlocks.
THEOREM FallbacksKeepDistance == ExecutionSpec => FallbackPaced
<1>1. Predictive!Spec => []PacedInv
  BY PacedInit, PacedNext, PTL DEF Predictive!Spec
<1>2. PacedInv /\ [Predictive!Next]_(Predictive!vars) =>
        [lastFallback' # lastFallback
           => lastFallback' - lastFallback >= IntervalBlocks]_(Predictive!vars)
  BY PacedNext
<1>3. Predictive!Spec => Predictive!FallbackPaced
  BY <1>1, <1>2, PTL DEF Predictive!Spec, Predictive!FallbackPaced
<1> QED BY <1>3, PredictivePart, PTL DEF FallbackPaced

-----------------------------------------------------------------------------
\* PriceService, for any feeds, requests and times to live.

\* The feeds a price of s is scaled with.
Known(s) == {s} \cup (IF s \in Ratio THEN {Eth} ELSE {})

\* A price scaled with defaults is no younger than the reading of some decimals it
\* needed: while it was made, they were not read.
ScaledBefore(s) ==
  (~ priceCache[s].scaled /\ \A x \in Known(s) : feedDecimals[x] = "read")
    => \E x \in Known(s) : priceCache[s].at <= readAt[x]

PriceInv ==
  /\ priceClock \in Nat
  /\ feedDecimals \in [Price!Symbols -> {"unread", "read", "failed"}]
  /\ readAt \in [Price!Symbols -> Nat]
  /\ DOMAIN priceCache \subseteq Price!Symbols
  /\ \A s \in DOMAIN priceCache :
       /\ priceCache[s] \in Price!Entry /\ priceCache[s].at <= priceClock
       /\ ScaledBefore(s)
  /\ requests \in [Requests -> Price!Request \cup {Price!Idle}]
  /\ \A r \in Requests : requests[r].at = "eth" => requests[r].symbol \in Ratio
  /\ \A r \in Requests : requests[r].at = "ratio" => requests[r].symbol \in Ratio
  /\ \A r \in Requests : requests[r].at = "feed" => requests[r].symbol \in Direct

LEMMA PriceConstants ==
  /\ Direct \cap Ratio = {} /\ Eth \in Price!Symbols /\ CacheTtl \in Nat \ {0}
  /\ \A s \in Price!Symbols : Known(s) \subseteq Price!Symbols
  BY PartAssumptions DEF Price!PriceAssumption, Price!Symbols, Known

LEMMA PriceInit == Price!Init => PriceInv
<1> SUFFICES ASSUME Price!Init PROVE PriceInv
  OBVIOUS
<1>1. DOMAIN priceCache = {}
  BY DEF Price!Init
<1>2. Price!Idle.at = "idle"
  BY DEF Price!Idle
<1> QED BY <1>1, <1>2 DEF Price!Init, PriceInv

\* An entry is put in the cache, and nobody reads decimals.
LEMMA Caches ==
  ASSUME PriceInv, NEW s \in Price!Symbols, NEW scaled \in BOOLEAN, NEW at \in Nat,
         at <= priceClock, Price!Stored(s, scaled, at),
         ~ scaled => \E x \in Known(s) : feedDecimals[x] # "read",
         UNCHANGED <<priceClock, feedDecimals, readAt>>
  PROVE  /\ DOMAIN priceCache' \subseteq Price!Symbols
         /\ (\A t \in DOMAIN priceCache : /\ priceCache[t] \in Price!Entry
                                          /\ priceCache[t].at <= priceClock
                                          /\ ScaledBefore(t))'
<1>1. /\ DOMAIN priceCache' = DOMAIN priceCache \cup {s}
      /\ priceCache'[s] = [scaled |-> scaled, at |-> at]
      /\ \A t \in DOMAIN priceCache \ {s} : priceCache'[t] = priceCache[t]
  BY DEF Price!Stored
<1>2. priceCache'[s] \in Price!Entry /\ priceCache'[s].at <= priceClock /\ ScaledBefore(s)'
  BY <1>1 DEF Price!Entry, ScaledBefore
<1>3. \A t \in DOMAIN priceCache \ {s} : ScaledBefore(t)'
  BY <1>1 DEF PriceInv, ScaledBefore
<1> QED BY <1>1, <1>2, <1>3 DEF PriceInv

\* A request that goes on keeps its symbol.
LEMMA RequestGoesOn ==
  ASSUME PriceInv, NEW r \in Requests, requests[r] # Price!Idle,
         NEW step \in {"feed", "ratio", "eth", "oracle"}, Price!OnTo(r, step)
  PROVE  /\ requests' \in [Requests -> Price!Request \cup {Price!Idle}]
         /\ \A q \in Requests : \/ requests'[q] = requests[q]
                                \/ /\ q = r /\ requests'[q].at = step
                                   /\ requests'[q].symbol = requests[q].symbol
         /\ priceCache' = priceCache
<1>1. /\ requests' = [requests EXCEPT ![r].at = step] /\ priceCache' = priceCache
  BY DEF Price!OnTo
<1>2. requests[r] \in Price!Request
  BY DEF PriceInv
<1> QED BY <1>1, <1>2 DEF PriceInv, Price!Request

\* A request that is under way and whose source answered.
LEMMA Finds ==
  ASSUME PriceInv, NEW r \in Requests, requests[r] # Price!Idle, NEW scaled \in BOOLEAN,
         ~ scaled => \E x \in Known(requests[r].symbol) : feedDecimals[x] # "read",
         Price!Found(r, scaled), UNCHANGED <<priceClock, feedDecimals, readAt>>
  PROVE  PriceInv'
<1>1. PICK s \in Price!Symbols : s = requests[r].symbol
  BY DEF PriceInv, Price!Request
<1>2. Price!Stored(s, scaled, priceClock) /\ Price!Answered(r, s, requests[r].for, TRUE)
  BY <1>1 DEF Price!Found
<1>3. PICK at \in Nat : at = priceClock
  BY DEF PriceInv
<1>4. at <= priceClock
  BY <1>3
<1>5. /\ DOMAIN priceCache' \subseteq Price!Symbols
      /\ (\A t \in DOMAIN priceCache : /\ priceCache[t] \in Price!Entry
                                       /\ priceCache[t].at <= priceClock
                                       /\ ScaledBefore(t))'
  BY <1>1, <1>2, <1>3, <1>4, Caches
<1>6. requests' = [requests EXCEPT ![r] = Price!Idle]
  BY <1>2 DEF Price!Answered
<1>7. /\ requests' \in [Requests -> Price!Request \cup {Price!Idle}]
      /\ \A q \in Requests : requests'[q] = requests[q] \/ requests'[q].at = "idle"
  BY <1>6 DEF PriceInv, Price!Idle
<1> QED BY <1>5, <1>7 DEF PriceInv

\* A request that goes on to a source of its symbol.
LEMMA GoesOnto ==
  ASSUME PriceInv, NEW r \in Requests, requests[r] # Price!Idle,
         NEW step \in {"eth", "oracle"}, Price!OnTo(r, step),
         step = "eth" => requests[r].symbol \in Ratio,
         UNCHANGED <<priceClock, feedDecimals, readAt>>
  PROVE  PriceInv'
<1>1. /\ requests' \in [Requests -> Price!Request \cup {Price!Idle}]
      /\ \A q \in Requests : \/ requests'[q] = requests[q]
                             \/ /\ q = r /\ requests'[q].at = step
                                /\ requests'[q].symbol = requests[q].symbol
      /\ priceCache' = priceCache
  BY RequestGoesOn
<1>2. (\A s \in DOMAIN priceCache : ScaledBefore(s))'
  BY <1>1 DEF PriceInv, ScaledBefore
<1> QED BY <1>1, <1>2 DEF PriceInv

LEMMA PriceAsked ==
  ASSUME PriceInv, NEW r \in Requests, NEW s \in Price!Symbols, NEW for \in Price!Purposes,
         Price!Asked(r, s, for)
  PROVE  PriceInv'
<1>1. UNCHANGED <<priceClock, feedDecimals, readAt, priceCache>>
  BY DEF Price!Asked
<1>2. PICK new : new = [at |-> Price!FirstSource(s), symbol |-> s, for |-> for]
  OBVIOUS
<1>3. /\ new \in Price!Request /\ new.at # "eth"
      /\ new.at = "ratio" => new.symbol \in Ratio
      /\ new.at = "feed" => new.symbol \in Direct
  BY <1>2 DEF Price!Request, Price!FirstSource, Price!Symbols
<1>4. \/ requests' = [requests EXCEPT ![r] = Price!Idle]
      \/ requests' = [requests EXCEPT ![r] = new]
  BY <1>2 DEF Price!Asked, Price!Answered
<1>5. /\ requests' \in [Requests -> Price!Request \cup {Price!Idle}]
      /\ \A q \in Requests : \/ requests'[q] = requests[q]
                             \/ requests'[q].at = "idle"
                             \/ requests'[q] = new
  BY <1>3, <1>4 DEF PriceInv, Price!Idle
<1>6. (\A t \in DOMAIN priceCache : ScaledBefore(t))'
  BY <1>1 DEF PriceInv, ScaledBefore
<1> QED BY <1>1, <1>3, <1>5, <1>6 DEF PriceInv

LEMMA PriceNext == PriceInv /\ [Price!Next]_(Price!vars) => PriceInv'
<1> SUFFICES ASSUME PriceInv, [Price!Next]_(Price!vars) PROVE PriceInv'
  OBVIOUS
<1> USE PriceConstants
<1>1. CASE Price!Tick
  <2>1. /\ priceClock' = priceClock + 1
        /\ UNCHANGED <<feedDecimals, readAt, priceCache, requests>>
    BY <1>1 DEF Price!Tick
  <2>2. priceClock' \in Nat /\ priceClock <= priceClock'
    BY <2>1 DEF PriceInv
  <2>3. (\A s \in DOMAIN priceCache : priceCache[s] \in Price!Entry
                                      /\ priceCache[s].at <= priceClock)'
    BY <2>1, <2>2 DEF PriceInv, Price!Entry
  <2>4. (\A s \in DOMAIN priceCache : ScaledBefore(s))'
    BY <2>1 DEF PriceInv, ScaledBefore
  <2> QED BY <2>1, <2>2, <2>3, <2>4 DEF PriceInv
<1>2. ASSUME NEW s \in Price!Symbols, NEW answer \in {"read", "failed"},
             Price!ReadDecimals(s, answer)
      PROVE  PriceInv'
  <2>1. /\ feedDecimals[s] = "unread" /\ feedDecimals' = [feedDecimals EXCEPT ![s] = answer]
        /\ readAt' = [readAt EXCEPT ![s] = priceClock]
        /\ UNCHANGED <<priceClock, priceCache, requests>>
    BY <1>2 DEF Price!ReadDecimals
  <2>2. /\ feedDecimals' \in [Price!Symbols -> {"unread", "read", "failed"}]
        /\ readAt' \in [Price!Symbols -> Nat]
    BY <2>1 DEF PriceInv
  <2>3. ASSUME NEW t \in DOMAIN priceCache PROVE ScaledBefore(t)'
    <3>1. t \in Price!Symbols /\ priceCache[t].at <= priceClock /\ ScaledBefore(t)
      BY DEF PriceInv
    <3>2. CASE s \in Known(t)
      <4>1. readAt'[s] = priceClock
        BY <2>1 DEF PriceInv
      <4> QED BY <2>1, <3>1, <3>2, <4>1 DEF ScaledBefore
    <3>3. CASE s \notin Known(t)
      <4>1. \A x \in Known(t) : feedDecimals'[x] = feedDecimals[x] /\ readAt'[x] = readAt[x]
        BY <2>1, <3>1, <3>3 DEF PriceInv
      <4> QED BY <2>1, <3>1, <4>1 DEF ScaledBefore
    <3> QED BY <3>2, <3>3
  <2> QED BY <2>1, <2>2, <2>3 DEF PriceInv
<1>3. ASSUME NEW s \in Price!Symbols, NEW at \in 1 .. priceClock,
             Price!AcceptExternalUpdate(s, at)
      PROVE  PriceInv'
  <2>1. /\ Price!Stored(s, TRUE, at)
        /\ UNCHANGED <<priceClock, feedDecimals, readAt, requests>>
    BY <1>3 DEF Price!AcceptExternalUpdate
  <2>2. at \in Nat /\ at <= priceClock /\ TRUE \in BOOLEAN
    BY DEF PriceInv
  <2>3. /\ DOMAIN priceCache' \subseteq Price!Symbols
        /\ (\A t \in DOMAIN priceCache : /\ priceCache[t] \in Price!Entry
                                         /\ priceCache[t].at <= priceClock
                                         /\ ScaledBefore(t))'
    BY <2>1, <2>2, Caches
  <2> QED BY <2>1, <2>3 DEF PriceInv
<1>4. ASSUME NEW r \in Requests, NEW s \in Price!Symbols, NEW for \in Price!Purposes,
             \/ Price!GetPrice(r, s, for) \/ Price!GetPriceAtBlock(r, s, for)
             \/ \E realtime \in BOOLEAN : Price!NotifyOpportunity(r, s, for, realtime)
      PROVE  PriceInv'
  <2>1. \/ Price!Asked(r, s, for)
        \/ UNCHANGED <<priceClock, feedDecimals, readAt, priceCache, requests>>
    BY <1>4 DEF Price!GetPrice, Price!GetPriceAtBlock, Price!NotifyOpportunity,
                Price!Validated
  <2>2. CASE UNCHANGED <<priceClock, feedDecimals, readAt, priceCache, requests>>
    BY <2>2 DEF PriceInv, ScaledBefore
  <2> QED BY <2>1, <2>2, PriceAsked
<1>5. ASSUME NEW r \in Requests, Price!SourceAnswers(r) PROVE PriceInv'
  <2>1. requests[r] # Price!Idle
    <3>1. requests[r].at \in {"feed", "ratio", "eth", "oracle"}
      BY <1>5 DEF Price!SourceAnswers, Price!ChainlinkAnswers, Price!RatioAnswers,
                  Price!EthAnswers, Price!OracleAnswers
    <3>2. Price!Idle.at = "idle"
      BY DEF Price!Idle
    <3> QED BY <3>1, <3>2
  <2>2. UNCHANGED <<priceClock, feedDecimals, readAt>>
    BY <1>5 DEF Price!SourceAnswers, Price!ChainlinkAnswers, Price!RatioAnswers,
                Price!EthAnswers, Price!OracleAnswers
  <2>3. CASE Price!ChainlinkAnswers(r)
    <3>1. \/ Price!Found(r, feedDecimals[requests[r].symbol] = "read")
          \/ Price!OnTo(r, "oracle")
      BY <2>3 DEF Price!ChainlinkAnswers
    <3>2. PICK scaled \in BOOLEAN : scaled = (feedDecimals[requests[r].symbol] = "read")
      OBVIOUS
    <3>3. ~ scaled => \E x \in Known(requests[r].symbol) : feedDecimals[x] # "read"
      BY <3>2 DEF Known
    <3> QED BY <2>1, <2>2, <3>1, <3>2, <3>3, Finds, GoesOnto
  <2>4. CASE Price!RatioAnswers(r)
    <3>1. requests[r].symbol \in Ratio
      BY <2>4 DEF Price!RatioAnswers, PriceInv
    <3>2. Price!OnTo(r, "eth") \/ Price!OnTo(r, "oracle")
      BY <2>4 DEF Price!RatioAnswers
    <3> QED BY <2>1, <2>2, <3>1, <3>2, GoesOnto
  <2>5. CASE Price!EthAnswers(r)
    <3>1. requests[r].symbol \in Ratio
      BY <2>5 DEF Price!EthAnswers, PriceInv
    <3>2. PICK scaled \in BOOLEAN :
            scaled = (feedDecimals[requests[r].symbol] = "read" /\ feedDecimals[Eth] = "read")
      OBVIOUS
    <3>3. Price!Found(r, scaled) \/ Price!OnTo(r, "oracle")
      BY <2>5, <3>2 DEF Price!EthAnswers
    <3>4. ~ scaled => \E x \in Known(requests[r].symbol) : feedDecimals[x] # "read"
      BY <3>1, <3>2 DEF Known
    <3> QED BY <2>1, <2>2, <3>3, <3>4, Finds, GoesOnto
  <2>6. CASE Price!OracleAnswers(r)
    <3>1. CASE Price!Found(r, TRUE)
      BY <2>1, <2>2, <3>1, Finds
    <3>2. CASE Price!Answered(r, requests[r].symbol, requests[r].for, FALSE)
               /\ UNCHANGED priceCache
      <4>1. requests' = [requests EXCEPT ![r] = Price!Idle]
        BY <3>2 DEF Price!Answered
      <4>2. /\ requests' \in [Requests -> Price!Request \cup {Price!Idle}]
            /\ \A q \in Requests : requests'[q] = requests[q] \/ requests'[q].at = "idle"
        BY <4>1 DEF PriceInv, Price!Idle
      <4>3. (\A t \in DOMAIN priceCache : ScaledBefore(t))'
        BY <2>2, <3>2 DEF PriceInv, ScaledBefore
      <4> QED BY <2>2, <3>2, <4>2, <4>3 DEF PriceInv
    <3> QED BY <2>6, <3>1, <3>2 DEF Price!OracleAnswers, Price!Stub
  <2> QED BY <1>5, <2>3, <2>4, <2>5, <2>6 DEF Price!SourceAnswers
<1>6. CASE UNCHANGED Price!vars
  BY <1>6 DEF Price!vars, PriceInv, ScaledBefore
<1> QED BY <1>1, <1>2, <1>3, <1>4, <1>5, <1>6 DEF Price!Next

LEMMA PriceSteps == ExecutionSpec => Price!Init /\ [][Price!Next]_(Price!vars)
<1>1. ExecutionInit => Price!Init
  BY DEF ExecutionInit
<1>2. [ExecutionNext]_executionVars => [Price!Next]_(Price!vars)
  BY DEF ExecutionNext, executionVars, pricesVars, Price!vars, FollowFlow,
         FollowPredictive, FollowPrices, FollowAudit, FollowSubgraph
<1> QED BY <1>1, <1>2, ExecutionSteps, PTL

\* Whichever requests were under way while the decimals of the feeds were read, fed by
\* whichever source, a price that was scaled with a default is served for at most one
\* cacheTtlMs after they are known.
THEOREM DefaultsAreForgotten == ExecutionSpec => []ScaledInTime
<1>1. PriceInv => Price!ScaledInTime
  <2> SUFFICES ASSUME PriceInv, NEW s \in Price!Symbols, Price!Fresh(s),
                      ~ priceCache[s].scaled,
                      \A x \in Known(s) : feedDecimals[x] = "read"
               PROVE  \E x \in Known(s) : priceClock < readAt[x] + CacheTtl
    BY DEF Price!ScaledInTime, Known
  <2>1. s \in DOMAIN priceCache /\ priceClock - priceCache[s].at < CacheTtl
    BY DEF Price!Fresh
  <2>2. PICK x \in Known(s) : priceCache[s].at <= readAt[x]
    BY <2>1 DEF PriceInv, ScaledBefore
  <2>3. readAt[x] \in Nat /\ priceCache[s].at \in Nat /\ priceClock \in Nat
    BY <2>1, PriceConstants DEF PriceInv, Price!Entry
  <2>4. priceClock < readAt[x] + CacheTtl
    BY <2>1, <2>2, <2>3, PriceConstants
  <2> QED BY <2>4
<1> QED BY <1>1, PriceInit, PriceNext, PriceSteps, PTL DEF ScaledInTime

-----------------------------------------------------------------------------
\* What the audit, the subgraph feed and the dedup cache pick from a sequence.

\* As all three define it.
Place(n, places) == CHOOSE i \in places : Cardinality({j \in places : j <= i}) = n
Among(s, S) ==
  LET places == {i \in DOMAIN s : s[i] \in S}
  IN  [n \in 1 .. Cardinality(places) |-> s[Place(n, places)]]

LEMMA AmongIsTheirs ==
  \A s, S : /\ Subgraph!Among(s, S) = Among(s, S) /\ Audit!Among(s, S) = Among(s, S)
             /\ Predictive!Among(s, S) = Among(s, S)
<1>1. \A T : /\ Subgraph!Cardinality(T) = Cardinality(T)
             /\ Audit!Cardinality(T) = Cardinality(T)
             /\ Predictive!Cardinality(T) = Cardinality(T)
  BY DEF Subgraph!Cardinality, Audit!Cardinality, Predictive!Cardinality, Cardinality
<1>2. \A n, p : /\ Subgraph!Place(n, p) = Place(n, p) /\ Audit!Place(n, p) = Place(n, p)
                /\ Predictive!Place(n, p) = Place(n, p)
  BY <1>1, Zenon DEF Subgraph!Place, Audit!Place, Predictive!Place, Place
<1> QED BY <1>1, <1>2, Zenon DEF Subgraph!Among, Audit!Among, Predictive!Among, Among

\* Counting the places up to each numbers them in their order, so Place finds the n-th.
LEMMA PlacesInOrder ==
  ASSUME NEW m \in Nat, NEW places \in SUBSET (1 .. m)
  PROVE  /\ Cardinality(places) \in 0 .. m
         /\ \A n \in 1 .. Cardinality(places) : Place(n, places) \in places
         /\ \A k, n \in 1 .. Cardinality(places) :
              k < n => Place(k, places) < Place(n, places)
         /\ \A i \in places : \E n \in 1 .. Cardinality(places) : Place(n, places) = i
<1> DEFINE UpTo(i) == {j \in places : j <= i}
           count == [i \in places |-> Cardinality(UpTo(i))]
           c == Cardinality(places)
<1>0. \A i \in places : i \in Int
  OBVIOUS
<1>1. IsFiniteSet(1 .. m) /\ Cardinality(1 .. m) = m
  BY FS_Interval
<1>2. IsFiniteSet(places) /\ c <= m
  BY <1>1, FS_Subset
<1>3. c \in Nat
  BY <1>2, FS_CardinalityType
<1>4. ASSUME NEW i \in places PROVE IsFiniteSet(UpTo(i)) /\ Cardinality(UpTo(i)) \in 1 .. c
  <2>1. IsFiniteSet(UpTo(i)) /\ Cardinality(UpTo(i)) <= c
    <3>1. UpTo(i) \in SUBSET places
      OBVIOUS
    <3> QED BY <1>2, <3>1, FS_Subset
  <2>2. Cardinality(UpTo(i)) \in Nat
    BY <2>1, FS_CardinalityType
  <2>3. Cardinality(UpTo(i)) # 0
    <3>1. i \in UpTo(i)
      OBVIOUS
    <3> QED BY <2>1, <3>1, FS_EmptySet
  <2> QED BY <1>3, <2>1, <2>2, <2>3
<1>5. ASSUME NEW i \in places, NEW k \in places, i < k PROVE count[i] < count[k]
  <2>0. i \in Int /\ k \in Int /\ k <= k /\ ~ k <= i
    BY <1>0, <1>5
  <2>1. UpTo(i) \in SUBSET UpTo(k) /\ k \in UpTo(k) /\ k \notin UpTo(i)
    <3>1. \A j \in places : j <= i => j <= k
      BY <1>0, <1>5
    <3> QED BY <2>0, <3>1
  <2>2. Cardinality(UpTo(i)) <= Cardinality(UpTo(k))
        /\ (Cardinality(UpTo(k)) = Cardinality(UpTo(i)) => UpTo(k) = UpTo(i))
    BY <1>4, <2>1, FS_Subset
  <2>3. Cardinality(UpTo(i)) \in Nat /\ Cardinality(UpTo(k)) \in Nat
    BY <1>4, <1>3
  <2> HIDE DEF UpTo
  <2> QED BY <2>1, <2>2, <2>3
<1>6. count \in [places -> 1 .. c]
  BY <1>4
<1>7. count \in Injection(places, 1 .. c)
  <2>1. ASSUME NEW i \in places, NEW k \in places, count[i] = count[k] PROVE i = k
    <3>1. i \in Int /\ k \in Int
      OBVIOUS
    <3>2. count[i] \in Int /\ count[k] \in Int
      BY <1>6, <1>3
    <3> HIDE DEF count
    <3> QED BY <3>1, <3>2, <2>1, <1>5
  <2> HIDE DEF count
  <2> QED BY <1>6, <2>1 DEF Injection, IsInjective
<1>8. count \in Surjection(places, 1 .. c)
  <2>1. IsFiniteSet(1 .. c) /\ Cardinality(1 .. c) = c
    BY <1>3, FS_Interval
  <2> QED BY <1>7, <2>1, FS_Injection
<1>9. ASSUME NEW n \in 1 .. c
      PROVE  Place(n, places) \in places /\ count[Place(n, places)] = n
  <2>1. PICK i \in places : count[i] = n
    BY <1>8 DEF Surjection
  <2>2. \E x \in places : Cardinality({j \in places : j <= x}) = n
    BY <2>1
  <2> QED BY <2>2 DEF Place
<1>10. ASSUME NEW k \in 1 .. c, NEW n \in 1 .. c, k < n
       PROVE  Place(k, places) < Place(n, places)
  <2>1. Place(k, places) \in places /\ Place(n, places) \in places
    BY <1>9, Zenon
  <2>2. c \in Int /\ k \in Int /\ n \in Int
    BY <1>3
  <2>3. count[Place(k, places)] = k /\ count[Place(n, places)] = n
    BY <1>9, Zenon
  <2>4. PICK x \in places, y \in places : x = Place(k, places) /\ y = Place(n, places)
    BY <2>1
  <2>5. count[x] = k /\ count[y] = n /\ x \in Int /\ y \in Int
    BY <1>0, <2>3, <2>4
  <2>6. ~ y < x
    <3> HIDE DEF count
    <3> SUFFICES ASSUME y < x PROVE FALSE
      OBVIOUS
    <3>1. count[y] < count[x]
      BY <1>5
    <3> QED BY <1>10, <2>2, <2>5, <3>1
  <2>7. x # y
    BY <1>10, <2>2, <2>5
  <2> QED BY <2>4, <2>5, <2>6, <2>7
<1>11. ASSUME NEW i \in places PROVE \E n \in 1 .. c : Place(n, places) = i
  <2>1. count[i] \in 1 .. c
    BY <1>6
  <2>2. Place(count[i], places) \in places /\ count[Place(count[i], places)] = count[i]
    BY <1>9, <2>1
  <2>3. Place(count[i], places) = i
    <3> HIDE DEF count
    <3> QED BY <1>7, <2>2 DEF Injection, IsInjective
  <2> QED BY <2>1, <2>3
<1>12. c \in 0 .. m
  BY <1>2, <1>3
<1> HIDE DEF count, c
<1> QED BY <1>9, <1>10, <1>11, <1>12, Zenon DEF c

\* The places kept, in their order, are all those with an element in S.
Selects(f, kept, s, S) ==
  /\ \A n \in 1 .. Len(kept) : kept[n] = s[f[n]] /\ s[f[n]] \in S
  /\ \A k, n \in 1 .. Len(kept) : k < n => f[k] < f[n]
  /\ \A i \in 1 .. Len(s) : s[i] \in S => \E n \in 1 .. Len(kept) : f[n] = i

\* What Among keeps, and that it keeps no other.
LEMMA AmongKeeps ==
  ASSUME NEW T, NEW s \in Seq(T), NEW S
  PROVE  /\ Among(s, S) \in Seq(T) /\ Len(Among(s, S)) <= Len(s)
         /\ \E f \in [1 .. Len(Among(s, S)) -> 1 .. Len(s)] : Selects(f, Among(s, S), s, S)
<1> DEFINE places == {i \in DOMAIN s : s[i] \in S}
           c == Cardinality(places)
           f == [n \in 1 .. c |-> Place(n, places)]
<1>1. Len(s) \in Nat /\ DOMAIN s = 1 .. Len(s) /\ \A i \in 1 .. Len(s) : s[i] \in T
  OBVIOUS
<1>2. places \in SUBSET (1 .. Len(s))
  BY <1>1
<1>3. /\ c \in 0 .. Len(s)
      /\ \A n \in 1 .. c : Place(n, places) \in places
      /\ \A k, n \in 1 .. c : k < n => Place(k, places) < Place(n, places)
      /\ \A i \in places : \E n \in 1 .. c : Place(n, places) = i
  <2> HIDE DEF places
  <2> QED BY <1>1, <1>2, PlacesInOrder
<1>4. Among(s, S) = [n \in 1 .. c |-> s[Place(n, places)]]
  BY DEF Among
<1>5. \A i \in places : i \in 1 .. Len(s) /\ s[i] \in S /\ s[i] \in T
  BY <1>1
<1>6. \A i \in 1 .. Len(s) : s[i] \in S => i \in places
  BY <1>1
<1> HIDE DEF places, c
<1>7. Among(s, S) \in Seq(T) /\ Len(Among(s, S)) = c
  BY <1>3, <1>4, <1>5
<1>8. /\ f \in [1 .. c -> 1 .. Len(s)]
      /\ \A n \in 1 .. c : Among(s, S)[n] = s[f[n]] /\ s[f[n]] \in S
      /\ \A k, n \in 1 .. c : k < n => f[k] < f[n]
      /\ \A i \in 1 .. Len(s) : s[i] \in S => \E n \in 1 .. c : f[n] = i
  BY <1>3, <1>4, <1>5, <1>6
<1> HIDE DEF f
<1>9. Among(s, S) \in Seq(T) /\ Len(Among(s, S)) <= Len(s)
  BY <1>1, <1>3, <1>7
<1>10. c = Len(Among(s, S))
  BY <1>7
<1>11. f \in [1 .. Len(Among(s, S)) -> 1 .. Len(s)] /\ Selects(f, Among(s, S), s, S)
  BY <1>8, <1>10, Zenon DEF Selects
<1> QED BY <1>9, <1>11, Zenon
\* Finitely many numbers have a largest.
LEMMA HasLargest ==
  ASSUME NEW m \in Nat, NEW T \in SUBSET (1 .. m), T # {}
  PROVE  \E e \in T : \A f \in T : f <= e
<1> DEFINE c == Cardinality(T)
<1>1. /\ c \in 0 .. m
      /\ \A n \in 1 .. c : Place(n, T) \in T
      /\ \A k, n \in 1 .. c : k < n => Place(k, T) < Place(n, T)
      /\ \A i \in T : \E n \in 1 .. c : Place(n, T) = i
  BY PlacesInOrder
<1> HIDE DEF c
<1>2. \A i \in T : i \in Int
  OBVIOUS
<1>3. c \in 1 .. c
  <2>1. PICK i \in T : TRUE
    OBVIOUS
  <2>2. PICK n \in 1 .. c : Place(n, T) = i
    BY <1>1
  <2> QED BY <1>1
<1>4. ASSUME NEW f \in T PROVE f <= Place(c, T)
  <2>1. PICK n \in 1 .. c : Place(n, T) = f
    BY <1>1
  <2>2. n = c \/ n < c
    BY <1>3
  <2>3. Place(c, T) \in Int
    BY <1>1, <1>2, <1>3
  <2>4. f = Place(c, T) \/ f < Place(c, T)
    BY <1>1, <1>3, <2>1, <2>2
  <2> QED BY <1>2, <2>3, <2>4
<1> QED BY <1>1, <1>3, <1>4

-----------------------------------------------------------------------------
\* Of the subgraph feed: a liquidation is told once.

\* A liquidation no poll and nobody else has to tell yet.
Untold(e) ==
  told[e] = 0 /\ \A p \in Polls : polls[p].at = "health" => e \notin polls[p].new

\* A liquidation the tracker still remembers has been told once, or one poll has it to
\* tell, or it is untold; only one in the queue may be other than untold.
Once(e) ==
  /\ told[e] <= 1
  /\ e \notin Subgraph!ToSet(idQueue) => Untold(e)
  /\ \A p \in Polls : polls[p].at = "health" /\ e \in polls[p].new => told[e] = 0
  /\ \A p, q \in Polls : /\ polls[p].at = "health" /\ e \in polls[p].new
                         /\ polls[q].at = "health" /\ e \in polls[q].new
                         => p = q

ToldInv ==
  /\ Subgraph!TypeOK
  /\ \A p \in Polls : polls[p].at = "health" => polls[p].new # {}
  /\ \A e \in Subgraph!Ids \ forgotten : Once(e)

LEMMA SubgraphConstants ==
  /\ {PollLimit, TrackMax, Capacity, Failures, Pages, SeedQueries, Chunks, MaxEvents}
       \subseteq Nat \ {0}
  /\ PollLimit <= TrackMax
BY PartAssumptions DEF Subgraph!SubgraphAssumption

\* What is new was not remembered and now is.
LEMMA DiffIsNew ==
  ASSUME idQueue \in Seq(Subgraph!Ids), NEW upTo \in 0 .. MaxEvents,
         NEW diff, diff = Subgraph!Diff(Subgraph!Snapshot(upTo))
  PROVE  /\ diff.queue \in Seq(Subgraph!Ids)
         /\ diff.new \subseteq Subgraph!Ids \ Subgraph!ToSet(idQueue)
         /\ diff.new \subseteq Subgraph!ToSet(diff.queue)
<1> DEFINE Ids == Subgraph!Ids
           snapshot == Subgraph!Snapshot(upTo)
           fresh == Among(snapshot, Ids \ Subgraph!ToSet(idQueue))
           ids == idQueue \o fresh
           over == IF Len(ids) > TrackMax THEN Len(ids) - TrackMax ELSE 0
<1>1. snapshot \in Seq(Ids) /\ Len(snapshot) <= PollLimit
  <2>1. PICK n \in Nat : n = (IF upTo < PollLimit THEN upTo ELSE PollLimit)
    BY SubgraphConstants
  <2>2. n <= upTo /\ n <= PollLimit
    BY <2>1, SubgraphConstants
  <2>3. snapshot = [i \in 1 .. n |-> upTo + 1 - i]
    BY <2>1 DEF Subgraph!Snapshot
  <2>4. \A i \in 1 .. n : upTo + 1 - i \in Ids
    BY <2>2, SubgraphConstants DEF Subgraph!Ids
  <2> HIDE DEF Ids, snapshot
  <2> QED BY <2>1, <2>2, <2>3, <2>4
<1>2. diff = [new |-> Subgraph!ToSet(fresh), queue |-> SubSeq(ids, over + 1, Len(ids))]
  BY AmongIsTheirs, Zenon DEF Subgraph!Diff
<1>20. diff.queue = SubSeq(ids, over + 1, Len(ids)) /\ diff.new = Subgraph!ToSet(fresh)
  <2> HIDE DEF ids, over, fresh
  <2>1. PICK q, new : q = SubSeq(ids, over + 1, Len(ids)) /\ new = Subgraph!ToSet(fresh)
    OBVIOUS
  <2>2. diff = [new |-> new, queue |-> q]
    BY <1>2, <2>1, Zenon
  <2>3. diff.queue = q /\ diff.new = new
    BY <2>2
  <2> QED BY <2>1, <2>3, Zenon
<1> HIDE DEF snapshot, Ids
<1>3. /\ fresh \in Seq(Ids) /\ Len(fresh) <= Len(snapshot)
      /\ \E f \in [1 .. Len(fresh) -> 1 .. Len(snapshot)] :
           \A n \in 1 .. Len(fresh) :
              fresh[n] = snapshot[f[n]] /\ snapshot[f[n]] \in Ids \ Subgraph!ToSet(idQueue)
  <2>1. /\ fresh \in Seq(Ids) /\ Len(fresh) <= Len(snapshot)
        /\ \E f \in [1 .. Len(fresh) -> 1 .. Len(snapshot)] :
             Selects(f, fresh, snapshot, Ids \ Subgraph!ToSet(idQueue))
    BY <1>1, AmongKeeps
  <2> HIDE DEF fresh
  <2> QED BY <2>1 DEF Selects
<1> HIDE DEF fresh
<1>4. Len(fresh) <= TrackMax
  BY <1>1, <1>3, SubgraphConstants
<1>5. Subgraph!ToSet(fresh) \subseteq Ids \ Subgraph!ToSet(idQueue)
  <2>1. \A n \in 1 .. Len(fresh) : fresh[n] \in Ids \ Subgraph!ToSet(idQueue)
    BY <1>3
  <2>2. DOMAIN fresh = 1 .. Len(fresh)
    BY <1>3
  <2> QED BY <2>1, <2>2 DEF Subgraph!ToSet
<1>6. /\ ids \in Seq(Ids) /\ Len(ids) = Len(idQueue) + Len(fresh)
      /\ \A n \in 1 .. Len(fresh) : ids[Len(idQueue) + n] = fresh[n]
  BY <1>3 DEF Ids
<1> HIDE DEF ids
<1>7. over \in 0 .. Len(idQueue)
  BY <1>3, <1>4, <1>6, SubgraphConstants
<1> HIDE DEF over
<1>8. /\ diff.queue \in Seq(Ids)
      /\ Len(diff.queue) = Len(ids) - over
      /\ \A i \in 1 .. Len(ids) - over : diff.queue[i] = ids[over + i]
  <2>1. over \in Nat /\ Len(ids) \in Nat /\ over <= Len(ids)
    BY <1>3, <1>6, <1>7
  <2>2. SubSeq(ids, over + 1, Len(ids)) = [i \in 1 .. Len(ids) - over |-> ids[i + over]]
    BY <1>6, <2>1
  <2>3. diff.queue = [i \in 1 .. Len(ids) - over |-> ids[i + over]]
    BY <1>20, <2>2
  <2>4. Len(ids) - over \in Nat
    BY <2>1
  <2>5. \A i \in 1 .. Len(ids) - over : over + i = i + over /\ i + over \in 1 .. Len(ids)
    BY <2>1
  <2>6. \A i \in 1 .. Len(ids) - over : ids[i + over] \in Ids
    BY <1>6, <2>5
  <2> QED BY <2>3, <2>4, <2>5, <2>6
<1>9. ASSUME NEW n \in 1 .. Len(fresh) PROVE fresh[n] \in Subgraph!ToSet(diff.queue)
  <2>1. PICK i \in 1 .. Len(ids) - over : over + i = Len(idQueue) + n
    <3>1. Len(idQueue) + n - over \in 1 .. Len(ids) - over
      BY <1>3, <1>6, <1>7
    <3>2. over + (Len(idQueue) + n - over) = Len(idQueue) + n
      BY <1>7
    <3> QED BY <3>1, <3>2
  <2>2. diff.queue[i] = fresh[n]
    BY <1>6, <1>8, <2>1
  <2>3. i \in DOMAIN diff.queue
    BY <1>8
  <2> QED BY <2>2, <2>3 DEF Subgraph!ToSet
<1>10. diff.new \subseteq Subgraph!ToSet(diff.queue)
  <2>1. DOMAIN fresh = 1 .. Len(fresh)
    BY <1>3
  <2>2. \A x \in Subgraph!ToSet(fresh) : x \in Subgraph!ToSet(diff.queue)
    <3>1. \A x \in Subgraph!ToSet(fresh) : \E n \in 1 .. Len(fresh) : x = fresh[n]
      BY <2>1, Zenon DEF Subgraph!ToSet
    <3> QED BY <1>9, <3>1, Zenon
  <2> QED BY <1>20, <2>2
<1> QED BY <1>20, <1>5, <1>8, <1>10 DEF Ids
LEMMA ToldInit == Subgraph!Init => ToldInv
<1> SUFFICES ASSUME Subgraph!Init PROVE ToldInv
  OBVIOUS
<1>1. Subgraph!TypeOK
  <2>1. idQueue \in Seq(Subgraph!Ids)
    BY DEF Subgraph!Init
  <2>2. tokens \in 0 .. Capacity /\ consecutiveFailures \in Nat /\ events \in 0 .. MaxEvents
    BY SubgraphConstants DEF Subgraph!Init
  <2>3. polls \in [Polls -> {Subgraph!Idle}] /\ told \in [Subgraph!Ids -> Nat]
    BY DEF Subgraph!Init
  <2>4. seeding \in [at : {"query", "backfill", "done"}, query : 1 .. SeedQueries, step : Nat,
                     found : BOOLEAN, failed : BOOLEAN, fellBack : BOOLEAN]
    BY SubgraphConstants DEF Subgraph!Init
  <2> QED BY <2>1, <2>2, <2>3, <2>4 DEF Subgraph!Init, Subgraph!TypeOK
<1>2. \A p \in Polls : polls[p].at = "idle"
  BY DEF Subgraph!Init, Subgraph!Idle
<1>3. \A e \in Subgraph!Ids : told[e] = 0
  BY DEF Subgraph!Init
<1> QED BY <1>1, <1>2, <1>3 DEF ToldInv, Once, Untold

\* A poll, as it is kept.
Poll == {Subgraph!Idle} \cup [at : {"list", "health", "scan"}, from : 0 .. MaxEvents,
                              new : SUBSET Subgraph!Ids, page : 0 .. Pages]

\* Counting a request leaves the service well typed.
LEMMA CountedTyped ==
  ASSUME Subgraph!TypeOK, NEW how, Subgraph!Counted(how)
  PROVE  consecutiveFailures' \in Nat /\ degraded' \in BOOLEAN
<1>1. consecutiveFailures' \in Nat
  BY DEF Subgraph!TypeOK, Subgraph!Counted
<1>2. degraded' \in BOOLEAN
  BY DEF Subgraph!TypeOK, Subgraph!Counted
<1> QED BY <1>1, <1>2

\* A poll that tells nothing more, while nothing is noted or told, disturbs nothing.
LEMMA PollGoesOn ==
  ASSUME ToldInv, NEW p \in Polls, NEW x \in Poll,
         polls' = [polls EXCEPT ![p] = x], x.at # "health",
         UNCHANGED <<ignoreBootstrap, events, idQueue, told, bootstrap, forgotten, seeding>>,
         tokens' \in 0 .. Capacity, consecutiveFailures' \in Nat, degraded' \in BOOLEAN,
         isFirstPoll' \in BOOLEAN
  PROVE  ToldInv'
<1>1. Subgraph!TypeOK'
  BY DEF ToldInv, Subgraph!TypeOK, Poll
<1>2. \A q \in Polls : polls'[q].at = "health" => polls'[q] = polls[q]
  BY DEF ToldInv, Subgraph!TypeOK
<1>3. ASSUME NEW e \in Subgraph!Ids \ forgotten PROVE Once(e)'
  <2>1. Once(e)
    BY DEF ToldInv
  <2> QED BY <1>2, <2>1 DEF Once, Untold
<1> QED BY <1>1, <1>2, <1>3 DEF ToldInv

LEMMA ToldListed ==
  ASSUME ToldInv, NEW p \in Polls, Subgraph!Listed(p)
  PROVE  ToldInv'
<1>1. polls[p] \in Poll /\ polls \in [Polls -> Poll]
  BY DEF ToldInv, Subgraph!TypeOK, Poll
<1>2. consecutiveFailures' \in Nat /\ degraded' \in BOOLEAN
  <2>1. \E how \in {"ok", "failed", "unparsed"} : Subgraph!Counted(how)
    BY DEF Subgraph!Listed
  <2> QED BY <2>1, CountedTyped DEF ToldInv
<1>3. CASE Subgraph!Over(p) /\ UNCHANGED <<idQueue, isFirstPoll, bootstrap, forgotten>>
  <2>1. polls' = [polls EXCEPT ![p] = Subgraph!Idle]
    BY <1>3 DEF Subgraph!Over
  <2>2. Subgraph!Idle \in Poll /\ Subgraph!Idle.at # "health"
    BY DEF Poll, Subgraph!Idle
  <2>3. UNCHANGED <<ignoreBootstrap, tokens, events, told, seeding>>
    BY DEF Subgraph!Listed
  <2>4. tokens' \in 0 .. Capacity /\ isFirstPoll' \in BOOLEAN
    BY <1>3, <2>3 DEF ToldInv, Subgraph!TypeOK
  <2> QED BY <1>2, <1>3, <2>1, <2>2, <2>3, <2>4, PollGoesOn
<1>4. ASSUME NEW upTo \in polls[p].from .. events,
             NEW diff, diff = Subgraph!Diff(Subgraph!Snapshot(upTo)),
             idQueue' = diff.queue,
             forgotten' = forgotten \cup
                            (Subgraph!ToSet(idQueue) \ Subgraph!ToSet(diff.queue)),
             bootstrap' = IF isFirstPoll /\ bootstrap = {} THEN diff.new ELSE bootstrap,
             IF diff.new = {}
               THEN /\ isFirstPoll' = FALSE
                    /\ polls' = [polls EXCEPT ![p].at = "scan"]
               ELSE /\ polls' = [polls EXCEPT ![p].at = "health", ![p].new = diff.new]
                    /\ UNCHANGED isFirstPoll
      PROVE ToldInv'
  <2>1. polls[p].at = "list" /\ UNCHANGED <<ignoreBootstrap, tokens, events, told, seeding>>
    BY DEF Subgraph!Listed
  <2>2. polls[p] \in [at : {"list", "health", "scan"}, from : 0 .. MaxEvents,
                      new : SUBSET Subgraph!Ids, page : 0 .. Pages]
    BY <1>1, <2>1 DEF Poll, Subgraph!Idle
  <2>3. upTo \in 0 .. MaxEvents
    BY <2>2, SubgraphConstants DEF ToldInv, Subgraph!TypeOK
  <2>4. /\ diff.queue \in Seq(Subgraph!Ids)
        /\ diff.new \subseteq Subgraph!Ids \ Subgraph!ToSet(idQueue)
        /\ diff.new \subseteq Subgraph!ToSet(diff.queue)
    <3>1. idQueue \in Seq(Subgraph!Ids)
      BY DEF ToldInv, Subgraph!TypeOK
    <3> QED BY <1>4, <2>3, <3>1, DiffIsNew
  <2>5. /\ polls' \in [Polls -> Poll] /\ isFirstPoll' \in BOOLEAN
        /\ \A q \in Polls \ {p} : polls'[q] = polls[q]
        /\ polls'[p].at = "health" => polls'[p].new = diff.new /\ diff.new # {}
    <3>1. CASE diff.new = {}
      <4>1. polls' = [polls EXCEPT ![p].at = "scan"] /\ isFirstPoll' = FALSE
        BY <1>4, <3>1
      <4>2. [polls[p] EXCEPT !.at = "scan"] \in Poll
        BY <2>2 DEF Poll
      <4>3. polls'[p] = [polls[p] EXCEPT !.at = "scan"]
        BY <1>1, <4>1
      <4>4. polls'[p].at = "scan"
        BY <2>2, <4>3
      <4> QED BY <1>1, <4>1, <4>2, <4>3, <4>4
    <3>2. CASE diff.new # {}
      <4>1. /\ polls' = [polls EXCEPT ![p].at = "health", ![p].new = diff.new]
            /\ isFirstPoll' = isFirstPoll
        BY <1>4, <3>2
      <4>2. PICK r : r = [polls[p] EXCEPT !.at = "health", !.new = diff.new]
        OBVIOUS
      <4>3. r \in Poll /\ r.new = diff.new
        BY <2>2, <2>4, <4>2 DEF Poll
      <4>4. polls' = [polls EXCEPT ![p] = r]
        BY <1>1, <4>1, <4>2
      <4>5. isFirstPoll' \in BOOLEAN
        BY <4>1 DEF ToldInv, Subgraph!TypeOK
      <4> QED BY <1>1, <3>2, <4>3, <4>4, <4>5
    <3> QED BY <3>1, <3>2
  <2>6. Subgraph!TypeOK'
    <3>1. Subgraph!ToSet(idQueue) \subseteq Subgraph!Ids
      BY DEF ToldInv, Subgraph!TypeOK, Subgraph!ToSet
    <3>2. forgotten' \subseteq Subgraph!Ids /\ bootstrap' \subseteq Subgraph!Ids
      BY <1>4, <2>4, <3>1 DEF ToldInv, Subgraph!TypeOK
    <3>3. idQueue' \in Seq(Subgraph!Ids)
      BY <1>4, <2>4
    <3> QED BY <1>2, <2>1, <2>5, <3>2, <3>3 DEF ToldInv, Subgraph!TypeOK, Poll
  <2>7. ASSUME NEW e \in Subgraph!Ids \ forgotten' PROVE Once(e)'
    <3>1. Once(e) /\ told'[e] = told[e]
      BY <1>4, <2>1 DEF ToldInv
    <3>2. CASE e \in diff.new
      <4>1. Untold(e)
        BY <2>4, <3>1, <3>2 DEF Once
      <4>2. \A q \in Polls : polls'[q].at = "health" /\ e \in polls'[q].new => q = p
        BY <2>5, <4>1 DEF Untold
      <4>3. e \in Subgraph!ToSet(idQueue)'
        BY <1>4, <2>4, <3>2 DEF Subgraph!ToSet
      <4> QED BY <3>1, <4>1, <4>2, <4>3 DEF Once, Untold
    <3>3. CASE e \notin diff.new
      <4>1. \A q \in Polls : polls'[q].at = "health" /\ e \in polls'[q].new =>
              polls'[q] = polls[q]
        BY <2>5, <3>3
      <4>2. e \notin Subgraph!ToSet(idQueue)' => e \notin Subgraph!ToSet(idQueue)
        BY <1>4 DEF Subgraph!ToSet
      <4> QED BY <3>1, <4>1, <4>2 DEF Once, Untold
    <3> QED BY <3>2, <3>3
  <2>8. \A q \in Polls : polls'[q].at = "health" => polls'[q].new # {}
    BY <2>5 DEF ToldInv
  <2>9. Subgraph!Ids' = Subgraph!Ids
    BY DEF Subgraph!Ids
  <2> QED BY <2>6, <2>7, <2>8, <2>9 DEF ToldInv
<1> QED BY <1>3, <1>4 DEF Subgraph!Listed

LEMMA ToldHealthRead ==
  ASSUME ToldInv, NEW p \in Polls, Subgraph!HealthRead(p)
  PROVE  ToldInv'
<1>1. polls[p] \in Poll /\ polls \in [Polls -> Poll]
  BY DEF ToldInv, Subgraph!TypeOK, Poll
<1>2. /\ polls[p].at = "health" /\ isFirstPoll' = FALSE
      /\ UNCHANGED <<ignoreBootstrap, tokens, consecutiveFailures, degraded, events, idQueue,
                     bootstrap, forgotten, seeding>>
  BY DEF Subgraph!HealthRead, Subgraph!service
<1>3. CASE Subgraph!Over(p) /\ UNCHANGED told
  <2>1. polls' = [polls EXCEPT ![p] = Subgraph!Idle]
    BY <1>3 DEF Subgraph!Over
  <2>2. Subgraph!Idle \in Poll /\ Subgraph!Idle.at # "health"
    BY DEF Poll, Subgraph!Idle
  <2>3. tokens' \in 0 .. Capacity /\ consecutiveFailures' \in Nat /\ degraded' \in BOOLEAN
    BY <1>2 DEF ToldInv, Subgraph!TypeOK
  <2> QED BY <1>2, <1>3, <2>1, <2>2, <2>3, PollGoesOn
<1>4. CASE /\ told' = [told EXCEPT ![Subgraph!Latest(polls[p].new)] = @ + 1]
           /\ polls' = [polls EXCEPT ![p].at = "scan", ![p].new = {}]
  <2>1. polls[p] \in [at : {"list", "health", "scan"}, from : 0 .. MaxEvents,
                      new : SUBSET Subgraph!Ids, page : 0 .. Pages]
    BY <1>1, <1>2 DEF Poll, Subgraph!Idle
  <2>2. PICK latest \in polls[p].new : latest = Subgraph!Latest(polls[p].new)
    <3>1. MaxEvents \in Nat /\ polls[p].new \in SUBSET (1 .. MaxEvents)
      BY <2>1, SubgraphConstants DEF Subgraph!Ids
    <3>2. polls[p].new # {}
      BY <1>2 DEF ToldInv
    <3>3. \E e \in polls[p].new : \A f \in polls[p].new : f <= e
      BY <3>1, <3>2, HasLargest
    <3> QED BY <3>3 DEF Subgraph!Latest
  <2>3. PICK r : r = [polls[p] EXCEPT !.at = "scan", !.new = {}]
    OBVIOUS
  <2>4. r \in Poll /\ r.at = "scan"
    BY <2>1, <2>3 DEF Poll
  <2>5. polls' = [polls EXCEPT ![p] = r]
    BY <1>1, <1>4, <2>3
  <2>6. /\ polls' \in [Polls -> Poll] /\ polls'[p].at = "scan"
        /\ \A q \in Polls \ {p} : polls'[q] = polls[q]
    BY <1>1, <2>4, <2>5
  <2>7. told \in [Subgraph!Ids -> Nat] /\ latest \in Subgraph!Ids
    BY <2>1, <2>2 DEF ToldInv, Subgraph!TypeOK
  <2>8. /\ told' \in [Subgraph!Ids -> Nat] /\ told'[latest] = told[latest] + 1
        /\ \A e \in Subgraph!Ids \ {latest} : told'[e] = told[e]
    BY <1>4, <2>2, <2>7
  <2>9. Subgraph!TypeOK'
    BY <1>2, <2>6, <2>8 DEF ToldInv, Subgraph!TypeOK, Poll
  <2>10. ASSUME NEW e \in Subgraph!Ids \ forgotten PROVE Once(e)'
    <3>1. Once(e) /\ told[e] \in Nat
      BY <2>7 DEF ToldInv
    <3>2. \A q \in Polls : polls'[q].at = "health" => q # p /\ polls'[q] = polls[q]
      BY <2>6
    <3>3. e \notin Subgraph!ToSet(idQueue)' => e \notin Subgraph!ToSet(idQueue)
      BY <1>2 DEF Subgraph!ToSet
    <3>4. CASE e = latest
      <4>1. told[e] = 0 /\ e \in Subgraph!ToSet(idQueue)
        BY <1>2, <2>2, <3>1, <3>4 DEF Once, Untold
      <4>2. told'[e] = 1
        BY <2>8, <3>4, <4>1
      <4>3. \A q \in Polls : polls'[q].at = "health" => e \notin polls'[q].new
        BY <1>2, <2>2, <3>1, <3>2, <3>4 DEF Once
      <4> QED BY <3>3, <4>1, <4>2, <4>3 DEF Once
    <3>5. CASE e # latest
      <4>1. told'[e] = told[e]
        BY <2>8, <3>5
      <4> QED BY <3>1, <3>2, <3>3, <4>1 DEF Once, Untold
    <3> QED BY <3>4, <3>5
  <2>11. \A q \in Polls : polls'[q].at = "health" => polls'[q].new # {}
    BY <2>6 DEF ToldInv
  <2> QED BY <1>2, <2>9, <2>10, <2>11 DEF ToldInv, Subgraph!Ids
<1> QED BY <1>3, <1>4 DEF Subgraph!HealthRead
\* The rest of the subgraph feed notes and tells nothing.
LEMMA ToldRest ==
  ASSUME ToldInv, UNCHANGED <<ignoreBootstrap, Subgraph!poller>>,
         events' \in 0 .. MaxEvents, tokens' \in 0 .. Capacity,
         UNCHANGED <<consecutiveFailures, degraded>>,
         seeding' \in [at : {"query", "backfill", "done"}, query : 1 .. SeedQueries,
                       step : Nat, found : BOOLEAN, failed : BOOLEAN, fellBack : BOOLEAN]
  PROVE  ToldInv'
<1>1. Subgraph!TypeOK'
  BY DEF ToldInv, Subgraph!TypeOK, Subgraph!poller
<1>2. UNCHANGED <<idQueue, polls, told, forgotten>>
  BY DEF Subgraph!poller
<1> QED BY <1>1, <1>2 DEF ToldInv, Once, Untold, Subgraph!ToSet

LEMMA ToldNext == ToldInv /\ [Subgraph!Next]_(Subgraph!vars) => ToldInv'
<1> SUFFICES ASSUME ToldInv, [Subgraph!Next]_(Subgraph!vars) PROVE ToldInv'
  OBVIOUS
<1> DEFINE Seeding == [at : {"query", "backfill", "done"}, query : 1 .. SeedQueries,
                       step : Nat, found : BOOLEAN, failed : BOOLEAN, fellBack : BOOLEAN]
<1>1. /\ tokens \in 0 .. Capacity /\ consecutiveFailures \in Nat /\ degraded \in BOOLEAN
      /\ isFirstPoll \in BOOLEAN /\ events \in 0 .. MaxEvents /\ seeding \in Seeding
      /\ polls \in [Polls -> Poll]
  BY DEF ToldInv, Subgraph!TypeOK, Poll
<1>2. Subgraph!Idle \in Poll /\ Subgraph!Idle.at # "health"
  BY DEF Poll, Subgraph!Idle
<1>0. /\ seeding.step + 1 \in Nat /\ 0 \in Nat /\ 1 \in 1 .. SeedQueries
      /\ (tokens > 0 => tokens - 1 \in 0 .. Capacity)
  <2>1. seeding.step \in Nat
    BY <1>1
  <2> QED BY <1>1, <2>1, SubgraphConstants
<1>3. CASE Subgraph!Liquidation
  BY <1>1, <1>3, ToldRest, SubgraphConstants
     DEF Subgraph!Liquidation, Subgraph!service, Subgraph!poller
<1>4. CASE Subgraph!Refill
  BY <1>1, <1>4, ToldRest, SubgraphConstants DEF Subgraph!Refill, Subgraph!poller
<1>5. ASSUME NEW found \in BOOLEAN, NEW failed \in BOOLEAN
      PROVE  Subgraph!Seeded(found, failed) \in Seeding
  <2>1. CASE seeding.query < SeedQueries
    <3>1. seeding.query + 1 \in 1 .. SeedQueries /\ 0 \in Nat
      BY <1>1, <2>1, SubgraphConstants
    <3>2. PICK r : r = [seeding EXCEPT !.query = seeding.query + 1, !.step = 0, !.found = found,
                                       !.failed = failed]
      OBVIOUS
    <3>3. r \in Seeding
      BY <1>1, <3>1, <3>2
    <3> QED BY <2>1, <3>2, <3>3 DEF Subgraph!Seeded
  <2>2. CASE ~ seeding.query < SeedQueries
    <3>1. PICK r : r = [seeding EXCEPT !.at = "done", !.found = found, !.failed = failed]
      OBVIOUS
    <3>2. r \in Seeding
      BY <1>1, <3>1
    <3> QED BY <2>2, <3>1, <3>2 DEF Subgraph!Seeded
  <2> QED BY <2>1, <2>2
<1>6. CASE Subgraph!SeedPage
  <2>1. tokens' \in 0 .. Capacity
    <3>1. tokens' = tokens \/ (tokens > 0 /\ tokens' = tokens - 1)
      BY <1>6, Zenon DEF Subgraph!SeedPage, Subgraph!Consume
    <3> QED BY <1>0, <1>1, <3>1
  <2>2. seeding' \in Seeding
    <3>1. seeding.found \in BOOLEAN /\ seeding.failed \in BOOLEAN /\ TRUE \in BOOLEAN
      BY <1>1
    <3>2. \/ seeding' = Subgraph!Seeded(seeding.found, seeding.failed)
          \/ seeding' = Subgraph!Seeded(seeding.found, TRUE)
          \/ seeding' = [seeding EXCEPT !.step = @ + 1, !.found = TRUE]
      BY <1>6 DEF Subgraph!SeedPage
    <3>3. CASE seeding' = [seeding EXCEPT !.step = @ + 1, !.found = TRUE]
      <4>1. PICK r : r = [seeding EXCEPT !.step = seeding.step + 1, !.found = TRUE]
        OBVIOUS
      <4>2. r \in Seeding
        <5>1. r = [at |-> seeding.at, query |-> seeding.query, step |-> seeding.step + 1, found |-> TRUE,
                   failed |-> seeding.failed, fellBack |-> seeding.fellBack]
          BY <1>1, <4>1
        <5>2. /\ seeding.at \in {"query", "backfill", "done"} /\ seeding.query \in 1 .. SeedQueries
              /\ seeding.found \in BOOLEAN /\ seeding.failed \in BOOLEAN
              /\ seeding.fellBack \in BOOLEAN
          BY <1>1
        <5> QED BY <1>0, <5>1, <5>2
      <4> QED BY <3>3, <4>1, <4>2
    <3> HIDE DEF Seeding
    <3> QED BY <1>5, <3>1, <3>2, <3>3
  <2>3. UNCHANGED <<ignoreBootstrap, consecutiveFailures, degraded, events, Subgraph!poller>>
    BY <1>6 DEF Subgraph!SeedPage, Subgraph!poller
  <2> QED BY <1>1, <2>1, <2>2, <2>3, ToldRest
<1>7. CASE Subgraph!Backfill
  <2>1. seeding' \in Seeding
    <3>1. CASE seeding' = [seeding EXCEPT !.at = "done"]
      BY <1>1, <3>1
    <3>2. CASE \E read, found \in BOOLEAN :
                 seeding' = [seeding EXCEPT !.step = @ + 1, !.found = @ \/ (read /\ found),
                                            !.failed = @ \/ ~read]
      <4>1. PICK read \in BOOLEAN, found \in BOOLEAN :
                 seeding' = [seeding EXCEPT !.step = @ + 1, !.found = @ \/ (read /\ found),
                                            !.failed = @ \/ ~read]
        BY <3>2
      <4>2. PICK f \in BOOLEAN, g \in BOOLEAN :
              f = (seeding.found \/ (read /\ found)) /\ g = (seeding.failed \/ ~read)
        OBVIOUS
      <4>3. PICK r : r = [seeding EXCEPT !.step = seeding.step + 1, !.found = f, !.failed = g]
        OBVIOUS
      <4>4. r \in Seeding
        <5>1. r = [at |-> seeding.at, query |-> seeding.query, step |-> seeding.step + 1, found |-> f,
                   failed |-> g, fellBack |-> seeding.fellBack]
          BY <1>1, <4>3
        <5>2. /\ seeding.at \in {"query", "backfill", "done"} /\ seeding.query \in 1 .. SeedQueries
              /\ seeding.found \in BOOLEAN /\ seeding.failed \in BOOLEAN
              /\ seeding.fellBack \in BOOLEAN
          BY <1>1
        <5> QED BY <1>0, <5>1, <5>2
      <4>5. seeding' = r
        BY <1>1, <4>1, <4>2, <4>3
      <4> QED BY <4>4, <4>5
    <3> QED BY <1>7, <3>1, <3>2 DEF Subgraph!Backfill
  <2> QED BY <1>1, <1>7, <2>1, ToldRest
        DEF Subgraph!Backfill, Subgraph!service, Subgraph!poller
<1>8. CASE Subgraph!NoSubgraph
  <2>1. PICK r : r = [seeding EXCEPT !.at = "backfill", !.fellBack = TRUE]
    OBVIOUS
  <2>2. r \in Seeding
    BY <1>1, <2>1
  <2>3. seeding' = r
    BY <1>8, <2>1 DEF Subgraph!NoSubgraph
  <2> QED BY <1>1, <1>8, <2>2, <2>3, ToldRest
        DEF Subgraph!NoSubgraph, Subgraph!service, Subgraph!poller
<1>9. CASE Subgraph!SeedAgain
  <2>1. PICK r : r = [seeding EXCEPT !.at = "query", !.query = 1, !.step = 0]
    OBVIOUS
  <2>2. r \in Seeding
    <3>1. r = [at |-> "query", query |-> 1, step |-> 0, found |-> seeding.found,
               failed |-> seeding.failed, fellBack |-> seeding.fellBack]
      BY <1>1, <2>1
    <3>2. /\ seeding.at \in {"query", "backfill", "done"} /\ seeding.query \in 1 .. SeedQueries
          /\ seeding.found \in BOOLEAN /\ seeding.failed \in BOOLEAN
          /\ seeding.fellBack \in BOOLEAN
      BY <1>1
    <3> QED BY <1>0, <3>1, <3>2
  <2>3. seeding' = r
    BY <1>9, <2>1 DEF Subgraph!SeedAgain
  <2> QED BY <1>1, <1>9, <2>2, <2>3, ToldRest
        DEF Subgraph!SeedAgain, Subgraph!service, Subgraph!poller
<1>10. ASSUME NEW p \in Polls, Subgraph!StartPoll(p) PROVE ToldInv'
  <2>1. UNCHANGED <<ignoreBootstrap, consecutiveFailures, degraded, events, idQueue, told,
                    bootstrap, forgotten, seeding>>
    BY <1>10 DEF Subgraph!StartPoll
  <2>2. tokens' \in 0 .. Capacity /\ isFirstPoll' \in BOOLEAN
    <3>1. tokens' = tokens \/ (tokens > 0 /\ tokens' = tokens - 1)
      BY <1>10, Zenon DEF Subgraph!StartPoll, Subgraph!Consume
    <3>2. isFirstPoll' = isFirstPoll \/ isFirstPoll' = FALSE
      BY <1>10, Zenon DEF Subgraph!StartPoll
    <3> QED BY <1>0, <1>1, <3>1, <3>2
  <2>3. consecutiveFailures' \in Nat /\ degraded' \in BOOLEAN
    BY <1>1, <2>1
  <2>4. \E x \in Poll : x.at # "health" /\ polls' = [polls EXCEPT ![p] = x]
    <3>1. CASE polls' = polls
      <4>1. polls[p] = Subgraph!Idle
        BY <1>10 DEF Subgraph!StartPoll
      <4>2. polls' = [polls EXCEPT ![p] = Subgraph!Idle]
        BY <1>1, <3>1, <4>1
      <4> QED BY <1>2, <4>2
    <3>2. CASE polls' = [polls EXCEPT ![p] = [at |-> "list", from |-> events, new |-> {},
                                              page |-> 0]]
      <4>1. [at |-> "list", from |-> events, new |-> {}, page |-> 0] \in Poll
        BY <1>1, SubgraphConstants DEF Poll
      <4> QED BY <3>2, <4>1
    <3> QED BY <1>10, <3>1, <3>2 DEF Subgraph!StartPoll
  <2> QED BY <2>1, <2>2, <2>3, <2>4, PollGoesOn
<1>11. ASSUME NEW p \in Polls, Subgraph!Page(p) PROVE ToldInv'
  <2>1. UNCHANGED <<ignoreBootstrap, events, idQueue, isFirstPoll, told, bootstrap,
                    forgotten, seeding>>
    BY <1>11 DEF Subgraph!Page
  <2>2. consecutiveFailures' \in Nat /\ degraded' \in BOOLEAN
    <3>1. CASE UNCHANGED Subgraph!service
      BY <1>1, <3>1 DEF Subgraph!service
    <3>2. CASE \E how \in {"ok", "failed", "unparsed"} : Subgraph!Counted(how)
      BY <3>2, CountedTyped DEF ToldInv
    <3> QED BY <1>11, <3>1, <3>2 DEF Subgraph!Page
  <2>3. tokens' \in 0 .. Capacity
    BY <1>1, <1>11, SubgraphConstants DEF Subgraph!Page, Subgraph!service
  <2>4. \E x \in Poll : x.at # "health" /\ polls' = [polls EXCEPT ![p] = x]
    <3>1. CASE Subgraph!Over(p)
      BY <1>2, <3>1 DEF Subgraph!Over
    <3>2. CASE polls' = [polls EXCEPT ![p].page = @ + 1]
      <4>1. polls[p].at = "scan" /\ polls[p].page < Pages
        BY <1>11 DEF Subgraph!Page
      <4>2. polls[p] \in [at : {"list", "health", "scan"}, from : 0 .. MaxEvents,
                          new : SUBSET Subgraph!Ids, page : 0 .. Pages]
        BY <1>1, <4>1 DEF Poll, Subgraph!Idle
      <4>3. PICK x : x = [polls[p] EXCEPT !.page = polls[p].page + 1]
        OBVIOUS
      <4>4. x \in Poll /\ x.at = "scan"
        <5>1. polls[p].page + 1 \in 0 .. Pages
          BY <4>1, <4>2, SubgraphConstants
        <5> QED BY <4>1, <4>2, <4>3, <5>1 DEF Poll
      <4>5. polls' = [polls EXCEPT ![p] = x]
        BY <1>1, <3>2, <4>3
      <4> QED BY <4>4, <4>5
    <3> QED BY <1>11, <3>1, <3>2 DEF Subgraph!Page
  <2>5. isFirstPoll' \in BOOLEAN
    BY <1>1, <2>1
  <2> QED BY <2>1, <2>2, <2>3, <2>4, <2>5, PollGoesOn
<1>12. ASSUME NEW p \in Polls, Subgraph!ScanOver(p) PROVE ToldInv'
  <2>1. UNCHANGED <<ignoreBootstrap, tokens, consecutiveFailures, degraded, events, idQueue,
                    isFirstPoll, told, bootstrap, forgotten, seeding>>
    BY <1>12 DEF Subgraph!ScanOver, Subgraph!service
  <2>2. polls' = [polls EXCEPT ![p] = Subgraph!Idle]
    BY <1>12 DEF Subgraph!ScanOver, Subgraph!Over
  <2> QED BY <1>1, <1>2, <2>1, <2>2, PollGoesOn
<1>13. CASE UNCHANGED Subgraph!vars
  BY <1>1, <1>13, ToldRest DEF Subgraph!vars, Subgraph!service, Subgraph!poller
<1> QED BY <1>3, <1>4, <1>6, <1>7, <1>8, <1>9, <1>10, <1>11, <1>12, <1>13, ToldListed,
           ToldHealthRead DEF Subgraph!Next

LEMMA SubgraphSteps ==
  ExecutionSpec => Subgraph!Init /\ [][Subgraph!Next]_(Subgraph!vars)
<1>1. ExecutionInit => Subgraph!Init
  BY DEF ExecutionInit
<1>2. [ExecutionNext]_executionVars => [Subgraph!Next]_(Subgraph!vars)
  BY DEF ExecutionNext, executionVars, subgraphVars, Subgraph!vars, Subgraph!service,
         Subgraph!poller, FollowFlow, FollowPredictive, FollowPrices, FollowAudit,
         FollowSubgraph
<1> QED BY <1>1, <1>2, ExecutionSteps, PTL

\* Polls may overlap in any number, their answers may come out of order and short of
\* what there is, and the service may degrade in between: a liquidation the tracker
\* still remembers is told as new at most once.
THEOREM LiquidationsToldOnce == ExecutionSpec => []ToldOnce
<1>1. ToldInv => Subgraph!ToldOnce
  BY DEF ToldInv, Once, Subgraph!ToldOnce
<1> QED BY <1>1, ToldInit, ToldNext, SubgraphSteps, PTL DEF ToldOnce
-----------------------------------------------------------------------------
\* Of the audit: a verdict rests on the decision that was made.

\* The store holds, at n, the decision that was made as the f[n]-th: some of those made,
\* in their order, and where it never was full, all that have not expired.
Keeps(f) ==
  /\ \A n \in 1 .. Len(decisions) : decisions[n] = made[f[n]]
  /\ \A k, n \in 1 .. Len(decisions) : k < n => f[k] < f[n]
  /\ Len(made) <= MaxSize =>
       \A i \in 1 .. Len(made) :
         made[i].ts >= auditClock - DecisionTtl => \E n \in 1 .. Len(decisions) : f[n] = i

AuditInv ==
  /\ Audit!TypeOK
  /\ Len(decisions) <= Len(made)
  /\ \E f \in [1 .. Len(decisions) -> 1 .. Len(made)] : Keeps(f)

LEMMA AuditConstants ==
  /\ MaxSize \in Nat \ {0} /\ DecisionTtl \in Nat \ {0} /\ Window \in Nat \ {0}
  /\ AuditTime \in Nat \ {0} /\ Lookback \in Nat /\ Limit \in Nat /\ TransientBlocks \in Nat
  /\ Lookback <= DecisionTtl
BY PartAssumptions DEF Audit!AuditAssumption

LEMMA AuditInit == Audit!Init => AuditInv
<1> SUFFICES ASSUME Audit!Init PROVE AuditInv
  OBVIOUS
<1>1. decisions = <<>> /\ made = <<>> /\ firstSeen = <<>>
  BY DEF Audit!Init
<1>2. Audit!TypeOK
  <2>1. decisions \in Seq(Audit!Decision) /\ made \in Seq(Audit!Decision)
        /\ Len(decisions) = 0
    BY <1>1
  <2>2. DOMAIN firstSeen = {}
    BY <1>1
  <2>3. sent \in [count : 0 .. Limit, windowStart : 1 .. AuditTime] /\ auditClock \in 1 .. AuditTime
    BY AuditConstants DEF Audit!Init
  <2>4. tracking \in [Users -> {{}}] /\ audits \in [Audits -> {Audit!Idle}]
    BY DEF Audit!Init
  <2> QED BY <2>1, <2>2, <2>3, <2>4, AuditConstants DEF Audit!Init, Audit!TypeOK
<1>3. Len(decisions) = 0 /\ Len(made) = 0
  BY <1>1
<1>4. \E f \in [1 .. 0 -> 1 .. 0] : TRUE
  <2>1. [n \in 1 .. 0 |-> n] \in [1 .. 0 -> 1 .. 0]
    OBVIOUS
  <2> QED BY <2>1
<1>5. \A n \in 1 .. 0 : FALSE
  OBVIOUS
<1>6. PICK f \in [1 .. 0 -> 1 .. 0] : TRUE
  BY <1>4
<1>7. Keeps(f)
  BY <1>3, <1>5 DEF Keeps
<1>8. \E q \in [1 .. Len(decisions) -> 1 .. Len(made)] : Keeps(q)
  BY <1>3, <1>6, <1>7
<1>9. Len(decisions) <= Len(made)
  BY <1>3
<1> QED BY <1>2, <1>8, <1>9 DEF AuditInv

\* What leaves the store alone leaves it as it was, and time only lets decisions expire.
LEMMA StoreKept ==
  ASSUME AuditInv, Audit!TypeOK', UNCHANGED <<decisions, made>>, auditClock' >= auditClock
  PROVE  AuditInv'
<1>1. PICK f \in [1 .. Len(decisions) -> 1 .. Len(made)] : Keeps(f)
  BY DEF AuditInv
<1>2. auditClock \in Int /\ auditClock' \in Int
  BY DEF AuditInv, Audit!TypeOK
<1>3. \A i \in 1 .. Len(made) : made[i].ts \in Int
  <2>1. \A i \in 1 .. Len(made) : made[i] \in Audit!Decision
    BY DEF AuditInv, Audit!TypeOK
  <2> QED BY <2>1 DEF Audit!Decision
<1>4. \A i \in 1 .. Len(made) :
        made[i].ts >= auditClock' - DecisionTtl => made[i].ts >= auditClock - DecisionTtl
  BY <1>2, <1>3, AuditConstants
<1>5. Keeps(f)'
  BY <1>1, <1>4 DEF Keeps
<1> QED BY <1>1, <1>5 DEF AuditInv

LEMMA RecordKeeps ==
  ASSUME AuditInv, NEW u \in Users, NEW kind \in Kinds, Audit!RecordDecision(u, kind)
  PROVE  AuditInv'
<1> DEFINE d == [user |-> u, ts |-> auditClock, kind |-> kind]
           longer == Append(decisions, d)
           full == Len(longer) > MaxSize
<1>1. PICK f \in [1 .. Len(decisions) -> 1 .. Len(made)] : Keeps(f)
  BY DEF AuditInv
<1>2. /\ decisions' = (IF full THEN Tail(longer) ELSE longer)
      /\ made' = Append(made, d)
      /\ UNCHANGED <<auditClock, watched, firstSeen, tracking, sent, audits, verdict>>
  BY DEF Audit!RecordDecision
<1>3. d \in Audit!Decision
  BY DEF AuditInv, Audit!TypeOK, Audit!Decision
<1>0. PICK l \in Nat, m \in Nat : l = Len(decisions) /\ m = Len(made)
  BY DEF AuditInv, Audit!TypeOK
<1>4. /\ decisions \in Seq(Audit!Decision) /\ made \in Seq(Audit!Decision)
      /\ l <= m /\ l <= MaxSize
  BY <1>0 DEF AuditInv, Audit!TypeOK
<1> HIDE DEF d
<1>5. /\ longer \in Seq(Audit!Decision) /\ Len(longer) = l + 1 /\ longer[l + 1] = d
      /\ \A n \in 1 .. l : longer[n] = decisions[n]
  BY <1>0, <1>3, <1>4
<1>6. /\ made' \in Seq(Audit!Decision) /\ Len(made') = m + 1 /\ made'[m + 1] = d
      /\ \A i \in 1 .. m : made'[i] = made[i]
  BY <1>0, <1>2, <1>3, <1>4
<1> HIDE DEF longer
<1>7. \A n \in 1 .. l + 1 : n = l + 1 \/ n \in 1 .. l
  BY <1>4
<1>8. PICK g \in [1 .. l + 1 -> 1 .. m + 1] :
        g[l + 1] = m + 1 /\ \A n \in 1 .. l : g[n] = f[n] /\ f[n] \in 1 .. m
  <2> DEFINE e == [n \in 1 .. l + 1 |-> IF n = l + 1 THEN m + 1 ELSE f[n]]
  <2>1. \A n \in 1 .. l : f[n] \in 1 .. m /\ n # l + 1 /\ n \in 1 .. l + 1
    BY <1>0, <1>1
  <2>2. m + 1 \in 1 .. m + 1 /\ \A i \in 1 .. m : i \in 1 .. m + 1
    BY <1>4
  <2>3. l + 1 \in 1 .. l + 1
    BY <1>4
  <2>4. /\ e \in [1 .. l + 1 -> 1 .. m + 1] /\ e[l + 1] = m + 1
        /\ \A n \in 1 .. l : e[n] = f[n] /\ f[n] \in 1 .. m
    BY <1>7, <2>1, <2>2, <2>3
  <2> HIDE DEF e
  <2> QED BY <2>4
<1>9. \A n \in 1 .. l + 1 : longer[n] = made'[g[n]]
  <2>1. \A n \in 1 .. l : decisions[n] = made[f[n]]
    BY <1>0, <1>1 DEF Keeps
  <2>2. \A n \in 1 .. l : longer[n] = made'[g[n]]
    BY <1>5, <1>6, <1>8, <2>1
  <2> QED BY <1>5, <1>6, <1>7, <1>8, <2>2
<1>10. ASSUME NEW k \in 1 .. l + 1, NEW n \in 1 .. l + 1, k < n PROVE g[k] < g[n]
  <2>1. k \in 1 .. l
    BY <1>4, <1>10
  <2>2. CASE n = l + 1
    <3>1. g[k] \in 1 .. m /\ g[n] = m + 1
      BY <1>8, <2>1, <2>2
    <3> QED BY <1>4, <3>1
  <2>3. CASE n \in 1 .. l
    <3>1. f[k] < f[n]
      BY <1>0, <1>1, <1>10, <2>1, <2>3 DEF Keeps
    <3> QED BY <1>8, <2>1, <2>3, <3>1
  <2> QED BY <1>7, <2>2, <2>3
<1>11. CASE ~ full
  <2>1. decisions' = longer /\ l + 1 <= MaxSize
    BY <1>2, <1>4, <1>5, <1>11, AuditConstants
  <2>2. Audit!TypeOK'
    BY <1>2, <1>4, <1>5, <1>6, <2>1 DEF AuditInv, Audit!TypeOK
  <2>3. Len(decisions') = l + 1
    BY <1>5, <2>1
  <2>4. ASSUME Len(made') <= MaxSize, NEW i \in 1 .. m + 1,
               made'[i].ts >= auditClock - DecisionTtl
        PROVE  \E n \in 1 .. l + 1 : g[n] = i
    <3>1. CASE i = m + 1
      BY <1>4, <1>8, <3>1
    <3>2. CASE i \in 1 .. m
      <4>1. m <= MaxSize
        BY <1>4, <1>6, <2>4, AuditConstants
      <4>2. PICK n \in 1 .. l : f[n] = i
        BY <1>0, <1>1, <1>6, <2>4, <3>2, <4>1 DEF Keeps
      <4>3. n \in 1 .. l + 1
        BY <1>4
      <4> QED BY <1>8, <4>2, <4>3
    <3> QED BY <1>4, <3>1, <3>2
  <2>5. Keeps(g)'
    <3>1. \A k, n \in 1 .. l + 1 : k < n => g[k] < g[n]
      BY <1>10
    <3>2. Len(made') <= MaxSize =>
            \A i \in 1 .. m + 1 :
              made'[i].ts >= auditClock - DecisionTtl => \E n \in 1 .. l + 1 : g[n] = i
      BY <2>4
    <3>3. auditClock' = auditClock /\ Len(made') = m + 1
      BY <1>2, <1>6
    <3> QED BY <1>9, <2>1, <2>3, <3>1, <3>2, <3>3 DEF Keeps
  <2>6. Len(decisions') <= Len(made')
    BY <1>4, <1>6, <2>3
  <2>7. \E q \in [1 .. Len(decisions') -> 1 .. Len(made')] : Keeps(q)'
    BY <1>6, <2>3, <2>5
  <2> QED BY <2>2, <2>6, <2>7 DEF AuditInv
<1>12. CASE full
  <2> DEFINE h == [n \in 1 .. l |-> g[n + 1]]
  <2>1. decisions' = Tail(longer) /\ m + 1 > MaxSize
    BY <1>2, <1>4, <1>5, <1>12, AuditConstants
  <2>2. /\ decisions' \in Seq(Audit!Decision) /\ Len(decisions') = l
        /\ \A n \in 1 .. l : decisions'[n] = longer[n + 1]
    <3>1. longer # <<>>
      BY <1>4, <1>5
    <3> QED BY <1>4, <1>5, <2>1, <3>1
  <2>3. Audit!TypeOK'
    BY <1>2, <1>4, <1>6, <2>2 DEF AuditInv, Audit!TypeOK
  <2>4. \A n \in 1 .. l : n + 1 \in 1 .. l + 1
    BY <1>4
  <2>5. h \in [1 .. l -> 1 .. m + 1] /\ \A n \in 1 .. l : h[n] = g[n + 1]
    BY <1>8, <2>4
  <2> HIDE DEF h
  <2>6. \A n \in 1 .. l : decisions'[n] = made'[h[n]]
    BY <1>9, <2>2, <2>4, <2>5
  <2>7. \A k, n \in 1 .. l : k < n => h[k] < h[n]
    <3> SUFFICES ASSUME NEW k \in 1 .. l, NEW n \in 1 .. l, k < n PROVE h[k] < h[n]
      OBVIOUS
    <3>1. k + 1 < n + 1
      BY <1>4
    <3> QED BY <1>10, <2>4, <2>5, <3>1
  <2>8. ~ Len(made') <= MaxSize
    BY <1>4, <1>6, <2>1, AuditConstants
  <2>9. Len(decisions') <= Len(made')
    BY <1>4, <1>6, <2>2
  <2>10. \E q \in [1 .. Len(decisions') -> 1 .. Len(made')] : Keeps(q)'
    BY <1>6, <2>2, <2>5, <2>6, <2>7, <2>8 DEF Keeps
  <2> QED BY <2>3, <2>9, <2>10 DEF AuditInv
<1> QED BY <1>11, <1>12
LEMMA CleanupKeeps == ASSUME AuditInv, Audit!Cleanup PROVE AuditInv'
<1> DEFINE alive == {d \in Audit!Decision : d.ts >= auditClock - DecisionTtl}
           kept == Among(decisions, alive)
<1>1. PICK f \in [1 .. Len(decisions) -> 1 .. Len(made)] : Keeps(f)
  BY DEF AuditInv
<1>2. /\ decisions' = kept
      /\ UNCHANGED <<auditClock, watched, firstSeen, tracking, sent, audits, verdict, made>>
  BY AmongIsTheirs DEF Audit!Cleanup
<1>3. /\ decisions \in Seq(Audit!Decision) /\ made \in Seq(Audit!Decision)
      /\ Len(decisions) \in Nat /\ Len(made) \in Nat
      /\ Len(decisions) <= Len(made) /\ Len(decisions) <= MaxSize
  BY DEF AuditInv, Audit!TypeOK
<1>4. /\ kept \in Seq(Audit!Decision) /\ Len(kept) <= Len(decisions)
      /\ \E g \in [1 .. Len(kept) -> 1 .. Len(decisions)] : Selects(g, kept, decisions, alive)
  <2>1. decisions \in Seq(Audit!Decision)
    BY <1>3
  <2> HIDE DEF alive
  <2> QED BY <2>1, AmongKeeps, Zenon
<1> HIDE DEF kept
<1>5. PICK g \in [1 .. Len(kept) -> 1 .. Len(decisions)] :
        /\ \A n \in 1 .. Len(kept) : kept[n] = decisions[g[n]] /\ decisions[g[n]] \in alive
        /\ \A k, n \in 1 .. Len(kept) : k < n => g[k] < g[n]
        /\ \A i \in 1 .. Len(decisions) :
             decisions[i] \in alive => \E n \in 1 .. Len(kept) : g[n] = i
  BY <1>4 DEF Selects
<1>6. Len(kept) \in Nat
  BY <1>4
<1>7. Audit!TypeOK'
  <2>1. Len(kept) <= MaxSize
    BY <1>3, <1>4, <1>6, AuditConstants
  <2> QED BY <1>2, <1>4, <2>1 DEF AuditInv, Audit!TypeOK
<1>8. Len(decisions') <= Len(made')
  BY <1>2, <1>3, <1>4, <1>6
<1>9. PICK h \in [1 .. Len(kept) -> 1 .. Len(made)] : \A n \in 1 .. Len(kept) : h[n] = f[g[n]]
  <2>1. [n \in 1 .. Len(kept) |-> f[g[n]]] \in [1 .. Len(kept) -> 1 .. Len(made)]
    OBVIOUS
  <2> QED BY <2>1
<1>10. \A n \in 1 .. Len(kept) : g[n] \in 1 .. Len(decisions)
  OBVIOUS
<1>11. \A n \in 1 .. Len(kept) : kept[n] = made[h[n]]
  BY <1>1, <1>5, <1>9, <1>10 DEF Keeps
<1>12. \A k, n \in 1 .. Len(kept) : k < n => h[k] < h[n]
  BY <1>1, <1>5, <1>9, <1>10 DEF Keeps
<1>13. ASSUME Len(made) <= MaxSize, NEW i \in 1 .. Len(made),
              made[i].ts >= auditClock - DecisionTtl
       PROVE  \E n \in 1 .. Len(kept) : h[n] = i
  <2>1. PICK j \in 1 .. Len(decisions) : f[j] = i
    BY <1>1, <1>13 DEF Keeps
  <2>2. decisions[j] = made[i]
    BY <1>1, <2>1 DEF Keeps
  <2>3. made[i] \in Audit!Decision
    BY <1>3
  <2>4. decisions[j] \in alive
    BY <1>13, <2>2, <2>3
  <2>5. PICK n \in 1 .. Len(kept) : g[n] = j
    BY <1>5, <2>4
  <2> QED BY <1>9, <2>1, <2>5
<1>14. Keeps(h)'
  <2>1. Len(made) <= MaxSize =>
          \A i \in 1 .. Len(made) :
            made[i].ts >= auditClock - DecisionTtl => \E n \in 1 .. Len(kept) : h[n] = i
    BY <1>13
  <2> QED BY <1>2, <1>11, <1>12, <2>1 DEF Keeps
<1> QED BY <1>2, <1>7, <1>8, <1>14 DEF AuditInv

\* What a verdict rests on.
LEMMA FoundIsADecision ==
  ASSUME AuditInv, NEW u, NEW seen, NEW back
  PROVE  Audit!FindDecision(u, seen, back) \in Audit!Decision \cup {Audit!None}
<1> DEFINE found == {i \in DOMAIN decisions :
                       decisions[i].user = u /\ decisions[i].ts \in seen - back .. seen}
<1>1. decisions \in Seq(Audit!Decision) /\ Len(decisions) \in Nat
  BY DEF AuditInv, Audit!TypeOK
<1>2. CASE found = {}
  BY <1>2 DEF Audit!FindDecision
<1>3. CASE found # {}
  <2>1. found \in SUBSET (1 .. Len(decisions))
    BY <1>1
  <2>2. \E i \in found : \A j \in found : j <= i
    BY <1>1, <1>3, <2>1, HasLargest
  <2>3. PICK i \in found : i = (CHOOSE n \in found : \A j \in found : j <= n)
    <3> HIDE DEF found
    <3> QED BY <2>2
  <2>4. Audit!FindDecision(u, seen, back) = decisions[i]
    BY <1>3, <2>3, Zenon DEF Audit!FindDecision
  <2>5. decisions[i] \in Audit!Decision
    BY <1>1, <2>1
  <2> QED BY <2>4, <2>5
<1> QED BY <1>2, <1>3

\* While decisions outlive the wait, the newest one of the store that counts is the
\* newest one made that does.
LEMMA FoundIsTheLast ==
  ASSUME AuditInv, NEW u, NEW seen \in Int,
         auditClock - seen <= DecisionTtl - Lookback, Len(made) <= MaxSize
  PROVE  LET relevant == {i \in DOMAIN made : made[i].user = u
                            /\ made[i].ts \in seen - Lookback .. seen}
         IN  Audit!FindDecision(u, seen, Lookback) =
               IF relevant = {} THEN Audit!None
               ELSE made[CHOOSE i \in relevant : \A j \in relevant : j <= i]
<1> DEFINE found == {i \in DOMAIN decisions :
                       decisions[i].user = u /\ decisions[i].ts \in seen - Lookback .. seen}
           relevant == {i \in DOMAIN made :
                          made[i].user = u /\ made[i].ts \in seen - Lookback .. seen}
<1>1. PICK f \in [1 .. Len(decisions) -> 1 .. Len(made)] : Keeps(f)
  BY DEF AuditInv
<1>2. /\ decisions \in Seq(Audit!Decision) /\ made \in Seq(Audit!Decision)
      /\ Len(decisions) \in Nat /\ Len(made) \in Nat /\ auditClock \in Int
      /\ DOMAIN decisions = 1 .. Len(decisions) /\ DOMAIN made = 1 .. Len(made)
  BY DEF AuditInv, Audit!TypeOK
<1>3. \A n \in found : f[n] \in relevant
  BY <1>1, <1>2 DEF Keeps
<1>4. ASSUME NEW i \in relevant PROVE \E n \in found : f[n] = i
  <2>1. made[i].ts >= auditClock - DecisionTtl
    <3>1. made[i].ts \in Int /\ made[i].ts >= seen - Lookback
      BY AuditConstants
    <3> QED BY <1>2, <3>1, AuditConstants
  <2>2. PICK n \in 1 .. Len(decisions) : f[n] = i
    BY <1>1, <1>2, <2>1 DEF Keeps
  <2>3. decisions[n] = made[i]
    BY <1>1, <2>2 DEF Keeps
  <2> QED BY <1>2, <2>2, <2>3
<1>5. found \in SUBSET (1 .. Len(decisions)) /\ relevant \in SUBSET (1 .. Len(made))
  BY <1>2
<1>6. \A k, n \in found : k < n => f[k] < f[n]
  BY <1>1, <1>5 DEF Keeps
<1>7. \A n \in found : decisions[n] = made[f[n]]
  BY <1>1, <1>5 DEF Keeps
<1>8. Audit!FindDecision(u, seen, Lookback) =
        IF found = {} THEN Audit!None
        ELSE decisions[CHOOSE i \in found : \A j \in found : j <= i]
  BY Zenon DEF Audit!FindDecision
<1> HIDE DEF found, relevant
<1>9. CASE relevant = {}
  <2>1. found = {}
    BY <1>3, <1>9
  <2> QED BY <1>8, <1>9, <2>1 DEF relevant
<1>10. CASE relevant # {}
  <2>1. found # {}
    BY <1>4, <1>10
  <2>2. \E i \in found : \A j \in found : j <= i
    BY <1>2, <1>5, <2>1, HasLargest
  <2>3. PICK n \in found : n = (CHOOSE i \in found : \A j \in found : j <= i)
                           /\ \A j \in found : j <= n
    BY <2>2
  <2>4. \A j \in found : j <= n
    BY <2>3
  <2>5. ASSUME NEW j \in relevant PROVE j <= f[n]
    <3>1. PICK k \in found : f[k] = j
      BY <1>4
    <3>2. k <= n /\ k \in Int /\ n \in Int
      BY <1>2, <1>5, <2>4
    <3>3. k = n \/ f[k] < f[n]
      BY <1>6, <3>2
    <3>4. f[k] \in Int /\ f[n] \in Int
      BY <1>3, <1>5
    <3> QED BY <3>1, <3>3, <3>4
  <2>6. f[n] \in relevant
    BY <1>3
  <2>7. \A i \in relevant : (\A j \in relevant : j <= i) => i = f[n]
    <3> SUFFICES ASSUME NEW i \in relevant, \A j \in relevant : j <= i PROVE i = f[n]
      OBVIOUS
    <3>1. f[n] <= i /\ i <= f[n] /\ i \in Int /\ f[n] \in Int
      BY <1>5, <2>5, <2>6
    <3> QED BY <3>1
  <2>8. (CHOOSE i \in relevant : \A j \in relevant : j <= i) = f[n]
    <3>1. \E i \in relevant : \A j \in relevant : j <= i
      BY <2>5, <2>6
    <3> QED BY <2>7, <3>1
  <2>9. Audit!FindDecision(u, seen, Lookback) = made[f[n]]
    BY <1>7, <1>8, <2>1, <2>3, Zenon
  <2> QED BY <1>10, <2>8, <2>9 DEF relevant
<1> QED BY <1>9, <1>10
\* A verdict, as VerdictOfTheDecision has it.
Founded ==
  verdict' # verdict =>
    LET new == verdict'
        relevant == {i \in DOMAIN made : made[i].user = new.user
                       /\ made[i].ts \in new.seen - Lookback .. new.seen}
    IN  (new.at - new.seen <= DecisionTtl - Lookback /\ Len(made) <= MaxSize)
          => new.trace = IF relevant = {} THEN Audit!None
                         ELSE made[CHOOSE i \in relevant : \A j \in relevant : j <= i]

LEMMA VerdictKeeps ==
  ASSUME AuditInv, NEW a \in Audits, Audit!Verdict(a)
  PROVE  AuditInv' /\ Founded
<1> DEFINE u == audits[a].user
           seen == audits[a].seen
           trace == Audit!FindDecision(u, seen, Lookback)
<1>1. /\ audits[a].at = "block" /\ Audit!CanSend
      /\ audits' = [audits EXCEPT ![a] = Audit!Idle]
      /\ tracking' = [tracking EXCEPT ![u] = {}]
      /\ firstSeen' = [v \in DOMAIN firstSeen \ {u} |-> firstSeen[v]]
      /\ UNCHANGED <<auditClock, watched, decisions, made>>
  BY DEF Audit!Verdict
<1>2. \E miss : verdict' = [kind |-> "verdict", user |-> u, seen |-> seen, at |-> auditClock,
                            trace |-> trace, reason |-> Audit!ClassifiedReason(trace),
                            miss |-> miss, attempted |-> "attempted" \in tracking[u]]
  <2> HIDE DEF u, seen, trace
  <2> QED BY Zenon DEF Audit!Verdict, u, seen, trace
<1> HIDE DEF trace
<1>3. /\ verdict'.user = u /\ verdict'.seen = seen /\ verdict'.at = auditClock
      /\ verdict'.trace = trace
  BY <1>2
<1>4. audits[a] \in [at : {"usd", "block"}, user : Users, inSet : BOOLEAN,
                     seen : 0 .. AuditTime]
  BY <1>1 DEF AuditInv, Audit!TypeOK, Audit!Idle
<1>5. u \in Users /\ seen \in Int
  BY <1>4
<1>6. trace \in Audit!Decision \cup {Audit!None}
  BY FoundIsADecision DEF trace
<1>7. sent' \in [count : 0 .. Limit, windowStart : 1 .. AuditTime]
  <2>1. /\ sent \in [count : 0 .. Limit, windowStart : 1 .. AuditTime]
        /\ auditClock \in 1 .. AuditTime
    BY DEF AuditInv, Audit!TypeOK
  <2>2. PICK now \in [count : 0 .. Limit, windowStart : 1 .. AuditTime] :
          sent' = IF Limit = 0 THEN sent
                  ELSE IF now.count < Limit THEN [now EXCEPT !.count = @ + 1] ELSE now
    <3>1. [count |-> 0, windowStart |-> auditClock]
            \in [count : 0 .. Limit, windowStart : 1 .. AuditTime]
      BY <2>1, AuditConstants
    <3> QED BY <1>1, <2>1, <3>1 DEF Audit!CanSend
  <2>3. ASSUME now.count < Limit
        PROVE  [now EXCEPT !.count = now.count + 1]
                 \in [count : 0 .. Limit, windowStart : 1 .. AuditTime]
    <3>1. now.count + 1 \in 0 .. Limit
      BY <2>3, AuditConstants
    <3> QED BY <3>1
  <2> QED BY <2>1, <2>2, <2>3
<1>8. DOMAIN firstSeen' \subseteq Users
      /\ \A v \in DOMAIN firstSeen' : firstSeen'[v] \in 0 .. AuditTime
  BY <1>1 DEF AuditInv, Audit!TypeOK
<1>9. Audit!TypeOK'
  <2>1. tracking' \in [Users -> SUBSET Marks]
    BY <1>1, <1>5 DEF AuditInv, Audit!TypeOK
  <2>2. audits' \in [Audits -> {Audit!Idle} \cup [at : {"usd", "block"}, user : Users,
                                                  inSet : BOOLEAN, seen : 0 .. AuditTime]]
    BY <1>1 DEF AuditInv, Audit!TypeOK
  <2> QED BY <1>1, <1>3, <1>6, <1>7, <1>8, <2>1, <2>2 DEF AuditInv, Audit!TypeOK
<1>10. AuditInv'
  <2>1. auditClock' >= auditClock
    BY <1>1 DEF AuditInv, Audit!TypeOK
  <2> QED BY <1>1, <1>9, <2>1, StoreKept
<1>11. Founded
  <2> HIDE DEF u, seen
  <2>1. ASSUME auditClock - seen <= DecisionTtl - Lookback, Len(made) <= MaxSize
        PROVE  trace = LET relevant == {i \in DOMAIN made : made[i].user = u
                                          /\ made[i].ts \in seen - Lookback .. seen}
                       IN  IF relevant = {} THEN Audit!None
                           ELSE made[CHOOSE i \in relevant : \A j \in relevant : j <= i]
    BY <1>5, <2>1, FoundIsTheLast DEF trace
  <2> QED BY <1>3, <2>1, Zenon DEF Founded
<1> QED BY <1>10, <1>11

LEMMA AuditNext ==
  AuditInv /\ [Audit!Next]_(Audit!vars) => AuditInv' /\ [Founded]_(Audit!vars)
<1> SUFFICES ASSUME AuditInv, [Audit!Next]_(Audit!vars) PROVE AuditInv' /\ Founded
  OBVIOUS
<1>1. auditClock \in 1 .. AuditTime /\ auditClock \in Int /\ auditClock >= auditClock
  BY DEF AuditInv, Audit!TypeOK
<1>2. ASSUME UNCHANGED <<decisions, made, verdict>>, auditClock' >= auditClock,
             Audit!TypeOK'
      PROVE  AuditInv' /\ Founded
  BY <1>2, StoreKept DEF Founded
<1>3. CASE Audit!Tick
  <2>1. /\ auditClock' = auditClock + 1 /\ auditClock < AuditTime /\ watched' \subseteq Users
        /\ UNCHANGED <<decisions, firstSeen, tracking, sent, audits, verdict, made>>
    BY <1>3 DEF Audit!Tick
  <2>2. auditClock' \in 1 .. AuditTime /\ auditClock' >= auditClock
    BY <1>1, <2>1, AuditConstants
  <2>3. Audit!TypeOK'
    BY <2>1, <2>2 DEF AuditInv, Audit!TypeOK
  <2> QED BY <1>2, <2>1, <2>2, <2>3
<1>4. CASE Audit!Cleanup
  <2>1. UNCHANGED verdict
    BY <1>4 DEF Audit!Cleanup
  <2> QED BY <1>4, <2>1, CleanupKeeps DEF Founded
<1>5. CASE Audit!ForgetFirstSeen
  <2>1. UNCHANGED <<auditClock, watched, decisions, tracking, sent, audits, verdict, made>>
    BY <1>5 DEF Audit!ForgetFirstSeen
  <2>2. DOMAIN firstSeen' \subseteq Users
        /\ \A u \in DOMAIN firstSeen' : firstSeen'[u] \in 0 .. AuditTime
    BY <1>5 DEF Audit!ForgetFirstSeen, AuditInv, Audit!TypeOK
  <2>3. Audit!TypeOK'
    BY <2>1, <2>2 DEF AuditInv, Audit!TypeOK
  <2> QED BY <1>1, <1>2, <2>1, <2>3
<1>6. ASSUME NEW u \in Users, NEW kind \in Kinds, Audit!RecordDecision(u, kind)
      PROVE  AuditInv' /\ Founded
  <2>1. UNCHANGED verdict
    BY <1>6 DEF Audit!RecordDecision
  <2> QED BY <1>6, <2>1, RecordKeeps DEF Founded
<1>7. ASSUME NEW u \in Users, NEW mark \in Marks, Audit!Track(u, mark)
      PROVE  AuditInv' /\ Founded
  <2>1. UNCHANGED <<auditClock, watched, decisions, firstSeen, sent, audits, verdict, made>>
    BY <1>7 DEF Audit!Track
  <2>2. tracking' \in [Users -> SUBSET Marks]
    BY <1>7 DEF Audit!Track, AuditInv, Audit!TypeOK
  <2>3. Audit!TypeOK'
    BY <2>1, <2>2 DEF AuditInv, Audit!TypeOK
  <2> QED BY <1>1, <1>2, <2>1, <2>3
<1>8. ASSUME NEW u \in Users, NEW block \in 1 .. auditClock, Audit!RecordFirstSeen(u, block)
      PROVE  AuditInv' /\ Founded
  <2>1. UNCHANGED <<auditClock, watched, decisions, tracking, sent, audits, verdict, made>>
    BY <1>8 DEF Audit!RecordFirstSeen
  <2>2. block \in 0 .. AuditTime
    BY <1>1, AuditConstants
  <2>3. DOMAIN firstSeen' \subseteq Users
        /\ \A v \in DOMAIN firstSeen' : firstSeen'[v] \in 0 .. AuditTime
    BY <1>8, <2>2 DEF Audit!RecordFirstSeen, AuditInv, Audit!TypeOK
  <2>4. Audit!TypeOK'
    BY <2>1, <2>3 DEF AuditInv, Audit!TypeOK
  <2> QED BY <1>1, <1>2, <2>1, <2>4
<1>9. ASSUME NEW a \in Audits, NEW u \in Users, Audit!OnLiquidationCall(a, u)
      PROVE  AuditInv' /\ Founded
  <2>1. UNCHANGED <<auditClock, watched, decisions, firstSeen, tracking, sent, verdict, made>>
    BY <1>9 DEF Audit!OnLiquidationCall
  <2>2. PICK r : r = [at |-> "usd", user |-> u, inSet |-> u \in watched, seen |-> 0]
    OBVIOUS
  <2>3. r \in [at : {"usd", "block"}, user : Users, inSet : BOOLEAN, seen : 0 .. AuditTime]
    BY <2>2, AuditConstants
  <2>4. audits' = [audits EXCEPT ![a] = r]
    BY <1>9, <2>2, Zenon DEF Audit!OnLiquidationCall
  <2>5. Audit!TypeOK'
    BY <2>1, <2>3, <2>4 DEF AuditInv, Audit!TypeOK
  <2> QED BY <1>1, <1>2, <2>1, <2>5
<1>10. ASSUME NEW a \in Audits, Audit!UsdValues(a) PROVE AuditInv' /\ Founded
  <2>1. /\ audits[a].at = "usd"
        /\ audits' = [audits EXCEPT ![a].at = "block", ![a].seen = auditClock]
        /\ UNCHANGED <<auditClock, watched, decisions, firstSeen, tracking, sent, verdict, made>>
    BY <1>10 DEF Audit!UsdValues
  <2>2. audits[a] \in [at : {"usd", "block"}, user : Users, inSet : BOOLEAN,
                       seen : 0 .. AuditTime]
    BY <2>1 DEF AuditInv, Audit!TypeOK, Audit!Idle
  <2>3. PICK r : r = [audits[a] EXCEPT !.at = "block", !.seen = auditClock]
    OBVIOUS
  <2>4. r \in [at : {"usd", "block"}, user : Users, inSet : BOOLEAN, seen : 0 .. AuditTime]
    <3>1. auditClock \in 0 .. AuditTime
      BY <1>1
    <3> QED BY <2>2, <2>3, <3>1
  <2>5. audits' = [audits EXCEPT ![a] = r]
    <3>1. DOMAIN audits = Audits
      BY DEF AuditInv, Audit!TypeOK
    <3> QED BY <2>1, <2>3, <3>1
  <2>6. UNCHANGED <<auditClock, watched, decisions, firstSeen, tracking, sent, verdict, made>>
    BY <2>1
  <2>7. Audit!TypeOK'
    BY <2>4, <2>5, <2>6 DEF AuditInv, Audit!TypeOK
  <2> QED BY <1>1, <1>2, <2>6, <2>7
<1>11. CASE UNCHANGED Audit!vars
  <2>1. UNCHANGED <<auditClock, watched, decisions, firstSeen, tracking, sent, audits,
                    verdict, made>>
    BY <1>11 DEF Audit!vars
  <2>2. Audit!TypeOK'
    BY <2>1 DEF AuditInv, Audit!TypeOK
  <2> QED BY <1>1, <1>2, <2>1, <2>2
<1> QED BY <1>3, <1>4, <1>5, <1>6, <1>7, <1>8, <1>9, <1>10, <1>11, VerdictKeeps
        DEF Audit!Next

LEMMA AuditPart == ExecutionSpec => Audit!Spec
<1>1. ExecutionInit => Audit!Init
  BY DEF ExecutionInit
<1>2. [ExecutionNext]_executionVars => [Audit!Next]_(Audit!vars)
  BY DEF ExecutionNext, executionVars, auditVars, Audit!vars, FollowFlow,
         FollowPredictive, FollowPrices, FollowAudit, FollowSubgraph
<1> QED BY <1>1, <1>2, ExecutionSteps, PTL DEF Audit!Spec

\* However many audits wait at once, and whatever is decided, dropped or cleaned up
\* meanwhile: a verdict within the life of decisions rests on the last decision that was
\* made of its user in time, when the store had room for all.
THEOREM VerdictsAreFounded == ExecutionSpec => VerdictOfTheDecision
<1>1. Audit!Spec => []AuditInv
  BY AuditInit, AuditNext, PTL DEF Audit!Spec
<1>2. AuditInv /\ [Audit!Next]_(Audit!vars) => [Founded]_(Audit!vars)
  BY AuditNext
<1>3. Audit!Spec => [][Founded]_(Audit!vars)
  BY <1>1, <1>2, PTL DEF Audit!Spec
<1>4. [][Founded]_(Audit!vars) => Audit!VerdictOfTheDecision
  <2>1. [Founded]_(Audit!vars) =>
          [verdict' # verdict =>
             LET new == verdict'
                 relevant == {i \in DOMAIN made : made[i].user = new.user
                                /\ made[i].ts \in new.seen - Lookback .. new.seen}
             IN  (new.at - new.seen <= DecisionTtl - Lookback /\ Len(made) <= MaxSize)
                   => new.trace = IF relevant = {} THEN Audit!None
                                  ELSE made[CHOOSE i \in relevant :
                                              \A j \in relevant : j <= i]]_(Audit!vars)
    BY DEF Founded
  <2> QED BY <2>1, PTL DEF Audit!VerdictOfTheDecision
<1> QED BY <1>3, <1>4, AuditPart, PTL DEF VerdictOfTheDecision

-----------------------------------------------------------------------------
\* The dedup cache of the predictive orchestrator.

\* o lists the keys of K, each once.
Lists(o, K) ==
  /\ o \in Seq(Predictive!Keys)
  /\ {o[n] : n \in DOMAIN o} = K
  /\ \A m, n \in DOMAIN o : o[m] = o[n] => m = n

LEMMA ListsAmong ==
  ASSUME NEW o, NEW K, Lists(o, K), NEW S
  PROVE  Lists(Among(o, S), K \cap S)
<1> DEFINE kept == Among(o, S)
<1>1. o \in Seq(Predictive!Keys) /\ DOMAIN o = 1 .. Len(o) /\ Len(o) \in Nat
  BY DEF Lists
<1>2. kept \in Seq(Predictive!Keys)
      /\ \E f \in [1 .. Len(kept) -> 1 .. Len(o)] : Selects(f, kept, o, S)
  BY <1>1, AmongKeeps
<1>3. PICK f \in [1 .. Len(kept) -> 1 .. Len(o)] : Selects(f, kept, o, S)
  BY <1>2
<1> HIDE DEF kept
<1>4. DOMAIN kept = 1 .. Len(kept) /\ Len(kept) \in Nat
  BY <1>2
<1>5. /\ \A n \in 1 .. Len(kept) : kept[n] = o[f[n]] /\ o[f[n]] \in S /\ f[n] \in 1 .. Len(o)
      /\ \A m, n \in 1 .. Len(kept) : m < n => f[m] < f[n]
      /\ \A i \in 1 .. Len(o) : o[i] \in S => \E n \in 1 .. Len(kept) : f[n] = i
  BY <1>3 DEF Selects
<1>6. {kept[n] : n \in DOMAIN kept} = K \cap S
  <2>1. ASSUME NEW n \in DOMAIN kept PROVE kept[n] \in K \cap S
    BY <1>1, <1>4, <1>5 DEF Lists
  <2>2. ASSUME NEW k \in K \cap S PROVE \E n \in DOMAIN kept : kept[n] = k
    <3>1. PICK i \in 1 .. Len(o) : o[i] = k
      BY <1>1 DEF Lists
    <3>2. PICK n \in 1 .. Len(kept) : f[n] = i
      BY <1>5, <3>1
    <3> QED BY <1>4, <1>5, <3>1, <3>2
  <2> QED BY <2>1, <2>2
<1>7. ASSUME NEW m \in DOMAIN kept, NEW n \in DOMAIN kept, kept[m] = kept[n] PROVE m = n
  <2>1. f[m] = f[n] /\ f[m] \in Int
    BY <1>1, <1>4, <1>5, <1>7 DEF Lists
  <2>2. ~ m < n /\ ~ n < m
    BY <1>4, <1>5, <2>1
  <2> QED BY <1>4, <2>2
<1> QED BY <1>2, <1>6, <1>7 DEF Lists, kept

LEMMA ListsAppend ==
  ASSUME NEW o, NEW K, Lists(o, K), NEW k \in Predictive!Keys, k \notin K
  PROVE  Lists(Append(o, k), K \cup {k})
<1> DEFINE l == Append(o, k)
<1>1. o \in Seq(Predictive!Keys) /\ DOMAIN o = 1 .. Len(o) /\ Len(o) \in Nat
  BY DEF Lists
<1>2. /\ l \in Seq(Predictive!Keys) /\ Len(l) = Len(o) + 1
      /\ \A n \in 1 .. Len(o) : l[n] = o[n]
      /\ l[Len(o) + 1] = k
  BY <1>1, AppendProperties
<1>3. DOMAIN l = (1 .. Len(o)) \cup {Len(o) + 1}
  BY <1>1, <1>2
<1> HIDE DEF l
<1>4. {l[n] : n \in DOMAIN l} = K \cup {k}
  BY <1>1, <1>2, <1>3 DEF Lists
<1>5. \A m, n \in DOMAIN l : l[m] = l[n] => m = n
  BY <1>1, <1>2, <1>3 DEF Lists
<1> QED BY <1>2, <1>4, <1>5 DEF Lists, l

LEMMA ListsTail ==
  ASSUME NEW o, NEW K, Lists(o, K), K # {}
  PROVE  Head(o) \in K /\ Lists(Tail(o), K \ {Head(o)})
<1> DEFINE t == Tail(o)
           h == Head(o)
<1>1. o \in Seq(Predictive!Keys) /\ DOMAIN o = 1 .. Len(o) /\ Len(o) \in Nat
  BY DEF Lists
<1>2. o # <<>>
  BY DEF Lists
<1>3. 1 \in 1 .. Len(o)
  BY <1>1, <1>2
<1>4. /\ t \in Seq(Predictive!Keys) /\ Len(t) = Len(o) - 1
      /\ \A n \in 1 .. Len(t) : t[n] = o[n + 1]
      /\ h = o[1]
  BY <1>1, <1>2, HeadTailProperties
<1>5. DOMAIN t = 1 .. Len(t) /\ Len(t) \in Nat
  BY <1>4
<1> HIDE DEF t, h
<1>6. h \in K
  BY <1>1, <1>3, <1>4 DEF Lists
<1>7. \A n \in DOMAIN t : n + 1 \in 1 .. Len(o) /\ n + 1 # 1
  BY <1>1, <1>4, <1>5
<1>8. {t[n] : n \in DOMAIN t} = K \ {h}
  <2>1. ASSUME NEW n \in DOMAIN t PROVE t[n] \in K \ {h}
    BY <1>1, <1>3, <1>4, <1>5, <1>7 DEF Lists
  <2>2. ASSUME NEW k \in K \ {h} PROVE \E n \in DOMAIN t : t[n] = k
    <3>1. PICK i \in 1 .. Len(o) : o[i] = k
      BY <1>1 DEF Lists
    <3>2. i # 1
      BY <1>4, <3>1
    <3>3. i - 1 \in 1 .. Len(t) /\ (i - 1) + 1 = i
      BY <1>1, <1>4, <3>2
    <3> QED BY <1>4, <1>5, <3>1, <3>3
  <2> QED BY <2>1, <2>2
<1>9. ASSUME NEW m \in DOMAIN t, NEW n \in DOMAIN t, t[m] = t[n] PROVE m = n
  <2>1. m + 1 = n + 1
    BY <1>1, <1>4, <1>5, <1>7, <1>9 DEF Lists
  <2> QED BY <1>5, <2>1
<1> QED BY <1>4, <1>6, <1>8, <1>9 DEF Lists, t, h

LEMMA ListsConcat ==
  ASSUME NEW o, NEW K, Lists(o, K), NEW p, NEW L, Lists(p, L), K \cap L = {}
  PROVE  Lists(o \o p, K \cup L)
<1> DEFINE l == o \o p
<1>1. /\ o \in Seq(Predictive!Keys) /\ DOMAIN o = 1 .. Len(o) /\ Len(o) \in Nat
      /\ p \in Seq(Predictive!Keys) /\ DOMAIN p = 1 .. Len(p) /\ Len(p) \in Nat
  BY DEF Lists
<1>2. /\ l \in Seq(Predictive!Keys) /\ Len(l) = Len(o) + Len(p)
      /\ \A i \in 1 .. Len(o) + Len(p) : l[i] = IF i <= Len(o) THEN o[i] ELSE p[i - Len(o)]
  BY <1>1, ConcatProperties
<1>3. DOMAIN l = 1 .. Len(o) + Len(p)
  BY <1>2
<1> HIDE DEF l
<1>4. \A i \in DOMAIN l : \/ i \in DOMAIN o /\ l[i] = o[i] /\ l[i] \in K
                          \/ /\ i - Len(o) \in DOMAIN p /\ l[i] = p[i - Len(o)]
                             /\ l[i] \in L /\ i > Len(o)
  <2> SUFFICES ASSUME NEW i \in DOMAIN l
               PROVE  \/ i \in DOMAIN o /\ l[i] = o[i] /\ l[i] \in K
                      \/ /\ i - Len(o) \in DOMAIN p /\ l[i] = p[i - Len(o)]
                         /\ l[i] \in L /\ i > Len(o)
    OBVIOUS
  <2>1. CASE i <= Len(o)
    <3>1. i \in DOMAIN o /\ l[i] = o[i]
      BY <1>1, <1>2, <1>3, <2>1
    <3> QED BY <3>1 DEF Lists
  <2>2. CASE ~ i <= Len(o)
    <3>1. i - Len(o) \in DOMAIN p /\ l[i] = p[i - Len(o)] /\ i > Len(o)
      BY <1>1, <1>2, <1>3, <2>2
    <3> QED BY <3>1 DEF Lists
  <2> QED BY <2>1, <2>2
<1>5. {l[n] : n \in DOMAIN l} = K \cup L
  <2>1. ASSUME NEW k \in K PROVE \E n \in DOMAIN l : l[n] = k
    <3>1. PICK n \in DOMAIN o : o[n] = k
      BY DEF Lists
    <3>2. n \in DOMAIN l /\ l[n] = o[n]
      BY <1>1, <1>2, <1>3
    <3> QED BY <3>1, <3>2
  <2>2. ASSUME NEW k \in L PROVE \E n \in DOMAIN l : l[n] = k
    <3>1. PICK n \in DOMAIN p : p[n] = k
      BY DEF Lists
    <3>2. n + Len(o) \in DOMAIN l /\ l[n + Len(o)] = p[n]
      BY <1>1, <1>2, <1>3
    <3> QED BY <3>1, <3>2
  <2> QED BY <1>4, <2>1, <2>2
<1>6. ASSUME NEW m \in DOMAIN l, NEW n \in DOMAIN l, l[m] = l[n] PROVE m = n
  <2>1. m \in Int /\ n \in Int
    BY <1>1, <1>3
  <2>2. CASE l[m] \in K
    <3>1. m \in DOMAIN o /\ n \in DOMAIN o /\ o[m] = o[n]
      BY <1>4, <1>6, <2>2
    <3> QED BY <3>1 DEF Lists
  <2>3. CASE l[m] \in L
    <3>1. m - Len(o) \in DOMAIN p /\ n - Len(o) \in DOMAIN p /\ p[m - Len(o)] = p[n - Len(o)]
      BY <1>4, <1>6, <2>3
    <3>2. m - Len(o) = n - Len(o)
      BY <3>1 DEF Lists
    <3> QED BY <1>1, <2>1, <3>2
  <2> QED BY <1>4, <2>2, <2>3
<1> QED BY <1>2, <1>5, <1>6 DEF Lists, l

\* An order of a finite set lists it.
LEMMA ListsOrder ==
  ASSUME NEW S \in SUBSET Predictive!Keys, IsFiniteSet(S), NEW o \in Predictive!SetToSeqs(S)
  PROVE  Lists(o, S)
<1> DEFINE c == Cardinality(S)
<1>1. Predictive!Cardinality(S) = c
  BY DEF Predictive!Cardinality, Cardinality
<1>2. c \in Nat
  BY FS_CardinalityType
<1> HIDE DEF c
<1>3. o \in [1 .. c -> S] /\ \A i, j \in 1 .. c : i # j => o[i] # o[j]
  BY <1>1 DEF Predictive!SetToSeqs
<1>4. o \in Injection(1 .. c, S)
  BY <1>3 DEF Injection, IsInjective
<1>5. Cardinality(1 .. c) = c
  BY <1>2, FS_Interval
<1>6. o \in Surjection(1 .. c, S)
  BY <1>4, <1>5, FS_Injection DEF c
<1>7. {o[n] : n \in DOMAIN o} = S
  BY <1>3, <1>6 DEF Surjection
<1>8. o \in Seq(Predictive!Keys)
  BY <1>2, <1>3
<1> QED BY <1>3, <1>7, <1>8 DEF Lists
\* The cache and its order agree, and the cache is no larger than it may be.
Cached(c, o) ==
  /\ DOMAIN c \subseteq Predictive!Keys /\ IsFiniteSet(DOMAIN c)
  /\ \A k \in DOMAIN c : c[k] \in [at : Nat, strength : Strengths]
  /\ Lists(o, DOMAIN c)
  /\ Cardinality(DOMAIN c) <= MaxCached

LEMMA PredictiveConstants ==
  /\ IsFiniteSet(Watchers) /\ Strengths \subseteq Nat
  /\ MaxCached \in Nat \ {0} /\ IntervalBlocks \in Nat \ {0} /\ IntervalMs \in Nat \ {0}
  /\ SignalTime \in Nat \ {0} /\ SignalBlocks \in Nat
<1>1. Predictive!IsFiniteSet(Watchers)
  BY PartAssumptions DEF Predictive!PredictiveAssumption
<1>2. IsFiniteSet(Watchers)
  BY <1>1 DEF Predictive!IsFiniteSet, IsFiniteSet
<1>3. {MaxCached, IntervalBlocks, IntervalMs, SignalTime} \subseteq Nat \ {0}
  BY PartAssumptions DEF Predictive!PredictiveAssumption
<1>4. Strengths \subseteq Nat /\ SignalBlocks \in Nat
  BY PartAssumptions DEF Predictive!PredictiveAssumption
<1> QED BY <1>2, <1>3, <1>4

\* One key is recorded, in the place of the one used longest ago when the cache is full.
LEMMA RecordedKeeps ==
  ASSUME clock \in Nat, NEW state, Cached(state.cache, state.order),
         NEW k \in Predictive!Keys, NEW strength \in Strengths
  PROVE  Cached(Predictive!Recorded(state, k, strength).cache,
                Predictive!Recorded(state, k, strength).order)
<1> DEFINE c == state.cache
           o == state.order
           full == Cardinality(DOMAIN c) >= MaxCached /\ k \notin DOMAIN c
           order == IF full THEN Tail(o) ELSE o
           kept == IF full THEN DOMAIN c \ {Head(o)} ELSE DOMAIN c
           new == [at |-> clock, strength |-> strength]
           cache2 == [j \in kept \cup {k} |-> IF j = k THEN new ELSE c[j]]
           order2 == Append(Among(order, Predictive!Keys \ {k}), k)
<1>1. Predictive!Recorded(state, k, strength) = [cache |-> cache2, order |-> order2]
  <2>1. \A T : Predictive!Cardinality(T) = Cardinality(T)
    BY DEF Predictive!Cardinality, Cardinality
  <2>2. \A s, S : Predictive!Among(s, S) = Among(s, S)
    BY AmongIsTheirs
  <2> QED BY <2>1, <2>2, Zenon DEF Predictive!Recorded
<1>2. /\ DOMAIN c \subseteq Predictive!Keys /\ IsFiniteSet(DOMAIN c)
      /\ \A j \in DOMAIN c : c[j] \in [at : Nat, strength : Strengths]
      /\ Lists(o, DOMAIN c) /\ Cardinality(DOMAIN c) <= MaxCached
  BY Zenon DEF Cached
<1>3. Cardinality(DOMAIN c) \in Nat
  BY <1>2, FS_CardinalityType
<1> HIDE DEF c, o
<1>4. new \in [at : Nat, strength : Strengths]
  OBVIOUS
<1> HIDE DEF new
<1>5. /\ kept \subseteq DOMAIN c /\ IsFiniteSet(kept) /\ Lists(order, kept)
      /\ Cardinality(kept \cup {k}) <= MaxCached
  <2>1. CASE full
    <3>1. DOMAIN c # {}
      <4>1. Cardinality(DOMAIN c) # 0
        BY <1>3, <2>1, PredictiveConstants
      <4> QED BY <4>1, FS_EmptySet
    <3>2. Head(o) \in DOMAIN c /\ Lists(Tail(o), DOMAIN c \ {Head(o)})
      BY <1>2, <3>1, ListsTail
    <3>3. kept = DOMAIN c \ {Head(o)} /\ order = Tail(o)
      BY <2>1
    <3>4. IsFiniteSet(kept) /\ Cardinality(kept) = Cardinality(DOMAIN c) - 1
      BY <1>2, <3>2, <3>3, FS_RemoveElement
    <3>5. Cardinality(kept \cup {k}) = Cardinality(kept) + 1
      <4>1. k \notin kept
        BY <2>1, <3>3
      <4> HIDE DEF kept
      <4> QED BY <3>4, <4>1, FS_AddElement
    <3> HIDE DEF kept, order
    <3> QED BY <1>2, <1>3, <3>2, <3>3, <3>4, <3>5, PredictiveConstants
  <2>2. CASE ~ full /\ k \in DOMAIN c
    <3>1. kept = DOMAIN c /\ order = o
      BY <2>2
    <3>2. kept \cup {k} = DOMAIN c
      BY <2>2, <3>1
    <3> HIDE DEF kept, order
    <3> QED BY <1>2, <3>1, <3>2
  <2>3. CASE ~ full /\ k \notin DOMAIN c
    <3>1. kept = DOMAIN c /\ order = o
      BY <2>3
    <3>2. Cardinality(DOMAIN c \cup {k}) = Cardinality(DOMAIN c) + 1
      BY <1>2, <2>3, FS_AddElement
    <3>3. Cardinality(DOMAIN c) < MaxCached
      BY <1>3, <2>3, PredictiveConstants
    <3> HIDE DEF kept, order
    <3> QED BY <1>2, <1>3, <3>1, <3>2, <3>3, PredictiveConstants
  <2> QED BY <2>1, <2>2, <2>3
<1> HIDE DEF kept, order
<1>6. Lists(Among(order, Predictive!Keys \ {k}), kept \cap (Predictive!Keys \ {k}))
  BY <1>5, ListsAmong
<1>7. kept \cap (Predictive!Keys \ {k}) = kept \ {k}
  BY <1>2, <1>5
<1>8. Lists(order2, kept \cup {k})
  <2>1. Lists(order2, (kept \ {k}) \cup {k})
    <3>1. Lists(Among(order, Predictive!Keys \ {k}), kept \ {k}) /\ k \notin kept \ {k}
      BY <1>6, <1>7
    <3> QED BY <3>1, ListsAppend
  <2>2. (kept \ {k}) \cup {k} = kept \cup {k}
    OBVIOUS
  <2> QED BY <2>1, <2>2
<1> HIDE DEF order2
<1>9. DOMAIN cache2 = kept \cup {k}
      /\ \A j \in kept \cup {k} : cache2[j] = IF j = k THEN new ELSE c[j]
  OBVIOUS
<1>10. IsFiniteSet(kept \cup {k})
  BY <1>5, FS_AddElement
<1> HIDE DEF cache2
<1>11. \A j \in DOMAIN cache2 : cache2[j] \in [at : Nat, strength : Strengths]
  BY <1>2, <1>4, <1>5, <1>9
<1>12. DOMAIN cache2 \subseteq Predictive!Keys
  BY <1>2, <1>5, <1>9
<1>13. Cached(cache2, order2)
  BY <1>5, <1>8, <1>9, <1>10, <1>11, <1>12 DEF Cached
<1> QED BY <1>1, <1>13

\* What holds at first and goes on holding up to m holds up to m.
LEMMA UpToAll ==
  ASSUME NEW m \in Nat, NEW S, 0 \in S, \A n \in S : n \in 0 .. m - 1 => n + 1 \in S
  PROVE  \A n \in 0 .. m : n \in S
<1> DEFINE T == {k \in 1 .. m + 1 : \A j \in 0 .. k - 1 : j \in S}
<1>1. T \in SUBSET (1 .. m + 1) /\ m + 1 \in Nat /\ 1 \in T
  OBVIOUS
<1>2. PICK e \in T : \A f \in T : f <= e
  <2> HIDE DEF T
  <2> QED BY <1>1, HasLargest
<1>3. e = m + 1
  <2> SUFFICES ASSUME e # m + 1 PROVE FALSE
    OBVIOUS
  <2>1. e \in 1 .. m /\ e - 1 \in S
    OBVIOUS
  <2>2. e \in S
    <3>1. e - 1 \in 0 .. m - 1 /\ (e - 1) + 1 = e
      BY <2>1
    <3> QED BY <2>1, <3>1
  <2>3. \A j \in 0 .. e : j \in S
    <3>1. \A j \in 0 .. e : j = e \/ j \in 0 .. e - 1
      BY <2>1
    <3> QED BY <2>2, <3>1
  <2>4. e + 1 \in T
    BY <2>1, <2>3
  <2> QED BY <1>2, <2>1, <2>4
<1> QED BY <1>3

\* Whatever the users of an evaluation are, recording them one after the other keeps that.
LEMMA AllRecordedKeep ==
  ASSUME clock \in Nat, Cached(cache, accessOrder),
         NEW a \in Assets, NEW strength \in Strengths, NEW order \in Seq(Watchers),
         NEW end, end = CHOOSE f : f = [n \in 0 .. Len(order) |->
                          IF n = 0 THEN [cache |-> cache, order |-> accessOrder]
                          ELSE Predictive!Recorded(f[n - 1], <<order[n], a>>, strength)]
  PROVE  Cached(end[Len(order)].cache, end[Len(order)].order)
<1> DEFINE m == Len(order)
           start == [cache |-> cache, order |-> accessOrder]
           Step(state, n) == Predictive!Recorded(state, <<order[n], a>>, strength)
           Recording(f, l) == f = [n \in 0 .. l |-> IF n = 0 THEN start ELSE Step(f[n - 1], n)]
<1>1. m \in Nat /\ \A n \in 1 .. m : <<order[n], a>> \in Predictive!Keys
  BY DEF Predictive!Keys
<1>2. start.cache = cache /\ start.order = accessOrder
  OBVIOUS
<1>3. ASSUME NEW state, Cached(state.cache, state.order), NEW n \in 1 .. m
      PROVE  Cached(Step(state, n).cache, Step(state, n).order)
  BY <1>1, <1>3, RecordedKeeps
<1>4. end = CHOOSE f : Recording(f, m)
  BY Zenon
<1> HIDE DEF m, start, Step
<1>5. \E f : Recording(f, m)
  <2> DEFINE S == {l \in Nat : \E f : Recording(f, l)}
  <2>1. 0 \in S
    <3>1. PICK f : f = [n \in 0 .. 0 |-> start]
      OBVIOUS
    <3>2. f = [n \in 0 .. 0 |-> IF n = 0 THEN start ELSE Step(f[n - 1], n)]
      BY <3>1
    <3> QED BY <3>2
  <2>2. ASSUME NEW l \in S, l \in 0 .. m - 1 PROVE l + 1 \in S
    <3>1. PICK f : Recording(f, l)
      OBVIOUS
    <3>2. PICK g : g = [n \in 0 .. l + 1 |-> IF n = l + 1 THEN Step(f[l], n) ELSE f[n]]
      OBVIOUS
    <3>3. l \in Nat /\ l + 1 \in Nat
      OBVIOUS
    <3>4. ASSUME NEW n \in 0 .. l + 1
          PROVE  g[n] = IF n = 0 THEN start ELSE Step(g[n - 1], n)
      <4>1. CASE n = l + 1
        <5>1. g[n] = Step(f[l], n) /\ n # 0 /\ n - 1 = l /\ l \in 0 .. l + 1 /\ l # l + 1
          BY <3>2, <3>3, <4>1
        <5>2. g[l] = f[l]
          BY <3>2, <5>1
        <5> QED BY <5>1, <5>2
      <4>2. CASE n # l + 1
        <5>1. n \in 0 .. l /\ g[n] = f[n]
          BY <3>2, <3>3, <4>2
        <5>2. f[n] = IF n = 0 THEN start ELSE Step(f[n - 1], n)
          BY <3>1, <5>1
        <5>3. n # 0 => n - 1 \in 0 .. l + 1 /\ n - 1 # l + 1
          BY <3>3, <5>1
        <5>4. n # 0 => g[n - 1] = f[n - 1]
          BY <3>2, <5>3
        <5> QED BY <5>1, <5>2, <5>4
      <4> QED BY <4>1, <4>2
    <3>5. g = [n \in 0 .. l + 1 |-> g[n]]
      BY <3>2
    <3>6. Recording(g, l + 1)
      BY <3>4, <3>5
    <3> QED BY <3>3, <3>6
  <2>3. m \in S
    <3> HIDE DEF S
    <3>1. \A n \in 0 .. m : n \in S
      BY <1>1, <2>1, <2>2, UpToAll
    <3> QED BY <1>1, <3>1
  <2> QED BY <2>3
<1>6. Recording(end, m)
  <2> HIDE DEF Recording
  <2> QED BY <1>4, <1>5
<1>7. \A n \in 0 .. m : end[n] = IF n = 0 THEN start ELSE Step(end[n - 1], n)
  BY <1>6, Zenon
<1> HIDE DEF Recording
<1> DEFINE S == {n \in 0 .. m : Cached(end[n].cache, end[n].order)}
<1>8. 0 \in S
  <2>1. 0 \in 0 .. m
    BY <1>1
  <2>2. end[0] = start
    BY <1>7, <2>1, Zenon
  <2> QED BY <1>2, <2>1, <2>2
<1>9. ASSUME NEW n \in S, n \in 0 .. m - 1 PROVE n + 1 \in S
  <2>1. n + 1 \in 1 .. m /\ n + 1 \in 0 .. m /\ n + 1 # 0 /\ (n + 1) - 1 = n
    BY <1>1, <1>9
  <2>2. end[n + 1] = Step(end[n], n + 1)
    BY <1>7, <2>1
  <2>3. Cached(Step(end[n], n + 1).cache, Step(end[n], n + 1).order)
    BY <1>3, <2>1
  <2> QED BY <2>1, <2>2, <2>3
<1>10. m \in S
  <2> HIDE DEF S
  <2>1. \A n \in 0 .. m : n \in S
    BY <1>1, <1>8, <1>9, UpToAll
  <2> QED BY <1>1, <2>1
<1> QED BY <1>10 DEF m

-----------------------------------------------------------------------------
\* The types of PredictiveOrchestrator.

\* Its variables but the cache and its order.
PredictiveTyped ==
  /\ clock \in 1 .. SignalTime /\ chainTip \in 0 .. SignalBlocks
  /\ gated \in BOOLEAN
  /\ lastSignalTime \in [Assets -> 0 .. SignalTime]
  /\ budget \in Predictive!Counters
  /\ lastEvaluationBlock \in -IntervalBlocks .. SignalBlocks
  /\ lastEvaluationTs \in -IntervalMs .. SignalTime
  /\ flows \in [Evaluations -> {Predictive!Idle} \cup Predictive!Snapshots
                                 \cup Predictive!Evaluation \cup Predictive!Fallback]
  /\ evaluated \in Nat /\ lastFallback \in -IntervalBlocks .. SignalBlocks

PredictiveInv == PredictiveTyped /\ Cached(cache, accessOrder)

LEMMA PredictiveInit == Predictive!Init => PredictiveInv
<1> SUFFICES ASSUME Predictive!Init PROVE PredictiveInv
  OBVIOUS
<1> USE PredictiveConstants
<1>1. DOMAIN cache = {} /\ accessOrder = <<>>
  BY DEF Predictive!Init
<1>2. Cached(cache, accessOrder)
  <2>1. IsFiniteSet({}) /\ Cardinality({}) = 0
    BY FS_EmptySet
  <2>2. Lists(<<>>, {})
    BY DEF Lists
  <2> QED BY <1>1, <2>1, <2>2 DEF Cached
<1>3. budget \in Predictive!Counters
  BY DEF Predictive!Init, Predictive!Counters
<1>4. PredictiveTyped
  BY <1>3 DEF Predictive!Init, PredictiveTyped
<1> QED BY <1>2, <1>4 DEF PredictiveInv

LEMMA CounterTypes ==
  \A b \in Predictive!Counters :
    /\ b.tick \in Nat /\ b.ticks \in Nat /\ b.minute \in Nat /\ b.spend \in Nat
    /\ b.hour \in Nat /\ b.perAsset \in [Assets -> Nat]
  BY DEF Predictive!Counters

\* A counter changes and the others stay.
LEMMA CounterChanges ==
  ASSUME NEW b \in Predictive!Counters, NEW n \in Nat
  PROVE  /\ /\ [b EXCEPT !.tick = n] \in Predictive!Counters
            /\ [b EXCEPT !.ticks = n] \in Predictive!Counters
            /\ [b EXCEPT !.minute = n] \in Predictive!Counters
            /\ [b EXCEPT !.spend = n] \in Predictive!Counters
            /\ [b EXCEPT !.hour = n] \in Predictive!Counters
         /\ \A p \in [Assets -> Nat] : [b EXCEPT !.perAsset = p] \in Predictive!Counters
<1>1. PICK P : P = [Assets -> Nat]
  OBVIOUS
<1>2. Predictive!Counters = [tick : Nat, ticks : Nat, minute : Nat, spend : Nat,
                             hour : Nat, perAsset : P]
  BY <1>1 DEF Predictive!Counters
<1>4. [b EXCEPT !.tick = n] \in Predictive!Counters
  BY <1>2
<1>5. [b EXCEPT !.ticks = n] \in Predictive!Counters
  BY <1>2
<1>6. [b EXCEPT !.minute = n] \in Predictive!Counters
  BY <1>2
<1>7. [b EXCEPT !.spend = n] \in Predictive!Counters
  BY <1>2
<1>8. [b EXCEPT !.hour = n] \in Predictive!Counters
  BY <1>2
<1>9. \A p \in P : [b EXCEPT !.perAsset = p] \in Predictive!Counters
  BY <1>2
<1> QED BY <1>1, <1>4, <1>5, <1>6, <1>7, <1>8, <1>9

LEMMA BudgetStarts ==
  ASSUME PredictiveTyped
  PROVE  Predictive!StartTick \in Predictive!Counters
<1> DEFINE minuteOver == clock - budget.minute >= Minute
           hourOver == clock - budget.hour >= Hour
<1>1. PICK b \in Predictive!Counters : b = budget
  BY DEF PredictiveTyped
<1>0. b.ticks \in Nat /\ b.minute \in Nat /\ b.spend \in Nat /\ b.hour \in Nat
  BY CounterTypes
<1>2. clock \in Nat
  BY PredictiveConstants DEF PredictiveTyped
<1>3. PICK n \in Nat : n = 1 + (IF minuteOver THEN 0 ELSE b.ticks)
  BY <1>0
<1>4. PICK minute \in Nat : minute = IF minuteOver THEN clock ELSE b.minute
  BY <1>0, <1>2
<1>5. PICK spend \in Nat : spend = IF hourOver THEN 0 ELSE b.spend
  BY <1>0
<1>6. PICK hour \in Nat : hour = IF hourOver THEN clock ELSE b.hour
  BY <1>0, <1>2
<1>7. Predictive!StartTick = [budget EXCEPT !.tick = 0,
         !.ticks = 1 + (IF minuteOver THEN 0 ELSE budget.ticks),
         !.minute = IF minuteOver THEN clock ELSE budget.minute,
         !.spend = IF hourOver THEN 0 ELSE budget.spend,
         !.hour = IF hourOver THEN clock ELSE budget.hour]
  BY Zenon DEF Predictive!StartTick
<1> HIDE DEF minuteOver, hourOver
<1>8. Predictive!StartTick =
        [b EXCEPT !.tick = 0, !.ticks = n, !.minute = minute, !.spend = spend, !.hour = hour]
  BY <1>1, <1>3, <1>4, <1>5, <1>6, <1>7, Zenon
<1>9. PICK c \in Predictive!Counters : c = [b EXCEPT !.tick = 0, !.ticks = n]
  BY CounterChanges
<1>10. PICK d \in Predictive!Counters : d = [c EXCEPT !.minute = minute, !.spend = spend]
  BY CounterChanges
<1>11. Predictive!StartTick = [d EXCEPT !.hour = hour]
  BY <1>8, <1>9, <1>10, Zenon
<1> QED BY <1>11, CounterChanges

LEMMA LookUpKeeps ==
  ASSUME PredictiveInv, NEW users \in SUBSET Watchers, NEW a \in Assets,
         NEW strength \in Strengths, Predictive!LookUp(users, a, strength)
  PROVE  Cached(cache, accessOrder)'
<1> DEFINE expired == {k \in users \X {a} : k \in DOMAIN cache /\ Predictive!Expired(k)}
           hits == {k \in users \X {a} : ~Predictive!ShouldEvaluate(k, strength)}
           stay == Predictive!Keys \ (hits \cup expired)
<1>1. /\ cache' = [k \in DOMAIN cache \ expired |-> cache[k]]
      /\ \E touched \in Predictive!SetToSeqs(hits) :
           accessOrder' = Among(accessOrder, stay) \o touched
  BY AmongIsTheirs DEF Predictive!LookUp
<1>2. PICK touched \in Predictive!SetToSeqs(hits) :
        accessOrder' = Among(accessOrder, stay) \o touched
  BY <1>1
<1>3. /\ DOMAIN cache \subseteq Predictive!Keys /\ IsFiniteSet(DOMAIN cache)
      /\ \A k \in DOMAIN cache : cache[k] \in [at : Nat, strength : Strengths]
      /\ Lists(accessOrder, DOMAIN cache) /\ Cardinality(DOMAIN cache) <= MaxCached
  BY DEF PredictiveInv, Cached
<1>4. hits \subseteq DOMAIN cache \ expired
  BY DEF Predictive!ShouldEvaluate
<1> HIDE DEF hits, expired
<1>5. IsFiniteSet(hits) /\ hits \in SUBSET Predictive!Keys
  BY <1>3, <1>4, FS_Subset
<1>6. Lists(touched, hits)
  BY <1>5, ListsOrder
<1>7. Lists(Among(accessOrder, stay), DOMAIN cache \cap stay)
  BY <1>3, ListsAmong
<1>8. Lists(accessOrder', (DOMAIN cache \cap stay) \cup hits)
  BY <1>2, <1>6, <1>7, ListsConcat
<1>9. (DOMAIN cache \cap stay) \cup hits = DOMAIN cache \ expired
  BY <1>3, <1>4
<1>10. DOMAIN cache' = DOMAIN cache \ expired
       /\ \A k \in DOMAIN cache \ expired : cache'[k] = cache[k]
  BY <1>1
<1>11. IsFiniteSet(DOMAIN cache') /\ Cardinality(DOMAIN cache') <= Cardinality(DOMAIN cache)
  BY <1>3, <1>10, FS_Subset
<1>12. Cardinality(DOMAIN cache) \in Nat /\ Cardinality(DOMAIN cache') \in Nat
  BY <1>3, <1>11, FS_CardinalityType
<1>13. Cardinality(DOMAIN cache') <= MaxCached
  BY <1>3, <1>11, <1>12, PredictiveConstants
<1> QED BY <1>3, <1>8, <1>9, <1>10, <1>11, <1>13 DEF Cached

LEMMA SignalTyped ==
  ASSUME PredictiveInv, NEW f \in Evaluations, NEW a \in Assets, NEW strength \in Strengths,
         Predictive!EvaluateOnSignal(f, a, strength)
  PROVE  PredictiveInv'
<1> USE PredictiveConstants
<1>1. PICK b : b = Predictive!StartTick
  OBVIOUS
<1>2. b \in Predictive!Counters
  BY <1>1, BudgetStarts DEF PredictiveInv
<1>3. PICK users \in SUBSET Watchers, hf \in [Watchers -> SignalHfs] :
        \E kept \in Predictive!DownsampleToFit(b,
             {u \in users : Predictive!ShouldEvaluate(<<u, a>>, strength)}, a, hf) :
          /\ Predictive!LookUp(users, a, strength)
          /\ budget' = b
          /\ evaluated' = (IF b.minute # budget.minute THEN 0 ELSE evaluated)
                            + (IF kept = {} THEN 0 ELSE 1)
          /\ IF kept = {} THEN UNCHANGED <<flows, lastEvaluationBlock, lastEvaluationTs>>
             ELSE /\ flows' = [flows EXCEPT ![f] = [at |-> "evaluate", users |-> kept,
                                                    asset |-> a, strength |-> strength]]
                  /\ lastEvaluationBlock' = chainTip /\ lastEvaluationTs' = clock
  BY <1>1 DEF Predictive!EvaluateOnSignal
<1> DEFINE chosen == {u \in users : Predictive!ShouldEvaluate(<<u, a>>, strength)}
<1>4. PICK kept \in Predictive!DownsampleToFit(b, chosen, a, hf) :
          /\ Predictive!LookUp(users, a, strength)
          /\ budget' = b
          /\ evaluated' = (IF b.minute # budget.minute THEN 0 ELSE evaluated)
                            + (IF kept = {} THEN 0 ELSE 1)
          /\ IF kept = {} THEN UNCHANGED <<flows, lastEvaluationBlock, lastEvaluationTs>>
             ELSE /\ flows' = [flows EXCEPT ![f] = [at |-> "evaluate", users |-> kept,
                                                    asset |-> a, strength |-> strength]]
                  /\ lastEvaluationBlock' = chainTip /\ lastEvaluationTs' = clock
  BY <1>3
<1>5. kept \in SUBSET Watchers
  <2>1. chosen \in SUBSET Watchers
    OBVIOUS
  <2> HIDE DEF chosen
  <2> QED BY <2>1, Zenon DEF Predictive!DownsampleToFit
<1>6. /\ lastSignalTime' = [lastSignalTime EXCEPT ![a] = clock]
      /\ UNCHANGED <<clock, chainTip, gated, lastFallback>>
  BY DEF Predictive!EvaluateOnSignal
<1>7. Cached(cache, accessOrder)'
  BY <1>4, LookUpKeeps
<1>8. PICK e : e = [at |-> "evaluate", users |-> kept, asset |-> a, strength |-> strength]
  OBVIOUS
<1>9. e \in Predictive!Evaluation
  BY <1>5, <1>8 DEF Predictive!Evaluation
<1>10. /\ flows' = flows \/ flows' = [flows EXCEPT ![f] = e]
       /\ lastEvaluationBlock' = lastEvaluationBlock \/ lastEvaluationBlock' = chainTip
       /\ lastEvaluationTs' = lastEvaluationTs \/ lastEvaluationTs' = clock
       /\ budget' = b
       /\ evaluated' \in {0, 1, evaluated, evaluated + 1}
  <2>1. evaluated' \in {0, 1, evaluated, evaluated + 1}
    BY <1>4 DEF PredictiveInv, PredictiveTyped
  <2> QED BY <1>4, <1>8, <2>1
<1>11. PredictiveTyped'
  <2>1. lastSignalTime' \in [Assets -> 0 .. SignalTime]
    BY <1>6 DEF PredictiveInv, PredictiveTyped
  <2>2. flows' \in [Evaluations -> {Predictive!Idle} \cup Predictive!Snapshots
                                 \cup Predictive!Evaluation \cup Predictive!Fallback]
    BY <1>9, <1>10 DEF PredictiveInv, PredictiveTyped
  <2>3. /\ lastEvaluationBlock' \in -IntervalBlocks .. SignalBlocks
        /\ lastEvaluationTs' \in -IntervalMs .. SignalTime
    BY <1>10 DEF PredictiveInv, PredictiveTyped
  <2>4. evaluated' \in Nat
    BY <1>10 DEF PredictiveInv, PredictiveTyped
  <2>5. budget' \in Predictive!Counters
    BY <1>2, <1>10
  <2>6. /\ clock' \in 1 .. SignalTime /\ chainTip' \in 0 .. SignalBlocks
        /\ gated' \in BOOLEAN /\ lastFallback' \in -IntervalBlocks .. SignalBlocks
    BY <1>6 DEF PredictiveInv, PredictiveTyped
  <2> QED BY <2>1, <2>2, <2>3, <2>4, <2>5, <2>6 DEF PredictiveTyped
<1> QED BY <1>7, <1>11 DEF PredictiveInv

LEMMA RecordingTyped ==
  ASSUME PredictiveInv, NEW f \in Evaluations, Predictive!RecordEvaluation(f)
  PROVE  PredictiveInv'
<1> USE PredictiveConstants
<1> DEFINE flow == flows[f]
<1>0. /\ budget' = [budget EXCEPT !.tick = @ + Predictive!Cardinality(flow.users),
                                  !.spend = @ + Predictive!Cardinality(flow.users),
                       !.perAsset[flow.asset] = @ + Predictive!Cardinality(flow.users)]
      /\ flows' = [flows EXCEPT ![f] = Predictive!Idle]
      /\ UNCHANGED <<clock, chainTip, gated, lastSignalTime, lastEvaluationBlock,
                     lastEvaluationTs, evaluated, lastFallback>>
  BY Zenon DEF Predictive!RecordEvaluation
<1>1. flow \in Predictive!Evaluation
  <2>1. flows[f].at = "evaluate"
    BY Zenon DEF Predictive!RecordEvaluation
  <2> QED BY <2>1 DEF PredictiveInv, PredictiveTyped, Predictive!Idle,
       Predictive!Snapshots, Predictive!Evaluation, Predictive!Fallback
<1>2. PICK order \in Predictive!SetToSeqs(flow.users) :
        LET after == CHOOSE g : g = [n \in 0 .. Len(order) |->
              IF n = 0 THEN [cache |-> cache, order |-> accessOrder]
              ELSE Predictive!Recorded(g[n - 1], <<order[n], flow.asset>>, flow.strength)]
        IN  /\ cache' = after[Len(order)].cache
            /\ accessOrder' = after[Len(order)].order
  BY Zenon DEF Predictive!RecordEvaluation
<1> HIDE DEF flow
<1>3. /\ flow.users \in SUBSET Watchers /\ flow.asset \in Assets /\ flow.strength \in Strengths
      /\ IsFiniteSet(flow.users)
  BY <1>1, FS_Subset DEF Predictive!Evaluation
<1>4. order \in Seq(Watchers)
  <2>1. Cardinality(flow.users) \in Nat
    BY <1>3, FS_CardinalityType
  <2>2. order \in [1 .. Cardinality(flow.users) -> flow.users]
    BY DEF Predictive!SetToSeqs, Predictive!Cardinality, Cardinality
  <2> HIDE DEF Predictive!SetToSeqs
  <2> QED BY <1>3, <2>1, <2>2
<1>5. PICK end : end = CHOOSE g : g = [n \in 0 .. Len(order) |->
              IF n = 0 THEN [cache |-> cache, order |-> accessOrder]
              ELSE Predictive!Recorded(g[n - 1], <<order[n], flow.asset>>, flow.strength)]
  OBVIOUS
<1>6. cache' = end[Len(order)].cache /\ accessOrder' = end[Len(order)].order
  BY <1>2, <1>5, Zenon
<1>7. clock \in Nat
  BY DEF PredictiveInv, PredictiveTyped
<1>8. Cached(end[Len(order)].cache, end[Len(order)].order)
  BY <1>3, <1>4, <1>5, <1>7, AllRecordedKeep DEF PredictiveInv
<1>9. Cached(cache, accessOrder)'
  BY <1>6, <1>8, Zenon DEF Cached
<1>10. PICK n \in Nat : n = Cardinality(flow.users)
  BY <1>3, FS_CardinalityType
<1>11. Predictive!Cardinality(flow.users) = n
  BY <1>10 DEF Predictive!Cardinality, Cardinality
<1>12. /\ budget' = [budget EXCEPT !.tick = @ + n, !.spend = @ + n,
                                   !.perAsset[flow.asset] = @ + n]
       /\ flows' = [flows EXCEPT ![f] = Predictive!Idle]
       /\ UNCHANGED <<clock, chainTip, gated, lastSignalTime, lastEvaluationBlock,
                      lastEvaluationTs, evaluated, lastFallback>>
  BY <1>0, <1>11, Zenon
<1>13. budget' \in Predictive!Counters
  <2>1. PICK b \in Predictive!Counters : b = budget
    BY DEF PredictiveInv, PredictiveTyped
  <2>0. b.tick \in Nat /\ b.spend \in Nat /\ b.perAsset \in [Assets -> Nat]
    BY CounterTypes
  <2>2. PICK tick \in Nat, spend \in Nat : tick = b.tick + n /\ spend = b.spend + n
    BY <2>0
  <2>3. PICK p \in [Assets -> Nat] : p = [b.perAsset EXCEPT ![flow.asset] = @ + n]
    <3>1. PICK q \in [Assets -> Nat] : q = b.perAsset
      BY <2>0
    <3>2. q[flow.asset] + n \in Nat
      BY <1>3
    <3>3. [q EXCEPT ![flow.asset] = q[flow.asset] + n] \in [Assets -> Nat]
      BY <3>2
    <3> QED BY <3>1, <3>3
  <2>4. PICK c \in Predictive!Counters : c = [b EXCEPT !.tick = tick, !.spend = spend]
    BY CounterChanges
  <2>5. budget' = [c EXCEPT !.perAsset = p]
    <3>1. c.perAsset = b.perAsset
      BY <2>4 DEF Predictive!Counters
    <3> QED BY <1>12, <2>1, <2>2, <2>3, <2>4, <3>1, Zenon
  <2> QED BY <2>5, CounterChanges
<1>14. flows' \in [Evaluations -> {Predictive!Idle} \cup Predictive!Snapshots
                                 \cup Predictive!Evaluation \cup Predictive!Fallback]
  BY <1>12 DEF PredictiveInv, PredictiveTyped
<1>15. PredictiveTyped'
  BY <1>12, <1>13, <1>14 DEF PredictiveInv, PredictiveTyped
<1> QED BY <1>9, <1>15 DEF PredictiveInv

LEMMA PredictiveNext == PredictiveInv /\ [Predictive!Next]_(Predictive!vars) => PredictiveInv'
<1> SUFFICES ASSUME PredictiveInv, [Predictive!Next]_(Predictive!vars) PROVE PredictiveInv'
  OBVIOUS
<1> USE PredictiveConstants
<1> DEFINE Flowing == {Predictive!Idle} \cup Predictive!Snapshots
                        \cup Predictive!Evaluation \cup Predictive!Fallback
<1>0. flows \in [Evaluations -> Flowing]
  BY DEF PredictiveInv, PredictiveTyped
<1>1. /\ Predictive!Idle \in Flowing /\ [at |-> "snapshots"] \in Flowing
      /\ [at |-> "fallback"] \in Flowing
  BY DEF Predictive!Snapshots, Predictive!Fallback
<1>2. ASSUME UNCHANGED <<cache, accessOrder>> PROVE Cached(cache, accessOrder)'
  BY <1>2 DEF PredictiveInv
<1>3. ASSUME NEW f \in Evaluations, Predictive!StartFallback(f) PROVE PredictiveInv'
  <2>1. /\ flows' = [flows EXCEPT ![f] = [at |-> "snapshots"]]
        /\ UNCHANGED <<clock, chainTip, gated, lastSignalTime, budget, cache, accessOrder,
                       lastEvaluationBlock, lastEvaluationTs, evaluated, lastFallback>>
    BY <1>3 DEF Predictive!StartFallback
  <2>2. flows' \in [Evaluations -> Flowing]
    BY <1>0, <1>1, <2>1
  <2> HIDE DEF Flowing
  <2>3. PredictiveTyped'
    BY <2>1, <2>2 DEF PredictiveInv, PredictiveTyped, Flowing
  <2> QED BY <1>2, <2>1, <2>3 DEF PredictiveInv
<1>4. ASSUME NEW f \in Evaluations, Predictive!FallbackOver(f) PROVE PredictiveInv'
  <2>1. /\ flows' = [flows EXCEPT ![f] = Predictive!Idle]
        /\ UNCHANGED <<clock, chainTip, gated, lastSignalTime, budget, cache, accessOrder,
                       lastEvaluationBlock, lastEvaluationTs, evaluated, lastFallback>>
    BY <1>4 DEF Predictive!FallbackOver
  <2>2. flows' \in [Evaluations -> Flowing]
    BY <1>0, <1>1, <2>1
  <2> HIDE DEF Flowing
  <2>3. PredictiveTyped'
    BY <2>1, <2>2 DEF PredictiveInv, PredictiveTyped, Flowing
  <2> QED BY <1>2, <2>1, <2>3 DEF PredictiveInv
<1>5. ASSUME NEW f \in Evaluations, Predictive!SnapshotsRead(f) PROVE PredictiveInv'
  <2>1. UNCHANGED <<clock, chainTip, gated, lastSignalTime, budget, cache, accessOrder,
                    evaluated>>
    BY <1>5 DEF Predictive!SnapshotsRead
  <2>2. PICK block \in 0 .. chainTip :
          /\ \/ flows' = [flows EXCEPT ![f] = [at |-> "fallback"]]
             \/ flows' = [flows EXCEPT ![f] = Predictive!Idle]
          /\ \/ lastEvaluationBlock' = block /\ lastEvaluationTs' = clock
                /\ lastFallback' = block
             \/ UNCHANGED <<lastEvaluationBlock, lastEvaluationTs, lastFallback>>
    BY <1>5 DEF Predictive!SnapshotsRead
  <2>3. flows' \in [Evaluations -> Flowing]
    BY <1>0, <1>1, <2>2
  <2> HIDE DEF Flowing
  <2>4. /\ lastEvaluationBlock' \in -IntervalBlocks .. SignalBlocks
        /\ lastEvaluationTs' \in -IntervalMs .. SignalTime
        /\ lastFallback' \in -IntervalBlocks .. SignalBlocks
    BY <2>2 DEF PredictiveInv, PredictiveTyped
  <2>5. PredictiveTyped'
    BY <2>1, <2>3, <2>4 DEF PredictiveInv, PredictiveTyped, Flowing
  <2> QED BY <1>2, <2>1, <2>5 DEF PredictiveInv
<1>6. CASE Predictive!Tick
  <2>1. /\ clock < SignalTime /\ clock' = clock + 1
        /\ chainTip' \in {chainTip, chainTip + 1} /\ chainTip' <= SignalBlocks
        /\ UNCHANGED <<gated, lastSignalTime, budget, cache, accessOrder,
                       lastEvaluationBlock, lastEvaluationTs, flows, evaluated,
                       lastFallback>>
    BY <1>6 DEF Predictive!Tick
  <2>2. clock' \in 1 .. SignalTime /\ chainTip' \in 0 .. SignalBlocks
    BY <2>1 DEF PredictiveInv, PredictiveTyped
  <2>3. PredictiveTyped'
    BY <2>1, <2>2 DEF PredictiveInv, PredictiveTyped
  <2> QED BY <1>2, <2>1, <2>3 DEF PredictiveInv
<1>7. CASE UNCHANGED Predictive!vars
  <2>1. UNCHANGED <<clock, chainTip, gated, lastSignalTime, budget, cache, accessOrder,
                    lastEvaluationBlock, lastEvaluationTs, flows, evaluated,
                    lastFallback>>
    BY <1>7 DEF Predictive!vars
  <2>2. PredictiveTyped'
    BY <2>1 DEF PredictiveInv, PredictiveTyped
  <2> QED BY <1>2, <2>1, <2>2 DEF PredictiveInv
<1> QED BY <1>3, <1>4, <1>5, <1>6, <1>7, SignalTyped, RecordingTyped DEF Predictive!Next

\* What the invariant says of the module's own definitions.
LEMMA PredictiveTypes == PredictiveInv => Predictive!TypeOK /\ Predictive!DedupAgrees
<1> SUFFICES ASSUME PredictiveInv PROVE Predictive!TypeOK /\ Predictive!DedupAgrees
  OBVIOUS
<1>1. Cached(cache, accessOrder) /\ PredictiveTyped
  BY DEF PredictiveInv
<1>2. Predictive!Cardinality(DOMAIN cache) = Cardinality(DOMAIN cache)
  BY DEF Predictive!Cardinality, Cardinality
<1>3. Predictive!DedupAgrees
  BY <1>1, <1>2, Zenon DEF Cached, Lists, Predictive!DedupAgrees
<1>4. Predictive!TypeOK
  BY <1>1 DEF Cached, Lists, PredictiveTyped, Predictive!TypeOK
<1> QED BY <1>3, <1>4
-----------------------------------------------------------------------------
\* The types of PriceService, and of all that MCExecution composes.

\* What PriceInv leaves open.
BlockPricesTyped ==
  /\ DOMAIN perBlockPriceCache \subseteq Price!Symbols \X Price!Blocks
  /\ \A k \in DOMAIN perBlockPriceCache : perBlockPriceCache[k] \in {1, 2}
NoticesTyped ==
  notices \in [Opportunities -> {"none", "open", "sent", "deferred", "revalued"}]
FeedsTyped == feedErrorCounts \in [Direct -> Nat] /\ disabledFeeds \subseteq Direct

PriceTyped ==
  /\ priceClock \in 1 .. PriceTime
  /\ readAt \in [Price!Symbols -> 0 .. PriceTime]
  /\ FeedsTyped /\ BlockPricesTyped /\ NoticesTyped
  /\ pending \in Seq(Price!Symbols)

LEMMA PriceBounds == PriceTime \in Nat \ {0} /\ DisableAfter \in Nat
<1>1. {DisableAfter, PriceTime} \subseteq Nat \ {0}
  BY PartAssumptions DEF Price!PriceAssumption
<1> QED BY <1>1

\* A request that is answered leaves its block's price and its notice.
LEMMA AnswerTyped ==
  ASSUME BlockPricesTyped, NoticesTyped, NEW r, NEW s \in Price!Symbols,
         NEW for \in Price!Purposes, NEW ok, Price!Answered(r, s, for, ok)
  PROVE  BlockPricesTyped' /\ NoticesTyped' /\ pending' = pending
<1>1. /\ notices' = IF for.kind = "notice"
                      THEN [notices EXCEPT ![for.notice] = Price!NoticeOf] ELSE notices
      /\ perBlockPriceCache' = IF for.kind = "block" /\ ok THEN Price!Kept(s, for.block)
                               ELSE perBlockPriceCache
      /\ pending' = pending
  BY DEF Price!Answered
<1>2. NoticesTyped'
  <2>1. Price!NoticeOf \in {"sent", "deferred"}
    BY DEF Price!NoticeOf
  <2> QED BY <1>1, <2>1 DEF NoticesTyped
<1>3. CASE ~ (for.kind = "block" /\ ok)
  BY <1>1, <1>2, <1>3 DEF BlockPricesTyped
<1>4. CASE for.kind = "block" /\ ok
  <2>1. for.block \in Price!Blocks
    BY <1>4 DEF Price!Purposes
  <2>2. PICK key \in Price!Symbols \X Price!Blocks : key = <<s, for.block>>
    BY <2>1
  <2>3. /\ DOMAIN perBlockPriceCache' \subseteq DOMAIN perBlockPriceCache \cup {key}
        /\ \A k \in DOMAIN perBlockPriceCache' :
             perBlockPriceCache'[k] = IF k \notin DOMAIN perBlockPriceCache THEN 1
                                      ELSE IF k = key THEN 2 ELSE perBlockPriceCache[k]
    BY <1>1, <1>4, <2>2 DEF Price!Kept
  <2>4. BlockPricesTyped'
    BY <2>2, <2>3 DEF BlockPricesTyped
  <2> QED BY <1>1, <1>2, <2>4
<1> QED BY <1>3, <1>4

LEMMA PriceTypedInit == Price!Init => PriceTyped
<1> SUFFICES ASSUME Price!Init PROVE PriceTyped
  OBVIOUS
<1>1. DOMAIN perBlockPriceCache = {}
  BY DEF Price!Init
<1> QED BY <1>1, PriceBounds
        DEF Price!Init, PriceTyped, FeedsTyped, BlockPricesTyped, NoticesTyped

LEMMA AskedTyped ==
  ASSUME PriceTyped, NEW r \in Requests, NEW s \in Price!Symbols,
         NEW for \in Price!Purposes, Price!Asked(r, s, for)
  PROVE  PriceTyped'
<1>1. UNCHANGED <<priceClock, readAt, feedErrorCounts, disabledFeeds>>
  BY DEF Price!Asked
<1>2. BlockPricesTyped' /\ NoticesTyped' /\ pending' = pending
  <2>1. CASE Price!Answered(r, s, for, TRUE)
    BY <2>1, AnswerTyped DEF PriceTyped
  <2>2. CASE /\ notices' = IF for.kind = "notice" THEN [notices EXCEPT ![for.notice] = "open"]
                           ELSE notices
             /\ UNCHANGED <<perBlockPriceCache, pending>>
    BY <2>2 DEF PriceTyped, BlockPricesTyped, NoticesTyped
  <2> QED BY <2>1, <2>2 DEF Price!Asked
<1> QED BY <1>1, <1>2 DEF PriceTyped, FeedsTyped

LEMMA SourceTyped ==
  ASSUME PriceInv, PriceTyped, NEW r \in Requests, Price!SourceAnswers(r)
  PROVE  PriceTyped'
<1>1. requests[r].at \in {"feed", "ratio", "eth", "oracle"}
  BY DEF Price!SourceAnswers, Price!ChainlinkAnswers, Price!RatioAnswers,
         Price!EthAnswers, Price!OracleAnswers
<1>2. requests[r].symbol \in Price!Symbols /\ requests[r].for \in Price!Purposes
  BY <1>1 DEF PriceInv, Price!Request, Price!Idle
<1>3. ASSUME NEW scaled, Price!Found(r, scaled)
      PROVE  BlockPricesTyped' /\ NoticesTyped' /\ pending' = pending
  <2>1. Price!Answered(r, requests[r].symbol, requests[r].for, TRUE)
    BY <1>3 DEF Price!Found
  <2> QED BY <1>2, <2>1, AnswerTyped DEF PriceTyped
<1>4. ASSUME NEW step, Price!OnTo(r, step)
      PROVE  BlockPricesTyped' /\ NoticesTyped' /\ pending' = pending
  BY <1>4 DEF Price!OnTo, PriceTyped, BlockPricesTyped, NoticesTyped
<1>5. ASSUME Price!Stub(r)
      PROVE  BlockPricesTyped' /\ NoticesTyped' /\ pending' = pending
  <2>1. CASE Price!Found(r, TRUE)
    BY <1>3, <2>1
  <2>2. CASE Price!Answered(r, requests[r].symbol, requests[r].for, FALSE)
    BY <1>2, <2>2, AnswerTyped DEF PriceTyped
  <2> QED BY <1>5, <2>1, <2>2 DEF Price!Stub
<1>6. BlockPricesTyped' /\ NoticesTyped' /\ pending' = pending
  <2>1. \/ \E scaled : Price!Found(r, scaled)
        \/ \E step : Price!OnTo(r, step)
        \/ Price!Stub(r)
    BY DEF Price!SourceAnswers, Price!ChainlinkAnswers, Price!RatioAnswers,
           Price!EthAnswers, Price!OracleAnswers
  <2> QED BY <1>3, <1>4, <1>5, <2>1
<1>7. UNCHANGED <<priceClock, readAt>>
  BY DEF Price!SourceAnswers, Price!ChainlinkAnswers, Price!RatioAnswers,
         Price!EthAnswers, Price!OracleAnswers
<1>8. FeedsTyped'
  <2>1. CASE Price!ChainlinkAnswers(r)
    <3>1. PICK s \in Direct : s = requests[r].symbol
      BY <2>1 DEF Price!ChainlinkAnswers, PriceInv
    <3>2. \/ /\ feedErrorCounts' = [feedErrorCounts EXCEPT ![s] = 0]
             /\ UNCHANGED disabledFeeds
          \/ /\ feedErrorCounts' = [feedErrorCounts EXCEPT ![s] =
                                      IF @ < DisableAfter THEN @ + 1 ELSE @]
             /\ disabledFeeds' = disabledFeeds
                  \cup (IF feedErrorCounts[s] + 1 >= DisableAfter THEN {s} ELSE {})
      BY <2>1, <3>1 DEF Price!ChainlinkAnswers
    <3>3. feedErrorCounts \in [Direct -> Nat] /\ disabledFeeds \subseteq Direct
      BY DEF PriceTyped, FeedsTyped
    <3>4. feedErrorCounts' \in [Direct -> Nat]
      BY <3>2, <3>3, PriceBounds
    <3> QED BY <3>2, <3>3, <3>4 DEF FeedsTyped
  <2>2. CASE UNCHANGED <<feedErrorCounts, disabledFeeds>>
    BY <2>2 DEF PriceTyped, FeedsTyped
  <2> QED BY <2>1, <2>2 DEF Price!SourceAnswers, Price!RatioAnswers, Price!EthAnswers,
              Price!OracleAnswers
<1> QED BY <1>6, <1>7, <1>8 DEF PriceTyped

LEMMA PriceTypedNext ==
  PriceInv /\ PriceTyped /\ [Price!Next]_(Price!vars) => PriceTyped'
<1> SUFFICES ASSUME PriceInv, PriceTyped, [Price!Next]_(Price!vars) PROVE PriceTyped'
  OBVIOUS
<1> USE PriceBounds
<1>1. CASE Price!Tick
  <2>1. /\ priceClock' \in 1 .. PriceTime
        /\ UNCHANGED <<readAt, feedErrorCounts, disabledFeeds, perBlockPriceCache, pending,
                       notices>>
    BY <1>1 DEF Price!Tick, PriceTyped
  <2> QED BY <2>1 DEF PriceTyped, FeedsTyped, BlockPricesTyped, NoticesTyped
<1>2. ASSUME NEW s \in Price!Symbols, NEW answer, Price!ReadDecimals(s, answer)
      PROVE  PriceTyped'
  <2>1. /\ readAt' = [readAt EXCEPT ![s] = priceClock]
        /\ pending' = pending \/ pending' = <<>>
        /\ UNCHANGED <<priceClock, feedErrorCounts, disabledFeeds, perBlockPriceCache,
                       notices>>
    BY <1>2 DEF Price!ReadDecimals, Price!Flushed
  <2>2. PICK symbols : symbols = Price!Symbols
    OBVIOUS
  <2>3. /\ readAt \in [symbols -> 0 .. PriceTime] /\ priceClock \in 0 .. PriceTime
        /\ pending \in Seq(symbols) /\ <<>> \in Seq(symbols)
    BY <2>2 DEF PriceTyped
  <2>4. readAt' \in [symbols -> 0 .. PriceTime]
    BY <2>1, <2>3
  <2>5. pending' \in Seq(symbols)
    BY <2>1, <2>3
  <2>6. readAt' \in [Price!Symbols -> 0 .. PriceTime] /\ pending' \in Seq(Price!Symbols)
    BY <2>2, <2>4, <2>5
  <2> QED BY <2>1, <2>6 DEF PriceTyped, FeedsTyped, BlockPricesTyped, NoticesTyped
<1>3. ASSUME NEW s, NEW at, Price!AcceptExternalUpdate(s, at) PROVE PriceTyped'
  BY <1>3 DEF Price!AcceptExternalUpdate, PriceTyped, FeedsTyped, BlockPricesTyped,
       NoticesTyped
<1>4. ASSUME NEW r \in Requests, NEW s \in Price!Symbols, NEW for \in Price!Purposes,
             \/ Price!GetPrice(r, s, for) \/ Price!GetPriceAtBlock(r, s, for)
             \/ \E realtime \in BOOLEAN : Price!NotifyOpportunity(r, s, for, realtime)
      PROVE  PriceTyped'
  <2>1. \/ Price!Asked(r, s, for)
        \/ /\ notices' = [notices EXCEPT ![for.notice] = "deferred"]
           /\ UNCHANGED <<priceClock, readAt, feedErrorCounts, disabledFeeds,
                          perBlockPriceCache, pending>>
    BY <1>4 DEF Price!GetPrice, Price!GetPriceAtBlock, Price!NotifyOpportunity,
                Price!Validated
  <2>2. CASE /\ notices' = [notices EXCEPT ![for.notice] = "deferred"]
             /\ UNCHANGED <<priceClock, readAt, feedErrorCounts, disabledFeeds,
                            perBlockPriceCache, pending>>
    BY <2>2 DEF PriceTyped, FeedsTyped, BlockPricesTyped, NoticesTyped
  <2> QED BY <2>1, <2>2, AskedTyped
<1>5. CASE UNCHANGED Price!vars
  BY <1>5 DEF Price!vars, PriceTyped, FeedsTyped, BlockPricesTyped, NoticesTyped
<1> QED BY <1>1, <1>2, <1>3, <1>4, <1>5, SourceTyped DEF Price!Next

LEMMA PriceTypes == PriceInv /\ PriceTyped => Price!TypeOK
  BY DEF PriceInv, PriceTyped, FeedsTyped, BlockPricesTyped, NoticesTyped, Price!TypeOK

\* Every variable of the execution side of the first bot keeps its type; the dedup cache
\* of the predictive orchestrator, evicted, touched and refilled by evaluations that end
\* in any order, always agrees with its order of access and never outgrows its limit.
THEOREM ExecutionTypeCorrect == ExecutionSpec => []ExecutionTypeOK
<1>1. ExecutionSpec => []TypeOK
  <2>1. ExecutionInit => Init
    BY DEF ExecutionInit
  <2>2. [ExecutionNext]_executionVars => [Next]_vars
    BY DEF ExecutionNext, executionVars, vars, FollowFlow, FollowPredictive, FollowPrices,
           FollowAudit, FollowSubgraph
  <2>3. IInv => TypeOK
    BY DEF IInv
  <2> QED BY <2>1, <2>2, <2>3, InitInv, NextInv, ExecutionSteps, PTL
<1>2. ExecutionSpec => []PredictiveInv
  BY PredictiveInit, PredictiveNext, PredictivePart, PTL DEF Predictive!Spec
<1>3. ExecutionSpec => [](PriceInv /\ PriceTyped)
  BY PriceInit, PriceTypedInit, PriceNext, PriceTypedNext, PriceSteps, PTL
<1>4. ExecutionSpec => []Audit!TypeOK
  <2>1. Audit!Spec => []AuditInv
    BY AuditInit, AuditNext, PTL DEF Audit!Spec
  <2>2. AuditInv => Audit!TypeOK
    BY DEF AuditInv
  <2> QED BY <2>1, <2>2, AuditPart, PTL
<1>5. ExecutionSpec => []Subgraph!TypeOK
  <2>1. ToldInv => Subgraph!TypeOK
    BY DEF ToldInv
  <2> QED BY <2>1, ToldInit, ToldNext, SubgraphSteps, PTL
<1> QED BY <1>1, <1>2, <1>3, <1>4, <1>5, PredictiveTypes, PriceTypes, PTL
        DEF ExecutionTypeOK
=============================================================================
