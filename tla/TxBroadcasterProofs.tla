-------------------------- MODULE TxBroadcasterProofs --------------------------
(***************************************************************************)
(* Theorems about TxBroadcaster, for any number of calls, nodes,           *)
(* replacements and polls: calls land once, answers are true, replacements *)
(* outbid, and the broadcaster implements BroadcastPromise.                *)
(***************************************************************************)
EXTENDS TxBroadcaster, SequenceTheorems, TLAPS

\* What makes "at most one transaction per call" inductive: every transaction
\* carries the nonce its call took and never changes, and the chain holds the
\* transaction of nonce n at place n + 1.
Signing(c) == call[c].pc \in {"send", "wait", "done"}

NonceInv ==
  /\ \A n \in Nodes : \A t \in pool[n] :
       Signing(t.owner) /\ t.nonce = call[t.owner].nonce
  /\ \A i \in DOMAIN mined :
       /\ Signing(mined[i].tx.owner)
       /\ mined[i].tx.nonce = call[mined[i].tx.owner].nonce
       /\ mined[i].tx.nonce = i - 1

IInv == TypeOK /\ NonceInv

-----------------------------------------------------------------------------
\* Bumping a fee gives a fee.
LEMMA BumpedType == ASSUME NEW f \in Nat PROVE Bumped(f) \in Nat
  BY OptionsAssumption DEF Bumped

LEMMA TypeInit == Init => TypeOK
  BY CallsAssumption, OptionsAssumption DEF Init, TypeOK, CallState, Tx

LEMMA OfferType ==
  ASSUME TypeOK, NEW tx \in Tx, NEW takers, Offer(tx, takers)
  PROVE  pool' \in [Nodes -> SUBSET Tx]
  BY DEF Offer, TypeOK

LEMMA SignedType == ASSUME TypeOK, NEW c \in Calls PROVE Signed(c) \in Tx
  BY DEF TypeOK, CallState, Signed, Tx

LEMMA PendingNonceType == ASSUME TypeOK, NEW n \in Nodes PROVE PendingNonces(n) \subseteq Nat
<1>1. ASSUME NEW t \in pool[n] PROVE t.nonce + 1 \in Nat
  BY DEF TypeOK, Tx
<1>2. Len(mined) \in Nat
  BY DEF TypeOK
<1> QED BY <1>1, <1>2 DEF PendingNonces

LEMMA BecomesType ==
  ASSUME TypeOK, NEW c \in Calls, NEW s \in CallState, Becomes(c, s)
  PROVE  call' \in [Calls -> CallState]
  BY DEF Becomes, TypeOK

LEMMA ReturnType ==
  ASSUME TypeOK, NEW c \in Calls, NEW s \in {"mined", "pending", "failed"}, Return(c, s)
  PROVE  call' \in [Calls -> CallState]
<1>1. call[c] \in CallState
  BY DEF TypeOK
<1>2. [call[c] EXCEPT !.pc = "done", !.status = s] \in CallState
  BY <1>1 DEF CallState
<1> QED BY <1>2, BecomesType DEF Return

LEMMA TypeNext == TypeOK /\ [Next]_vars => TypeOK'
<1> SUFFICES ASSUME TypeOK, [Next]_vars PROVE TypeOK'
  OBVIOUS
<1> USE OptionsAssumption, NodesAssumption
<1>a. \A c \in Calls : call[c] \in CallState
  BY DEF TypeOK
<1>1. ASSUME NEW c \in Calls, Begin(c) PROVE TypeOK'
  <2>1. [call[c] EXCEPT !.pc = "nonce"] \in CallState
    BY <1>a DEF CallState
  <2> QED BY <1>1, <2>1, BecomesType DEF Begin, TypeOK
<1>2. ASSUME NEW c \in Calls, TakeNonce(c) PROVE TypeOK'
  <2>1. PICK k \in PendingNonces(Home) :
          Becomes(c, [call[c] EXCEPT !.pc = "send", !.nonce = k])
    BY <1>2 DEF TakeNonce
  <2>2. k \in Nat
    BY <2>1, PendingNonceType
  <2>3. [call[c] EXCEPT !.pc = "send", !.nonce = k] \in CallState
    BY <1>a, <2>2 DEF CallState
  <2> QED BY <1>2, <2>1, <2>3, BecomesType DEF TakeNonce, TypeOK
<1>3. ASSUME NEW c \in Calls, Throw(c) PROVE TypeOK'
  BY <1>3, ReturnType DEF Throw, TypeOK
<1>4. ASSUME NEW c \in Calls, Broadcast(c) PROVE TypeOK'
  <2>1. pool' \in [Nodes -> SUBSET Tx]
    BY <1>4, SignedType, OfferType DEF Broadcast
  <2>a. Signed(c) \in Tx /\ 0 \in 0 .. MaxPolls
    BY SignedType
  <2>2. [call[c] EXCEPT !.pc = "wait", !.last = Signed(c), !.polls = 0] \in CallState
    BY <1>a, <2>a DEF CallState
  <2> QED BY <1>4, <2>1, <2>2, BecomesType DEF Broadcast, TypeOK
<1>5. ASSUME NEW c \in Calls, BroadcastUnanswered(c) PROVE TypeOK'
  <2>1. pool' \in [Nodes -> SUBSET Tx]
    BY <1>5, SignedType, OfferType DEF BroadcastUnanswered
  <2>2. CASE call[c].attempt < MaxReplacements
    <3>0. call[c].attempt + 1 \in 0 .. MaxReplacements
      BY <1>a, <2>2 DEF CallState
    <3>1. [call[c] EXCEPT !.attempt = @ + 1] \in CallState
      BY <1>a, <3>0 DEF CallState
    <3> QED BY <1>5, <2>1, <2>2, <3>1, BecomesType DEF BroadcastUnanswered, TypeOK
  <2>3. CASE ~(call[c].attempt < MaxReplacements)
    BY <1>5, <2>1, <2>3, ReturnType DEF BroadcastUnanswered, TypeOK
  <2> QED BY <2>2, <2>3
<1>6. ASSUME NEW c \in Calls, PollEmpty(c) PROVE TypeOK'
  <2>1. [call[c] EXCEPT !.polls = @ + 1] \in CallState
    BY <1>6, <1>a DEF PollEmpty, CallState
  <2> QED BY <1>6, <2>1, BecomesType DEF PollEmpty, TypeOK
<1>7. ASSUME NEW c \in Calls, PollReceipt(c) PROVE TypeOK'
  BY <1>7, ReturnType DEF PollReceipt, TypeOK
<1>8. ASSUME NEW c \in Calls, DelayOver(c) PROVE TypeOK'
  <2>1. CASE call[c].attempt = MaxReplacements
    BY <1>8, <2>1, ReturnType DEF DelayOver, TypeOK
  <2>2. CASE call[c].attempt # MaxReplacements
    <3>1. call[c].fee \in Nat /\ Bumped(call[c].fee) \in Nat
      BY <1>a, BumpedType DEF CallState
    <3>0. call[c].attempt + 1 \in 0 .. MaxReplacements
      BY <1>a, <2>2 DEF CallState
    <3>2. [call[c] EXCEPT !.pc = "send", !.attempt = @ + 1, !.fee = Bumped(@)]
            \in CallState
      BY <1>a, <3>0, <3>1 DEF CallState
    <3> QED BY <1>8, <2>2, <3>2, BecomesType DEF DelayOver, TypeOK
  <2> QED BY <2>1, <2>2
<1>9. CASE Mine
  <2>0. PICK n \in Nodes : \E t \in pool[n] : \E ok \in BOOLEAN :
          /\ t.nonce = Len(mined)
          /\ mined' = Append(mined, [tx |-> t, ok |-> ok])
          /\ pool' = [m \in Nodes |-> {u \in pool[m] : u.nonce # t.nonce}]
          /\ UNCHANGED call
    BY <1>9 DEF Mine
  <2>1. PICK t \in pool[n], ok \in BOOLEAN :
          /\ mined' = Append(mined, [tx |-> t, ok |-> ok])
          /\ pool' = [m \in Nodes |-> {u \in pool[m] : u.nonce # t.nonce}]
          /\ UNCHANGED call
    BY <2>0
  <2>2. t \in Tx
    BY <2>1 DEF TypeOK
  <2>3. [tx |-> t, ok |-> ok] \in [tx : Tx, ok : BOOLEAN]
    BY <2>2
  <2>4. mined' \in Seq([tx : Tx, ok : BOOLEAN])
    BY <2>1, <2>3 DEF TypeOK
  <2>5. pool' \in [Nodes -> SUBSET Tx]
    BY <2>1 DEF TypeOK
  <2> QED BY <2>1, <2>4, <2>5 DEF TypeOK
<1>10. CASE Gossip
  <2>0. PICK n \in Nodes, m \in Nodes : \E t \in pool[n] :
          Offer(t, {m}) /\ UNCHANGED <<call, mined>>
    BY <1>10 DEF Gossip
  <2>1. PICK t \in pool[n] : Offer(t, {m}) /\ UNCHANGED <<call, mined>>
    BY <2>0
  <2>2. t \in Tx
    BY <2>1 DEF TypeOK
  <2> QED BY <2>1, <2>2, OfferType DEF TypeOK
<1>11. CASE Evict
  BY <1>11 DEF Evict, TypeOK
<1>12. CASE UNCHANGED vars
  BY <1>12 DEF vars, TypeOK
<1> QED
  BY <1>1, <1>2, <1>3, <1>4, <1>5, <1>6, <1>7, <1>8, <1>9, <1>10, <1>11, <1>12
  DEF Next, Step

\* Every state of the broadcaster, its nodes and the chain is well formed.
THEOREM TypeCorrect == Spec => []TypeOK
  BY TypeInit, TypeNext, PTL DEF Spec
-----------------------------------------------------------------------------
LEMMA NonceInit == Init => NonceInv
  BY DEF Init, NonceInv

LEMMA MinedType ==
  ASSUME TypeOK
  PROVE  /\ Len(mined) \in Nat /\ DOMAIN mined = 1 .. Len(mined)
         /\ \A i \in DOMAIN mined : mined[i].tx \in Tx /\ mined[i].ok \in BOOLEAN
<1>1. Len(mined) \in Nat /\ DOMAIN mined = 1 .. Len(mined)
  BY DEF TypeOK
<1>2. \A i \in DOMAIN mined : mined[i] \in [tx : Tx, ok : BOOLEAN]
  BY <1>1, ElementOfSeq DEF TypeOK
<1> QED BY <1>1, <1>2

\* Signed nonces stand still: a call that has taken its nonce keeps it.
Keeps == \A c \in Calls : Signing(c) => Signing(c)' /\ call'[c].nonce = call[c].nonce

LEMMA KeepsBecomes ==
  ASSUME TypeOK, NEW c \in Calls, NEW s, Becomes(c, s),
         Signing(c) => s.pc \in {"send", "wait", "done"} /\ s.nonce = call[c].nonce
  PROVE  Keeps
  BY DEF Keeps, Becomes, TypeOK, Signing

\* The pools may gain transactions the nodes already held somewhere, and
\* transactions freshly signed with their call's nonce.
LEMMA NonceStep ==
  ASSUME TypeOK, NonceInv, Keeps, UNCHANGED mined,
         \A n \in Nodes : \A t \in pool'[n] :
           \/ \E m \in Nodes : t \in pool[m]
           \/ Signing(t.owner)' /\ t.nonce = call'[t.owner].nonce
  PROVE  NonceInv'
<1>1. \A n \in Nodes : \A t \in pool[n] : t.owner \in Calls
  BY DEF TypeOK, Tx
<1>2. \A i \in DOMAIN mined : mined[i].tx.owner \in Calls
  BY MinedType DEF Tx
<1> QED BY <1>1, <1>2 DEF NonceInv, Keeps

LEMMA NonceOffer ==
  ASSUME TypeOK, NonceInv, Keeps, UNCHANGED mined, NEW tx \in Tx, NEW takers,
         Offer(tx, takers), Signing(tx.owner)', tx.nonce = call'[tx.owner].nonce
  PROVE  NonceInv'
<1>1. \A n \in Nodes : \A t \in pool'[n] : t \in pool[n] \/ t = tx
  BY DEF Offer
<1> QED BY <1>1, NonceStep

LEMMA ReturnKeeps ==
  ASSUME TypeOK, NEW c \in Calls, NEW s, Return(c, s) PROVE Keeps
<1>1. call[c] \in CallState
  BY DEF TypeOK
<1> QED BY <1>1, KeepsBecomes DEF Return, CallState

LEMMA NonceNext == TypeOK /\ NonceInv /\ [Next]_vars => NonceInv'
<1> SUFFICES ASSUME TypeOK, NonceInv, [Next]_vars PROVE NonceInv'
  OBVIOUS
<1>a. \A c \in Calls : call[c] \in CallState
  BY DEF TypeOK
<1>0. ASSUME Keeps, UNCHANGED <<pool, mined>> PROVE NonceInv'
  BY <1>0, NonceStep
<1>1. ASSUME NEW c \in Calls, Begin(c) PROVE NonceInv'
  BY <1>1, <1>a, <1>0, KeepsBecomes DEF Begin, Signing
<1>2. ASSUME NEW c \in Calls, TakeNonce(c) PROVE NonceInv'
  <2>1. ~Signing(c)
    BY <1>2 DEF TakeNonce, Signing
  <2> QED BY <1>2, <1>0, <2>1, KeepsBecomes DEF TakeNonce
<1>3. ASSUME NEW c \in Calls, Throw(c) PROVE NonceInv'
  BY <1>3, <1>0, ReturnKeeps DEF Throw
<1>4. ASSUME NEW c \in Calls, Broadcast(c) PROVE NonceInv'
  <2>1. Becomes(c, [call[c] EXCEPT !.pc = "wait", !.last = Signed(c), !.polls = 0])
    BY <1>4 DEF Broadcast
  <2>2. Keeps
    BY <1>a, <2>1, KeepsBecomes DEF CallState
  <2>3. Signing(c)' /\ call'[c].nonce = call[c].nonce
    BY <1>a, <2>1 DEF Becomes, Signing, TypeOK, CallState
  <2>4. Signed(c) \in Tx /\ Signed(c).owner = c /\ Signed(c).nonce = call[c].nonce
    BY SignedType DEF Signed
  <2>5. PICK reached \in SUBSET Rpcs :
          Offer(Signed(c), {n \in reached : Takes(n, Signed(c))})
    BY <1>4 DEF Broadcast
  <2> QED BY <1>4, <2>2, <2>3, <2>4, <2>5, NonceOffer DEF Broadcast
<1>5. ASSUME NEW c \in Calls, BroadcastUnanswered(c) PROVE NonceInv'
  <2>1. call[c].pc = "send"
    BY <1>5 DEF BroadcastUnanswered
  <2>2. Keeps /\ Signing(c)' /\ call'[c].nonce = call[c].nonce
    <3>1. CASE call[c].attempt < MaxReplacements
      <4>1. Becomes(c, [call[c] EXCEPT !.attempt = @ + 1])
        BY <1>5, <3>1 DEF BroadcastUnanswered
      <4>2. Keeps
        BY <1>a, <4>1, KeepsBecomes DEF CallState, Signing
      <4> QED BY <2>1, <4>2 DEF Keeps, Signing
    <3>2. CASE ~(call[c].attempt < MaxReplacements)
      BY <1>5, <2>1, <3>2, ReturnKeeps DEF BroadcastUnanswered, Keeps, Signing
    <3> QED BY <3>1, <3>2
  <2>4. Signed(c) \in Tx /\ Signed(c).owner = c /\ Signed(c).nonce = call[c].nonce
    BY SignedType DEF Signed
  <2>5. PICK reached \in SUBSET Rpcs :
          Offer(Signed(c), {n \in reached : Takes(n, Signed(c))})
    BY <1>5 DEF BroadcastUnanswered
  <2> QED BY <1>5, <2>2, <2>4, <2>5, NonceOffer DEF BroadcastUnanswered
<1>6. ASSUME NEW c \in Calls, PollEmpty(c) PROVE NonceInv'
  BY <1>6, <1>a, <1>0, KeepsBecomes DEF PollEmpty, CallState, Signing
<1>7. ASSUME NEW c \in Calls, PollReceipt(c) PROVE NonceInv'
  BY <1>7, <1>0, ReturnKeeps DEF PollReceipt
<1>8. ASSUME NEW c \in Calls, DelayOver(c) PROVE NonceInv'
  <2>1. CASE call[c].attempt = MaxReplacements
    BY <1>8, <2>1, <1>0, ReturnKeeps DEF DelayOver
  <2>2. CASE call[c].attempt # MaxReplacements
    <3>1. Becomes(c, [call[c] EXCEPT !.pc = "send", !.attempt = @ + 1, !.fee = Bumped(@)])
      BY <1>8, <2>2 DEF DelayOver
    <3> QED BY <1>8, <1>a, <1>0, <3>1, KeepsBecomes DEF DelayOver, CallState
  <2> QED BY <2>1, <2>2
<1>9. CASE Mine
  <2>0. PICK n \in Nodes : \E t \in pool[n] : \E ok \in BOOLEAN :
          /\ t.nonce = Len(mined)
          /\ mined' = Append(mined, [tx |-> t, ok |-> ok])
          /\ pool' = [m \in Nodes |-> {u \in pool[m] : u.nonce # t.nonce}]
          /\ UNCHANGED call
    BY <1>9 DEF Mine
  <2>1. PICK t \in pool[n], ok \in BOOLEAN :
          /\ t.nonce = Len(mined)
          /\ mined' = Append(mined, [tx |-> t, ok |-> ok])
          /\ pool' = [m \in Nodes |-> {u \in pool[m] : u.nonce # t.nonce}]
          /\ UNCHANGED call
    BY <2>0
  <2>2. /\ DOMAIN mined' = DOMAIN mined \cup {Len(mined) + 1}
        /\ \A i \in DOMAIN mined : mined'[i] = mined[i]
        /\ mined'[Len(mined) + 1] = [tx |-> t, ok |-> ok]
        /\ Len(mined) \in Nat
    BY <2>1, MinedType DEF TypeOK
  <2>3. Signing(t.owner) /\ t.nonce = call[t.owner].nonce
    BY DEF NonceInv
  <2> QED BY <2>1, <2>2, <2>3 DEF NonceInv, Signing
<1>10. CASE Gossip
  <2>0. PICK n \in Nodes, m \in Nodes : \E t \in pool[n] :
          Offer(t, {m}) /\ UNCHANGED <<call, mined>>
    BY <1>10 DEF Gossip
  <2>1. PICK t \in pool[n] : Offer(t, {m}) /\ UNCHANGED <<call, mined>>
    BY <2>0
  <2>2. Keeps
    BY <2>1 DEF Keeps, Signing
  <2>3. \A k \in Nodes : \A u \in pool'[k] : \E j \in Nodes : u \in pool[j]
    BY <2>1 DEF Offer
  <2> QED BY <2>1, <2>2, <2>3, NonceStep
<1>11. CASE Evict
  <2>1. \A k \in Nodes : \A u \in pool'[k] : u \in pool[k]
    BY <1>11 DEF Evict, TypeOK
  <2>2. Keeps /\ UNCHANGED mined
    BY <1>11 DEF Evict, Keeps, Signing
  <2> QED BY <2>1, <2>2, NonceStep
<1>12. CASE UNCHANGED vars
  BY <1>12 DEF vars, NonceInv, Signing
<1> QED
  BY <1>1, <1>2, <1>3, <1>4, <1>5, <1>6, <1>7, <1>8, <1>9, <1>10, <1>11, <1>12
  DEF Next, Step

LEMMA Inductive == Spec => []IInv
<1>1. Init => IInv
  BY TypeInit, NonceInit DEF IInv
<1>2. IInv /\ [Next]_vars => IInv'
  BY TypeNext, NonceNext DEF IInv
<1> QED BY <1>1, <1>2, PTL DEF Spec

\* However many calls overlap and however often each is replaced, no call has
\* two transactions on chain.
THEOREM OneLanding == Spec => []LandsOnce
<1>1. IInv => LandsOnce
  BY MinedType DEF IInv, NonceInv, LandsOnce
<1> QED BY <1>1, Inductive, PTL

-----------------------------------------------------------------------------
\* What makes the answers true: an answer is given once, and a call without a hash has
\* sent nothing that a node acknowledged.
AnswerInv ==
  \A c \in Calls :
    /\ call[c].pc \in {"idle", "nonce"} => call[c].last = NoTx /\ call[c].attempt = 0
    /\ call[c].pc = "send" /\ call[c].attempt = 0 => call[c].last = NoTx
    /\ call[c].pc # "done" => call[c].status = "none"
    /\ call[c].pc = "wait" => call[c].last # NoTx
    /\ call[c].last # NoTx => call[c].last.owner = c
    /\ call[c].pc = "done" => call[c].status # "none"

TrueInv == AnswerInv /\ DefiniteAnswersTrue

\* One call moves and the chain stands still: what it moves to must be true.
LEMMA AnswerBecomes ==
  ASSUME TypeOK, TrueInv, NEW c \in Calls, NEW s, Becomes(c, s), UNCHANGED mined,
         /\ s.pc \in {"idle", "nonce"} => s.last = NoTx /\ s.attempt = 0
         /\ s.pc = "send" /\ s.attempt = 0 => s.last = NoTx
         /\ s.pc # "done" => s.status = "none"
         /\ s.pc = "wait" => s.last # NoTx
         /\ s.last # NoTx => s.last.owner = c
         /\ s.pc = "done" => s.status # "none"
         /\ s.status = "mined" =>
              \E i \in DOMAIN mined : mined[i] = [tx |-> s.last, ok |-> TRUE]
         /\ s.status = "failed" /\ s.last # NoTx =>
              \E i \in DOMAIN mined : mined[i] = [tx |-> s.last, ok |-> FALSE]
  PROVE  TrueInv'
<1>1. \A d \in Calls : call'[d] = IF d = c THEN s ELSE call[d]
  BY DEF Becomes, TypeOK
<1>2. AnswerInv'
  BY <1>1 DEF TrueInv, AnswerInv
<1>3. DefiniteAnswersTrue'
  BY <1>1 DEF TrueInv, DefiniteAnswersTrue
<1> QED BY <1>2, <1>3 DEF TrueInv

LEMMA AnswerReturn ==
  ASSUME TypeOK, TrueInv, NEW c \in Calls, NEW status \in {"mined", "pending", "failed"},
         Return(c, status), UNCHANGED mined,
         status = "mined" =>
           \E i \in DOMAIN mined : mined[i] = [tx |-> call[c].last, ok |-> TRUE],
         status = "failed" /\ call[c].last # NoTx =>
           \E i \in DOMAIN mined : mined[i] = [tx |-> call[c].last, ok |-> FALSE]
  PROVE  TrueInv'
<1> DEFINE s == [call[c] EXCEPT !.pc = "done", !.status = status]
<1>1. call[c] \in CallState
  BY DEF TypeOK
<1>2. s.pc = "done" /\ s.status = status /\ s.last = call[c].last
  BY <1>1 DEF CallState
<1>3. Becomes(c, s)
  BY DEF Return
<1>4. s.last # NoTx => s.last.owner = c
  BY <1>2 DEF TrueInv, AnswerInv
<1> HIDE DEF s
<1> QED BY <1>2, <1>3, <1>4, AnswerBecomes

LEMMA AnswerInit == Init => TrueInv
  BY DEF Init, TrueInv, AnswerInv, DefiniteAnswersTrue

LEMMA AnswerNext == TypeOK /\ TrueInv /\ [Next]_vars => TrueInv'
<1> SUFFICES ASSUME TypeOK, TrueInv, [Next]_vars PROVE TrueInv'
  OBVIOUS
<1>a. \A c \in Calls : call[c] \in CallState
  BY DEF TypeOK
<1>0. ASSUME UNCHANGED <<call, mined>> PROVE TrueInv'
  BY <1>0 DEF TrueInv, AnswerInv, DefiniteAnswersTrue
<1>1. ASSUME NEW c \in Calls, Begin(c) PROVE TrueInv'
  <2>1. call[c].last = NoTx /\ call[c].attempt = 0 /\ call[c].status = "none"
    BY <1>1 DEF Begin, TrueInv, AnswerInv
  <2> DEFINE s == [call[c] EXCEPT !.pc = "nonce"]
  <2>2. s.pc = "nonce" /\ s.last = NoTx /\ s.attempt = 0 /\ s.status = "none"
    BY <1>a, <2>1 DEF CallState
  <2>3. Becomes(c, s) /\ UNCHANGED mined
    BY <1>1 DEF Begin
  <2> HIDE DEF s
  <2> QED BY <2>2, <2>3, AnswerBecomes
<1>2. ASSUME NEW c \in Calls, TakeNonce(c) PROVE TrueInv'
  <2>1. call[c].last = NoTx /\ call[c].status = "none"
    BY <1>2 DEF TakeNonce, TrueInv, AnswerInv
  <2>2. PICK k \in PendingNonces(Home) :
          Becomes(c, [call[c] EXCEPT !.pc = "send", !.nonce = k])
    BY <1>2 DEF TakeNonce
  <2> DEFINE s == [call[c] EXCEPT !.pc = "send", !.nonce = k]
  <2>3. s.pc = "send" /\ s.last = NoTx /\ s.status = "none"
    BY <1>a, <2>1 DEF CallState
  <2>4. Becomes(c, s) /\ UNCHANGED mined
    BY <1>2, <2>2 DEF TakeNonce
  <2> HIDE DEF s
  <2> QED BY <2>3, <2>4, AnswerBecomes
<1>3. ASSUME NEW c \in Calls, Throw(c) PROVE TrueInv'
  <2>1. call[c].last = NoTx
    BY <1>3 DEF Throw, TrueInv, AnswerInv
  <2> QED BY <1>3, <2>1, AnswerReturn DEF Throw
<1>4. ASSUME NEW c \in Calls, Broadcast(c) PROVE TrueInv'
  <2>1. call[c].status = "none"
    BY <1>4 DEF Broadcast, TrueInv, AnswerInv
  <2> DEFINE s == [call[c] EXCEPT !.pc = "wait", !.last = Signed(c), !.polls = 0]
  <2>2. s.pc = "wait" /\ s.last = Signed(c) /\ s.status = "none"
    BY <1>a, <2>1 DEF CallState
  <2>3. Becomes(c, s) /\ UNCHANGED mined
    BY <1>4 DEF Broadcast
  <2>4. Signed(c) # NoTx /\ Signed(c).owner = c
    BY SignedType, CallsAssumption DEF Tx, Signed
  <2> HIDE DEF s
  <2> QED BY <2>2, <2>3, <2>4, AnswerBecomes
<1>5. ASSUME NEW c \in Calls, BroadcastUnanswered(c) PROVE TrueInv'
  <2>0. call[c].pc = "send" /\ call[c].status = "none" /\ UNCHANGED mined
    BY <1>5 DEF BroadcastUnanswered, TrueInv, AnswerInv
  <2>1. CASE call[c].attempt < MaxReplacements
    <3> DEFINE s == [call[c] EXCEPT !.attempt = @ + 1]
    <3>1. /\ s.pc = "send" /\ s.attempt # 0 /\ s.status = "none"
          /\ s.last # NoTx => s.last.owner = c
      BY <1>a, <2>0, OptionsAssumption DEF CallState, TrueInv, AnswerInv
    <3>2. Becomes(c, s)
      BY <1>5, <2>1 DEF BroadcastUnanswered
    <3> HIDE DEF s
    <3> QED BY <2>0, <3>1, <3>2, AnswerBecomes
  <2>2. CASE ~(call[c].attempt < MaxReplacements)
    BY <1>5, <2>0, <2>2, AnswerReturn DEF BroadcastUnanswered
  <2> QED BY <2>1, <2>2
<1>6. ASSUME NEW c \in Calls, PollEmpty(c) PROVE TrueInv'
  <2> DEFINE s == [call[c] EXCEPT !.polls = @ + 1]
  <2>1. s.pc = "wait" /\ s.status = "none" /\ s.last # NoTx /\ s.last.owner = c
    BY <1>6, <1>a DEF PollEmpty, CallState, TrueInv, AnswerInv
  <2>2. Becomes(c, s) /\ UNCHANGED mined
    BY <1>6 DEF PollEmpty
  <2> HIDE DEF s
  <2> QED BY <2>1, <2>2, AnswerBecomes
<1>7. ASSUME NEW c \in Calls, PollReceipt(c) PROVE TrueInv'
  <2>1. PICK i \in DOMAIN mined :
          /\ mined[i].tx = call[c].last
          /\ Return(c, IF mined[i].ok THEN "mined" ELSE "failed")
    BY <1>7 DEF PollReceipt
  <2>2. mined[i] = [tx |-> call[c].last, ok |-> mined[i].ok] /\ mined[i].ok \in BOOLEAN
    <3>1. mined[i] \in [tx : Tx, ok : BOOLEAN]
      BY MinedType, ElementOfSeq DEF TypeOK
    <3> QED BY <2>1, <3>1
  <2>3. UNCHANGED mined
    BY <1>7 DEF PollReceipt
  <2>4. CASE mined[i].ok = TRUE
    <3>1. Return(c, "mined")
      BY <2>1, <2>4
    <3> QED BY <2>2, <2>3, <2>4, <3>1, AnswerReturn
  <2>5. CASE mined[i].ok = FALSE
    <3>1. Return(c, "failed")
      BY <2>1, <2>5
    <3> QED BY <2>2, <2>3, <2>5, <3>1, AnswerReturn
  <2> QED BY <2>2, <2>4, <2>5
<1>8. ASSUME NEW c \in Calls, DelayOver(c) PROVE TrueInv'
  <2>0. call[c].pc = "wait" /\ call[c].status = "none" /\ UNCHANGED mined
    BY <1>8 DEF DelayOver, TrueInv, AnswerInv
  <2>1. CASE call[c].attempt = MaxReplacements
    BY <1>8, <2>0, <2>1, AnswerReturn DEF DelayOver
  <2>2. CASE call[c].attempt # MaxReplacements
    <3> DEFINE s == [call[c] EXCEPT !.pc = "send", !.attempt = @ + 1, !.fee = Bumped(@)]
    <3>1. /\ s.pc = "send" /\ s.attempt # 0 /\ s.status = "none"
          /\ s.last # NoTx => s.last.owner = c
      BY <1>a, <2>0, OptionsAssumption DEF CallState, TrueInv, AnswerInv
    <3>2. Becomes(c, s)
      BY <1>8, <2>2 DEF DelayOver
    <3> HIDE DEF s
    <3> QED BY <2>0, <3>1, <3>2, AnswerBecomes
  <2> QED BY <2>1, <2>2
<1>9. CASE Mine
  <2>0. PICK n \in Nodes : \E t \in pool[n] : \E ok \in BOOLEAN :
          mined' = Append(mined, [tx |-> t, ok |-> ok]) /\ UNCHANGED call
    BY <1>9 DEF Mine
  <2>1. PICK t \in pool[n], ok \in BOOLEAN :
          mined' = Append(mined, [tx |-> t, ok |-> ok]) /\ UNCHANGED call
    BY <2>0
  <2>2. \A i \in DOMAIN mined : i \in DOMAIN mined' /\ mined'[i] = mined[i]
    BY <2>1, MinedType DEF TypeOK
  <2>3. AnswerInv'
    BY <2>1 DEF TrueInv, AnswerInv
  <2>4. DefiniteAnswersTrue'
    BY <2>1, <2>2 DEF TrueInv, DefiniteAnswersTrue
  <2> QED BY <2>3, <2>4 DEF TrueInv
<1>10. CASE Gossip \/ Evict \/ UNCHANGED vars
  BY <1>10, <1>0 DEF Gossip, Evict, vars
<1> QED
  BY <1>1, <1>2, <1>3, <1>4, <1>5, <1>6, <1>7, <1>8, <1>9, <1>10 DEF Next, Step

LEMMA AnswersInductive == Spec => []TrueInv
<1>1. TypeOK /\ TrueInv /\ [Next]_vars => TrueInv'
  BY AnswerNext
<1> QED BY <1>1, TypeInit, TypeNext, AnswerInit, PTL DEF Spec

\* A caller that is told "mined", or "failed" with a hash, is told the truth about that
\* hash, whichever of its broadcasts the nodes lost.
THEOREM AnswersAreTrue == Spec => []DefiniteAnswersTrue
<1>1. TrueInv => DefiniteAnswersTrue
  BY DEF TrueInv
<1> QED BY <1>1, AnswersInductive, PTL

-----------------------------------------------------------------------------
\* What makes "no replacement is underpriced" inductive: whatever fee a call holds, each
\* of its transactions in a pool pays that fee or is outbid by it.
FeeInv ==
  /\ \A c \in Calls : call[c].fee >= 10
  /\ \A n \in Nodes : \A t \in pool[n] :
       t.fee = call[t.owner].fee \/ Outbids(call[t.owner].fee, t.fee)

\* No step lowers the fee of a call, or raises it by less than nodes ask.
Raises == \A c \in Calls :
  /\ call'[c].fee \in Nat
  /\ call'[c].fee = call[c].fee \/ Outbids(call'[c].fee, call[c].fee)

\* The bump of a fee of 10 or more outbids it: a fifth more, rounded down, is a tenth more.
LEMMA BumpOutbids ==
  ASSUME NEW f \in Nat, f >= 10, BumpPercent >= 20
  PROVE  Outbids(Bumped(f), f)
<1>1. BumpPercent \in Nat
  BY OptionsAssumption
<1>2. PICK q \in Nat : q = Bumped(f)
  BY BumpedType
<1> DEFINE p == f * (100 + BumpPercent)
<1>3. p \in Nat /\ p >= f * 120
  <2>1. p = f * 120 + f * (BumpPercent - 20)
    BY <1>1
  <2>2. BumpPercent - 20 \in Nat
    BY <1>1
  <2>3. f * (BumpPercent - 20) \in Nat
    BY <2>2
  <2> QED BY <2>1, <2>3
<1>4. q = p \div 100
  BY <1>2 DEF Bumped
<1> HIDE DEF p
<1>5. p < 100 * q + 100
  BY <1>3, <1>4
<1>6. 10 * q >= 11 * f
  BY <1>3, <1>5
<1> QED BY <1>2, <1>6 DEF Outbids

\* A fee that outbids one outbids what that one outbid.
LEMMA OutbidsAll == \A x, y, z \in Nat : Outbids(x, y) /\ Outbids(y, z) => Outbids(x, z)
  BY DEF Outbids

\* Fees only rise, and by enough; the pools gain what they held already or what a call
\* signs with the fee it holds.
LEMMA FeeStep ==
  ASSUME TypeOK, FeeInv, Raises,
         \A n \in Nodes : \A t \in pool'[n] :
           \/ \E m \in Nodes : t \in pool[m]
           \/ t.owner \in Calls /\ t.fee = call'[t.owner].fee
  PROVE  FeeInv'
<1>1. \A c \in Calls : call[c].fee \in Nat /\ call'[c].fee \in Nat
  BY DEF TypeOK, CallState, Raises
<1>2. \A c \in Calls : call'[c].fee >= 10
  BY <1>1 DEF FeeInv, Raises, Outbids
<1>3. ASSUME NEW n \in Nodes, NEW t \in pool'[n]
      PROVE  t.fee = call'[t.owner].fee \/ Outbids(call'[t.owner].fee, t.fee)
  <2>1. CASE \E m \in Nodes : t \in pool[m]
    <3>1. t.owner \in Calls /\ t.fee \in Nat
      BY <2>1 DEF TypeOK, Tx
    <3>2. t.fee = call[t.owner].fee \/ Outbids(call[t.owner].fee, t.fee)
      BY <2>1 DEF FeeInv
    <3> QED BY <1>1, <3>1, <3>2, OutbidsAll DEF Raises
  <2> QED BY <2>1
<1> QED BY <1>2, <1>3 DEF FeeInv

LEMMA FeeBecomes ==
  ASSUME TypeOK, NEW c \in Calls, NEW s, Becomes(c, s), s.fee \in Nat,
         s.fee = call[c].fee \/ Outbids(s.fee, call[c].fee)
  PROVE  Raises
  BY DEF Raises, Becomes, TypeOK, CallState

LEMMA FeeReturn ==
  ASSUME TypeOK, NEW c \in Calls, NEW status, Return(c, status) PROVE Raises
<1>1. call[c] \in CallState
  BY DEF TypeOK
<1> DEFINE s == [call[c] EXCEPT !.pc = "done", !.status = status]
<1>2. s.fee = call[c].fee /\ s.fee \in Nat
  BY <1>1 DEF CallState
<1>3. Becomes(c, s)
  BY DEF Return
<1> HIDE DEF s
<1> QED BY <1>2, <1>3, FeeBecomes

LEMMA FeeNext ==
  ASSUME BumpPercent >= 20, TypeOK, FeeInv, [Next]_vars
  PROVE  FeeInv'
<1>a. \A c \in Calls : call[c] \in CallState
  BY DEF TypeOK
<1>b. UNCHANGED call => Raises
  BY <1>a DEF Raises, CallState
<1>0. ASSUME Raises, UNCHANGED pool PROVE FeeInv'
  BY <1>0, FeeStep
<1>1. ASSUME NEW c \in Calls, Begin(c) PROVE FeeInv'
  <2> DEFINE s == [call[c] EXCEPT !.pc = "nonce"]
  <2>1. s.fee = call[c].fee /\ s.fee \in Nat
    BY <1>a DEF CallState
  <2>2. Becomes(c, s) /\ UNCHANGED pool
    BY <1>1 DEF Begin
  <2> HIDE DEF s
  <2> QED BY <2>1, <2>2, <1>0, FeeBecomes
<1>2. ASSUME NEW c \in Calls, TakeNonce(c) PROVE FeeInv'
  <2>1. PICK k \in PendingNonces(Home) :
          Becomes(c, [call[c] EXCEPT !.pc = "send", !.nonce = k])
    BY <1>2 DEF TakeNonce
  <2> DEFINE s == [call[c] EXCEPT !.pc = "send", !.nonce = k]
  <2>2. s.fee = call[c].fee /\ s.fee \in Nat
    BY <1>a DEF CallState
  <2>3. Becomes(c, s) /\ UNCHANGED pool
    BY <1>2, <2>1 DEF TakeNonce
  <2> HIDE DEF s
  <2> QED BY <2>2, <2>3, <1>0, FeeBecomes
<1>3. ASSUME NEW c \in Calls, Throw(c) PROVE FeeInv'
  BY <1>3, <1>0, FeeReturn DEF Throw
<1>4. ASSUME NEW c \in Calls, Broadcast(c) PROVE FeeInv'
  <2> DEFINE s == [call[c] EXCEPT !.pc = "wait", !.last = Signed(c), !.polls = 0]
  <2>1. s.fee = call[c].fee /\ s.fee \in Nat
    BY <1>a DEF CallState
  <2>2. Becomes(c, s)
    BY <1>4 DEF Broadcast
  <2> HIDE DEF s
  <2>3. Raises /\ call'[c].fee = call[c].fee
    BY <2>1, <2>2, FeeBecomes DEF Becomes, TypeOK
  <2>4. \A n \in Nodes : \A t \in pool'[n] : t \in pool[n] \/ t = Signed(c)
    BY <1>4 DEF Broadcast, Offer
  <2> QED BY <2>3, <2>4, FeeStep DEF Signed
<1>5. ASSUME NEW c \in Calls, BroadcastUnanswered(c) PROVE FeeInv'
  <2>1. Raises /\ call'[c].fee = call[c].fee
    <3>1. CASE call[c].attempt < MaxReplacements
      <4> DEFINE s == [call[c] EXCEPT !.attempt = @ + 1]
      <4>1. s.fee = call[c].fee /\ s.fee \in Nat
        BY <1>a DEF CallState
      <4>2. Becomes(c, s)
        BY <1>5, <3>1 DEF BroadcastUnanswered
      <4> HIDE DEF s
      <4> QED BY <4>1, <4>2, FeeBecomes DEF Becomes, TypeOK
    <3>2. CASE ~(call[c].attempt < MaxReplacements)
      <4>1. PICK status : Return(c, status)
        BY <1>5, <3>2 DEF BroadcastUnanswered
      <4>2. call'[c].fee = call[c].fee
        BY <4>1, <1>a DEF Return, Becomes, TypeOK, CallState
      <4> QED BY <4>1, <4>2, FeeReturn
    <3> QED BY <3>1, <3>2
  <2>2. \A n \in Nodes : \A t \in pool'[n] : t \in pool[n] \/ t = Signed(c)
    BY <1>5 DEF BroadcastUnanswered, Offer
  <2> QED BY <2>1, <2>2, FeeStep DEF Signed
<1>6. ASSUME NEW c \in Calls, PollEmpty(c) PROVE FeeInv'
  <2> DEFINE s == [call[c] EXCEPT !.polls = @ + 1]
  <2>1. s.fee = call[c].fee /\ s.fee \in Nat
    BY <1>a DEF CallState
  <2>2. Becomes(c, s) /\ UNCHANGED pool
    BY <1>6 DEF PollEmpty
  <2> HIDE DEF s
  <2> QED BY <2>1, <2>2, <1>0, FeeBecomes
<1>7. ASSUME NEW c \in Calls, PollReceipt(c) PROVE FeeInv'
  BY <1>7, <1>0, FeeReturn DEF PollReceipt
<1>8. ASSUME NEW c \in Calls, DelayOver(c) PROVE FeeInv'
  <2>1. CASE call[c].attempt = MaxReplacements
    BY <1>8, <2>1, <1>0, FeeReturn DEF DelayOver
  <2>2. CASE call[c].attempt # MaxReplacements
    <3> DEFINE s == [call[c] EXCEPT !.pc = "send", !.attempt = @ + 1, !.fee = Bumped(@)]
    <3>1. s.fee = Bumped(call[c].fee)
      BY <1>a DEF CallState
    <3>2. Becomes(c, s)
      BY <1>8, <2>2 DEF DelayOver
    <3>3. call[c].fee \in Nat /\ call[c].fee >= 10
      BY <1>a DEF FeeInv, CallState
    <3>4. Bumped(call[c].fee) \in Nat /\ Outbids(Bumped(call[c].fee), call[c].fee)
      BY <3>3, BumpedType, BumpOutbids
    <3> HIDE DEF s
    <3> QED BY <1>8, <1>0, <3>1, <3>2, <3>4, FeeBecomes DEF DelayOver
  <2> QED BY <2>1, <2>2
<1>9. CASE Mine
  <2>1. UNCHANGED call /\ \A n \in Nodes : \A t \in pool'[n] : t \in pool[n]
    BY <1>9 DEF Mine
  <2> QED BY <2>1, <1>b, FeeStep
<1>10. CASE Gossip
  <2>1. \A k \in Nodes : \A t \in pool'[k] : \E j \in Nodes : t \in pool[j]
    BY <1>10 DEF Gossip, Offer
  <2> QED BY <1>10, <2>1, <1>b, FeeStep DEF Gossip
<1>11. CASE Evict
  <2>1. \A k \in Nodes : \A t \in pool'[k] : t \in pool[k]
    BY <1>11 DEF Evict, TypeOK
  <2> QED BY <1>11, <2>1, <1>b, FeeStep DEF Evict
<1>12. CASE UNCHANGED vars
  BY <1>12, <1>0, <1>b DEF vars
<1> QED
  BY <1>1, <1>2, <1>3, <1>4, <1>5, <1>6, <1>7, <1>8, <1>9, <1>10, <1>11, <1>12
  DEF Next, Step

\* With the bump of a fifth that the program configures, and fees for which the division
\* rounds off little, no node refuses a replacement as underpriced.
THEOREM ReplacementsOutbid ==
  ASSUME BaseFee >= 10, BumpPercent >= 20
  PROVE  Spec => []ReplacementOutbids
<1>1. Init => FeeInv
  BY OptionsAssumption DEF Init, FeeInv
<1>2. TypeOK /\ FeeInv /\ [Next]_vars => FeeInv'
  BY FeeNext
<1>3. IInv /\ FeeInv => ReplacementOutbids
  <2> SUFFICES ASSUME IInv, FeeInv, NEW c \in Calls, call[c].pc = "send",
                      NEW n \in Nodes, NEW t \in pool[n], t.owner = c, t # Signed(c)
               PROVE  Outbids(call[c].fee, t.fee)
    BY DEF ReplacementOutbids
  <2>1. t \in Tx /\ t.nonce = call[c].nonce
    BY DEF IInv, TypeOK, NonceInv
  <2>2. t = [owner |-> t.owner, nonce |-> t.nonce, fee |-> t.fee]
    BY <2>1 DEF Tx
  <2>3. t.fee # call[c].fee
    BY <2>1, <2>2 DEF Signed
  <2> QED BY <2>3 DEF FeeInv
<1> QED BY <1>1, <1>2, <1>3, TypeInit, TypeNext, Inductive, PTL DEF Spec

-----------------------------------------------------------------------------
\* What the promise's caller sees of call c when the chain stands still.
LEMMA LandedStill ==
  ASSUME UNCHANGED mined PROVE \A c \in Calls : Landed(c)' = Landed(c)
  BY DEF Landed

\* Only the call that moves changes its phase.
LEMMA PhaseBecomes ==
  ASSUME TypeOK, NEW c \in Calls, NEW s, Becomes(c, s)
  PROVE  \A d \in Calls : Phase(d)' = IF d = c THEN Phase(c)' ELSE Phase(d)
<1>1. \A d \in Calls : d # c => call'[d] = call[d]
  BY DEF Becomes, TypeOK
<1>2. \A d \in Calls : d # c => Phase(d)' = Phase(d)
  BY <1>1 DEF Phase
<1> QED BY <1>2

LEMMA StutterStep ==
  ASSUME \A c \in Calls : Phase(c)' = Phase(c), \A c \in Calls : Landed(c)' = Landed(c)
  PROVE  UNCHANGED Promise!vars
  BY DEF Promise!vars

\* A step of a call that neither begins nor answers changes nothing the caller sees.
LEMMA BusyStep ==
  ASSUME TypeOK, NEW c \in Calls, NEW s, Becomes(c, s), UNCHANGED mined,
         call[c].pc \in {"nonce", "send", "wait"}, s.pc \in {"nonce", "send", "wait"}
  PROVE  UNCHANGED Promise!vars
<1>1. Phase(c) = "busy"
  BY DEF Phase
<1>2. Phase(c)' = "busy"
  <2>1. call'[c] = s
    BY DEF Becomes, TypeOK
  <2> QED BY <2>1 DEF Phase
<1> QED BY <1>1, <1>2, PhaseBecomes, LandedStill, StutterStep

\* An answer is one that the promise allows.
LEMMA AnswerStep ==
  ASSUME TypeOK, NonceInv, TrueInv', NEW c \in Calls,
         NEW status \in {"mined", "pending", "failed"}, Return(c, status),
         UNCHANGED mined, call[c].pc \in {"nonce", "send", "wait"}
  PROVE  Promise!Next
<1>1. /\ call'[c] = [call[c] EXCEPT !.pc = "done", !.status = status]
      /\ call[c] \in CallState
  BY DEF Return, Becomes, TypeOK
<1>2. call'[c].pc = "done" /\ call'[c].status = status /\ call'[c].last = call[c].last
  BY <1>1 DEF CallState
<1>3. Phase(c) = "busy"
  BY DEF Phase
<1>4. Phase(c)' = IF status = "failed" /\ call[c].last # NoTx THEN "reverted" ELSE status
  BY <1>2 DEF Phase
<1>5. LandsOnce
  BY MinedType DEF NonceInv, LandsOnce
<1>6. status = "mined" => Landed(c) = "ok"
  <2> SUFFICES ASSUME status = "mined" PROVE Landed(c) = "ok"
    OBVIOUS
  <2>1. PICK i \in DOMAIN mined : mined[i] = [tx |-> call[c].last, ok |-> TRUE]
    BY <1>2 DEF TrueInv, DefiniteAnswersTrue
  <2>2. call[c].last # NoTx
    BY <2>1, MinedType, CallsAssumption DEF Tx
  <2>3. mined[i].tx.owner = c /\ mined[i].ok
    BY <2>1, <2>2, <1>2 DEF TrueInv, AnswerInv
  <2> QED BY <2>3 DEF Landed
<1>7. status = "failed" /\ call[c].last # NoTx => Landed(c) = "reverted"
  <2> SUFFICES ASSUME status = "failed", call[c].last # NoTx PROVE Landed(c) = "reverted"
    OBVIOUS
  <2>1. PICK i \in DOMAIN mined : mined[i] = [tx |-> call[c].last, ok |-> FALSE]
    BY <1>2 DEF TrueInv, DefiniteAnswersTrue
  <2>2. mined[i].tx.owner = c /\ ~mined[i].ok
    BY <2>1, <1>2 DEF TrueInv, AnswerInv
  <2>3. \A j \in DOMAIN mined : mined[j].tx.owner = c => j = i
    BY <2>2, <1>5 DEF LandsOnce
  <2> QED BY <2>2, <2>3 DEF Landed
<1>8. [d \in Calls |-> Phase(d)]' = [[d \in Calls |-> Phase(d)] EXCEPT ![c] = Phase(c)']
  BY PhaseBecomes DEF Return
<1>9. Promise!Answer(c)
  BY <1>3, <1>4, <1>6, <1>7, <1>8, LandedStill DEF Promise!Answer, Promise!Answers
<1> QED BY <1>9 DEF Promise!Next

\* The first transaction of a call that is mined is its landing.
LEMMA LandStep ==
  ASSUME TypeOK, NonceInv, NonceInv', Mine
  PROVE  Promise!Next
<1>0. PICK n \in Nodes : \E t \in pool[n] : \E ok \in BOOLEAN :
        mined' = Append(mined, [tx |-> t, ok |-> ok]) /\ UNCHANGED call
  BY DEF Mine
<1>1. PICK t \in pool[n], ok \in BOOLEAN :
        mined' = Append(mined, [tx |-> t, ok |-> ok]) /\ UNCHANGED call
  BY <1>0
<1> DEFINE c == t.owner
<1>2. c \in Calls /\ Signing(c)
  BY DEF TypeOK, Tx, NonceInv
<1>3. /\ Len(mined) \in Nat /\ DOMAIN mined = 1 .. Len(mined)
      /\ DOMAIN mined' = DOMAIN mined \cup {Len(mined) + 1}
      /\ \A i \in DOMAIN mined : mined'[i] = mined[i]
      /\ mined'[Len(mined) + 1] = [tx |-> t, ok |-> ok]
  BY <1>1, MinedType DEF TypeOK
<1>4. \A i \in DOMAIN mined : mined[i].tx.owner # c
  <2> SUFFICES ASSUME NEW i \in DOMAIN mined, mined[i].tx.owner = c PROVE FALSE
    OBVIOUS
  <2>1. mined'[i].tx.nonce = i - 1 /\ mined'[Len(mined) + 1].tx.nonce = Len(mined) + 1 - 1
    BY <1>3 DEF NonceInv
  <2>2. mined'[i].tx.nonce = call'[c].nonce
    BY <1>3 DEF NonceInv
  <2>3. mined'[Len(mined) + 1].tx.nonce = call'[c].nonce
    BY <1>3 DEF NonceInv
  <2>4. i \in 1 .. Len(mined) /\ i - 1 = Len(mined) + 1 - 1
    BY <1>3, <2>1, <2>2, <2>3
  <2> QED BY <1>3, <2>4
<1>5. Landed(c) = "no"
  BY <1>4 DEF Landed
<1>6. Landed(c)' = IF ok THEN "ok" ELSE "reverted"
  <2>1. \A i \in DOMAIN mined' : mined'[i].tx.owner = c <=> i = Len(mined) + 1
    BY <1>3, <1>4
  <2> QED BY <1>3, <2>1 DEF Landed
<1>7. \A d \in Calls : d # c => Landed(d)' = Landed(d)
  <2> SUFFICES ASSUME NEW d \in Calls, d # c PROVE Landed(d)' = Landed(d)
    OBVIOUS
  <2>1. (\E i \in DOMAIN mined' : mined'[i].tx.owner = d /\ mined'[i].ok)
          <=> \E i \in DOMAIN mined : mined[i].tx.owner = d /\ mined[i].ok
    BY <1>3
  <2>2. (\E i \in DOMAIN mined' : mined'[i].tx.owner = d)
          <=> \E i \in DOMAIN mined : mined[i].tx.owner = d
    BY <1>3
  <2> QED BY <2>1, <2>2 DEF Landed
<1>8. \A d \in Calls : Phase(d)' = Phase(d)
  BY <1>1 DEF Phase
<1>9. Phase(c) # "idle"
  <2>1. call[c].status # "idle"
    BY <1>2 DEF TypeOK, CallState
  <2> QED BY <1>2, <2>1 DEF Phase, Signing
<1> HIDE DEF c
<1>10. Promise!Land(c)
  <2>1. [d \in Calls |-> Landed(d)]'
          = [[d \in Calls |-> Landed(d)] EXCEPT ![c] = IF ok THEN "ok" ELSE "reverted"]
    BY <1>6, <1>7
  <2>2. UNCHANGED [d \in Calls |-> Phase(d)]
    BY <1>8
  <2>3. (IF ok THEN "ok" ELSE "reverted") \in {"ok", "reverted"}
    OBVIOUS
  <2> QED BY <1>2, <1>5, <1>9, <2>1, <2>2, <2>3 DEF Promise!Land
<1> QED BY <1>2, <1>10 DEF Promise!Next

LEMMA PromiseStep ==
  ASSUME IInv, IInv', TrueInv, TrueInv', [Next]_vars
  PROVE  [Promise!Next]_Promise!vars
<1>a. TypeOK /\ NonceInv /\ NonceInv' /\ \A c \in Calls : call[c] \in CallState
  BY DEF IInv, TypeOK
<1>b. ASSUME UNCHANGED <<call, mined>> PROVE UNCHANGED Promise!vars
  BY <1>b, LandedStill, StutterStep DEF Phase
<1>1. ASSUME NEW c \in Calls, Begin(c) PROVE Promise!Next
  <2>1. call'[c] = [call[c] EXCEPT !.pc = "nonce"] /\ UNCHANGED mined
    BY <1>1, <1>a DEF Begin, Becomes, TypeOK
  <2>2. call'[c].pc = "nonce" /\ call[c].pc = "idle"
    BY <1>1, <1>a, <2>1 DEF Begin, CallState
  <2>3. Phase(c) = "idle" /\ Phase(c)' = "busy"
    BY <2>2 DEF Phase
  <2>4. [d \in Calls |-> Phase(d)]' = [[d \in Calls |-> Phase(d)] EXCEPT ![c] = "busy"]
    BY <1>1, <1>a, <2>3, PhaseBecomes DEF Begin
  <2>5. Promise!Begin(c)
    BY <2>1, <2>3, <2>4, LandedStill DEF Promise!Begin
  <2> QED BY <2>5 DEF Promise!Next
<1>2. ASSUME NEW c \in Calls, TakeNonce(c) PROVE UNCHANGED Promise!vars
  <2>1. PICK k \in PendingNonces(Home) :
          Becomes(c, [call[c] EXCEPT !.pc = "send", !.nonce = k])
    BY <1>2 DEF TakeNonce
  <2> DEFINE s == [call[c] EXCEPT !.pc = "send", !.nonce = k]
  <2>2. s.pc = "send"
    BY <1>a DEF CallState
  <2>3. Becomes(c, s)
    BY <2>1
  <2> HIDE DEF s
  <2> QED BY <1>2, <1>a, <2>2, <2>3, BusyStep DEF TakeNonce
<1>3. ASSUME NEW c \in Calls, Throw(c) PROVE Promise!Next
  BY <1>3, <1>a, AnswerStep DEF Throw
<1>4. ASSUME NEW c \in Calls, Broadcast(c) PROVE UNCHANGED Promise!vars
  <2> DEFINE s == [call[c] EXCEPT !.pc = "wait", !.last = Signed(c), !.polls = 0]
  <2>1. s.pc = "wait"
    BY <1>a DEF CallState
  <2>2. Becomes(c, s)
    BY <1>4 DEF Broadcast
  <2> HIDE DEF s
  <2> QED BY <1>4, <1>a, <2>1, <2>2, BusyStep DEF Broadcast
<1>5. ASSUME NEW c \in Calls, BroadcastUnanswered(c)
      PROVE  Promise!Next \/ UNCHANGED Promise!vars
  <2>1. CASE call[c].attempt < MaxReplacements
    <3> DEFINE s == [call[c] EXCEPT !.attempt = @ + 1]
    <3>1. s.pc = "send"
      BY <1>5, <1>a DEF BroadcastUnanswered, CallState
    <3>2. Becomes(c, s)
      BY <1>5, <2>1 DEF BroadcastUnanswered
    <3> HIDE DEF s
    <3> QED BY <1>5, <1>a, <3>1, <3>2, BusyStep DEF BroadcastUnanswered
  <2>2. CASE ~(call[c].attempt < MaxReplacements)
    BY <1>5, <1>a, <2>2, AnswerStep DEF BroadcastUnanswered
  <2> QED BY <2>1, <2>2
<1>6. ASSUME NEW c \in Calls, PollEmpty(c) PROVE UNCHANGED Promise!vars
  <2> DEFINE s == [call[c] EXCEPT !.polls = @ + 1]
  <2>1. s.pc = "wait"
    BY <1>6, <1>a DEF PollEmpty, CallState
  <2>2. Becomes(c, s)
    BY <1>6 DEF PollEmpty
  <2> HIDE DEF s
  <2> QED BY <1>6, <1>a, <2>1, <2>2, BusyStep DEF PollEmpty
<1>7. ASSUME NEW c \in Calls, PollReceipt(c) PROVE Promise!Next
  BY <1>7, <1>a, AnswerStep DEF PollReceipt
<1>8. ASSUME NEW c \in Calls, DelayOver(c) PROVE Promise!Next \/ UNCHANGED Promise!vars
  <2>1. CASE call[c].attempt = MaxReplacements
    BY <1>8, <1>a, <2>1, AnswerStep DEF DelayOver
  <2>2. CASE call[c].attempt # MaxReplacements
    <3> DEFINE s == [call[c] EXCEPT !.pc = "send", !.attempt = @ + 1, !.fee = Bumped(@)]
    <3>1. s.pc = "send"
      BY <1>a DEF CallState
    <3>2. Becomes(c, s)
      BY <1>8, <2>2 DEF DelayOver
    <3> HIDE DEF s
    <3> QED BY <1>8, <1>a, <3>1, <3>2, BusyStep DEF DelayOver
  <2> QED BY <2>1, <2>2
<1>9. CASE Mine
  BY <1>9, <1>a, LandStep
<1>10. CASE Gossip \/ Evict \/ UNCHANGED vars
  BY <1>10, <1>b DEF Gossip, Evict, vars
<1> QED
  BY <1>1, <1>2, <1>3, <1>4, <1>5, <1>6, <1>7, <1>8, <1>9, <1>10 DEF Next, Step

\* The broadcaster implements BroadcastPromise: each of its steps is a step of the promise
\* or changes nothing the caller or the chain can tell.
THEOREM PromiseKept == Spec => KeepsPromise
<1>1. Init => Promise!Init
  <2> SUFFICES ASSUME Init PROVE Promise!Init
    OBVIOUS
  <2>1. \A c \in Calls : Phase(c) = "idle"
    BY DEF Init, Phase
  <2>2. \A c \in Calls : Landed(c) = "no"
    BY DEF Init, Landed
  <2> QED BY <2>1, <2>2 DEF Promise!Init
<1>2. IInv /\ IInv' /\ TrueInv /\ TrueInv' /\ [Next]_vars => [Promise!Next]_Promise!vars
  BY PromiseStep
<1> QED BY <1>1, <1>2, AnswersInductive, Inductive, PTL DEF Spec, KeepsPromise, Promise!Spec
=============================================================================
