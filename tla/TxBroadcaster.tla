----------------------------- MODULE TxBroadcaster -----------------------------
(***************************************************************************)
(* execution/txBroadcaster.ts: one wallet, any number of overlapping calls *)
(* of broadcastWithReplacement, the nodes they broadcast to and the chain. *)
(*                                                                         *)
(* A signed transaction is the record [owner, nonce, fee]; signing is      *)
(* deterministic, so the record is its hash.  fee stands for               *)
(* maxPriorityFeePerGas (maxFeePerGas is bumped by the same factor and is  *)
(* never the tighter of the two).  Time is a number of receipt polls.      *)
(***************************************************************************)
EXTENDS Integers, Sequences, FiniteSets

CONSTANTS
  Calls,            \* calls of broadcastWithReplacement, on one wallet
  Nodes,            \* RPC nodes; Rpcs \subseteq Nodes are options.rpcUrls
  Rpcs,
  Monitor,          \* providers[0], the only one asked for receipts
  Home,             \* the node behind the wallet's own provider (RPC_URL)
  NoTx,
  BaseFee,          \* txRequest.maxPriorityFeePerGas
  BumpPercent,      \* options.priorityFeeBumpPercent
  MaxReplacements,  \* options.maxReplacements
  MaxPolls          \* replacementDelayMs / 500 ms

ASSUME CallsAssumption == Calls # {} /\ NoTx \notin [owner : Calls, nonce : Nat, fee : Nat]
ASSUME NodesAssumption ==
  /\ Rpcs \subseteq Nodes
  /\ Monitor \in Rpcs
  /\ Home \in Nodes
ASSUME OptionsAssumption ==
  /\ BaseFee \in Nat
  /\ BumpPercent \in Nat
  /\ MaxReplacements \in Nat
  /\ MaxPolls \in Nat \ {0}

VARIABLES
  call,   \* per call: its locals, its program counter and its answer
  pool,   \* per node: the unmined transactions it holds
  mined   \* the wallet's transactions on chain, the one of nonce n at n + 1

vars == <<call, pool, mined>>

-----------------------------------------------------------------------------
Tx == [owner : Calls, nonce : Nat, fee : Nat]

CallState ==
  [pc      : {"idle", "nonce", "send", "wait", "done"},
   nonce   : Nat,               \* currentNonce
   fee     : Nat,               \* currentPriorityFee
   attempt : 0 .. MaxReplacements,
   polls   : 0 .. MaxPolls,     \* receipt polls made for the current hash
   last    : Tx \cup {NoTx},    \* lastTxHash
   status  : {"none", "mined", "pending", "failed"}]

TypeOK ==
  /\ call \in [Calls -> CallState]
  /\ pool \in [Nodes -> SUBSET Tx]
  /\ mined \in Seq([tx : Tx, ok : BOOLEAN])

Init ==
  /\ call = [c \in Calls |->
       [pc |-> "idle", nonce |-> 0, fee |-> BaseFee, attempt |-> 0,
        polls |-> 0, last |-> NoTx, status |-> "none"]]
  /\ pool = [n \in Nodes |-> {}]
  /\ mined = <<>>

-----------------------------------------------------------------------------
\* The nodes and the chain (external).

\* eth_getTransactionCount(wallet, "pending") at node n: the first nonce that
\* neither the chain nor the node's own pool has used.
PendingNonces(n) ==
  {k \in {Len(mined)} \cup {t.nonce + 1 : t \in pool[n]} :
     /\ k >= Len(mined)
     /\ \A t \in pool[n] : t.nonce # k
     /\ \A j \in Len(mined) .. k - 1 : \E t \in pool[n] : t.nonce = j}

\* A node takes a replacement only if it pays at least a tenth more.
Outbids(fee, old) == 10 * fee >= 11 * old

Takes(n, tx) ==
  /\ tx.nonce >= Len(mined)
  /\ \A t \in pool[n] : t.nonce = tx.nonce => Outbids(tx.fee, t.fee)

Offer(tx, takers) ==
  pool' = [n \in Nodes |->
             IF n \in takers
               THEN {t \in pool[n] : t.nonce # tx.nonce} \cup {tx}
               ELSE pool[n]]

Mine ==
  \E n \in Nodes : \E t \in pool[n] : \E ok \in BOOLEAN :
    /\ t.nonce = Len(mined)
    /\ mined' = Append(mined, [tx |-> t, ok |-> ok])
    /\ pool' = [m \in Nodes |-> {u \in pool[m] : u.nonce # t.nonce}]
    /\ UNCHANGED call

Gossip ==
  \E n, m \in Nodes : \E t \in pool[n] :
    /\ t \notin pool[m]
    /\ Takes(m, t)
    /\ Offer(t, {m})
    /\ UNCHANGED <<call, mined>>

Evict ==
  \E n \in Nodes : \E t \in pool[n] :
    /\ pool' = [pool EXCEPT ![n] = @ \ {t}]
    /\ UNCHANGED <<call, mined>>

-----------------------------------------------------------------------------
\* One call.

Becomes(c, state) == call' = [call EXCEPT ![c] = state]

Return(c, status) ==
  Becomes(c, [call[c] EXCEPT !.pc = "done", !.status = status])

Begin(c) ==
  /\ call[c].pc = "idle"
  /\ Becomes(c, [call[c] EXCEPT !.pc = "nonce"])
  /\ UNCHANGED <<pool, mined>>

\* attemptLiquidation never sets txRequest.nonce, so the wallet is asked.
TakeNonce(c) ==
  /\ call[c].pc = "nonce"
  /\ \E k \in PendingNonces(Home) :
       Becomes(c, [call[c] EXCEPT !.pc = "send", !.nonce = k])
  /\ UNCHANGED <<pool, mined>>

\* The outer catch.  Only the nonce request and the first signature can throw:
\* every later await of the call has its own catch.
Throw(c) ==
  /\ \/ call[c].pc = "nonce"
     \/ call[c].pc = "send" /\ call[c].attempt = 0
  /\ Return(c, "failed")
  /\ UNCHANGED <<pool, mined>>

Signed(c) == [owner |-> c, nonce |-> call[c].nonce, fee |-> call[c].fee]

\* Some node acknowledges; a node may have taken it and its reply be lost.
Broadcast(c) ==
  /\ call[c].pc = "send"
  /\ \E reached \in SUBSET Rpcs :
       LET takers == {n \in reached : Takes(n, Signed(c))}
       IN  /\ takers # {}
           /\ Offer(Signed(c), takers)
  /\ Becomes(c, [call[c] EXCEPT !.pc = "wait", !.last = Signed(c), !.polls = 0])
  /\ UNCHANGED mined

\* Mutant: an unanswered broadcast is retried without counting the attempt.
BroadcastUncounted(c) ==
  /\ call[c].pc = "send"
  /\ \E reached \in SUBSET Rpcs :
       Offer(Signed(c), {n \in reached : Takes(n, Signed(c))})
  /\ UNCHANGED <<call, mined>>

\* No node acknowledges: the loop goes on at once with the same fee, or ends.
BroadcastUnanswered(c) ==
  /\ call[c].pc = "send"
  /\ \E reached \in SUBSET Rpcs :
       Offer(Signed(c), {n \in reached : Takes(n, Signed(c))})
  /\ IF call[c].attempt < MaxReplacements
       THEN Becomes(c, [call[c] EXCEPT !.attempt = @ + 1])
       ELSE Return(c, IF call[c].last = NoTx THEN "failed" ELSE "pending")
  /\ UNCHANGED mined

\* getTxReceipt answers null: there is no receipt, the monitor has not seen it,
\* or the request failed.
PollEmpty(c) ==
  /\ call[c].pc = "wait"
  /\ call[c].polls < MaxPolls
  /\ Becomes(c, [call[c] EXCEPT !.polls = @ + 1])
  /\ UNCHANGED <<pool, mined>>

\* Mutant: the receipt's status is not looked at.
PollReceiptUnread(c) ==
  /\ call[c].pc = "wait"
  /\ call[c].polls < MaxPolls
  /\ \E i \in DOMAIN mined : mined[i].tx = call[c].last
  /\ Return(c, "mined")
  /\ UNCHANGED <<pool, mined>>

PollReceipt(c) ==
  /\ call[c].pc = "wait"
  /\ call[c].polls < MaxPolls
  /\ \E i \in DOMAIN mined :
       /\ mined[i].tx = call[c].last
       /\ Return(c, IF mined[i].ok THEN "mined" ELSE "failed")
  /\ UNCHANGED <<pool, mined>>

\* Mutant: the bump is below what nodes ask of a replacement.
BumpedTooLittle(fee) == (fee * 105) \div 100

Bumped(fee) == (fee * (100 + BumpPercent)) \div 100

\* Mutant: the replacement asks the wallet for its nonce again.
DelayOverFreshNonce(c) ==
  /\ call[c].pc = "wait"
  /\ call[c].polls > 0
  /\ IF call[c].attempt = MaxReplacements
       THEN Return(c, "pending")
       ELSE \E k \in PendingNonces(Home) :
              Becomes(c, [call[c] EXCEPT !.pc = "send",
                                          !.attempt = @ + 1,
                                          !.nonce = k,
                                          !.fee = Bumped(@)])
  /\ UNCHANGED <<pool, mined>>

\* Mutant: a transaction still unmined at the end is reported as a success.
DelayOverOptimistic(c) ==
  /\ call[c].pc = "wait"
  /\ call[c].polls > 0
  /\ IF call[c].attempt = MaxReplacements
       THEN Return(c, "mined")
       ELSE Becomes(c, [call[c] EXCEPT !.pc = "send",
                                      !.attempt = @ + 1,
                                      !.fee = Bumped(@)])
  /\ UNCHANGED <<pool, mined>>

\* The delay is over after MaxPolls polls, or after fewer when they are slow.
DelayOver(c) ==
  /\ call[c].pc = "wait"
  /\ call[c].polls > 0
  /\ IF call[c].attempt = MaxReplacements
       THEN Return(c, "pending")
       ELSE Becomes(c, [call[c] EXCEPT !.pc = "send",
                                      !.attempt = @ + 1,
                                      !.fee = Bumped(@)])
  /\ UNCHANGED <<pool, mined>>

Step(c) ==
  \/ TakeNonce(c)
  \/ Throw(c)
  \/ Broadcast(c)
  \/ BroadcastUnanswered(c)
  \/ PollEmpty(c)
  \/ PollReceipt(c)
  \/ DelayOver(c)

Next ==
  \/ \E c \in Calls : Begin(c) \/ Step(c)
  \/ Mine
  \/ Gossip
  \/ Evict

Spec == Init /\ [][Next]_vars

\* Each await of a call settles: ethers bounds every request by a timeout.
FairSpec == Spec /\ \A c \in Calls : WF_vars(Step(c))

-----------------------------------------------------------------------------
\* Properties.

\* However often a call re-signs and re-broadcasts, at most one of its
\* transactions is ever mined: every replacement reuses the call's nonce.
LandsOnce ==
  \A i, j \in DOMAIN mined : mined[i].tx.owner = mined[j].tx.owner => i = j

\* "mined" is answered only for a hash that is on chain and succeeded, and
\* "failed" with a hash only for one that is on chain and reverted.
DefiniteAnswersTrue ==
  \A c \in Calls :
    /\ call[c].status = "mined" =>
         \E i \in DOMAIN mined : mined[i] = [tx |-> call[c].last, ok |-> TRUE]
    /\ call[c].status = "failed" /\ call[c].last # NoTx =>
         \E i \in DOMAIN mined : mined[i] = [tx |-> call[c].last, ok |-> FALSE]

\* A replacement the loop is about to send outbids every transaction of the
\* same call a node still holds, so no node refuses it as underpriced.
ReplacementOutbids ==
  \A c \in Calls : call[c].pc = "send" =>
    \A n \in Nodes : \A t \in pool[n] :
      t.owner = c /\ t # Signed(c) => Outbids(call[c].fee, t.fee)

\* Every call that begins answers: the loop is bounded by maxReplacements
\* whether its broadcasts are acknowledged or not.
CallsAnswer == \A c \in Calls : call[c].pc = "nonce" ~> call[c].pc = "done"

\* The broadcaster keeps the promise of BroadcastPromise.
Phase(c) ==
  CASE call[c].pc = "idle" -> "idle"
    [] call[c].pc = "done" ->
         IF call[c].status = "failed" /\ call[c].last # NoTx
           THEN "reverted" ELSE call[c].status
    [] OTHER -> "busy"

Landed(c) ==
  IF \E i \in DOMAIN mined : mined[i].tx.owner = c /\ mined[i].ok THEN "ok"
  ELSE IF \E i \in DOMAIN mined : mined[i].tx.owner = c THEN "reverted"
  ELSE "no"

Promise == INSTANCE BroadcastPromise WITH
  phase <- [c \in Calls |-> Phase(c)],
  landed <- [c \in Calls |-> Landed(c)]

KeepsPromise == Promise!Spec
=============================================================================
