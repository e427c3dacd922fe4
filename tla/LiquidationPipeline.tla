-------------------------- MODULE LiquidationPipeline --------------------------
(***************************************************************************)
(* The execution pipeline of backend-v2: Aave pool events mark users in    *)
(* the DirtyQueue, the VerifierLoop's timer takes batches, checks health   *)
(* factors and runs onExecute (index.ts) for each user under the           *)
(* threshold; PredictiveLoop rescores users on price ticks and leaves      *)
(* plans in the PlanCache; AttemptHistory keeps the outcome of each        *)
(* attempt.  The program is single threaded: one action is the code        *)
(* between two awaits.                                                     *)
(*                                                                         *)
(* setInterval does not wait for the previous tick, so several activations *)
(* of tick() overlap: Ticks is the set of those that may run at once.      *)
(* ExecutorClient sends through TxBroadcaster when more than one RPC URL   *)
(* is configured, and what that call answers is what BroadcastPromise says *)
(* of it; otherwise it sends through its one provider and waits there.     *)
(***************************************************************************)
EXTENDS Integers, Sequences, FiniteSets, SequenceTheorems, FiniteSetTheorems, TLAPS

CONSTANTS
  Users,
  Watched,            \* the snapshot of the risk set given to the listeners
  Ticks,              \* activations of VerifierLoop.tick that may overlap
  Rescores,           \* activations of PredictiveLoop.rescoreUser
  BatchSize,          \* options.batchSize
  NoUser,
  MaxMoves            \* bound: position changes in a behaviour

ASSUME PipelineAssumption ==
  /\ Watched \subseteq Users
  /\ NoUser \notin Users
  /\ BatchSize \in Nat \ {0}
  /\ MaxMoves \in Nat

VARIABLES
  \* the setting, fixed for a run
  enabled,   \* config.EXECUTION_ENABLED
  late,      \* may a tick outlast the timer's interval?
  multi,     \* ExecutorClient has a broadcaster: more than one RPC URL
  \* the chain
  account,   \* per user: where the position stands, see Accounts
  moves,     \* position changes so far
  news,      \* users whose pool event has not reached the listener yet
  flying,    \* per user: acknowledged transactions nobody waits for any more
  astray,    \* per user: live transactions no reply told of, whose attempt ended
  \* the process
  queue,     \* DirtyQueue.queue, in insertion order
  tick,      \* per activation of tick(): its locals
  rescore,   \* per activation of rescoreUser(): the user it prepares a plan for
  cache,     \* PlanCache: the users with a plan
  last,      \* AttemptHistory: status of the last record per user
  \* history
  unread,    \* marked users whose position no check has read since the mark
  dropped    \* users a check failed to read since their last mark

setting == <<enabled, late, multi>>
chainVars == <<account, moves, news, flying, astray>>
vars == <<enabled, late, multi, account, moves, news, flying, astray, queue, tick, rescore,
          cache, last, unread, dropped>>

-----------------------------------------------------------------------------
\* What the code tells apart in a position: "near" has 0 < HF < PREDICT_PREPARE_HF,
\* "under" also HF <= HF_THRESHOLD_EXECUTE and enough debt, "bust" has HF = 0 and
\* no collateral, "safe" is every other position.
Accounts == {"safe", "near", "under", "bust"}
Executable(a) == a \in {"under", "bust"}
Preparable(a) == a \in {"near", "under"}

Statuses == {"sent", "reverted", "included", "error", "skip_no_pair",
             "pending", "failed"}

\* The transaction of an attempt: a node took it and nobody was told ("unheard"), its
\* hash was answered ("alive"), it landed after that, or landed unheard ("lost").
Transactions == {"none", "unheard", "alive", "ok", "reverted", "lost"}
Heard == {"alive", "ok", "reverted"}

TickState ==
  [pc      : {"idle", "checking", "scanning", "building", "quoting", "nonce",
              "sending"},
   batch   : Seq(Users),                            \* taken from the queue
   results : Seq([user : Users, exec : BOOLEAN]),   \* answers of checkBatch
   tx      : Transactions]                          \* of the running attempt

IdleTick == [pc |-> "idle", batch |-> <<>>, results |-> <<>>, tx |-> "none"]

TypeOK ==
  /\ enabled \in BOOLEAN
  /\ late \in BOOLEAN
  /\ multi \in BOOLEAN
  /\ account \in [Users -> Accounts]
  /\ moves \in 0 .. MaxMoves
  /\ news \subseteq Users
  /\ flying \in [Users -> Nat]
  /\ astray \in [Users -> Nat]
  /\ queue \in Seq(Users)
  /\ tick \in [Ticks -> TickState]
  /\ \A t \in Ticks : tick[t].pc \notin {"idle", "checking"} => tick[t].results # <<>>
  /\ rescore \in [Rescores -> Users \cup {NoUser}]
  /\ cache \subseteq Users
  /\ last \in [Users -> Statuses \cup {"none"}]
  /\ unread \subseteq Users
  /\ dropped \subseteq Users

\* A dry run sends nothing, so one way of sending stands for both.
Init ==
  /\ enabled \in BOOLEAN
  /\ late \in BOOLEAN
  /\ multi \in BOOLEAN
  /\ ~enabled => multi
  /\ account \in [Users -> {"safe", "near"}]
  /\ moves = 0
  /\ news = {}
  /\ flying = [u \in Users |-> 0]
  /\ astray = [u \in Users |-> 0]
  /\ queue = <<>>
  /\ tick = [t \in Ticks |-> IdleTick]
  /\ rescore = [p \in Rescores |-> NoUser]
  /\ cache = {}
  /\ last = [u \in Users |-> "none"]
  /\ unread = {}
  /\ dropped = {}

-----------------------------------------------------------------------------
\* The chain (external).

Move(u, a) ==
  /\ moves < MaxMoves
  /\ moves' = moves + 1
  /\ account' = [account EXCEPT ![u] = a]

\* A price moves the position; Aave emits nothing for the user.
PriceMove(u) ==
  /\ \E a \in Accounts \ {account[u]} : Move(u, a)
  /\ UNCHANGED <<news, flying, astray, queue, tick, rescore, cache, last,
                 unread, dropped>>

\* Borrow, Repay, Supply or Withdraw.
UserMove(u) ==
  /\ \E a \in Accounts : Move(u, a)
  /\ news' = news \cup {u}
  /\ UNCHANGED <<flying, astray, queue, tick, rescore, cache, last, unread,
                 dropped>>

\* initiateLiquidation on chain: it reverts unless the position is under water,
\* and repays at most half of the debt, so any position may be left.
Executes(u, how) ==
  IF account[u] = "under"
    THEN \/ how = "ok" /\ \E a \in {"safe", "near", "under"} :
              account' = [account EXCEPT ![u] = a]
         \/ how = "reverted" /\ UNCHANGED account
    ELSE how = "reverted" /\ UNCHANGED account

\* One of the transactions that attempts on the user left behind is no more.
Settles(u) ==
  \/ flying[u] > 0 /\ flying' = [flying EXCEPT ![u] = @ - 1] /\ UNCHANGED astray
  \/ astray[u] > 0 /\ astray' = [astray EXCEPT ![u] = @ - 1] /\ UNCHANGED flying

\* It lands, or the nodes forget it, after its attempt has ended.
LandLate(u) ==
  /\ Settles(u)
  /\ \E how \in {"ok", "reverted"} : Executes(u, how)
  /\ UNCHANGED <<moves, news, queue, tick, rescore, cache, last,
                 unread, dropped>>

Forget(u) ==
  /\ Settles(u)
  /\ UNCHANGED <<account, moves, news, queue, tick, rescore, cache, last, unread, dropped>>

-----------------------------------------------------------------------------
\* AavePoolListeners and DirtyQueue.

InQueue(u) == \E i \in DOMAIN queue : queue[i] = u

MarkDirty(u) == queue' = IF InQueue(u) THEN queue ELSE Append(queue, u)

Deliver(u) ==
  /\ u \in news
  /\ news' = news \ {u}
  /\ IF u \in Watched
       THEN /\ MarkDirty(u)
            /\ unread' = unread \cup {u}
            /\ dropped' = dropped \ {u}
       ELSE UNCHANGED <<queue, unread, dropped>>
  /\ UNCHANGED <<account, moves, flying, astray, tick, rescore, cache, last>>

-----------------------------------------------------------------------------
\* VerifierLoop.tick, up to the call of onExecute.

Becomes(t, state) == tick' = [tick EXCEPT ![t] = state]

Shorter(m, n) == IF m < n THEN m ELSE n

\* The timer fires; a tick that is on time has ended before.
MayStart(t) == tick[t].pc = "idle" /\ (late \/ \A s \in Ticks : tick[s].pc = "idle")

\* Mutant: the whole queue is cleared once a batch is taken.
TakeBatchClearing(t) ==
  /\ MayStart(t)
  /\ queue # <<>>
  /\ LET n == Shorter(BatchSize, Len(queue))
     IN  Becomes(t, [pc |-> "checking", batch |-> SubSeq(queue, 1, n),
                      results |-> <<>>, tx |-> "none"])
  /\ queue' = <<>>
  /\ UNCHANGED <<chainVars, rescore, cache, last, unread, dropped>>

TakeBatch(t) ==
  /\ MayStart(t)
  /\ queue # <<>>
  /\ LET n == Shorter(BatchSize, Len(queue))
     IN  /\ Becomes(t, [pc |-> "checking", batch |-> SubSeq(queue, 1, n),
                          results |-> <<>>, tx |-> "none"])
         /\ queue' = SubSeq(queue, n + 1, Len(queue))
  /\ UNCHANGED <<chainVars, rescore, cache, last, unread, dropped>>

\* The n-th place of places; the elements of s that are in S, in their order.
Place(n, places) == CHOOSE i \in places : Cardinality({j \in places : j <= i}) = n
Among(s, S) ==
  LET places == {i \in DOMAIN s : s[i] \in S}
  IN  [n \in 1 .. Cardinality(places) |-> s[Place(n, places)]]

\* Mutant: users whose check fails go back to the queue.
CheckBatchRequeues(t) ==
  /\ tick[t].pc = "checking"
  /\ \E answered \in SUBSET {tick[t].batch[i] : i \in DOMAIN tick[t].batch} :
       LET known == Among(tick[t].batch, answered)
           failed == Among(tick[t].batch, {u \in Users \ answered : ~InQueue(u)})
       IN  /\ Becomes(t, [pc |-> IF known = <<>> THEN "idle" ELSE "scanning",
                          batch |-> <<>>,
                          results |-> [i \in DOMAIN known |->
                            [user |-> known[i], exec |-> Executable(account[known[i]])]],
                          tx |-> "none"])
           /\ unread' = unread \ answered
           /\ queue' = queue \o failed
  /\ UNCHANGED <<chainVars, rescore, cache, last, dropped>>

\* The multicall reads every position of the batch at one moment; the calls of
\* some users may fail or be skipped.  The answers are used later.
CheckBatch(t) ==
  /\ tick[t].pc = "checking"
  /\ \E answered \in SUBSET {tick[t].batch[i] : i \in DOMAIN tick[t].batch} :
       LET known == Among(tick[t].batch, answered)
           asked == {tick[t].batch[i] : i \in DOMAIN tick[t].batch}
       IN  /\ Becomes(t, [pc |-> IF known = <<>> THEN "idle" ELSE "scanning",
                          batch |-> <<>>,
                          results |-> [i \in DOMAIN known |->
                            [user |-> known[i], exec |-> Executable(account[known[i]])]],
                          tx |-> "none"])
           /\ unread' = unread \ answered
           /\ dropped' = (dropped \ answered) \cup (asked \ answered)
  /\ UNCHANGED <<chainVars, queue, rescore, cache, last>>

-----------------------------------------------------------------------------
\* onExecute, for the user at the head of the tick's results.

Current(t) == Head(tick[t].results).user

\* Mutant: the loop over the results does not end.
RestUnended(t) == [IdleTick EXCEPT !.pc = "scanning", !.results = Tail(tick[t].results)]

\* The tick goes on with the next result, or ends.
Rest(t) ==
  IF Len(tick[t].results) = 1
    THEN IdleTick
    ELSE [IdleTick EXCEPT !.pc = "scanning", !.results = Tail(tick[t].results)]

Record(u, status) == last' = [last EXCEPT ![u] = status]

\* Mutant: pending attempts do not hold back the next one.
NeverPending(u) == FALSE

HasPending(u) == last[u] = "pending"

Skip(t) ==
  /\ tick[t].pc = "scanning"
  /\ ~Head(tick[t].results).exec \/ HasPending(Current(t))
  /\ Becomes(t, Rest(t))
  /\ UNCHANGED <<chainVars, queue, rescore, cache, last, unread, dropped>>

Executing(t) ==
  tick[t].pc = "scanning" /\ Head(tick[t].results).exec /\ ~HasPending(Current(t))

\* PlanCache.get finds a plan younger than its TTL.  A dry run stops here.
UsePlan(t) ==
  /\ Executing(t)
  /\ Current(t) \in cache
  /\ IF enabled
       THEN Becomes(t, [tick[t] EXCEPT !.pc = "nonce"]) /\ UNCHANGED last
       ELSE Becomes(t, Rest(t)) /\ Record(Current(t), "sent")
  /\ UNCHANGED <<chainVars, queue, rescore, cache, unread, dropped>>

\* PlanCache.get finds nothing, or an expired plan, which it deletes.
MissPlan(t) ==
  /\ Executing(t)
  /\ Becomes(t, [tick[t] EXCEPT !.pc = "building"])
  /\ cache' = cache \ {Current(t)}
  /\ UNCHANGED <<chainVars, queue, rescore, last, unread, dropped>>

\* buildCandidatePlans throws, finds no pair, or finds candidates.
Build(t) ==
  /\ tick[t].pc = "building"
  /\ \/ /\ enabled
        /\ Becomes(t, [tick[t] EXCEPT !.pc = "quoting"])
        /\ UNCHANGED last
     \/ /\ Becomes(t, Rest(t))
        /\ Record(Current(t), "error") \/ Record(Current(t), "skip_no_pair")
     \/ /\ ~enabled
        /\ Becomes(t, Rest(t))
        /\ Record(Current(t), "sent")
  /\ UNCHANGED <<chainVars, queue, rescore, cache, unread, dropped>>

\* Some candidate is quoted with a positive net, or none is.
Quote(t) ==
  /\ tick[t].pc = "quoting"
  /\ \/ Becomes(t, [tick[t] EXCEPT !.pc = "nonce"]) /\ UNCHANGED last
     \/ Becomes(t, Rest(t)) /\ Record(Current(t), "error")
  /\ UNCHANGED <<chainVars, queue, rescore, cache, unread, dropped>>

\* getPendingNonce answers and attemptLiquidation starts, or it throws.
AskNonce(t) ==
  /\ tick[t].pc = "nonce"
  /\ \/ Becomes(t, [tick[t] EXCEPT !.pc = "sending"]) /\ UNCHANGED last
     \/ Becomes(t, Rest(t)) /\ Record(Current(t), "error")
  /\ UNCHANGED <<chainVars, queue, rescore, cache, unread, dropped>>

\* A node takes the transaction of the running attempt, which may land from now on.
Send(t) ==
  /\ tick[t].pc = "sending"
  /\ tick[t].tx = "none"
  /\ Becomes(t, [tick[t] EXCEPT !.tx = "unheard"])
  /\ UNCHANGED <<chainVars, queue, rescore, cache, last, unread, dropped>>

\* A node's reply with the hash arrives; it may as well be lost.
Acknowledge(t) ==
  /\ tick[t].pc = "sending"
  /\ tick[t].tx = "unheard"
  /\ Becomes(t, [tick[t] EXCEPT !.tx = "alive"])
  /\ UNCHANGED <<chainVars, queue, rescore, cache, last, unread, dropped>>

Land(t) ==
  /\ tick[t].pc = "sending"
  /\ tick[t].tx \in {"unheard", "alive"}
  /\ \E how \in {"ok", "reverted"} :
       /\ Executes(Current(t), how)
       /\ Becomes(t, [tick[t] EXCEPT !.tx = IF tick[t].tx = "alive" THEN how ELSE "lost"])
  /\ UNCHANGED <<moves, news, flying, astray, queue, rescore, cache, last,
                 unread, dropped>>

\* What may be recorded of an attempt.  Without a hash it is "failed".  With one, the
\* broadcaster answers "pending" unless it saw a receipt, while the one provider's wait()
\* throws, on a reverted transaction or on an error of its own, and the hash is gone.
Outcomes(tx) ==
  IF tx \notin Heard
    THEN {"failed"}
    ELSE {IF multi THEN "pending" ELSE "failed"}
           \cup (IF tx = "ok" THEN {"included"} ELSE {})
           \cup (IF tx = "reverted" THEN {"reverted"} ELSE {})

\* attemptLiquidation answers, the plan is invalidated and the outcome recorded.  A
\* transaction that has not landed stays behind.
AttemptEnds(t) ==
  LET u == Current(t)
      tx == tick[t].tx
  IN  /\ tick[t].pc = "sending"
      /\ \E status \in Outcomes(tx) : Record(u, status)
      /\ flying' = IF tx = "alive" THEN [flying EXCEPT ![u] = @ + 1] ELSE flying
      /\ astray' = IF tx = "unheard" THEN [astray EXCEPT ![u] = @ + 1] ELSE astray
      /\ cache' = cache \ {u}
      /\ Becomes(t, Rest(t))
      /\ UNCHANGED <<account, moves, news, queue, rescore, unread, dropped>>

-----------------------------------------------------------------------------
\* PredictiveLoop.rescoreUser and preparePlan.

\* checkSingle answers.  The user is not marked dirty.
Rescore(p, u) ==
  /\ rescore[p] = NoUser
  /\ Preparable(account[u])
  /\ rescore' = [rescore EXCEPT ![p] = u]
  /\ UNCHANGED <<chainVars, queue, tick, cache, last, unread, dropped>>

\* The user's reserves are read, the 1inch quote answers and the plan goes into the cache.
Prepare(p) ==
  /\ rescore[p] # NoUser
  /\ cache' = cache \cup {rescore[p]}
  /\ rescore' = [rescore EXCEPT ![p] = NoUser]
  /\ UNCHANGED <<chainVars, queue, tick, last, unread, dropped>>

\* buildCandidatePlans or the quote fails, or there is no candidate.
PrepareFails(p) ==
  /\ rescore[p] # NoUser
  /\ rescore' = [rescore EXCEPT ![p] = NoUser]
  /\ UNCHANGED <<chainVars, queue, tick, cache, last, unread, dropped>>

\* PlanCache.prepare of another user evicts this user's plan at capacity.
EvictPlan(u) ==
  /\ u \in cache
  /\ cache' = cache \ {u}
  /\ UNCHANGED <<chainVars, queue, tick, rescore, last, unread, dropped>>

-----------------------------------------------------------------------------
TickStep(t) ==
  \/ CheckBatch(t)
  \/ Skip(t)
  \/ UsePlan(t)
  \/ MissPlan(t)
  \/ Build(t)
  \/ Quote(t)
  \/ AskNonce(t)
  \/ AttemptEnds(t)

UserStep(u) ==
  PriceMove(u) \/ UserMove(u) \/ LandLate(u) \/ Forget(u) \/ Deliver(u) \/ EvictPlan(u)

RescoreStep(p) ==
  (\E u \in Users : Rescore(p, u)) \/ Prepare(p) \/ PrepareFails(p)

Next ==
  /\ \/ \E u \in Users : UserStep(u)
     \/ \E t \in Ticks : TakeBatch(t) \/ TickStep(t) \/ Send(t) \/ Acknowledge(t) \/ Land(t)
     \/ \E p \in Rescores : RescoreStep(p)
  /\ UNCHANGED setting

Spec == Init /\ [][Next]_vars

\* The one provider's wait() has no timeout: it lasts while the transaction does not land.
Waits(t) == ~multi /\ tick[t].tx = "alive"

\* The timer goes on firing, every other await settles, and events are delivered.
FairSpec ==
  /\ Spec
  /\ \A t \in Ticks : WF_vars(~Waits(t) /\ TickStep(t) /\ UNCHANGED setting)
  /\ WF_vars(\E t \in Ticks : TakeBatch(t) /\ UNCHANGED setting)
  /\ \A u \in Users : WF_vars(Deliver(u) /\ UNCHANGED setting)
  /\ \A p \in Rescores : WF_vars((Prepare(p) \/ PrepareFails(p)) /\ UNCHANGED setting)

-----------------------------------------------------------------------------
\* Properties.

\* No mark is lost: until some check has read a marked user's position, the
\* user waits in the queue or in a batch being checked, or a check failed to
\* read it.  A mark that arrives while the user is being checked counts.
NoLostMark ==
  \A u \in unread :
    \/ InQueue(u)
    \/ \E t \in Ticks : tick[t].pc = "checking" /\ \E i \in DOMAIN tick[t].batch :
                                                     tick[t].batch[i] = u
    \/ u \in dropped

\* The acknowledged transactions of a user that can still land.
Acknowledged(u) ==
  Cardinality({t \in Ticks : tick[t].pc = "sending" /\ tick[t].tx = "alive"
                            /\ Current(t) = u}) + flying[u]

\* While ticks do not overlap and transactions go through the broadcaster, a user has at
\* most one acknowledged transaction that can still land: the running attempt's, or the
\* one left pending, which hasPending holds the next attempt back for.  A transaction no
\* node's reply told of is not acknowledged; nothing in the process knows of it.
OneLiveTransaction == ~late /\ multi => \A u \in Users : Acknowledged(u) <= 1

\* A marked user is read by some check, or a check fails to read it: neither
\* the queue nor a busy tick keeps it waiting for ever.  On one provider a tick may wait
\* for its transaction for ever; the timer starts others, and Ticks bounds how many.
MarksAreRead ==
  \A u \in Users : multi /\ u \in unread ~> u \notin unread \/ u \in dropped

\* index.ts skips a user that has a pending attempt: no two attempts on the
\* same user run at once.
NoTwinAttempts ==
  \A s, t \in Ticks :
    s # t /\ tick[s].pc = "sending" /\ tick[t].pc = "sending" => Current(s) # Current(t)

\* The same check: while no tick outlasts its interval, no attempt on a user is made while
\* an acknowledged transaction of an earlier one is pending on chain.  Through the
\* broadcaster this holds (see Alone below); on one provider it does not.
PendingIsSkipped ==
  ~late => \A t \in Ticks : tick[t].pc = "sending" => flying[Current(t)] = 0

-----------------------------------------------------------------------------
\* Proofs, for any users, ticks, rescores and batches.

\* The steps of onExecute that await something.
Busy == {"building", "quoting", "nonce", "sending"}

\* The parts of the state that the proofs need to be well formed.
Shaped ==
  /\ queue \in Seq(Users)
  /\ tick = [t \in Ticks |-> [pc |-> tick[t].pc, batch |-> tick[t].batch,
                              results |-> tick[t].results, tx |-> tick[t].tx]]
  /\ \A t \in Ticks : tick[t].pc = "checking" => tick[t].batch \in Seq(Users)
  /\ last = [u \in Users |-> last[u]]
  /\ flying \in [Users -> Nat]

\* Without overlap at most one tick is under way, an attempt that is under way is not held
\* back, and whoever has a transaction that nobody waits for has a pending record.
Alone ==
  ~late =>
    /\ \A s, t \in Ticks : tick[s].pc # "idle" /\ tick[t].pc # "idle" => s = t
    /\ \A t \in Ticks : tick[t].pc \in Busy => ~HasPending(Current(t))
    /\ multi => \A u \in Users : flying[u] \in {0, 1} /\ (flying[u] = 1 => HasPending(u))

Inv == Shaped /\ NoLostMark /\ Alone

-----------------------------------------------------------------------------
\* The locals of a tick are changed one at a time.
LEMMA Changed ==
  ASSUME NEW s, NEW new,
         s = [pc |-> s.pc, batch |-> s.batch, results |-> s.results, tx |-> s.tx]
  PROVE  /\ [s EXCEPT !.pc = new]
              = [pc |-> new, batch |-> s.batch, results |-> s.results, tx |-> s.tx]
         /\ [s EXCEPT !.tx = new]
              = [pc |-> s.pc, batch |-> s.batch, results |-> s.results, tx |-> new]
<1>1. ASSUME NEW p, NEW b, NEW r, NEW x, s = [pc |-> p, batch |-> b, results |-> r, tx |-> x]
      PROVE  /\ [s EXCEPT !.pc = new] = [pc |-> new, batch |-> b, results |-> r, tx |-> x]
             /\ [s EXCEPT !.tx = new] = [pc |-> p, batch |-> b, results |-> r, tx |-> new]
  BY <1>1
<1> QED BY <1>1

\* One tick moves on without taking or reading a batch, and may record an outcome.
LEMMA TickMoves ==
  ASSUME Inv, NEW t \in Ticks, tick[t].pc \notin {"idle", "checking"},
         NEW s, Becomes(t, s), s.pc # "checking",
         s = [pc |-> s.pc, batch |-> s.batch, results |-> s.results, tx |-> s.tx],
         UNCHANGED <<late, queue, unread, dropped>>
  PROVE  /\ queue' \in Seq(Users)
         /\ tick' = [x \in Ticks |-> [pc |-> tick'[x].pc, batch |-> tick'[x].batch,
                                      results |-> tick'[x].results, tx |-> tick'[x].tx]]
         /\ \A x \in Ticks : tick'[x].pc = "checking" => tick'[x].batch \in Seq(Users)
         /\ NoLostMark'
         /\ \A x \in Ticks : tick'[x] = IF x = t THEN s ELSE tick[x]
         /\ ~late => \A x, y \in Ticks : tick'[x].pc # "idle" /\ tick'[y].pc # "idle" => x = y
<1>1. \A x \in Ticks : tick'[x] = IF x = t THEN s ELSE tick[x]
  BY DEF Becomes, Inv, Shaped
<1>2. tick' = [x \in Ticks |-> IF x = t THEN s ELSE tick[x]]
  BY DEF Becomes, Inv, Shaped
<1>3. \A x \in Ticks : tick[x] = [pc |-> tick[x].pc, batch |-> tick[x].batch,
                                  results |-> tick[x].results, tx |-> tick[x].tx]
  BY DEF Inv, Shaped
<1>4. tick' = [x \in Ticks |-> [pc |-> tick'[x].pc, batch |-> tick'[x].batch,
                                results |-> tick'[x].results, tx |-> tick'[x].tx]]
  BY <1>1, <1>2, <1>3
<1>5. \A x \in Ticks : tick'[x].pc = "checking" => tick'[x] = tick[x]
  BY <1>1
<1>6. \A x \in Ticks : tick'[x].pc = "checking" => tick'[x].batch \in Seq(Users)
  BY <1>5 DEF Inv, Shaped
<1>7. \A x \in Ticks : tick[x].pc = "checking" => tick'[x] = tick[x]
  BY <1>1
<1>8. NoLostMark'
  BY <1>7 DEF Inv, NoLostMark, InQueue
<1>9. ~late => \A x, y \in Ticks : tick'[x].pc # "idle" /\ tick'[y].pc # "idle" => x = y
  BY <1>1 DEF Inv, Alone
<1> QED BY <1>1, <1>4, <1>6, <1>8, <1>9 DEF Inv, Shaped

\* The ends of a step: the tick rests.
LEMMA RestShape ==
  ASSUME NEW t \in Ticks
  PROVE  /\ Rest(t).pc \in {"idle", "scanning"}
         /\ Rest(t) = [pc |-> Rest(t).pc, batch |-> Rest(t).batch,
                       results |-> Rest(t).results, tx |-> Rest(t).tx]
  BY DEF Rest, IdleTick

\* The tick goes on with its user, for whom there is no pending record.
LEMMA GoesOn ==
  ASSUME Inv, NEW t \in Ticks, tick[t].pc \notin {"idle", "checking"},
         ~late => ~HasPending(Current(t)),
         NEW pc \in Busy, NEW tx,
         Becomes(t, [pc |-> pc, batch |-> tick[t].batch,
                     results |-> tick[t].results, tx |-> tx]),
         UNCHANGED <<late, multi, queue, unread, dropped, last, flying>>
  PROVE  Inv'
<1> DEFINE s == [pc |-> pc, batch |-> tick[t].batch, results |-> tick[t].results, tx |-> tx]
<1>0. s.pc = pc /\ s.pc # "checking" /\ s.results = tick[t].results
      /\ s = [pc |-> s.pc, batch |-> s.batch, results |-> s.results, tx |-> s.tx]
  BY DEF Busy
<1>b. Becomes(t, s)
  OBVIOUS
<1> HIDE DEF s
<1>1. /\ queue' \in Seq(Users)
      /\ tick' = [x \in Ticks |-> [pc |-> tick'[x].pc, batch |-> tick'[x].batch,
                                   results |-> tick'[x].results, tx |-> tick'[x].tx]]
      /\ \A x \in Ticks : tick'[x].pc = "checking" => tick'[x].batch \in Seq(Users)
      /\ NoLostMark'
      /\ \A x \in Ticks : tick'[x] = IF x = t THEN s ELSE tick[x]
      /\ ~late => \A x, y \in Ticks : tick'[x].pc # "idle" /\ tick'[y].pc # "idle" => x = y
  BY <1>0, <1>b, TickMoves
<1>2. Shaped'
  BY <1>1 DEF Inv, Shaped
<1>3. \A x \in Ticks : Current(x)' = Current(x)
  BY <1>0, <1>1 DEF Current
<1>4. ASSUME ~late', NEW x \in Ticks, tick'[x].pc \in Busy PROVE ~HasPending(Current(x))'
  <2>1. CASE x = t
    BY <2>1, <1>3, <1>4 DEF HasPending
  <2>2. CASE x # t
    BY <2>2, <1>1, <1>3, <1>4 DEF HasPending, Inv, Alone
  <2> QED BY <2>1, <2>2
<1>5. Alone'
  BY <1>1, <1>4 DEF Inv, Alone, HasPending
<1> QED BY <1>1, <1>2, <1>5 DEF Inv

\* The tick is done with its user, with an outcome that is not "pending" or with one that
\* is; a transaction stays behind only with the latter.
LEMMA IsDone ==
  ASSUME Inv, NEW t \in Ticks, tick[t].pc \notin {"idle", "checking"},
         Becomes(t, Rest(t)), UNCHANGED <<late, multi, queue, unread, dropped>>,
         last' = [u \in Users |-> last'[u]],
         \A u \in Users \ {Current(t)} : last'[u] = last[u] /\ flying'[u] = flying[u],
         flying' \in [Users -> Nat],
         ~late /\ multi /\ Current(t) \in Users =>
           /\ flying'[Current(t)] \in {0, 1}
           /\ flying'[Current(t)] = 1 => last'[Current(t)] = "pending"
  PROVE  Inv'
<1>0. /\ Rest(t).pc \in {"idle", "scanning"}
      /\ Rest(t) = [pc |-> Rest(t).pc, batch |-> Rest(t).batch,
                    results |-> Rest(t).results, tx |-> Rest(t).tx]
  BY RestShape
<1>1. /\ queue' \in Seq(Users)
      /\ tick' = [x \in Ticks |-> [pc |-> tick'[x].pc, batch |-> tick'[x].batch,
                                   results |-> tick'[x].results, tx |-> tick'[x].tx]]
      /\ \A x \in Ticks : tick'[x].pc = "checking" => tick'[x].batch \in Seq(Users)
      /\ NoLostMark'
      /\ \A x \in Ticks : tick'[x] = IF x = t THEN Rest(t) ELSE tick[x]
      /\ ~late => \A x, y \in Ticks : tick'[x].pc # "idle" /\ tick'[y].pc # "idle" => x = y
  BY <1>0, TickMoves
<1>2. Shaped'
  BY <1>1 DEF Shaped
<1>3. ASSUME ~late', NEW x \in Ticks, tick'[x].pc \in Busy PROVE FALSE
  <2>1. x # t
    BY <1>0, <1>1, <1>3 DEF Busy
  <2>2. tick[x].pc # "idle" /\ tick[t].pc # "idle"
    BY <2>1, <1>1, <1>3 DEF Busy
  <2> QED BY <2>1, <2>2, <1>3 DEF Inv, Alone
<1>4. ASSUME ~late', multi', NEW u \in Users
      PROVE  flying'[u] \in {0, 1} /\ (flying'[u] = 1 => HasPending(u)')
  <2>1. CASE u = Current(t)
    BY <1>4, <2>1 DEF HasPending
  <2>2. CASE u # Current(t)
    BY <1>4, <2>2 DEF Inv, Alone, HasPending
  <2> QED BY <2>1, <2>2
<1>5. Alone'
  BY <1>1, <1>3, <1>4 DEF Alone
<1> QED BY <1>1, <1>2, <1>5 DEF Inv

\* The same, with an outcome that is recorded and nothing left behind.
LEMMA IsRecorded ==
  ASSUME Inv, NEW t \in Ticks, tick[t].pc \notin {"idle", "checking"},
         ~late => ~HasPending(Current(t)),
         Becomes(t, Rest(t)), NEW status, Record(Current(t), status),
         UNCHANGED <<late, multi, queue, unread, dropped, flying>>
  PROVE  Inv'
<1>1. last' = [u \in Users |-> last'[u]] /\ flying' \in [Users -> Nat]
  BY DEF Record, Inv, Shaped
<1>2. \A u \in Users \ {Current(t)} : last'[u] = last[u] /\ flying'[u] = flying[u]
  BY DEF Record, Inv, Shaped
<1>3. ~late /\ multi /\ Current(t) \in Users => flying'[Current(t)] = 0
  BY DEF Inv, Alone
<1> QED BY <1>1, <1>2, <1>3, IsDone

-----------------------------------------------------------------------------
LEMMA InvInit == Init => Inv
<1> SUFFICES ASSUME Init PROVE Inv
  OBVIOUS
<1>1. Shaped
  BY DEF Init, Shaped, IdleTick
<1>2. NoLostMark /\ Alone
  BY DEF Init, NoLostMark, Alone, IdleTick, Busy
<1> QED BY <1>1, <1>2 DEF Inv

\* The queue, the batches and the marks stand still, and transactions may settle.
LEMMA Untouched ==
  ASSUME Inv, UNCHANGED <<late, multi, queue, tick, last, unread, dropped>>,
         flying' \in [Users -> Nat],
         \A u \in Users : flying'[u] = flying[u] \/ (flying[u] > 0 /\ flying'[u] = flying[u] - 1)
  PROVE  Inv'
<1>1. Shaped'
  BY DEF Inv, Shaped
<1>2. NoLostMark'
  BY DEF Inv, NoLostMark, InQueue
<1>3. Alone'
  <2> SUFFICES ASSUME ~late PROVE Alone'
    BY DEF Alone
  <2>1. multi => \A u \in Users : flying'[u] \in {0, 1} /\ (flying'[u] = 1 => HasPending(u)')
    BY DEF Inv, Alone, HasPending
  <2> QED BY <2>1 DEF Inv, Alone, HasPending, Current
<1> QED BY <1>1, <1>2, <1>3 DEF Inv

LEMMA InvNext == Inv /\ [Next]_vars => Inv'
<1> SUFFICES ASSUME Inv, [Next]_vars PROVE Inv'
  OBVIOUS
<1> USE DEF chainVars, setting
<1>t. \A t \in Ticks : tick[t] = [pc |-> tick[t].pc, batch |-> tick[t].batch,
                                  results |-> tick[t].results, tx |-> tick[t].tx]
  BY DEF Inv, Shaped
<1>p. ASSUME NEW t \in Ticks, NEW pc
      PROVE  [tick[t] EXCEPT !.pc = pc] = [pc |-> pc, batch |-> tick[t].batch,
                                           results |-> tick[t].results, tx |-> tick[t].tx]
  BY <1>t, Changed
<1>x. ASSUME NEW t \in Ticks, NEW tx
      PROVE  [tick[t] EXCEPT !.tx = tx] = [pc |-> tick[t].pc, batch |-> tick[t].batch,
                                           results |-> tick[t].results, tx |-> tx]
  BY <1>t, Changed
<1>f. flying \in [Users -> Nat]
  BY DEF Inv, Shaped
<1>u. ASSUME UNCHANGED <<late, multi, queue, tick, last, flying, unread, dropped>> PROVE Inv'
  <2>1. flying' \in [Users -> Nat] /\ \A u \in Users : flying'[u] = flying[u]
    BY <1>u, <1>f
  <2> QED BY <1>u, <2>1, Untouched
<1>1. CASE UNCHANGED vars
  BY <1>1, <1>u DEF vars
<1>2. ASSUME NEW u \in Users, UserStep(u), UNCHANGED setting PROVE Inv'
  <2>1. CASE PriceMove(u) \/ UserMove(u) \/ EvictPlan(u)
    BY <1>2, <2>1, <1>u DEF PriceMove, UserMove, EvictPlan
  <2>2. CASE LandLate(u) \/ Forget(u)
    <3>1. /\ UNCHANGED flying \/ (flying[u] > 0 /\ flying' = [flying EXCEPT ![u] = @ - 1])
          /\ UNCHANGED <<queue, tick, last, unread, dropped>>
      BY <2>2 DEF LandLate, Forget, Settles
    <3>2. flying' \in [Users -> Nat]
      BY <3>1, <1>f
    <3>3. \A v \in Users :
            flying'[v] = flying[v] \/ (flying[v] > 0 /\ flying'[v] = flying[v] - 1)
      BY <3>1, <1>f
    <3> QED BY <1>2, <3>1, <3>2, <3>3, Untouched
  <2>3. CASE Deliver(u)
    <3>1. CASE u \in Watched
      <4>1. /\ queue' = IF InQueue(u) THEN queue ELSE Append(queue, u)
            /\ unread' = unread \cup {u} /\ dropped' = dropped \ {u}
            /\ UNCHANGED <<late, multi, tick, last, flying>>
        BY <1>2, <2>3, <3>1 DEF Deliver, MarkDirty
      <4>3. queue' \in Seq(Users) /\ InQueue(u)' /\ \A v : InQueue(v) => InQueue(v)'
        <5>1. queue \in Seq(Users)
          BY DEF Inv, Shaped
        <5>2. CASE InQueue(u)
          BY <4>1, <5>1, <5>2 DEF InQueue
        <5>3. CASE ~InQueue(u)
          <6>1. queue' = Append(queue, u)
            BY <4>1, <5>3
          <6>2. /\ DOMAIN queue' = DOMAIN queue \cup {Len(queue) + 1}
                /\ \A i \in DOMAIN queue : queue'[i] = queue[i]
                /\ queue'[Len(queue) + 1] = u /\ queue' \in Seq(Users)
            BY <5>1, <6>1
          <6> QED BY <6>2 DEF InQueue
        <5> QED BY <5>2, <5>3
      <4>4. NoLostMark'
        BY <4>1, <4>3 DEF Inv, NoLostMark
      <4>5. Shaped'
        BY <4>1, <4>3 DEF Inv, Shaped
      <4>6. Alone'
        BY <4>1 DEF Inv, Alone, HasPending, Current
      <4> QED BY <4>4, <4>5, <4>6 DEF Inv
    <3>2. CASE u \notin Watched
      BY <1>2, <2>3, <3>2, <1>u DEF Deliver
    <3> QED BY <3>1, <3>2
  <2> QED BY <1>2, <2>1, <2>2, <2>3 DEF UserStep
<1>3. ASSUME NEW p \in Rescores, RescoreStep(p), UNCHANGED setting PROVE Inv'
  <2>1. UNCHANGED <<flying, queue, tick, last, unread, dropped>>
    BY <1>3 DEF RescoreStep, Rescore, Prepare, PrepareFails
  <2> QED BY <1>3, <2>1, <1>u
<1>4. ASSUME NEW t \in Ticks, TakeBatch(t), UNCHANGED setting PROVE Inv'
  <2> DEFINE n == Shorter(BatchSize, Len(queue))
             batch == SubSeq(queue, 1, n)
             s == [pc |-> "checking", batch |-> batch, results |-> <<>>, tx |-> "none"]
  <2>1. queue \in Seq(Users) /\ queue # <<>> /\ BatchSize \in Nat \ {0}
    BY <1>4, PipelineAssumption DEF TakeBatch, Inv, Shaped
  <2>2. Len(queue) \in Nat /\ n \in 1 .. Len(queue) /\ DOMAIN queue = 1 .. Len(queue)
    BY <2>1, EmptySeq, LenProperties DEF Shorter
  <2>3. /\ queue' = SubSeq(queue, n + 1, Len(queue)) /\ Becomes(t, s) /\ MayStart(t)
        /\ UNCHANGED <<late, multi, last, flying, unread, dropped>>
    BY <1>4 DEF TakeBatch
  <2> HIDE DEF n
  <2>4. batch \in Seq(Users) /\ Len(batch) = n /\ \A i \in 1 .. n : batch[i] = queue[i]
    BY <2>1, <2>2, SubSeqProperties
  <2>5. /\ queue' \in Seq(Users) /\ Len(queue') = Len(queue) - n
        /\ \A i \in 1 .. Len(queue) - n : queue'[i] = queue[n + i]
    <3>1. n + 1 \in Int /\ Len(queue) \in Int /\ n \in Int
      BY <2>2
    <3>2. \A i \in n + 1 .. Len(queue) : queue[i] \in Users
      BY <2>1, <2>2, ElementOfSeq
    <3>3. /\ queue' \in Seq(Users)
          /\ Len(queue') = IF n + 1 <= Len(queue) THEN Len(queue) - (n + 1) + 1 ELSE 0
          /\ \A i \in 1 .. Len(queue) - (n + 1) + 1 : queue'[i] = queue[n + 1 + i - 1]
      BY <2>3, <3>1, <3>2, SubSeqProperties
    <3>4. Len(queue') = Len(queue) - n
      <4>1. ASSUME NEW m \in Nat, NEW k \in 1 .. m, NEW l,
                   l = IF k + 1 <= m THEN m - (k + 1) + 1 ELSE 0
            PROVE  l = m - k
        BY <4>1
      <4> QED BY <2>2, <3>3, <4>1
    <3>5. \A i \in 1 .. Len(queue) - n :
            i \in 1 .. Len(queue) - (n + 1) + 1 /\ n + 1 + i - 1 = n + i
      BY <2>2
    <3> QED BY <3>3, <3>4, <3>5
  <2>6. /\ s.pc = "checking" /\ s.batch = batch
        /\ s = [pc |-> s.pc, batch |-> s.batch, results |-> s.results, tx |-> s.tx]
    OBVIOUS
  <2> HIDE DEF s, batch
  <2>7. \A x \in Ticks : tick'[x] = IF x = t THEN s ELSE tick[x]
    BY <2>3 DEF Becomes, Inv, Shaped
  <2>8. tick' = [x \in Ticks |-> [pc |-> tick'[x].pc, batch |-> tick'[x].batch,
                                  results |-> tick'[x].results, tx |-> tick'[x].tx]]
    <3>1. tick' = [x \in Ticks |-> IF x = t THEN s ELSE tick[x]]
      BY <2>3 DEF Becomes, Inv, Shaped
    <3> QED BY <3>1, <2>6, <2>7, <1>t
  <2>9. Shaped'
    BY <2>3, <2>4, <2>5, <2>6, <2>7, <2>8 DEF Inv, Shaped
  <2>10. ASSUME NEW u, InQueue(u) PROVE InQueue(u)' \/ \E i \in DOMAIN batch : batch[i] = u
    <3>1. PICK i \in 1 .. Len(queue) : queue[i] = u
      BY <2>2, <2>10 DEF InQueue
    <3>2. CASE i <= n
      BY <3>1, <3>2, <2>2, <2>4, LenProperties
    <3>3. CASE i > n
      <4>1. i - n \in 1 .. Len(queue) - n /\ n + (i - n) = i
        BY <3>1, <3>3, <2>2
      <4>2. i - n \in DOMAIN queue' /\ queue'[i - n] = u
        BY <4>1, <3>1, <2>5, LenProperties
      <4> QED BY <4>2 DEF InQueue
    <3> QED BY <3>1, <3>2, <3>3, <2>2
  <2>11. NoLostMark'
    <3> SUFFICES ASSUME NEW u \in unread
                 PROVE  \/ InQueue(u)' \/ u \in dropped
                        \/ \E x \in Ticks : tick'[x].pc = "checking"
                             /\ \E i \in DOMAIN tick'[x].batch : tick'[x].batch[i] = u
      BY <2>3 DEF NoLostMark
    <3>1. CASE InQueue(u)
      BY <3>1, <2>6, <2>7, <2>10
    <3>2. CASE \E x \in Ticks : tick[x].pc = "checking"
                 /\ \E i \in DOMAIN tick[x].batch : tick[x].batch[i] = u
      BY <3>2, <2>3, <2>7 DEF MayStart
    <3> QED BY <3>1, <3>2 DEF Inv, NoLostMark
  <2>12. Alone'
    BY <2>3, <2>6, <2>7 DEF Inv, Alone, MayStart, HasPending, Current, Busy
  <2> QED BY <2>9, <2>11, <2>12 DEF Inv
<1>5. ASSUME NEW t \in Ticks, CheckBatch(t), UNCHANGED setting PROVE Inv'
  <2> DEFINE known(answered) == Among(tick[t].batch, answered)
             read(answered) ==
               [pc |-> IF known(answered) = <<>> THEN "idle" ELSE "scanning", batch |-> <<>>,
                results |-> [i \in DOMAIN known(answered) |->
                  [user |-> known(answered)[i],
                   exec |-> Executable(account[known(answered)[i]])]],
                tx |-> "none"]
  <2>a. PICK answered \in SUBSET {tick[t].batch[i] : i \in DOMAIN tick[t].batch} :
          /\ Becomes(t, read(answered))
          /\ unread' = unread \ answered
          /\ dropped' = (dropped \ answered)
               \cup ({tick[t].batch[i] : i \in DOMAIN tick[t].batch} \ answered)
    BY <1>5 DEF CheckBatch
  <2> HIDE DEF known
  <2>b. /\ read(answered).pc \in {"idle", "scanning"}
        /\ read(answered) = [pc |-> read(answered).pc, batch |-> read(answered).batch,
                             results |-> read(answered).results, tx |-> read(answered).tx]
    OBVIOUS
  <2>0. /\ \E s : /\ Becomes(t, s) /\ s.pc \in {"idle", "scanning"}
                  /\ s = [pc |-> s.pc, batch |-> s.batch, results |-> s.results, tx |-> s.tx]
        /\ unread' = unread \ answered
        /\ dropped' = (dropped \ answered)
             \cup ({tick[t].batch[i] : i \in DOMAIN tick[t].batch} \ answered)
    <3> HIDE DEF read
    <3> QED BY <2>a, <2>b
  <2>1. PICK s :
          /\ Becomes(t, s) /\ s.pc \in {"idle", "scanning"}
          /\ s = [pc |-> s.pc, batch |-> s.batch, results |-> s.results, tx |-> s.tx]
    BY <2>0
  <2>2. tick[t].pc = "checking" /\ UNCHANGED <<late, multi, queue, last, flying>>
    BY <1>5 DEF CheckBatch
  <2>3. \A x \in Ticks : tick'[x] = IF x = t THEN s ELSE tick[x]
    BY <2>1 DEF Becomes, Inv, Shaped
  <2>4. tick' = [x \in Ticks |-> [pc |-> tick'[x].pc, batch |-> tick'[x].batch,
                                  results |-> tick'[x].results, tx |-> tick'[x].tx]]
    <3>1. tick' = [x \in Ticks |-> IF x = t THEN s ELSE tick[x]]
      BY <2>1 DEF Becomes, Inv, Shaped
    <3> QED BY <3>1, <2>1, <2>3, <1>t
  <2>5. Shaped'
    BY <2>1, <2>2, <2>3, <2>4 DEF Inv, Shaped
  <2>6. NoLostMark'
    <3> SUFFICES ASSUME NEW u \in unread'
                 PROVE  \/ InQueue(u)' \/ u \in dropped'
                        \/ \E x \in Ticks : tick'[x].pc = "checking"
                             /\ \E i \in DOMAIN tick'[x].batch : tick'[x].batch[i] = u
      BY DEF NoLostMark
    <3>1. u \in unread /\ u \notin answered
      BY <2>0
    <3>2. CASE InQueue(u)
      BY <3>2, <2>2 DEF InQueue
    <3>3. CASE u \in dropped
      BY <3>1, <3>3, <2>0
    <3>4. ASSUME NEW x \in Ticks, tick[x].pc = "checking",
                 \E i \in DOMAIN tick[x].batch : tick[x].batch[i] = u
          PROVE  u \in dropped' \/ tick'[x] = tick[x]
      BY <3>1, <3>4, <2>0, <2>3
    <3> QED BY <3>1, <3>2, <3>3, <3>4 DEF Inv, NoLostMark
  <2>7. Alone'
    BY <2>1, <2>2, <2>3 DEF Inv, Alone, HasPending, Current, Busy
  <2> QED BY <2>5, <2>6, <2>7 DEF Inv
<1>6. ASSUME NEW t \in Ticks, Skip(t), UNCHANGED setting PROVE Inv'
  <2>1. last' = last /\ flying' = flying /\ last = [u \in Users |-> last[u]]
    BY <1>6 DEF Skip, Inv, Shaped
  <2>2. \A u \in Users : ~late /\ multi => flying[u] \in {0, 1} /\ (flying[u] = 1 => last[u] = "pending")
    BY DEF Inv, Alone, HasPending
  <2> QED BY <1>6, <1>f, <2>1, <2>2, IsDone DEF Skip
<1>7. ASSUME NEW t \in Ticks, UsePlan(t), UNCHANGED setting PROVE Inv'
  <2>1. CASE enabled
    <3>1. Becomes(t, [pc |-> "nonce", batch |-> tick[t].batch,
                      results |-> tick[t].results, tx |-> tick[t].tx])
      BY <1>7, <1>p, <2>1 DEF UsePlan
    <3> QED BY <1>7, <2>1, <3>1, GoesOn DEF UsePlan, Executing, Busy
  <2>2. CASE ~enabled
    BY <1>7, <2>2, IsRecorded DEF UsePlan, Executing
  <2> QED BY <2>1, <2>2
<1>8. ASSUME NEW t \in Ticks, MissPlan(t), UNCHANGED setting PROVE Inv'
  <2>1. Becomes(t, [pc |-> "building", batch |-> tick[t].batch,
                    results |-> tick[t].results, tx |-> tick[t].tx])
    BY <1>8, <1>p DEF MissPlan
  <2> QED BY <1>8, <2>1, GoesOn DEF MissPlan, Executing, Busy
<1>b. \A t \in Ticks : tick[t].pc \in Busy => (~late => ~HasPending(Current(t)))
  BY DEF Inv, Alone
<1>9. ASSUME NEW t \in Ticks, Build(t), UNCHANGED setting PROVE Inv'
  <2>0. tick[t].pc = "building" /\ (~late => ~HasPending(Current(t)))
    BY <1>9, <1>b DEF Build, Busy
  <2>1. CASE Becomes(t, [tick[t] EXCEPT !.pc = "quoting"]) /\ UNCHANGED last
    <3>1. Becomes(t, [pc |-> "quoting", batch |-> tick[t].batch,
                      results |-> tick[t].results, tx |-> tick[t].tx])
      BY <1>p, <2>1
    <3> QED BY <1>9, <2>0, <2>1, <3>1, GoesOn DEF Build, Busy
  <2>2. ASSUME Becomes(t, Rest(t)), NEW status, Record(Current(t), status) PROVE Inv'
    BY <1>9, <2>0, <2>2, IsRecorded DEF Build
  <2> QED BY <1>9, <2>1, <2>2 DEF Build
<1>10. ASSUME NEW t \in Ticks, Quote(t), UNCHANGED setting PROVE Inv'
  <2>0. tick[t].pc = "quoting" /\ (~late => ~HasPending(Current(t)))
    BY <1>10, <1>b DEF Quote, Busy
  <2>1. CASE Becomes(t, [tick[t] EXCEPT !.pc = "nonce"]) /\ UNCHANGED last
    <3>1. Becomes(t, [pc |-> "nonce", batch |-> tick[t].batch,
                      results |-> tick[t].results, tx |-> tick[t].tx])
      BY <1>p, <2>1
    <3> QED BY <1>10, <2>0, <2>1, <3>1, GoesOn DEF Quote, Busy
  <2>2. CASE Becomes(t, Rest(t)) /\ Record(Current(t), "error")
    BY <1>10, <2>0, <2>2, IsRecorded DEF Quote
  <2> QED BY <1>10, <2>1, <2>2 DEF Quote
<1>11. ASSUME NEW t \in Ticks, AskNonce(t), UNCHANGED setting PROVE Inv'
  <2>0. tick[t].pc = "nonce" /\ (~late => ~HasPending(Current(t)))
    BY <1>11, <1>b DEF AskNonce, Busy
  <2>1. CASE Becomes(t, [tick[t] EXCEPT !.pc = "sending"]) /\ UNCHANGED last
    <3>1. Becomes(t, [pc |-> "sending", batch |-> tick[t].batch,
                      results |-> tick[t].results, tx |-> tick[t].tx])
      BY <1>p, <2>1
    <3> QED BY <1>11, <2>0, <2>1, <3>1, GoesOn DEF AskNonce, Busy
  <2>2. CASE Becomes(t, Rest(t)) /\ Record(Current(t), "error")
    BY <1>11, <2>0, <2>2, IsRecorded DEF AskNonce
  <2> QED BY <1>11, <2>1, <2>2 DEF AskNonce
<1>12. ASSUME NEW t \in Ticks, Send(t) \/ Acknowledge(t), UNCHANGED setting PROVE Inv'
  <2>1. PICK tx \in {"unheard", "alive"} : Becomes(t, [tick[t] EXCEPT !.tx = tx])
    BY <1>12 DEF Send, Acknowledge
  <2>2. tick[t].pc = "sending" /\ (~late => ~HasPending(Current(t)))
    BY <1>12, <1>b DEF Send, Acknowledge, Busy
  <2>3. Becomes(t, [pc |-> "sending", batch |-> tick[t].batch,
                    results |-> tick[t].results, tx |-> tx])
    BY <1>x, <2>1, <2>2
  <2> QED BY <1>12, <2>2, <2>3, GoesOn DEF Send, Acknowledge, Busy
<1>13. ASSUME NEW t \in Ticks, Land(t), UNCHANGED setting PROVE Inv'
  <2>1. PICK tx \in {"ok", "reverted", "lost"} : Becomes(t, [tick[t] EXCEPT !.tx = tx])
    BY <1>13 DEF Land
  <2>2. tick[t].pc = "sending" /\ (~late => ~HasPending(Current(t)))
    BY <1>13, <1>b DEF Land, Busy
  <2>3. Becomes(t, [pc |-> "sending", batch |-> tick[t].batch,
                    results |-> tick[t].results, tx |-> tx])
    BY <1>x, <2>1, <2>2
  <2> QED BY <1>13, <2>2, <2>3, GoesOn DEF Land, Busy
<1>14. ASSUME NEW t \in Ticks, AttemptEnds(t), UNCHANGED setting PROVE Inv'
  <2> DEFINE u == Current(t)
  <2>0. tick[t].pc = "sending" /\ (~late => ~HasPending(u))
    BY <1>14, <1>b DEF AttemptEnds, Busy
  <2>1. PICK status : Record(u, status) /\ (multi /\ tick[t].tx = "alive" => status = "pending")
    BY <1>14 DEF AttemptEnds, Outcomes, Heard
  <2>2. /\ flying' = IF tick[t].tx = "alive" THEN [flying EXCEPT ![u] = @ + 1] ELSE flying
        /\ Becomes(t, Rest(t)) /\ UNCHANGED <<queue, unread, dropped>>
    BY <1>14 DEF AttemptEnds
  <2> HIDE DEF u
  <2>a. last' = [v \in Users |-> last'[v]]
    BY <2>1 DEF Record, Inv, Shaped
  <2>b. flying' \in [Users -> Nat]
    <3>1. \A v \in Users : flying[v] + 1 \in Nat
      BY <1>f
    <3>2. CASE tick[t].tx = "alive"
      BY <1>f, <2>2, <3>1, <3>2
    <3>3. CASE tick[t].tx # "alive"
      BY <1>f, <2>2, <3>3
    <3> QED BY <3>2, <3>3
  <2>4. \A v \in Users \ {u} : last'[v] = last[v] /\ flying'[v] = flying[v]
    BY <1>f, <2>1, <2>2 DEF Record, Inv, Shaped
  <2>5. ASSUME ~late, multi, u \in Users
        PROVE  flying'[u] \in {0, 1} /\ (flying'[u] = 1 => last'[u] = "pending")
    <3>1. flying[u] = 0
      BY <2>0, <2>5 DEF Inv, Alone
    <3>2. last'[u] = status
      BY <2>1, <2>5 DEF Record, Inv, Shaped
    <3>3. flying'[u] = IF tick[t].tx = "alive" THEN 1 ELSE 0
      BY <1>f, <2>2, <2>5, <3>1
    <3> QED BY <2>1, <2>5, <3>2, <3>3
  <2> QED BY <1>14, <2>0, <2>2, <2>a, <2>b, <2>4, <2>5, IsDone DEF u
<1> QED
  BY <1>1, <1>2, <1>3, <1>4, <1>5, <1>6, <1>7, <1>8, <1>9, <1>10, <1>11, <1>12, <1>13,
     <1>14 DEF Next, TickStep

LEMMA Inductive == Spec => []Inv
  BY InvInit, InvNext, PTL DEF Spec

\* Marks are not lost between listener, queue, overlapping ticks and their batches, however
\* events, timers and failing checks interleave.
THEOREM MarksAreKept == Spec => []NoLostMark
<1>1. Inv => NoLostMark
  BY DEF Inv
<1> QED BY <1>1, Inductive, PTL

\* While no tick outlasts its interval, a pending attempt holds back the next for good, so
\* that two transactions for one user are never under way, whatever answers get lost.
THEOREM OneLive == Spec => []OneLiveTransaction
<1>1. Inv => OneLiveTransaction
  <2> SUFFICES ASSUME Inv, ~late, multi, NEW u \in Users PROVE Acknowledged(u) <= 1
    BY DEF OneLiveTransaction
  <2> DEFINE S == {t \in Ticks : tick[t].pc = "sending" /\ tick[t].tx = "alive"
                                 /\ Current(t) = u}
  <2>0. Acknowledged(u) = Cardinality(S) + flying[u]
    BY DEF Acknowledged
  <2>1. flying[u] \in {0, 1}
    BY DEF Inv, Alone
  <2>2. CASE S = {}
    <3>1. Cardinality(S) = 0
      BY <2>2, FS_EmptySet
    <3> QED BY <2>0, <2>1, <3>1
  <2>3. CASE S # {}
    <3>1. PICK t \in Ticks : S = {t} /\ tick[t].pc = "sending" /\ Current(t) = u
      BY <2>3 DEF Inv, Alone
    <3>2. Cardinality(S) = 1
      BY <3>1, FS_Singleton
    <3>3. flying[u] = 0
      BY <3>1, <2>1 DEF Inv, Alone, Busy
    <3> QED BY <2>0, <3>2, <3>3
  <2> QED BY <2>2, <2>3
<1> QED BY <1>1, Inductive, PTL

-----------------------------------------------------------------------------
\* The types, for which the answers of a check are among the users that were asked.

\* Counting the places up to each numbers them in their order, so Place finds the n-th.
LEMMA PlacesInOrder ==
  ASSUME NEW m \in Nat, NEW places \in SUBSET (1 .. m)
  PROVE  /\ Cardinality(places) \in 0 .. m
         /\ \A n \in 1 .. Cardinality(places) : Place(n, places) \in places
         /\ \A k, n \in 1 .. Cardinality(places) :
              k < n => Place(k, places) < Place(n, places)
         /\ \A i \in places : \E n \in 1 .. Cardinality(places) : Place(n, places) = i
<1> DEFINE UpTo(i) == {j \in places : j <= i}
           count == [i \in places |-> Cardinality(UpTo(i))]
           c == Cardinality(places)
<1>0. \A i \in places : i \in Int
  OBVIOUS
<1>1. IsFiniteSet(1 .. m) /\ Cardinality(1 .. m) = m
  BY FS_Interval
<1>2. IsFiniteSet(places) /\ c <= m
  BY <1>1, FS_Subset
<1>3. c \in Nat
  BY <1>2, FS_CardinalityType
<1>4. ASSUME NEW i \in places PROVE IsFiniteSet(UpTo(i)) /\ Cardinality(UpTo(i)) \in 1 .. c
  <2>1. IsFiniteSet(UpTo(i)) /\ Cardinality(UpTo(i)) <= c
    <3>1. UpTo(i) \in SUBSET places
      OBVIOUS
    <3> QED BY <1>2, <3>1, FS_Subset
  <2>2. Cardinality(UpTo(i)) \in Nat
    BY <2>1, FS_CardinalityType
  <2>3. Cardinality(UpTo(i)) # 0
    <3>1. i \in UpTo(i)
      OBVIOUS
    <3> QED BY <2>1, <3>1, FS_EmptySet
  <2> QED BY <1>3, <2>1, <2>2, <2>3
<1>5. ASSUME NEW i \in places, NEW k \in places, i < k PROVE count[i] < count[k]
  <2>0. i \in Int /\ k \in Int /\ k <= k /\ ~ k <= i
    BY <1>0, <1>5
  <2>1. UpTo(i) \in SUBSET UpTo(k) /\ k \in UpTo(k) /\ k \notin UpTo(i)
    <3>1. \A j \in places : j <= i => j <= k
      BY <1>0, <1>5
    <3> QED BY <2>0, <3>1
  <2>2. Cardinality(UpTo(i)) <= Cardinality(UpTo(k))
        /\ (Cardinality(UpTo(k)) = Cardinality(UpTo(i)) => UpTo(k) = UpTo(i))
    BY <1>4, <2>1, FS_Subset
  <2>3. Cardinality(UpTo(i)) \in Nat /\ Cardinality(UpTo(k)) \in Nat
    BY <1>4, <1>3
  <2> HIDE DEF UpTo
  <2> QED BY <2>1, <2>2, <2>3
<1>6. count \in [places -> 1 .. c]
  BY <1>4
<1>7. count \in Injection(places, 1 .. c)
  <2>1. ASSUME NEW i \in places, NEW k \in places, count[i] = count[k] PROVE i = k
    <3>1. i \in Int /\ k \in Int
      OBVIOUS
    <3>2. count[i] \in Int /\ count[k] \in Int
      BY <1>6, <1>3
    <3> HIDE DEF count
    <3> QED BY <3>1, <3>2, <2>1, <1>5
  <2> HIDE DEF count
  <2> QED BY <1>6, <2>1 DEF Injection, IsInjective
<1>8. count \in Surjection(places, 1 .. c)
  <2>1. IsFiniteSet(1 .. c) /\ Cardinality(1 .. c) = c
    BY <1>3, FS_Interval
  <2> QED BY <1>7, <2>1, FS_Injection
<1>9. ASSUME NEW n \in 1 .. c
      PROVE  Place(n, places) \in places /\ count[Place(n, places)] = n
  <2>1. PICK i \in places : count[i] = n
    BY <1>8 DEF Surjection
  <2>2. \E x \in places : Cardinality({j \in places : j <= x}) = n
    BY <2>1
  <2> QED BY <2>2 DEF Place
<1>10. ASSUME NEW k \in 1 .. c, NEW n \in 1 .. c, k < n
       PROVE  Place(k, places) < Place(n, places)
  <2>1. Place(k, places) \in places /\ Place(n, places) \in places
    BY <1>9, Zenon
  <2>2. c \in Int /\ k \in Int /\ n \in Int
    BY <1>3
  <2>3. count[Place(k, places)] = k /\ count[Place(n, places)] = n
    BY <1>9, Zenon
  <2>4. PICK x \in places, y \in places : x = Place(k, places) /\ y = Place(n, places)
    BY <2>1
  <2>5. count[x] = k /\ count[y] = n /\ x \in Int /\ y \in Int
    BY <1>0, <2>3, <2>4
  <2>6. ~ y < x
    <3> HIDE DEF count
    <3> SUFFICES ASSUME y < x PROVE FALSE
      OBVIOUS
    <3>1. count[y] < count[x]
      BY <1>5
    <3> QED BY <1>10, <2>2, <2>5, <3>1
  <2>7. x # y
    BY <1>10, <2>2, <2>5
  <2> QED BY <2>4, <2>5, <2>6, <2>7
<1>11. ASSUME NEW i \in places PROVE \E n \in 1 .. c : Place(n, places) = i
  <2>1. count[i] \in 1 .. c
    BY <1>6
  <2>2. Place(count[i], places) \in places /\ count[Place(count[i], places)] = count[i]
    BY <1>9, <2>1
  <2>3. Place(count[i], places) = i
    <3> HIDE DEF count
    <3> QED BY <1>7, <2>2 DEF Injection, IsInjective
  <2> QED BY <2>1, <2>3
<1>12. c \in 0 .. m
  BY <1>2, <1>3
<1> HIDE DEF count, c
<1> QED BY <1>9, <1>10, <1>11, <1>12, Zenon DEF c

\* What Among leaves out, it leaves out; the rest stays in its order.
LEMMA AmongKeeps ==
  ASSUME NEW T, NEW s \in Seq(T), NEW S
  PROVE  /\ Among(s, S) \in Seq(T) /\ Len(Among(s, S)) <= Len(s)
         /\ \E f \in [1 .. Len(Among(s, S)) -> 1 .. Len(s)] :
              /\ \A n \in 1 .. Len(Among(s, S)) : Among(s, S)[n] = s[f[n]] /\ s[f[n]] \in S
              /\ \A k, n \in 1 .. Len(Among(s, S)) : k < n => f[k] < f[n]
              /\ \A i \in 1 .. Len(s) :
                   s[i] \in S => \E n \in 1 .. Len(Among(s, S)) : f[n] = i
<1> DEFINE places == {i \in DOMAIN s : s[i] \in S}
           c == Cardinality(places)
           f == [n \in 1 .. c |-> Place(n, places)]
<1>1. Len(s) \in Nat /\ DOMAIN s = 1 .. Len(s) /\ \A i \in 1 .. Len(s) : s[i] \in T
  OBVIOUS
<1>2. places \in SUBSET (1 .. Len(s))
  BY <1>1
<1>3. /\ c \in 0 .. Len(s)
      /\ \A n \in 1 .. c : Place(n, places) \in places
      /\ \A k, n \in 1 .. c : k < n => Place(k, places) < Place(n, places)
      /\ \A i \in places : \E n \in 1 .. c : Place(n, places) = i
  <2> HIDE DEF places
  <2> QED BY <1>1, <1>2, PlacesInOrder
<1>4. Among(s, S) = [n \in 1 .. c |-> s[Place(n, places)]]
  BY DEF Among
<1>5. \A i \in places : i \in 1 .. Len(s) /\ s[i] \in S /\ s[i] \in T
  BY <1>1
<1>6. \A i \in 1 .. Len(s) : s[i] \in S => i \in places
  BY <1>1
<1> HIDE DEF places, c
<1>7. Among(s, S) \in Seq(T) /\ Len(Among(s, S)) = c
  BY <1>3, <1>4, <1>5
<1>8. /\ f \in [1 .. c -> 1 .. Len(s)]
      /\ \A n \in 1 .. c : Among(s, S)[n] = s[f[n]] /\ s[f[n]] \in S
      /\ \A k, n \in 1 .. c : k < n => f[k] < f[n]
      /\ \A i \in 1 .. Len(s) : s[i] \in S => \E n \in 1 .. c : f[n] = i
  BY <1>3, <1>4, <1>5, <1>6
<1> HIDE DEF f
<1>9. Among(s, S) \in Seq(T) /\ Len(Among(s, S)) <= Len(s)
  BY <1>1, <1>3, <1>7
<1>10. \E g \in [1 .. c -> 1 .. Len(s)] :
         /\ \A n \in 1 .. c : Among(s, S)[n] = s[g[n]] /\ s[g[n]] \in S
         /\ \A k, n \in 1 .. c : k < n => g[k] < g[n]
         /\ \A i \in 1 .. Len(s) : s[i] \in S => \E n \in 1 .. c : g[n] = i
  BY <1>8, Zenon
<1>11. c = Len(Among(s, S))
  BY <1>7
<1> QED BY <1>9, <1>10, <1>11, Zenon

Under(s) == s.pc \notin {"idle", "checking"} => s.results # <<>>

LEMMA TickTyped ==
  ASSUME TypeOK, NEW t \in Ticks, NEW s \in TickState, Under(s), Becomes(t, s)
  PROVE  /\ tick' \in [Ticks -> TickState]
         /\ \A x \in Ticks : tick'[x].pc \notin {"idle", "checking"} => tick'[x].results # <<>>
<1>1. tick \in [Ticks -> TickState]
  BY DEF TypeOK
<1>2. tick' \in [Ticks -> TickState] /\ \A x \in Ticks : tick'[x] = IF x = t THEN s ELSE tick[x]
  BY <1>1 DEF Becomes
<1> QED BY <1>2 DEF Under, TypeOK

LEMMA RestTyped ==
  ASSUME TypeOK, NEW t \in Ticks, tick[t].pc \notin {"idle", "checking"}
  PROVE  Rest(t) \in TickState /\ Under(Rest(t)) /\ Current(t) \in Users
<1> DEFINE Answer == [user : Users, exec : BOOLEAN]
<1>1. PICK r \in Seq(Answer) : r = tick[t].results /\ r # <<>>
  BY DEF TypeOK, TickState
<1> HIDE DEF Answer
<1>2. Len(r) \in Nat /\ Len(r) # 0 /\ Head(r) \in Answer
  BY <1>1, EmptySeq, LenProperties, HeadTailProperties
<1>3. Current(t) \in Users
  BY <1>1, <1>2 DEF Current, Answer
<1>4. IdleTick \in TickState /\ Under(IdleTick)
  BY DEF IdleTick, TickState, Transactions, Under
<1>5. CASE Len(r) = 1
  BY <1>1, <1>3, <1>4, <1>5 DEF Rest
<1>6. CASE Len(r) # 1
  <2>1. Tail(r) \in Seq(Answer) /\ Len(Tail(r)) = Len(r) - 1
    BY <1>1, HeadTailProperties
  <2>2. Tail(r) # <<>>
    <3>1. Len(Tail(r)) # 0
      BY <1>2, <1>6, <2>1
    <3> QED BY <2>1, <3>1, EmptySeq
  <2>3. Rest(t) = [pc |-> "scanning", batch |-> <<>>, results |-> Tail(r), tx |-> "none"]
    BY <1>1, <1>6 DEF Rest, IdleTick
  <2> QED BY <1>3, <2>1, <2>2, <2>3 DEF TickState, Transactions, Under, Answer
<1> QED BY <1>5, <1>6

\* A step of a tick that records at most an outcome.
LEMMA RecordTyped ==
  ASSUME TypeOK, NEW t \in Ticks, tick[t].pc \notin {"idle", "checking"},
         NEW s \in TickState, Under(s), Becomes(t, s),
         UNCHANGED last \/ \E status \in Statuses : Record(Current(t), status),
         UNCHANGED <<enabled, late, multi, chainVars, queue, rescore, unread, dropped>>,
         cache' \subseteq Users
  PROVE  TypeOK'
<1>1. last' \in [Users -> Statuses \cup {"none"}]
  BY DEF Record, TypeOK
<1>2. /\ tick' \in [Ticks -> TickState]
      /\ \A x \in Ticks : tick'[x].pc \notin {"idle", "checking"} => tick'[x].results # <<>>
  BY TickTyped
<1> QED BY <1>1, <1>2 DEF TypeOK, chainVars

LEMMA TypeInit == Init => TypeOK
<1> SUFFICES ASSUME Init PROVE TypeOK
  OBVIOUS
<1>1. IdleTick \in TickState /\ IdleTick.pc = "idle"
  BY DEF IdleTick, TickState, Transactions
<1>2. tick \in [Ticks -> TickState] /\ \A t \in Ticks : tick[t].pc = "idle"
  BY <1>1 DEF Init
<1>3. /\ account \in [Users -> Accounts] /\ moves \in 0 .. MaxMoves
      /\ queue \in Seq(Users)
  BY PipelineAssumption DEF Init, Accounts
<1> QED BY <1>2, <1>3 DEF Init, TypeOK

\* The chain's steps.
LEMMA ChainTyped ==
  ASSUME TypeOK, NEW u \in Users, UserStep(u), UNCHANGED setting
  PROVE  TypeOK'
<1> USE DEF setting, chainVars
<1>1. ASSUME NEW a \in Accounts, Move(u, a)
      PROVE  account' \in [Users -> Accounts] /\ moves' \in 0 .. MaxMoves
  BY <1>1, PipelineAssumption DEF Move, TypeOK
<1>2. CASE PriceMove(u)
  <2>1. PICK a \in Accounts : Move(u, a)
    BY <1>2 DEF PriceMove
  <2> QED BY <1>1, <1>2, <2>1 DEF PriceMove, TypeOK
<1>3. CASE UserMove(u)
  <2>1. PICK a \in Accounts : Move(u, a)
    BY <1>3 DEF UserMove
  <2> QED BY <1>1, <1>3, <2>1 DEF UserMove, TypeOK
<1>4. CASE LandLate(u) \/ Forget(u)
  <2>1. account' \in [Users -> Accounts]
    BY <1>4 DEF LandLate, Forget, Executes, Accounts, TypeOK
  <2>2. flying' \in [Users -> Nat] /\ astray' \in [Users -> Nat]
    <3>1. flying \in [Users -> Nat] /\ astray \in [Users -> Nat] /\ Settles(u)
      BY <1>4 DEF LandLate, Forget, TypeOK
    <3>2. CASE flying[u] > 0 /\ flying' = [flying EXCEPT ![u] = @ - 1] /\ UNCHANGED astray
      <4>1. flying[u] - 1 \in Nat
        BY <3>1, <3>2
      <4> QED BY <3>1, <3>2, <4>1
    <3>3. CASE astray[u] > 0 /\ astray' = [astray EXCEPT ![u] = @ - 1] /\ UNCHANGED flying
      <4>1. astray[u] - 1 \in Nat
        BY <3>1, <3>3
      <4> QED BY <3>1, <3>3, <4>1
    <3> QED BY <3>1, <3>2, <3>3 DEF Settles
  <2> QED BY <1>4, <2>1, <2>2 DEF LandLate, Forget, TypeOK
<1>5. CASE Deliver(u)
  <2>1. queue' \in Seq(Users)
    <3>1. queue \in Seq(Users) /\ Append(queue, u) \in Seq(Users)
      BY DEF TypeOK
    <3> QED BY <1>5, <3>1 DEF Deliver, MarkDirty
  <2> QED BY <1>5, <2>1 DEF Deliver, TypeOK
<1>6. CASE EvictPlan(u)
  BY <1>6 DEF EvictPlan, TypeOK
<1> QED BY <1>2, <1>3, <1>4, <1>5, <1>6 DEF UserStep

\* PredictiveLoop's steps.
LEMMA RescoreTyped ==
  ASSUME TypeOK, NEW p \in Rescores, RescoreStep(p), UNCHANGED setting
  PROVE  TypeOK'
<1> USE DEF setting, chainVars
<1>1. rescore \in [Rescores -> Users \cup {NoUser}] /\ cache \subseteq Users
  BY DEF TypeOK
<1>2. CASE \E u \in Users : Rescore(p, u)
  <2>1. rescore' \in [Rescores -> Users \cup {NoUser}]
    BY <1>1, <1>2 DEF Rescore
  <2> QED BY <1>2, <2>1 DEF Rescore, TypeOK
<1>3. CASE Prepare(p)
  <2>1. rescore' \in [Rescores -> Users \cup {NoUser}] /\ cache' \subseteq Users
    BY <1>1, <1>3 DEF Prepare
  <2> QED BY <1>3, <2>1 DEF Prepare, TypeOK
<1>4. CASE PrepareFails(p)
  <2>1. rescore' \in [Rescores -> Users \cup {NoUser}]
    BY <1>1, <1>4 DEF PrepareFails
  <2> QED BY <1>4, <2>1 DEF PrepareFails, TypeOK
<1> QED BY <1>2, <1>3, <1>4 DEF RescoreStep

\* VerifierLoop takes a batch and its answers come.
LEMMA BatchTyped ==
  ASSUME TypeOK, NEW t \in Ticks, TakeBatch(t) \/ CheckBatch(t), UNCHANGED setting
  PROVE  TypeOK'
<1> USE DEF setting, chainVars
<1>1. queue \in Seq(Users) /\ tick[t] \in TickState
  BY DEF TypeOK
<1>2. CASE TakeBatch(t)
  <2> DEFINE n == Shorter(BatchSize, Len(queue))
  <2>1. Len(queue) \in Nat /\ n \in 0 .. Len(queue)
    BY <1>1, LenProperties, PipelineAssumption DEF Shorter
  <2>2. \A i \in 1 .. Len(queue) : queue[i] \in Users
    BY <1>1, ElementOfSeq
  <2>3. SubSeq(queue, 1, n) \in Seq(Users) /\ SubSeq(queue, n + 1, Len(queue)) \in Seq(Users)
    <3> HIDE DEF n
    <3> QED BY <2>1, <2>2, SubSeqProperties
  <2> HIDE DEF n
  <2>4. PICK s : s = [pc |-> "checking", batch |-> SubSeq(queue, 1, n), results |-> <<>>,
                      tx |-> "none"]
    OBVIOUS
  <2>5. Becomes(t, s) /\ queue' = SubSeq(queue, n + 1, Len(queue))
    BY <1>2, <2>4 DEF TakeBatch, n
  <2>6. s \in TickState /\ Under(s)
    BY <2>3, <2>4 DEF TickState, Transactions, Under
  <2>7. /\ tick' \in [Ticks -> TickState]
        /\ \A x \in Ticks : tick'[x].pc \notin {"idle", "checking"} => tick'[x].results # <<>>
    BY <2>5, <2>6, TickTyped
  <2> QED BY <1>2, <2>3, <2>5, <2>7 DEF TakeBatch, TypeOK
<1>3. CASE CheckBatch(t)
  <2>1. PICK answered :
          /\ Becomes(t, [pc |-> IF Among(tick[t].batch, answered) = <<>> THEN "idle"
                                ELSE "scanning",
                         batch |-> <<>>,
                         results |-> [i \in DOMAIN Among(tick[t].batch, answered) |->
                           [user |-> Among(tick[t].batch, answered)[i],
                            exec |-> Executable(account[Among(tick[t].batch, answered)[i]])]],
                         tx |-> "none"])
          /\ unread' = unread \ answered
          /\ dropped' = (dropped \ answered)
               \cup ({tick[t].batch[i] : i \in DOMAIN tick[t].batch} \ answered)
    BY <1>3 DEF CheckBatch
  <2>2. PICK batch \in Seq(Users) : batch = tick[t].batch
    BY <1>1 DEF TickState
  <2>3. PICK known \in Seq(Users) : known = Among(batch, answered)
    BY <2>2, AmongKeeps
  <2>4. PICK results : results = [i \in DOMAIN known |->
                                   [user |-> known[i], exec |-> Executable(account[known[i]])]]
    OBVIOUS
  <2>5. results \in Seq([user : Users, exec : BOOLEAN]) /\ Len(results) = Len(known)
    <3>1. Len(known) \in Nat /\ DOMAIN known = 1 .. Len(known)
          /\ \A i \in 1 .. Len(known) : known[i] \in Users
      BY LenProperties, ElementOfSeq
    <3> QED BY <2>4, <3>1 DEF Executable
  <2>6. PICK s : s = [pc |-> IF known = <<>> THEN "idle" ELSE "scanning", batch |-> <<>>,
                      results |-> results, tx |-> "none"]
    OBVIOUS
  <2>7. Becomes(t, s)
    BY <2>1, <2>2, <2>3, <2>4, <2>6
  <2>8. s \in TickState
    BY <2>5, <2>6 DEF TickState, Transactions
  <2>9. Under(s)
    <3>1. known # <<>> => Len(results) # 0
      BY <2>5, EmptySeq
    <3>2. known # <<>> => results # <<>>
      BY <3>1, EmptySeq
    <3> QED BY <2>6, <3>2 DEF Under
  <2>10. /\ tick' \in [Ticks -> TickState]
         /\ \A x \in Ticks : tick'[x].pc \notin {"idle", "checking"} => tick'[x].results # <<>>
    BY <2>7, <2>8, <2>9, TickTyped
  <2>11. dropped' \subseteq Users /\ unread' \subseteq Users
    <3>1. \A i \in DOMAIN batch : batch[i] \in Users
      BY LenProperties, ElementOfSeq
    <3> QED BY <2>1, <2>2, <3>1 DEF TypeOK
  <2> QED BY <1>3, <2>10, <2>11 DEF CheckBatch, TypeOK
<1> QED BY <1>2, <1>3

LEMMA OutcomesTyped == \A tx : Outcomes(tx) \subseteq Statuses
  BY DEF Outcomes, Statuses

\* onExecute's steps.
LEMMA ExecuteTyped ==
  ASSUME TypeOK, NEW t \in Ticks, UNCHANGED setting,
         \/ Skip(t) \/ UsePlan(t) \/ MissPlan(t) \/ Build(t) \/ Quote(t) \/ AskNonce(t)
         \/ AttemptEnds(t) \/ Send(t) \/ Acknowledge(t) \/ Land(t)
  PROVE  TypeOK'
<1> USE DEF setting, chainVars
<1>1. tick[t].pc \notin {"idle", "checking"}
  BY DEF Skip, UsePlan, MissPlan, Build, Quote, AskNonce, AttemptEnds, Send, Acknowledge,
         Land, Executing
<1>t. {"unheard", "alive", "ok", "reverted", "lost"} \subseteq Transactions
  BY DEF Transactions
<1>2. Rest(t) \in TickState /\ Under(Rest(t)) /\ Current(t) \in Users
  BY <1>1, RestTyped
<1>3. tick[t] \in TickState /\ tick[t].results # <<>> /\ cache \subseteq Users
  BY <1>1 DEF TypeOK
<1>4. ASSUME NEW pc \in {"building", "quoting", "nonce", "sending"}
      PROVE  [tick[t] EXCEPT !.pc = pc] \in TickState /\ Under([tick[t] EXCEPT !.pc = pc])
  BY <1>3 DEF TickState, Under
<1>5. ASSUME NEW tx \in Transactions
      PROVE  [tick[t] EXCEPT !.tx = tx] \in TickState /\ Under([tick[t] EXCEPT !.tx = tx])
  BY <1>3 DEF TickState, Under
<1>6. {"sent", "error", "skip_no_pair"} \subseteq Statuses
  BY DEF Statuses
<1>7. CASE Skip(t)
  BY <1>1, <1>2, <1>3, <1>7, RecordTyped DEF Skip
<1>8. CASE UsePlan(t)
  <2>1. \/ Becomes(t, [tick[t] EXCEPT !.pc = "nonce"]) /\ UNCHANGED last
        \/ Becomes(t, Rest(t)) /\ Record(Current(t), "sent")
    BY <1>8 DEF UsePlan
  <2> QED BY <1>1, <1>2, <1>3, <1>4, <1>6, <1>8, <2>1, RecordTyped DEF UsePlan
<1>9. CASE MissPlan(t)
  <2>1. cache' \subseteq Users
    BY <1>3, <1>9 DEF MissPlan
  <2> QED BY <1>1, <1>4, <1>9, <2>1, RecordTyped DEF MissPlan
<1>10. CASE Build(t) \/ Quote(t) \/ AskNonce(t)
  <2>1. /\ \/ /\ \E pc \in {"quoting", "nonce", "sending"} :
                   Becomes(t, [tick[t] EXCEPT !.pc = pc])
              /\ UNCHANGED last
           \/ /\ Becomes(t, Rest(t))
              /\ \E status \in {"sent", "error", "skip_no_pair"} : Record(Current(t), status)
        /\ UNCHANGED <<enabled, late, multi, chainVars, queue, rescore, cache, unread,
                       dropped>>
    BY <1>10 DEF Build, Quote, AskNonce
  <2>2. CASE \E pc \in {"quoting", "nonce", "sending"} : Becomes(t, [tick[t] EXCEPT !.pc = pc])
    BY <1>1, <1>3, <1>4, <1>6, <2>1, <2>2, RecordTyped
  <2>3. CASE Becomes(t, Rest(t))
    BY <1>1, <1>2, <1>3, <1>6, <2>1, <2>3, RecordTyped
  <2> QED BY <2>1, <2>2, <2>3
<1>11. CASE AttemptEnds(t)
  <2>1. PICK u \in Users : u = Current(t)
    BY <1>2
  <2>2. last' \in [Users -> Statuses \cup {"none"}]
    BY <1>11, <2>1, OutcomesTyped DEF AttemptEnds, Record, TypeOK
  <2>3. /\ flying' = IF tick[t].tx = "alive" THEN [flying EXCEPT ![u] = @ + 1] ELSE flying
        /\ astray' = IF tick[t].tx = "unheard" THEN [astray EXCEPT ![u] = @ + 1] ELSE astray
        /\ cache' = cache \ {u}
        /\ Becomes(t, Rest(t))
        /\ UNCHANGED <<enabled, late, multi, account, moves, news, queue, rescore, unread,
                       dropped>>
    BY <1>11, <2>1 DEF AttemptEnds
  <2>4. flying' \in [Users -> Nat] /\ astray' \in [Users -> Nat]
    <3>1. flying \in [Users -> Nat] /\ astray \in [Users -> Nat]
      BY DEF TypeOK
    <3>2. flying[u] + 1 \in Nat /\ astray[u] + 1 \in Nat
      BY <3>1
    <3>3. flying' \in [Users -> Nat]
      BY <2>3, <3>1, <3>2
    <3>4. astray' \in [Users -> Nat]
      BY <2>3, <3>1, <3>2
    <3> QED BY <3>3, <3>4
  <2>5. cache' \subseteq Users
    BY <1>3, <2>3
  <2>6. /\ tick' \in [Ticks -> TickState]
        /\ \A x \in Ticks : tick'[x].pc \notin {"idle", "checking"} => tick'[x].results # <<>>
    BY <1>2, <2>3, TickTyped
  <2> QED BY <2>2, <2>3, <2>4, <2>5, <2>6 DEF TypeOK
<1>12. CASE Send(t) \/ Acknowledge(t)
  BY <1>1, <1>3, <1>5, <1>t, <1>12, RecordTyped DEF Send, Acknowledge
<1>13. CASE Land(t)
  <2>1. PICK how \in {"ok", "reverted"}, tx \in {"ok", "reverted", "lost"} :
          Executes(Current(t), how) /\ Becomes(t, [tick[t] EXCEPT !.tx = tx])
    BY <1>13 DEF Land
  <2>2. account' \in [Users -> Accounts]
    BY <2>1 DEF Executes, Accounts, TypeOK
  <2>3. /\ tick' \in [Ticks -> TickState]
        /\ \A x \in Ticks : tick'[x].pc \notin {"idle", "checking"} => tick'[x].results # <<>>
    BY <1>5, <1>t, <2>1, TickTyped
  <2> QED BY <1>13, <2>2, <2>3 DEF Land, TypeOK
<1> QED BY <1>7, <1>8, <1>9, <1>10, <1>11, <1>12, <1>13

\* Every state of the pipeline is well typed: the queue, a batch and the results of its
\* check are of users, and a tick past its check has a result left.
THEOREM PipelineTypeCorrect == Spec => []TypeOK
<1>1. TypeOK /\ [Next]_vars => TypeOK'
  <2> SUFFICES ASSUME TypeOK, [Next]_vars PROVE TypeOK'
    OBVIOUS
  <2>1. CASE UNCHANGED vars
    BY <2>1 DEF vars, TypeOK
  <2>2. CASE Next
    <3>1. ASSUME NEW t \in Ticks, UNCHANGED setting,
                 TakeBatch(t) \/ TickStep(t) \/ Send(t) \/ Acknowledge(t) \/ Land(t)
          PROVE  TypeOK'
      BY <3>1, BatchTyped, ExecuteTyped DEF TickStep
    <3> QED BY <2>2, <3>1, ChainTyped, RescoreTyped DEF Next
  <2> QED BY <2>1, <2>2
<1> QED BY <1>1, TypeInit, PTL DEF Spec
=============================================================================
