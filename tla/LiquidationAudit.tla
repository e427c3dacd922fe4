---------------------------- MODULE LiquidationAudit ----------------------------
(***************************************************************************)
(* services/liquidationAudit.ts of the first bot with the decisions it     *)
(* asks for a reason (DecisionTraceStore, DecisionClassifier) and the      *)
(* classifier the README describes (LiquidationMissClassifier with         *)
(* executionDecisions.ts), which the program does not construct.  An audit *)
(* awaits the values in USD and the block before it gives its verdict,     *)
(* while decisions are made and other liquidations are audited.  Nobody    *)
(* but tests records decisions, detections or attempts; the program        *)
(* records predictive candidates.  RealTimeHFService tells the service no  *)
(* address of its own, so no liquidation is "ours", and no auto-heal.      *)
(***************************************************************************)
EXTENDS Integers, Sequences, FiniteSets

CONSTANTS
  Users,
  Audits,          \* bound: audits under way at one time
  MaxSize,         \* decisions a store keeps
  Ttl, Lookback,   \* life of a decision, how far back a decision is looked for
  Limit, Window,   \* liquidationAuditSampleLimit (0: none) per windowMs
  TransientBlocks, \* age at which cleanup forgets a first sample
  Kinds,           \* what decisions say: attempted, filtered by a gate, or why they were late
  Marks,           \* what the service notes of a user: detected, attempted, predicted ...
  MaxDecisions,    \* bound: decisions made
  MaxTime          \* bound: time, of one block each, that is followed

AuditAssumption ==
  /\ {MaxSize, Ttl, Window, MaxTime} \subseteq Nat \ {0}
  /\ {Lookback, Limit, TransientBlocks, MaxDecisions} \subseteq Nat /\ Lookback <= Ttl
  /\ Kinds \subseteq {"attempt", "revert", "filtered", "head_lag", "pricing_delay", "unknown"}
  /\ Marks \subseteq {"detected", "attempted", "predicted", "prestaged", "queued"}

VARIABLES
  clock,
  watched,      \* the users that are candidates
  decisions,    \* the store, oldest first
  firstSeen,    \* firstSeenMap: user -> block of the earliest HF below 1
  tracking,     \* user -> what the service's maps say of it
  sent,         \* RateLimiter: [count, windowStart]
  audits,
  verdict,      \* history: the last verdict
  made          \* history: every decision

vars == <<clock, watched, decisions, firstSeen, tracking, sent, audits, verdict, made>>

Decision == [user : Users, ts : 1 .. MaxTime, kind : Kinds]
None == [kind |-> "none"]
Idle == [at |-> "idle"]

TypeOK ==
  /\ clock \in 1 .. MaxTime
  /\ watched \subseteq Users
  /\ decisions \in Seq(Decision) /\ Len(decisions) <= MaxSize
  /\ made \in Seq(Decision)
  /\ DOMAIN firstSeen \subseteq Users /\ \A u \in DOMAIN firstSeen : firstSeen[u] \in 0 .. MaxTime
  /\ tracking \in [Users -> SUBSET Marks]
  /\ sent \in [count : 0 .. Limit, windowStart : 1 .. MaxTime]
  /\ audits \in [Audits -> {Idle} \cup [at : {"usd", "block"}, user : Users, inSet : BOOLEAN,
                                        seen : 0 .. MaxTime]]
  /\ verdict = None \/ verdict.trace \in Decision \cup {None}

Init ==
  /\ clock = 1 /\ watched \in SUBSET Users
  /\ decisions = <<>> /\ made = <<>> /\ firstSeen = <<>>
  /\ tracking = [u \in Users |-> {}]
  /\ sent = [count |-> 0, windowStart |-> 1]
  /\ audits = [a \in Audits |-> Idle]
  /\ verdict = None

-----------------------------------------------------------------------------
\* What others tell the audit.

\* DecisionTraceStore.record, ExecutionDecisionsStore.record: the oldest goes.
RecordDecision(u, kind) ==
  LET d == [user |-> u, ts |-> clock, kind |-> kind]
      longer == Append(decisions, d)
  IN  /\ Len(made) < MaxDecisions
      /\ decisions' = IF Len(longer) > MaxSize THEN Tail(longer) ELSE longer
      /\ made' = Append(made, d)
      /\ UNCHANGED <<clock, watched, firstSeen, tracking, sent, audits, verdict>>

\* The n-th place of places; the elements of s that are in S, in their order.
Place(n, places) == CHOOSE i \in places : Cardinality({j \in places : j <= i}) = n
Among(s, S) ==
  LET places == {i \in DOMAIN s : s[i] \in S}
  IN  [n \in 1 .. Cardinality(places) |-> s[Place(n, places)]]

\* cleanup of the stores, once a minute.
Cleanup ==
  /\ decisions' = Among(decisions, {d \in Decision : d.ts >= clock - Ttl})
  /\ UNCHANGED <<clock, watched, firstSeen, tracking, sent, audits, verdict, made>>

\* recordDetection, recordExecutionAttempt, recordPredictiveCandidate, markPrestaged,
\* markQueued.
Track(u, mark) ==
  /\ tracking' = [tracking EXCEPT ![u] = @ \cup {mark}]
  /\ UNCHANGED <<clock, watched, decisions, firstSeen, sent, audits, verdict, made>>

\* recordFirstSeen: the earliest block stays.
RecordFirstSeen(u, block) ==
  /\ firstSeen' = [v \in DOMAIN firstSeen \cup {u} |->
                     IF v \in DOMAIN firstSeen /\ (v # u \/ firstSeen[v] <= block)
                       THEN firstSeen[v] ELSE block]
  /\ UNCHANGED <<clock, watched, decisions, tracking, sent, audits, verdict, made>>

\* cleanup of the first samples.
ForgetFirstSeen ==
  /\ firstSeen' = [u \in {v \in DOMAIN firstSeen : firstSeen[v] >= clock - TransientBlocks} |->
                     firstSeen[u]]
  /\ UNCHANGED <<clock, watched, decisions, tracking, sent, audits, verdict, made>>

-----------------------------------------------------------------------------
\* The reasons.

\* Mutant: a decision made after the liquidation was seen counts.
FindDecisionAnyTime(u, seen, back) ==
  LET found == {i \in DOMAIN decisions : decisions[i].user = u /\ decisions[i].ts >= seen - back}
  IN  IF found = {} THEN None
      ELSE decisions[CHOOSE i \in found : \A j \in found : j <= i]

\* findDecision: backwards, past what came later, until one that is too old.
FindDecision(u, seen, back) ==
  LET found == {i \in DOMAIN decisions :
                  decisions[i].user = u /\ decisions[i].ts \in seen - back .. seen}
  IN  IF found = {} THEN None
      ELSE decisions[CHOOSE i \in found : \A j \in found : j <= i]

\* ExecutionDecisionsStore.findDecision looks back as far as decisions live.
FindExecutionDecision(u, seen) == FindDecision(u, seen, Ttl)

\* DecisionClassifier.classify.
ClassifiedReason(trace) ==
  IF trace.kind \in {"none", "attempt", "revert"} THEN "raced" ELSE trace.kind

\* LiquidationMissClassifier.classify on a decision: an attempt, or a skip over gas,
\* with a gas price under the threshold (cheap) was outbid.
DecisionReasons(decision) ==
  CASE decision.kind = "attempt" -> {"raced", "gas_outbid"}
    [] decision.kind = "revert" -> {"revert"}
    [] OTHER -> {"gas_outbid", "insufficient_profit", "execution_filtered"}

\* LiquidationMissClassifier.classify: it tells an attempt from the absence of one.
MissReasons(u, inSet, decision) ==
  IF ~inSet THEN {"not_in_watch_set"}
  ELSE IF decision # None THEN DecisionReasons(decision)
  ELSE IF u \in DOMAIN firstSeen THEN {"late_send"} ELSE {"late_detection"}

-----------------------------------------------------------------------------
\* onLiquidationCall.

OnLiquidationCall(a, u) ==
  /\ audits[a] = Idle
  /\ audits' = [audits EXCEPT ![a] = [at |-> "usd", user |-> u, inSet |-> u \in watched,
                                      seen |-> 0]]
  /\ UNCHANGED <<clock, watched, decisions, firstSeen, tracking, sent, verdict, made>>

\* getUsdValues answered, with values or without: the liquidation counts as seen now.
UsdValues(a) ==
  /\ audits[a].at = "usd"
  /\ audits' = [audits EXCEPT ![a].at = "block", ![a].seen = clock]
  /\ UNCHANGED <<clock, watched, decisions, firstSeen, tracking, sent, verdict, made>>

\* RateLimiter.canSend.
CanSend ==
  LET now == IF clock - sent.windowStart >= Window THEN [count |-> 0, windowStart |-> clock]
             ELSE sent
  IN  sent' = IF Limit = 0 THEN sent
              ELSE IF now.count < Limit THEN [now EXCEPT !.count = @ + 1] ELSE now

\* The block is there: the verdict, the end of the user's tracking, the notification.
Verdict(a) ==
  LET audit == audits[a]
      u == audit.user
      trace == FindDecision(u, audit.seen, Lookback)
  IN
  /\ audit.at = "block"
  /\ \E miss \in MissReasons(u, audit.inSet, FindExecutionDecision(u, audit.seen)) :
       verdict' = [kind |-> "verdict", user |-> u, seen |-> audit.seen, at |-> clock,
                   trace |-> trace,
                   reason |-> ClassifiedReason(trace),
                   miss |-> miss,
                   attempted |-> "attempted" \in tracking[u]]
  /\ tracking' = [tracking EXCEPT ![u] = {}]
  /\ firstSeen' = [v \in DOMAIN firstSeen \ {u} |-> firstSeen[v]]
  /\ CanSend
  /\ audits' = [audits EXCEPT ![a] = Idle]
  /\ UNCHANGED <<clock, watched, decisions, made>>

Tick ==
  /\ clock < MaxTime /\ clock' = clock + 1
  /\ watched' \in SUBSET Users
  /\ UNCHANGED <<decisions, firstSeen, tracking, sent, audits, verdict, made>>

Next ==
  \/ Tick \/ Cleanup \/ ForgetFirstSeen
  \/ \E u \in Users :
       \/ \E kind \in Kinds : RecordDecision(u, kind)
       \/ \E mark \in Marks : Track(u, mark)
       \/ \E block \in 1 .. clock : RecordFirstSeen(u, block)
       \/ \E a \in Audits : OnLiquidationCall(a, u)
  \/ \E a \in Audits : UsdValues(a) \/ Verdict(a)

Spec == Init /\ [][Next]_vars

-----------------------------------------------------------------------------
\* Properties.

\* A verdict rests on the last decision about its user that was made before the
\* liquidation was seen and not too long before, whatever was decided, dropped or
\* cleaned up while the audit waited.  An audit must not wait longer than decisions
\* outlive the lookback, and the store must have room for the decisions made.
VerdictOfTheDecision ==
  [][verdict' # verdict =>
       LET new == verdict'
           relevant == {i \in DOMAIN made : made[i].user = new.user
                          /\ made[i].ts \in new.seen - Lookback .. new.seen}
       IN  (new.at - new.seen <= Ttl - Lookback /\ Len(made) <= MaxSize)
             => new.trace = IF relevant = {} THEN None
                            ELSE made[CHOOSE i \in relevant : \A j \in relevant : j <= i]
    ]_vars

\* README.md: the audit "only marks raced when we attempted execution".
RacedMeansAttempted ==
  verdict # None /\ verdict.reason = "raced" => verdict.trace.kind \in {"attempt", "revert"}
=============================================================================
