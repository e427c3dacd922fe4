------------------------------- MODULE CriticalLane -------------------------------
(***************************************************************************)
(* The critical lane of the first bot.  fastpath/: a user under the         *)
(* threshold is published on a channel of Redis (FastpathPublisher.ts),     *)
(* whoever is subscribed handles the event (CriticalLaneSubscriber.ts), and *)
(* CriticalLaneExecutor.ts takes a lock that expires, reads a snapshot of   *)
(* the user, plans, and submits.  exec/fastpath/CriticalLane.ts is the      *)
(* same lane without Redis.  Events are handled concurrently, in one        *)
(* process and in several; every step below waits for Redis or the chain.   *)
(***************************************************************************)
EXTENDS Integers

CONSTANTS
  Users,
  Attempts,     \* bound: events of the channel handled at a time
  Runs,         \* bound: borrowers process() works on at a time
  LockTtl,      \* PX of the lock
  SnapshotTtl,  \* userSnapshotTtlMs
  AbortAfter,   \* criticalLaneLatencyAbortMs
  MaxUnprofitable,  \* maxUnprofitableExecutions
  MaxTime       \* bound on the clock

CriticalLaneAssumption ==
  /\ Users # {}
  /\ {LockTtl, SnapshotTtl, AbortAfter, MaxUnprofitable, MaxTime} \subseteq Nat \ {0}

NoAttempt == "nobody"

VARIABLES
  now,
  subscribed,    \* the subscriber is running
  lock,          \* of each user: who set attempt_lock, and until when it is there
  snapshot,      \* of each user: updatedTs (0 for none), whether the health factor in
                 \* it is under the threshold, whether reservesJson lists any
  attempt,       \* of each attempt
  run,           \* of each run of CriticalLane.process: its pc
  allowUnprofitable, unprofitableExecutions

lane == <<subscribed, lock, snapshot, attempt>>
process == <<run, allowUnprofitable, unprofitableExecutions>>
vars == <<now, lane, process>>

Idle == [pc |-> "idle", user |-> CHOOSE u \in Users : TRUE, watched |-> FALSE,
         since |-> 0, read |-> 0, reverified |-> FALSE]

TypeOK ==
  /\ now \in 1 .. MaxTime
  /\ subscribed \in BOOLEAN
  /\ lock \in [Users -> [by : Attempts \cup {NoAttempt}, until : 0 .. MaxTime + LockTtl]]
  /\ snapshot \in [Users -> [at : 0 .. MaxTime, low : BOOLEAN, listed : BOOLEAN]]
  /\ attempt \in [Attempts -> [pc : {"idle", "lock", "snapshot", "refresh", "plan",
                                     "submit", "release"},
                               user : Users, watched : BOOLEAN,
                               since : 0 .. MaxTime, read : 0 .. MaxTime,
                               reverified : BOOLEAN]]
  /\ run \in [Runs -> {"idle", "recompute", "reserves", "bonus", "intent"}]
  /\ allowUnprofitable \in BOOLEAN
  /\ unprofitableExecutions \in 0 .. MaxUnprofitable

Init ==
  /\ now = 1
  /\ subscribed = FALSE
  /\ lock = [u \in Users |-> [by |-> NoAttempt, until |-> 0]]
  /\ snapshot \in [Users -> {[at |-> 0, low |-> FALSE, listed |-> TRUE],
                            [at |-> 1, low |-> TRUE, listed |-> TRUE]}]
  /\ attempt = [a \in Attempts |-> Idle]
  /\ run = [r \in Runs |-> "idle"]
  /\ allowUnprofitable \in BOOLEAN /\ unprofitableExecutions = 0

At(a, pc) == attempt[a].pc = pc
Goes(a, pc) == attempt' = [attempt EXCEPT ![a].pc = pc]

-----------------------------------------------------------------------------
\* Channel.

\* start, stop: the connection is closed by stop, and start throws after that.
Start == ~subscribed /\ subscribed' = TRUE /\ UNCHANGED <<now, lock, snapshot, attempt, process>>
Stop == subscribed /\ subscribed' = FALSE /\ UNCHANGED <<now, lock, snapshot, attempt, process>>

\* publish and handleMessage: Redis keeps no message, so an event nobody listens to
\* is lost; the others are handled without waiting for the events before them.
Event(a, u, watched) ==
  /\ subscribed
  /\ At(a, "idle")
  /\ attempt' = [attempt EXCEPT ![a] =
       [pc |-> "lock", user |-> u, watched |-> watched, since |-> now, read |-> 0,
        reverified |-> FALSE]]
  /\ UNCHANGED <<now, subscribed, lock, snapshot, process>>

-----------------------------------------------------------------------------
\* CriticalLaneExecutor.handleCriticalEvent.

Held(u) == lock[u].until > now

\* SET NX PX: the value is the same whoever sets it.
AcquireLock(a) ==
  LET u == attempt[a].user IN
  /\ At(a, "lock")
  /\ \/ /\ ~Held(u)
        /\ lock' = [lock EXCEPT ![u] = [by |-> a, until |-> now + LockTtl]]
        /\ Goes(a, "snapshot")
     \/ attempt' = [attempt EXCEPT ![a] = Idle] /\ UNCHANGED lock   \* contention, or an error
  /\ UNCHANGED <<now, subscribed, snapshot, process>>

\* fetchOrRefreshSnapshot, until the hash is there: one that is young is used when
\* the user is under the threshold; a read that fails ends the attempt.
ReadSnapshot(a) ==
  LET s == snapshot[attempt[a].user] IN
  /\ At(a, "snapshot")
  /\ \/ /\ s.at # 0 /\ now - s.at < SnapshotTtl
        /\ attempt' = [attempt EXCEPT ![a].pc = IF s.low THEN "plan" ELSE "release",
                                      ![a].read = s.at]
     \/ /\ s.at = 0 \/ now - s.at >= SnapshotTtl
        /\ Goes(a, "refresh")
     \/ Goes(a, "release")
  /\ UNCHANGED <<now, subscribed, lock, snapshot, process>>

\* The multicall answered.  Reserves it read hold amounts that are no JSON: the hash
\* is not written, and the attempt ends with the error.  Only a user of whom the
\* hash lists no reserve gets a new one.
Refresh(a) ==
  LET u == attempt[a].user IN
  /\ At(a, "refresh")
  /\ \/ \E answered \in BOOLEAN :
          /\ answered => snapshot[u].listed
          /\ attempt' = [attempt EXCEPT ![a].pc = "release", ![a].reverified = answered]
          /\ UNCHANGED snapshot
     \/ \E low \in BOOLEAN :
          /\ ~snapshot[u].listed
          /\ attempt' = [attempt EXCEPT ![a].pc = IF low THEN "plan" ELSE "release",
                                       ![a].read = now, ![a].reverified = TRUE]
          /\ snapshot' = [snapshot EXCEPT ![u].at = now, ![u].low = low]
  /\ UNCHANGED <<now, subscribed, lock, process>>

Plan(a) ==
  /\ At(a, "plan")
  /\ \/ /\ attempt[a].watched
        /\ now - attempt[a].since <= AbortAfter
        /\ Goes(a, "submit")
     \/ Goes(a, "release")
  /\ UNCHANGED <<now, subscribed, lock, snapshot, process>>

\* submitTransaction stands in for a submission that is still to be written.
Submit(a) ==
  /\ At(a, "submit")
  /\ Goes(a, "release")
  /\ UNCHANGED <<now, subscribed, lock, snapshot, process>>

\* The finally: the key is deleted, whoever set it, unless Redis fails.
ReleaseLock(a) ==
  /\ At(a, "release")
  /\ attempt' = [attempt EXCEPT ![a] = Idle]
  /\ \/ lock' = [lock EXCEPT ![attempt[a].user] = [by |-> NoAttempt, until |-> 0]]
     \/ UNCHANGED lock
  /\ UNCHANGED <<now, subscribed, snapshot, process>>

\* Another program keeps the snapshots.
SnapshotKept(u) ==
  /\ \E low, listed \in BOOLEAN :
       snapshot' = [snapshot EXCEPT ![u] = [at |-> now, low |-> low, listed |-> listed]]
  /\ UNCHANGED <<now, subscribed, lock, attempt, process>>

-----------------------------------------------------------------------------
\* CriticalLane.process.

RunGoes(r, from, to) ==
  /\ run[r] = from
  /\ run' = [run EXCEPT ![r] = to]
  /\ UNCHANGED <<now, lane, allowUnprofitable>>

\* A borrower that shouldProcess accepts.
Process(r) == RunGoes(r, "idle", "recompute") /\ UNCHANGED unprofitableExecutions

\* recomputeHF: a read that fails keeps the health factor of the caller.
RecomputeHF(r) ==
  /\ \E to \in {"idle", "reserves"} : RunGoes(r, "recompute", to)
  /\ UNCHANGED unprofitableExecutions

\* verifyLiquidatable: reserves and their prices.
VerifyReserves(r) ==
  /\ \E to \in {"idle", "bonus"} : RunGoes(r, "reserves", to)
  /\ UNCHANGED unprofitableExecutions

\* verifyLiquidatable, once the bonus is known: the first executions may lose.
Allowed == allowUnprofitable /\ unprofitableExecutions < MaxUnprofitable

VerifyProfit(r) ==
  \/ RunGoes(r, "bonus", "intent") /\ UNCHANGED unprofitableExecutions   \* profitable
  \/ /\ Allowed
     /\ RunGoes(r, "bonus", "intent")
     /\ unprofitableExecutions' = unprofitableExecutions + 1
  \/ /\ ~Allowed
     /\ RunGoes(r, "bonus", "idle") /\ UNCHANGED unprofitableExecutions

\* buildIntent, and submitTx, which is not implemented.
BuildAndSubmit(r) == RunGoes(r, "intent", "idle") /\ UNCHANGED unprofitableExecutions

-----------------------------------------------------------------------------
Tick == now < MaxTime /\ now' = now + 1 /\ UNCHANGED <<lane, process>>

LaneStep ==
  \/ Start \/ Stop
  \/ \E a \in Attempts :
       \/ \E u \in Users, watched \in BOOLEAN : Event(a, u, watched)
       \/ AcquireLock(a) \/ ReadSnapshot(a) \/ Refresh(a) \/ Plan(a) \/ Submit(a)
       \/ ReleaseLock(a)
  \/ \E u \in Users : SnapshotKept(u)
  \/ Tick

ProcessStep ==
  \E r \in Runs :
    \/ Process(r) \/ RecomputeHF(r) \/ VerifyReserves(r) \/ VerifyProfit(r)
    \/ BuildAndSubmit(r)

Next == LaneStep \/ ProcessStep

Spec == Init /\ [][Next]_vars

-----------------------------------------------------------------------------

Inside(a) == attempt[a].pc \notin {"idle", "lock"} /\ now - attempt[a].since < LockTtl

\* "Attempt lock to prevent double-spend": while both are younger than the lock lives,
\* no two attempts on a user are past it.
OneAttemptPerUser ==
  \A a, b \in Attempts :
    a # b /\ attempt[a].user = attempt[b].user => ~(Inside(a) /\ Inside(b))

\* "Mini-multicall reverification for stale snapshots": an attempt whose multicall
\* answered leaves a snapshot that is as young.
StaleIsRefreshed ==
  \A a \in Attempts :
    attempt[a].reverified => snapshot[attempt[a].user].at >= attempt[a].since
=============================================================================
