------------------------------ MODULE RateLimiter ------------------------------
(***************************************************************************)
(* services/GlobalRpcRateLimiter.ts: the token bucket that every scan of   *)
(* the first bot asks before its multicall.  Tokens come back by elapsed   *)
(* time, when the refill timer gets its turn, and whoever finds too few    *)
(* polls with a growing pause until the timeout.  A token is Unit parts,   *)
(* so that what a refill adds is a whole number of parts.  Timers fire     *)
(* late by any amount.  The program never calls stop() or reset().         *)
(***************************************************************************)
EXTENDS Integers

CONSTANTS
  Callers,        \* bound: calls of acquire under way at one time
  Costs,          \* tokens a scan asks for: its multicall chunks
  Unit,           \* parts of a token
  RateLimit,      \* parts that come back in a unit of time
  BurstCapacity,  \* tokens a full bucket holds
  Timeouts,       \* timeoutMs; 0 when there is none
  FirstWait, MaxBackoff,  \* the first pause and the longest
  MaxTime         \* bound: time followed

ASSUME LimiterAssumption ==
  /\ Costs \subseteq Nat \ {0} /\ Timeouts \subseteq Nat
  /\ Unit \in Nat \ {0} /\ RateLimit \in Nat /\ BurstCapacity \in Nat
  /\ FirstWait \in Nat \ {0} /\ MaxBackoff \in Nat \ {0} /\ FirstWait <= MaxBackoff
  /\ MaxTime \in Nat

VARIABLES
  now,
  tokens,          \* parts in the bucket
  lastRefillTime,
  callers,         \* the calls that wait
  granted,         \* history: tokens granted
  window           \* history: grants and last refill at some earlier moment

vars == <<now, tokens, lastRefillTime, callers, granted, window>>

Capacity == BurstCapacity * Unit
Idle == [at |-> "idle"]
Waiting == [at : {"waiting"}, cost : Costs, start : Nat, timeout : Timeouts,
            wait : 1 .. MaxBackoff, wake : Nat]

TypeOK ==
  /\ now \in 0 .. MaxTime
  /\ tokens \in 0 .. Capacity
  /\ lastRefillTime \in 0 .. now
  /\ callers \in [Callers -> Waiting \cup {Idle}]
  /\ granted \in Nat
  /\ window \in [granted : 0 .. granted, refill : 0 .. lastRefillTime]

Init ==
  /\ now = 0
  /\ tokens = Capacity
  /\ lastRefillTime = 0
  /\ callers = [c \in Callers |-> Idle]
  /\ granted = 0
  /\ window = [granted |-> 0, refill |-> 0]

-----------------------------------------------------------------------------
\* tryAcquire, when there are enough tokens.
TryAcquire(cost) ==
  /\ tokens >= cost * Unit
  /\ tokens' = tokens - cost * Unit
  /\ granted' = granted + cost

Refused(cost) == tokens < cost * Unit /\ UNCHANGED <<tokens, granted>>

\* Call c finds its tokens at once, waits, or is dropped: without a timeout at once.
Acquire(c) ==
  /\ callers[c] = Idle
  /\ \E cost \in Costs, timeout \in Timeouts :
       \/ TryAcquire(cost) /\ UNCHANGED callers
       \/ /\ Refused(cost)
          /\ timeout # 0
          /\ callers' = [callers EXCEPT ![c] =
               [at |-> "waiting", cost |-> cost, start |-> now, timeout |-> timeout,
                wait |-> FirstWait, wake |-> now + FirstWait]]
  /\ UNCHANGED <<now, lastRefillTime, window>>

\* The pause of call c is over: it takes its tokens, pauses for twice as long, or
\* is dropped once its timeout is past.
Wake(c) ==
  LET call == callers[c]
      wait == IF 2 * call.wait <= MaxBackoff THEN 2 * call.wait ELSE MaxBackoff
  IN
  /\ call # Idle
  /\ now >= call.wake
  /\ \/ /\ TryAcquire(call.cost)
        /\ callers' = [callers EXCEPT ![c] = Idle]
     \/ /\ Refused(call.cost)
        /\ callers' = [callers EXCEPT ![c] =
             IF now - call.start < call.timeout
               THEN [call EXCEPT !.wait = wait, !.wake = now + wait]
               ELSE Idle]
  /\ UNCHANGED <<now, lastRefillTime, window>>

\* Mutant: a refill is not limited to the capacity.
RefillUncapped ==
  /\ now > lastRefillTime
  /\ tokens' = tokens + RateLimit * (now - lastRefillTime)
  /\ lastRefillTime' = now
  /\ UNCHANGED <<now, callers, granted, window>>

\* Mutant: the time of the last refill is not kept, so elapsed time counts twice.
RefillAgain ==
  /\ now > lastRefillTime
  /\ LET filled == tokens + RateLimit * (now - lastRefillTime)
     IN  tokens' = IF filled <= Capacity THEN filled ELSE Capacity
  /\ UNCHANGED <<now, lastRefillTime, callers, granted, window>>

\* refill, whenever the interval timer gets its turn.
Refill ==
  /\ now > lastRefillTime
  /\ LET filled == tokens + RateLimit * (now - lastRefillTime)
     IN  tokens' = IF filled <= Capacity THEN filled ELSE Capacity
  /\ lastRefillTime' = now
  /\ UNCHANGED <<now, callers, granted, window>>

Tick ==
  /\ now < MaxTime
  /\ now' = now + 1
  /\ UNCHANGED <<tokens, lastRefillTime, callers, granted, window>>

\* The observer's window opens.
Observe ==
  /\ window' = [granted |-> granted, refill |-> lastRefillTime]
  /\ UNCHANGED <<now, tokens, lastRefillTime, callers, granted>>

Next ==
  \/ Refill \/ Tick \/ Observe
  \/ \E c \in Callers : Acquire(c) \/ Wake(c)

Spec == Init /\ [][Next]_vars

-----------------------------------------------------------------------------
\* Properties.

\* "enforces a global rate limit on RPC calls": whenever one starts to count, the
\* grants are never more than a full bucket and what has come back since the last
\* refill before, however many scans poll and however late the timer fires.
WindowBounded ==
  Unit * (granted - window.granted) <= Capacity + RateLimit * (now - window.refill)
=============================================================================
