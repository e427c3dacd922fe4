----------------------------- MODULE ServicesProofs -----------------------------
(***************************************************************************)
(* Proofs about the services that MCServices composes.  Each part has an   *)
(* inductive invariant over its own variables; a step of the composition   *)
(* is a step of one part, or leaves the part alone, so that the            *)
(* composition implements every part and what holds of a part holds of it. *)
(***************************************************************************)
EXTENDS MCServices, Sequences, FiniteSetTheorems, WellFoundedInduction, TLAPS

-----------------------------------------------------------------------------
\* RateLimiter, for any number of callers, any costs, timeouts and rate, and a refill timer
\* that is late by any amount.

\* What makes the bound inductive: grants since the window opened were paid from
\* the bucket as it stood at its fullest and from refills since.
Paid ==
  Unit * (granted - window.granted) + tokens
    <= Capacity + RateLimit * (lastRefillTime - window.refill)

IInv == TypeOK /\ Paid

LEMMA CapacityType == Capacity \in Nat
  BY LimiterAssumption DEF Capacity

\* What comes back over two spans of time comes back over both together.
LEMMA RefillsAdd ==
  ASSUME NEW r \in Int, NEW x \in Int, NEW y \in Int
  PROVE  r * (x + y) = r * x + r * y
  OBVIOUS

LEMMA RefillsGrow ==
  ASSUME NEW r \in Nat, NEW x \in Int, NEW y \in Int, x <= y
  PROVE  r * x <= r * y
<1>1. y - x \in Nat
  OBVIOUS
<1>2. r * (y - x) >= 0
  BY <1>1
<1>3. r * (x + (y - x)) = r * x + r * (y - x)
  BY RefillsAdd
<1>4. x + (y - x) = y
  OBVIOUS
<1>5. r * x \in Int /\ r * (y - x) \in Int /\ r * y \in Int
  OBVIOUS
<1> QED BY <1>2, <1>3, <1>4, <1>5

LEMMA InitInv == Init => IInv
<1> SUFFICES ASSUME Init PROVE IInv
  OBVIOUS
<1>1. TypeOK
  BY LimiterAssumption, CapacityType DEF Init, TypeOK, Idle
<1>2. granted - window.granted = 0 /\ lastRefillTime - window.refill = 0
  BY DEF Init
<1>3. Paid
  BY <1>2, CapacityType, LimiterAssumption DEF Init, Paid
<1> QED BY <1>1, <1>3 DEF IInv

\* A grant moves parts from the bucket to the grants.
LEMMA GrantInv ==
  ASSUME IInv, NEW cost \in Costs, TryAcquire(cost), UNCHANGED <<lastRefillTime, window>>
  PROVE  tokens' \in 0 .. Capacity /\ granted' \in Nat /\ granted' >= granted /\ Paid'
<1>1. cost \in Nat /\ granted \in Nat /\ tokens \in 0 .. Capacity /\ Unit \in Nat
      /\ window.granted \in Nat
  BY LimiterAssumption DEF IInv, TypeOK
<1>2. cost * Unit \in Nat
  BY <1>1
<1>3. tokens' \in 0 .. Capacity /\ granted' \in Nat /\ granted' >= granted
  BY <1>1, <1>2, CapacityType DEF TryAcquire
<1>4. Unit * (granted' - window.granted) = Unit * (granted - window.granted) + Unit * cost
  <2>1. granted' - window.granted = (granted - window.granted) + cost
    BY <1>1 DEF TryAcquire
  <2>2. granted - window.granted \in Int
    BY <1>1
  <2> QED BY <1>1, <2>1, <2>2, RefillsAdd
<1>5. Unit * cost = cost * Unit
  BY <1>1
<1>6. Unit * (granted - window.granted) \in Int
  BY <1>1
<1>7. Unit * (granted' - window.granted) + tokens' = Unit * (granted - window.granted) + tokens
  BY <1>1, <1>2, <1>4, <1>5, <1>6 DEF TryAcquire
<1>8. Paid'
  BY <1>7 DEF IInv, Paid
<1> QED BY <1>3, <1>8

LEMMA RefillInv == ASSUME IInv, Refill PROVE IInv'
<1> DEFINE r == RateLimit * (now - lastRefillTime)
           g == Unit * (granted - window.granted)
           e == RateLimit * (lastRefillTime - window.refill)
<1>1. /\ now \in Nat /\ lastRefillTime \in Nat /\ lastRefillTime <= now
      /\ tokens \in 0 .. Capacity /\ granted \in Nat
      /\ window.granted \in Nat /\ window.refill \in Nat
      /\ RateLimit \in Nat /\ Unit \in Nat
  BY LimiterAssumption DEF IInv, TypeOK
<1>2. r \in Nat /\ g \in Int /\ e \in Int
  BY <1>1
<1>3. tokens' = IF tokens + r <= Capacity THEN tokens + r ELSE Capacity
  BY DEF Refill
<1>4. tokens' \in 0 .. Capacity /\ tokens' <= tokens + r
  BY <1>1, <1>2, <1>3, CapacityType
<1>5. TypeOK'
  BY <1>1, <1>4 DEF IInv, Refill, TypeOK
<1>6. RateLimit * (now - window.refill) = e + r
  <2>1. now - window.refill = (lastRefillTime - window.refill) + (now - lastRefillTime)
    BY <1>1
  <2> QED BY <1>1, <2>1, RefillsAdd
<1>7. g + tokens <= Capacity + e
  BY DEF IInv, Paid
<1>8. g + tokens' <= Capacity + (e + r)
  BY <1>1, <1>2, <1>4, <1>7, CapacityType
<1>9. Paid'
  BY <1>6, <1>8 DEF Refill, Paid, Capacity
<1> QED BY <1>5, <1>9 DEF IInv

LEMMA NextInv == ASSUME IInv, [Next]_vars PROVE IInv'
<1>1. CASE Refill
  BY <1>1, RefillInv
<1>2. CASE Tick
  <2>1. TypeOK'
    BY <1>2, LimiterAssumption DEF IInv, TypeOK, Tick
  <2> QED BY <1>2, <2>1 DEF IInv, Paid, Tick
<1>3. CASE Observe
  <2>1. granted \in Nat /\ lastRefillTime \in Nat /\ tokens \in 0 .. Capacity
    BY LimiterAssumption DEF IInv, TypeOK
  <2>2. TypeOK'
    BY <1>3, <2>1 DEF IInv, TypeOK, Observe
  <2>3. granted' - window'.granted = 0 /\ lastRefillTime' - window'.refill = 0
    BY <1>3, <2>1 DEF Observe
  <2>4. Unit * 0 = 0 /\ RateLimit * 0 = 0 /\ tokens' <= Capacity
    BY <1>3, <2>1, LimiterAssumption, CapacityType DEF Observe
  <2>5. Paid'
    BY <2>1, <2>3, <2>4, CapacityType, <1>3 DEF Paid, Observe, Capacity
  <2> QED BY <2>2, <2>5 DEF IInv
<1>4. ASSUME NEW c \in Callers, Acquire(c) PROVE IInv'
  <2>1. PICK cost \in Costs, timeout \in Timeouts :
          \/ TryAcquire(cost) /\ UNCHANGED callers
          \/ /\ Refused(cost)
             /\ timeout # 0
             /\ callers' = [callers EXCEPT ![c] =
                  [at |-> "waiting", cost |-> cost, start |-> now, timeout |-> timeout,
                   wait |-> FirstWait, wake |-> now + FirstWait]]
    BY <1>4 DEF Acquire
  <2>2. UNCHANGED <<now, lastRefillTime, window>>
    BY <1>4 DEF Acquire
  <2>3. CASE TryAcquire(cost) /\ UNCHANGED callers
    <3>1. tokens' \in 0 .. Capacity /\ granted' \in Nat /\ granted' >= granted /\ Paid'
      BY <2>2, <2>3, GrantInv
    <3>2. TypeOK'
      BY <2>2, <2>3, <3>1 DEF IInv, TypeOK
    <3> QED BY <3>1, <3>2 DEF IInv
  <2>4. CASE /\ Refused(cost)
             /\ callers' = [callers EXCEPT ![c] =
                  [at |-> "waiting", cost |-> cost, start |-> now, timeout |-> timeout,
                   wait |-> FirstWait, wake |-> now + FirstWait]]
    <3>1. callers' \in [Callers -> Waiting \cup {Idle}]
      BY <2>4, LimiterAssumption DEF IInv, TypeOK, Waiting
    <3>2. TypeOK'
      BY <2>2, <2>4, <3>1 DEF IInv, TypeOK, Refused
    <3> QED BY <2>2, <2>4, <3>2 DEF IInv, Paid, Refused
  <2> QED BY <2>1, <2>3, <2>4
<1>5. ASSUME NEW c \in Callers, Wake(c) PROVE IInv'
  <2>1. callers[c] \in Waiting
    BY <1>5 DEF IInv, TypeOK, Wake
  <2>2. UNCHANGED <<now, lastRefillTime, window>>
    BY <1>5 DEF Wake
  <2>3. callers[c].cost \in Costs
    BY <2>1 DEF Waiting
  <2>4. CASE TryAcquire(callers[c].cost) /\ callers' = [callers EXCEPT ![c] = Idle]
    <3>1. tokens' \in 0 .. Capacity /\ granted' \in Nat /\ granted' >= granted /\ Paid'
      BY <2>2, <2>3, <2>4, GrantInv
    <3>2. TypeOK'
      BY <2>2, <2>4, <3>1 DEF IInv, TypeOK
    <3> QED BY <3>1, <3>2 DEF IInv
  <2>5. CASE Refused(callers[c].cost)
    <3> DEFINE wait == IF 2 * callers[c].wait <= MaxBackoff
                         THEN 2 * callers[c].wait ELSE MaxBackoff
               again == [callers[c] EXCEPT !.wait = wait, !.wake = now + wait]
    <3>1. wait \in 1 .. MaxBackoff /\ now + wait \in Nat
      BY <2>1, LimiterAssumption DEF Waiting, IInv, TypeOK
    <3>2. again \in Waiting
      BY <2>1, <3>1 DEF Waiting
    <3>3. \/ callers' = [callers EXCEPT ![c] = again]
          \/ callers' = [callers EXCEPT ![c] = Idle]
          \/ callers' = callers
      BY <1>5, <2>5 DEF Wake, TryAcquire, Refused, IInv, TypeOK
    <3>4. callers' \in [Callers -> Waiting \cup {Idle}]
      BY <3>2, <3>3 DEF IInv, TypeOK
    <3>5. TypeOK'
      BY <2>2, <2>5, <3>4 DEF IInv, TypeOK, Refused
    <3> QED BY <2>2, <2>5, <3>5 DEF IInv, Paid, Refused
  <2> QED BY <1>5, <2>4, <2>5 DEF Wake
<1>6. CASE UNCHANGED vars
  BY <1>6 DEF IInv, TypeOK, Paid, vars
<1> QED BY <1>1, <1>2, <1>3, <1>4, <1>5, <1>6 DEF Next

LEMMA Inductive == Spec => []IInv
<1>1. IInv /\ [Next]_vars => IInv'
  BY NextInv
<1> QED BY InitInv, <1>1, PTL DEF Spec

\* The bucket, the clock and the waiting calls are well typed; in particular no
\* refill fills the bucket over its capacity.
THEOREM LimiterTypeCorrect == Spec => []TypeOK
<1>1. IInv => TypeOK
  BY DEF IInv
<1> QED BY <1>1, Inductive, PTL

\* However many scans poll and however late the refill timer is, a window of time
\* sees no more grants than a full bucket and what came back in it.
THEOREM RateIsLimited == Spec => []WindowBounded
<1>1. IInv => WindowBounded
  <2> SUFFICES ASSUME IInv PROVE WindowBounded
    OBVIOUS
  <2>1. /\ now \in Nat /\ lastRefillTime \in Nat /\ lastRefillTime <= now
        /\ tokens \in Nat /\ granted \in Nat
        /\ window.granted \in Nat /\ window.refill \in Nat
        /\ RateLimit \in Nat /\ Unit \in Nat
    BY LimiterAssumption, CapacityType DEF IInv, TypeOK
  <2>2. RateLimit * (lastRefillTime - window.refill) <= RateLimit * (now - window.refill)
    BY <2>1, RefillsGrow
  <2>3. /\ Unit * (granted - window.granted) \in Int
        /\ RateLimit * (lastRefillTime - window.refill) \in Int
        /\ RateLimit * (now - window.refill) \in Int
    BY <2>1
  <2> QED BY <2>1, <2>2, <2>3, CapacityType DEF IInv, Paid, WindowBounded
<1> QED BY <1>1, Inductive, PTL

-----------------------------------------------------------------------------
\* HfConnection, for any sockets, reconnects and bounds.

\* What makes NeverDeaf inductive: a heartbeat ends its chain for nothing only while the
\* reconnect that set isReconnecting is under way, and there is one of that kind at most.
Stalls(f) == reconnects[f].at # "off" /\ reconnects[f].kind = "stall"

HeardInv ==
  /\ hearts \in Nat /\ timers \in Nat
  /\ reconnects \in [Reconnects -> Link!FlowState]
  /\ stalling => \E f \in Reconnects : Stalls(f)
  /\ \A f, g \in Reconnects : Stalls(f) /\ Stalls(g) => stalling /\ f = g
  /\ Link!NeverDeaf

\* A reconnect that is under way is there to make a new connection.
LEMMA BusyHears ==
  ASSUME \E f \in Reconnects : reconnects[f].at # "off"
  PROVE  Link!NeverDeaf
  BY DEF Link!NeverDeaf, Link!Busy

\* The next backoff is scheduled, or the service has been stopped.
LEMMA Disconnected ==
  ASSUME hearts \in Nat, timers \in Nat, Link!HandleDisconnect
  PROVE  /\ hearts' \in Nat /\ timers' \in Nat
         /\ down' \/ timers' > 0
  BY DEF Link!HandleDisconnect, Link!Stop

LEMMA HeardInit == Link!Init => HeardInv
  BY DEF Link!Init, HeardInv, Link!NeverDeaf, Link!FlowState, Link!NoFlow, Stalls

\* A new connection is set up by reconnect f, which goes on as what it was.
LEMMA Connecting ==
  ASSUME HeardInv, NEW f \in Reconnects, NEW kind \in {"stall", "timer"},
         Link!SetupProvider(f, kind),
         kind = "stall" => Stalls(f), Stalls(f) => kind = "stall",
         UNCHANGED <<down, hearts, stalling>>, timers' \in Nat
  PROVE  HeardInv'
<1>1. reconnects' = [reconnects EXCEPT ![f] = [at |-> "contracts", kind |-> kind]]
  BY DEF Link!SetupProvider
<1>2. reconnects' \in [Reconnects -> Link!FlowState]
  BY <1>1 DEF HeardInv, Link!FlowState
<1>3. \A g \in Reconnects : reconnects'[g] = IF g = f THEN [at |-> "contracts", kind |-> kind]
                                            ELSE reconnects[g]
  BY <1>1 DEF HeardInv
<1>4. \A g \in Reconnects : Stalls(g)' <=> Stalls(g)
  BY <1>3 DEF Stalls
<1>5. Link!NeverDeaf'
  BY <1>3 DEF Link!NeverDeaf, Link!Busy
<1> QED BY <1>2, <1>4, <1>5 DEF HeardInv

\* A reconnect that ends gives isReconnecting back if it was its own.
LEMMA Finished ==
  ASSUME HeardInv, NEW f \in Reconnects, reconnects[f].at # "off", Link!Finish(f)
  PROVE  /\ reconnects' \in [Reconnects -> Link!FlowState]
         /\ stalling' => \E g \in Reconnects : Stalls(g)'
         /\ \A g, h \in Reconnects : Stalls(g)' /\ Stalls(h)' => stalling' /\ g = h
<1>1. \A g \in Reconnects : reconnects'[g] = IF g = f THEN Link!NoFlow ELSE reconnects[g]
  BY DEF Link!Finish, HeardInv
<1>2. \A g \in Reconnects : Stalls(g)' <=> g # f /\ Stalls(g)
  BY <1>1 DEF Stalls, Link!NoFlow
<1>3. reconnects' \in [Reconnects -> Link!FlowState]
  BY DEF Link!Finish, HeardInv, Link!FlowState, Link!NoFlow
<1>4. CASE reconnects[f].kind = "stall"
  <2>1. Stalls(f) /\ stalling' = FALSE
    BY <1>4 DEF Stalls, Link!Finish
  <2> QED BY <2>1, <1>2, <1>3 DEF HeardInv
<1>5. CASE reconnects[f].kind # "stall"
  <2>1. ~Stalls(f) /\ stalling' = stalling
    BY <1>5 DEF Stalls, Link!Finish
  <2> QED BY <2>1, <1>2, <1>3 DEF HeardInv
<1> QED BY <1>4, <1>5

\* Setting up or after it, a reconnect that ends leaves something behind that hears.
LEMMA ReconnectInv ==
  ASSUME HeardInv, NEW f \in Reconnects,
         Link!Destroyed(f) \/ Link!ContractsVerified(f) \/ Link!RealtimeUp(f) \/ Link!SetupFails(f)
  PROVE  HeardInv'
<1>1. CASE Link!Destroyed(f)
  <2>1. reconnects[f].kind \in {"stall", "timer"} /\ (Stalls(f) <=> reconnects[f].kind = "stall")
    BY <1>1 DEF Link!Destroyed, Stalls, HeardInv, Link!FlowState
  <2>2. UNCHANGED <<down, hearts, stalling, timers>> /\ Link!SetupProvider(f, reconnects[f].kind)
    BY <1>1 DEF Link!Destroyed
  <2>3. timers' \in Nat
    BY <2>2 DEF HeardInv
  <2> QED BY <2>1, <2>2, <2>3, Connecting
<1>2. CASE Link!ContractsVerified(f)
  <2>1. reconnects' = [reconnects EXCEPT ![f].at = "realtime"] /\ reconnects[f].at # "off"
        /\ UNCHANGED <<down, hearts, stalling, timers>>
    BY <1>2 DEF Link!ContractsVerified
  <2>2. \A g \in Reconnects : reconnects'[g] = IF g = f THEN [reconnects[g] EXCEPT !.at = "realtime"]
                                              ELSE reconnects[g]
    BY <2>1 DEF HeardInv
  <2>3. \A g \in Reconnects : Stalls(g)' <=> Stalls(g)
    BY <2>1, <2>2 DEF Stalls, HeardInv, Link!FlowState
  <2>4. reconnects' \in [Reconnects -> Link!FlowState]
    BY <2>1 DEF HeardInv, Link!FlowState
  <2>5. \E g \in Reconnects : reconnects'[g].at # "off"
    BY <2>2 DEF HeardInv, Link!FlowState
  <2>6. Link!NeverDeaf'
    BY <2>5 DEF Link!NeverDeaf, Link!Busy
  <2> QED BY <2>1, <2>3, <2>4, <2>6 DEF HeardInv
<1>3. CASE Link!RealtimeUp(f)
  <2>1. reconnects[f].at # "off" /\ Link!Finish(f) /\ hearts' = hearts + 1 /\ timers' = timers
    BY <1>3 DEF Link!RealtimeUp
  <2>2. hearts' \in Nat /\ hearts' > 0 /\ timers' \in Nat
    BY <2>1 DEF HeardInv
  <2> QED BY <2>1, <2>2, Finished DEF HeardInv, Link!NeverDeaf
<1>4. CASE Link!SetupFails(f)
  <2>1. reconnects[f].at # "off" /\ Link!Finish(f) /\ Link!HandleDisconnect
    BY <1>4 DEF Link!SetupFails, Link!AfterFailure
  <2>2. hearts' \in Nat /\ timers' \in Nat /\ (down' \/ timers' > 0)
    BY <2>1, Disconnected DEF HeardInv
  <2> QED BY <2>1, <2>2, Finished DEF HeardInv, Link!NeverDeaf
<1> QED BY <1>1, <1>2, <1>3, <1>4

\* A chain of heartbeats ends for the reconnect it starts, or beside one, or stopped.
LEMMA HeartbeatInv ==
  ASSUME HeardInv, Link!Heartbeat
  PROVE  HeardInv'
<1>1. CASE ~down /\ ~stalling /\ ~quiet
  <2>1. UNCHANGED <<hearts, stalling, reconnects, down, timers>>
    BY <1>1 DEF Link!Heartbeat
  <2> QED BY <2>1 DEF HeardInv, Link!NeverDeaf, Link!Busy, Stalls
<1>2. CASE down \/ stalling
  <2>1. hearts > 0 /\ hearts' = hearts - 1 /\ UNCHANGED <<stalling, reconnects, down, timers>>
    BY <1>2 DEF Link!Heartbeat
  <2>2. down' \/ \E f \in Reconnects : reconnects'[f].at # "off"
    BY <1>2, <2>1 DEF HeardInv, Stalls
  <2>3. Link!NeverDeaf'
    BY <2>2 DEF Link!NeverDeaf, Link!Busy
  <2>4. hearts' \in Nat
    BY <2>1 DEF HeardInv
  <2> QED BY <2>1, <2>3, <2>4 DEF HeardInv, Stalls
<1>3. CASE ~down /\ ~stalling /\ quiet
  <2>1. /\ hearts > 0 /\ hearts' = hearts - 1 /\ stalling' = TRUE /\ UNCHANGED <<down, timers>>
        /\ \E f \in Reconnects \ Link!Busy :
             reconnects' = [reconnects EXCEPT ![f] = [at |-> "destroy", kind |-> "stall"]]
    BY <1>3 DEF Link!Heartbeat
  <2>2. PICK f \in Reconnects \ Link!Busy :
          reconnects' = [reconnects EXCEPT ![f] = [at |-> "destroy", kind |-> "stall"]]
    BY <2>1
  <2>3. \A g \in Reconnects : reconnects'[g] = IF g = f THEN [at |-> "destroy", kind |-> "stall"]
                                              ELSE reconnects[g]
    BY <2>2 DEF HeardInv
  <2>4. \A g \in Reconnects : ~Stalls(g)
    BY <1>3 DEF HeardInv
  <2>5. \A g \in Reconnects : Stalls(g)' <=> g = f
    BY <2>3, <2>4 DEF Stalls
  <2>6. reconnects' \in [Reconnects -> Link!FlowState]
    BY <2>2 DEF HeardInv, Link!FlowState
  <2>7. Link!NeverDeaf'
    BY <2>3 DEF Link!NeverDeaf, Link!Busy
  <2>8. hearts' \in Nat /\ timers' \in Nat
    BY <2>1 DEF HeardInv
  <2> QED BY <2>1, <2>5, <2>6, <2>7, <2>8 DEF HeardInv
<1> QED BY <1>1, <1>2, <1>3 DEF Link!Heartbeat

LEMMA HeardNext == HeardInv /\ [Link!Next]_(Link!vars) => HeardInv'
<1> SUFFICES ASSUME HeardInv, [Link!Next]_(Link!vars) PROVE HeardInv'
  OBVIOUS
<1>1. CASE Link!StopCalled
  <2>1. down' = TRUE /\ hearts' = 0 /\ timers' = 0 /\ UNCHANGED <<stalling, reconnects>>
    BY <1>1 DEF Link!StopCalled, Link!Stop
  <2> QED BY <2>1 DEF HeardInv, Link!NeverDeaf, Stalls
<1>2. CASE Link!Block \/ Link!Silence \/ UNCHANGED Link!vars
  <2>1. UNCHANGED <<down, hearts, timers, stalling, reconnects>>
    BY <1>2 DEF Link!Block, Link!Silence, Link!vars
  <2> QED BY <2>1 DEF HeardInv, Link!NeverDeaf, Link!Busy, Stalls
<1>3. CASE Link!Heartbeat
  BY <1>3, HeartbeatInv
<1>4. CASE Link!BackoffOver
  <2>1. /\ timers > 0 /\ timers' = timers - 1 /\ UNCHANGED <<down, hearts, stalling>>
        /\ \E f \in Reconnects \ Link!Busy : Link!SetupProvider(f, "timer")
    BY <1>4 DEF Link!BackoffOver
  <2>2. PICK f \in Reconnects \ Link!Busy : Link!SetupProvider(f, "timer")
    BY <2>1
  <2>3. ~Stalls(f) /\ timers' \in Nat
    BY <2>1 DEF Stalls, Link!Busy, HeardInv
  <2> QED BY <2>1, <2>2, <2>3, Connecting
<1>5. ASSUME NEW s \in Sockets, Link!ProviderError(s) PROVE HeardInv'
  <2>1. Link!HandleDisconnect /\ UNCHANGED <<stalling, reconnects>>
    BY <1>5 DEF Link!ProviderError
  <2>2. hearts' \in Nat /\ timers' \in Nat /\ (down' \/ timers' > 0)
    BY <2>1, Disconnected DEF HeardInv
  <2> QED BY <2>1, <2>2 DEF HeardInv, Link!NeverDeaf, Stalls
<1>6. ASSUME NEW f \in Reconnects,
             Link!Destroyed(f) \/ Link!ContractsVerified(f) \/ Link!RealtimeUp(f) \/ Link!SetupFails(f)
      PROVE  HeardInv'
  BY <1>6, ReconnectInv
<1> QED BY <1>1, <1>2, <1>3, <1>4, <1>5, <1>6 DEF Link!Next

LEMMA LinkHears == Link!Spec => []Link!NeverDeaf
<1>1. HeardInv => Link!NeverDeaf
  BY DEF HeardInv
<1> QED BY <1>1, HeardInit, HeardNext, PTL DEF Link!Spec

LEMMA LinkPart == ServicesSpec => Link!Spec
<1>1. ServicesInit => Link!Init
  BY DEF ServicesInit
<1>2. [ServicesNext]_servicesVars => [Link!Next]_(Link!vars)
  BY DEF ServicesNext, servicesVars, linkVars, Link!vars, FollowLimiter, FollowBorrowers,
         FollowFeed, FollowCache, FollowChoice, FollowExecutor, FollowEdge, FollowVerify,
         FollowLink
<1> QED BY <1>1, <1>2, PTL DEF ServicesSpec, Link!Spec

\* However the two kinds of reconnect overlap and fail, a service that was not stopped has
\* a heartbeat, a backoff or a reconnect ahead of it.
THEOREM AlwaysHeard == ServicesSpec => []NeverDeaf
  BY LinkHears, LinkPart, PTL DEF NeverDeaf

-----------------------------------------------------------------------------
\* MicroVerify, for any users, reads, calls and blocks.

\* The record of a read and the entry of the cache are of the block they are filed under,
\* or a later one.
OfTheBlock(read) ==
  read.on => /\ read.key \in Verify!Keys /\ read.from \in Nat
             /\ read.from >= read.key[2]
CurrentEntry(k) ==
  /\ readCache[k].at \in Nat
  /\ readCache[k].cached /\ readCache[k].at # 0 => readCache[k].at >= k[2]

\* What makes the answers current: a read is sent after the block of its key was announced,
\* and what it brings is filed under that key, whatever was invalidated meanwhile.
CurrentInv ==
  /\ head \in Nat /\ block \in 0 .. head /\ head <= VerifyBlocks
  /\ reads = [r \in Reads |-> reads[r]] /\ readCache = [k \in Verify!Keys |-> readCache[k]]
  /\ \A r \in Reads : OfTheBlock(reads[r])
  /\ \A k \in Verify!Keys : CurrentEntry(k)
  /\ Verify!AnswersOfTheBlock

\* A key is a user and a block.
LEMMA KeyOf ==
  ASSUME VerifyBlocks \in Nat, NEW k \in Verify!Keys
  PROVE  k[1] \in VerifiedUsers /\ k[2] \in Nat
  BY DEF Verify!Keys, Verify!Tags

LEMMA CurrentInit == Verify!VerifyAssumption => (Verify!Init => CurrentInv)
<1> SUFFICES ASSUME Verify!VerifyAssumption, Verify!Init PROVE CurrentInv
  OBVIOUS
<1>1. /\ head = 1 /\ block = 0 /\ VerifyBlocks \in Nat \ {0}
      /\ reads = [r \in Reads |-> Verify!NoRead] /\ readCache = [k \in Verify!Keys |-> Verify!Absent]
      /\ servedRead = [tag |-> 0, at |-> 0]
  BY DEF Verify!Init, Verify!VerifyAssumption
<1>2. \A r \in Reads : OfTheBlock(reads[r])
  BY <1>1 DEF OfTheBlock, Verify!NoRead
<1>3. \A k \in Verify!Keys : CurrentEntry(k)
  BY <1>1 DEF CurrentEntry, Verify!Absent
<1> QED BY <1>1, <1>2, <1>3 DEF CurrentInv, Verify!AnswersOfTheBlock

\* An answer of the cache is of the block it is asked for.
LEMMA HitInv ==
  ASSUME VerifyBlocks \in Nat, CurrentInv, NEW u \in VerifiedUsers, Verify!CacheHit(u)
  PROVE  CurrentInv'
<1>1. UNCHANGED <<head, block, reads, readCache>>
  BY DEF Verify!CacheHit
<1>2. readCache[<<u, block>>].cached /\ servedRead' = [tag |-> block, at |-> readCache[<<u, block>>].at]
  BY DEF Verify!CacheHit, Verify!CacheKeys
<1>3. <<u, block>> \in Verify!Keys
  BY DEF Verify!Keys, Verify!Tags, CurrentInv
<1>4. Verify!AnswersOfTheBlock'
  BY <1>2, <1>3 DEF Verify!AnswersOfTheBlock, CurrentInv, CurrentEntry
<1> QED BY <1>1, <1>4 DEF CurrentInv, CurrentEntry

\* A read that is sent knows the block of its key.
LEMMA VerifyInv ==
  ASSUME VerifyBlocks \in Nat, CurrentInv, NEW u \in VerifiedUsers, NEW c \in Calls, Verify!Verify(u, c)
  PROVE  CurrentInv'
<1>1. UNCHANGED <<head, block, readCache, servedRead>>
  BY DEF Verify!Verify
<1>2. CASE UNCHANGED reads
  BY <1>1, <1>2 DEF CurrentInv, CurrentEntry, Verify!AnswersOfTheBlock
<1>3. CASE ~UNCHANGED reads
  <2> DEFINE new == [on |-> TRUE, key |-> <<u, block>>, from |-> head, replaced |-> FALSE]
  <2>1. PICK r \in Reads : reads' = [reads EXCEPT ![r] = new]
    BY <1>3 DEF Verify!Verify
  <2>2. OfTheBlock(new)
    BY DEF OfTheBlock, Verify!Keys, Verify!Tags, CurrentInv
  <2>3. \A q \in Reads : reads'[q] = IF q = r THEN new ELSE reads[q]
    BY <2>1 DEF CurrentInv
  <2>4. reads' = [q \in Reads |-> reads'[q]]
    BY <2>1 DEF CurrentInv
  <2>5. \A q \in Reads : OfTheBlock(reads'[q])
    BY <2>2, <2>3 DEF CurrentInv
  <2> QED BY <1>1, <2>4, <2>5 DEF CurrentInv, CurrentEntry, Verify!AnswersOfTheBlock, OfTheBlock
<1> QED BY <1>2, <1>3

\* What a read brings is of its block, and filed and handed out under it.
LEMMA ReadEndsInv ==
  ASSUME VerifyBlocks \in Nat, CurrentInv, NEW r \in Reads, Verify!ReadEnds(r)
  PROVE  CurrentInv'
<1> DEFINE key == reads[r].key
<1>1. UNCHANGED <<head, block>> /\ reads' = [reads EXCEPT ![r] = Verify!NoRead]
  BY DEF Verify!ReadEnds
<1>2. key \in Verify!Keys /\ reads[r].from \in Nat /\ reads[r].from >= key[2] /\ key[2] \in Nat
  BY KeyOf DEF Verify!ReadEnds, CurrentInv, OfTheBlock
<1>3. PICK at \in Nat : /\ at = 0 \/ at >= key[2]
                        /\ readCache' = [readCache EXCEPT ![key] = [cached |-> TRUE, at |-> at]]
                        /\ servedRead' = [tag |-> key[2], at |-> at]
  <2>1. CASE \E at \in reads[r].from .. head :
                /\ readCache' = [readCache EXCEPT ![key] = [cached |-> TRUE, at |-> at]]
                /\ servedRead' = [tag |-> key[2], at |-> at]
    <3>1. PICK at \in reads[r].from .. head :
                /\ readCache' = [readCache EXCEPT ![key] = [cached |-> TRUE, at |-> at]]
                /\ servedRead' = [tag |-> key[2], at |-> at]
      BY <2>1
    <3>2. head \in Nat
      BY DEF CurrentInv
    <3>3. at \in Nat /\ at >= key[2]
      BY <1>2, <3>2
    <3> QED BY <3>1, <3>3
  <2>2. CASE /\ readCache' = [readCache EXCEPT ![key] = [cached |-> TRUE, at |-> 0]]
             /\ servedRead' = [tag |-> key[2], at |-> 0]
    BY <2>2
  <2> QED BY <2>1, <2>2 DEF Verify!ReadEnds
<1>4. \A k \in Verify!Keys : readCache'[k] = IF k = key THEN [cached |-> TRUE, at |-> at] ELSE readCache[k]
  BY <1>3 DEF CurrentInv
<1>5. \A k \in Verify!Keys : CurrentEntry(k)'
  BY <1>3, <1>4 DEF CurrentEntry, CurrentInv
<1>6. \A q \in Reads : OfTheBlock(reads'[q])
  <2>1. \A q \in Reads : reads'[q] = IF q = r THEN Verify!NoRead ELSE reads[q]
    BY <1>1 DEF CurrentInv
  <2>2. OfTheBlock(Verify!NoRead)
    BY DEF OfTheBlock, Verify!NoRead
  <2> QED BY <2>1, <2>2 DEF CurrentInv
<1>7. reads' = [q \in Reads |-> reads'[q]] /\ readCache' = [k \in Verify!Keys |-> readCache'[k]]
  BY <1>1, <1>3 DEF CurrentInv
<1>8. Verify!AnswersOfTheBlock'
  BY <1>3 DEF Verify!AnswersOfTheBlock
<1> QED BY <1>1, <1>5, <1>6, <1>7, <1>8 DEF CurrentInv, OfTheBlock

LEMMA CurrentNext == Verify!VerifyAssumption => (CurrentInv /\ [Verify!Next]_(Verify!vars) => CurrentInv')
<1> SUFFICES ASSUME Verify!VerifyAssumption, CurrentInv, [Verify!Next]_(Verify!vars) PROVE CurrentInv'
  OBVIOUS
<1>m. VerifyBlocks \in Nat
  BY DEF Verify!VerifyAssumption
<1>1. CASE Verify!NewHead
  <2>1. head < VerifyBlocks /\ head' = head + 1 /\ UNCHANGED <<block, readCache, reads, servedRead>>
    BY <1>1 DEF Verify!NewHead
  <2>2. head' \in Nat /\ head' <= VerifyBlocks /\ block' \in 0 .. head'
    BY <2>1, <1>m DEF CurrentInv
  <2> QED BY <2>1, <2>2 DEF CurrentInv, CurrentEntry, Verify!AnswersOfTheBlock
<1>2. CASE Verify!OnNewBlock
  <2>1. block' \in block + 1 .. head /\ UNCHANGED <<head, readCache, reads, servedRead>>
    BY <1>2 DEF Verify!OnNewBlock
  <2>2. block' \in 0 .. head'
    BY <2>1 DEF CurrentInv
  <2> QED BY <2>1, <2>2 DEF CurrentInv, CurrentEntry, Verify!AnswersOfTheBlock
<1>3. CASE Verify!NewVerifier
  <2>1. /\ block' = 0 /\ UNCHANGED <<head, readCache, servedRead>>
        /\ reads' = [r \in Reads |-> [reads[r] EXCEPT !.replaced = reads[r].on]]
    BY <1>3 DEF Verify!NewVerifier
  <2>2. \A r \in Reads : OfTheBlock(reads[r]) => OfTheBlock([reads[r] EXCEPT !.replaced = reads[r].on])
    BY DEF OfTheBlock
  <2> QED BY <2>1, <2>2 DEF CurrentInv, CurrentEntry, Verify!AnswersOfTheBlock
<1>4. CASE Verify!PauseOver \/ UNCHANGED Verify!vars
  <2>1. UNCHANGED <<head, block, readCache, reads, servedRead>>
    BY <1>4 DEF Verify!PauseOver, Verify!vars
  <2> QED BY <2>1 DEF CurrentInv, CurrentEntry, Verify!AnswersOfTheBlock
<1>5. ASSUME NEW u \in VerifiedUsers, Verify!CacheHit(u) PROVE CurrentInv'
  BY <1>5, <1>m, HitInv
<1>6. ASSUME NEW u \in VerifiedUsers, Verify!InvalidateUser(u) PROVE CurrentInv'
  <2>1. /\ UNCHANGED <<head, block, reads, servedRead>>
        /\ readCache' = [k \in Verify!Keys |-> IF k[1] = u THEN Verify!Absent ELSE readCache[k]]
    BY <1>6 DEF Verify!InvalidateUser
  <2>2. \A k \in Verify!Keys : CurrentEntry(k)'
    BY <2>1 DEF CurrentInv, CurrentEntry, Verify!Absent
  <2>3. readCache' = [k \in Verify!Keys |-> readCache'[k]]
    BY <2>1
  <2> QED BY <2>1, <2>2, <2>3 DEF CurrentInv, Verify!AnswersOfTheBlock
<1>7. ASSUME NEW u \in VerifiedUsers, NEW c \in Calls, Verify!Verify(u, c) PROVE CurrentInv'
  BY <1>7, <1>m, VerifyInv
<1>8. ASSUME NEW r \in Reads, Verify!ReadEnds(r) PROVE CurrentInv'
  BY <1>8, <1>m, ReadEndsInv
<1>9. ASSUME NEW k \in Verify!Keys, Verify!Expire(k) PROVE CurrentInv'
  <2>1. /\ UNCHANGED <<head, block, reads, servedRead>>
        /\ readCache' = [readCache EXCEPT ![k] = Verify!Absent] \/ readCache' = readCache
    BY <1>9 DEF Verify!Expire
  <2>2. \A l \in Verify!Keys : readCache'[l] = readCache[l] \/ readCache'[l] = Verify!Absent
    BY <2>1 DEF CurrentInv
  <2>3. \A l \in Verify!Keys : CurrentEntry(l)'
    BY <2>2 DEF CurrentInv, CurrentEntry, Verify!Absent
  <2>4. readCache' = [l \in Verify!Keys |-> readCache'[l]]
    BY <2>1 DEF CurrentInv
  <2> QED BY <2>1, <2>3, <2>4 DEF CurrentInv, Verify!AnswersOfTheBlock
<1> QED BY <1>1, <1>2, <1>3, <1>4, <1>5, <1>6, <1>7, <1>8, <1>9 DEF Verify!Next

LEMMA VerifyAnswers == Verify!Spec => []Verify!AnswersOfTheBlock
<1>1. Verify!Init => CurrentInv
  BY CurrentInit, PartAssumptions
<1>2. CurrentInv /\ [Verify!Next]_(Verify!vars) => CurrentInv'
  BY CurrentNext, PartAssumptions
<1>3. CurrentInv => Verify!AnswersOfTheBlock
  BY DEF CurrentInv
<1> QED BY <1>1, <1>2, <1>3, PTL DEF Verify!Spec

LEMMA VerifyPart == ServicesSpec => Verify!Spec
<1>1. ServicesInit => Verify!Init
  BY DEF ServicesInit
<1>2. [ServicesNext]_servicesVars => [Verify!Next]_(Verify!vars)
  BY DEF ServicesNext, servicesVars, verifyVars, Verify!vars, FollowLimiter,
         FollowBorrowers, FollowFeed, FollowCache, FollowChoice, FollowExecutor,
         FollowEdge, FollowVerify, FollowLink
<1> QED BY <1>1, <1>2, PTL DEF ServicesSpec, Verify!Spec

\* However reads are shared, invalidated, outlive their block or the verifier that sent
\* them, nobody is answered with the state of a block before the one that was asked for.
THEOREM AnswersAreCurrent == ServicesSpec => []AnswersOfTheBlock
  BY VerifyAnswers, VerifyPart, PTL DEF AnswersOfTheBlock

-----------------------------------------------------------------------------
\* EdgeTrigger, for any health factors, thresholds, blocks and checks.

Announcing(f) == flows[f].at = "publish" /\ flows[f].crossed

\* EdgeIsTold is inductive with the checks being a function: a status is set with its
\* announcement or by the fast path that is about to make it, and nobody else ends that.
TellInv ==
  /\ flows = [f \in Checks |-> flows[f]]
  /\ status = "liq" => told \/ \E f \in Checks : Announcing(f)

\* A check other than that fast path goes on.
LEMMA OthersAnnounce ==
  ASSUME TellInv, NEW f \in Checks, ~Announcing(f), NEW v,
         flows' = [flows EXCEPT ![f] = v]
  PROVE  /\ flows' = [g \in Checks |-> flows'[g]]
         /\ (\E g \in Checks : Announcing(g)) => \E g \in Checks : Announcing(g)'
<1>1. \A g \in Checks : flows'[g] = IF g = f THEN v ELSE flows[g]
  BY DEF TellInv
<1>2. flows' = [g \in Checks |-> flows'[g]]
  BY DEF TellInv
<1> QED BY <1>1, <1>2 DEF Announcing

\* shouldEmit announces the edge or does not reach it, and takes no announcement back.
LEMMA DecisionTells ==
  ASSUME NEW h, NEW b, Edge!ShouldEmit(h, b, lastEmit)
  PROVE  \/ told' = TRUE
         \/ status' # "liq"
         \/ status = "liq" /\ told' = told
  BY DEF Edge!ShouldEmit, Edge!Emit, Edge!Silent

\* A check that is not that fast path ends, or goes on, with or without a decision.
LEMMA CheckTells ==
  ASSUME TellInv, NEW f \in Checks, ~Announcing(f), NEW v,
         flows' = [flows EXCEPT ![f] = v],
         \/ told' = TRUE
         \/ status' # "liq"
         \/ status = "liq" /\ told' = told
  PROVE  TellInv'
<1>1. /\ flows' = [g \in Checks |-> flows'[g]]
      /\ (\E g \in Checks : Announcing(g)) => \E g \in Checks : Announcing(g)'
  BY OthersAnnounce
<1> QED BY <1>1 DEF TellInv

LEMMA TellInit == Edge!Init => TellInv
  BY DEF Edge!Init, TellInv

\* The fast path takes the user for liquidatable: it announces the edge, or waits to.
LEMMA WatchTells ==
  ASSUME TellInv, NEW f \in Checks, Edge!WatchRead(f)
  PROVE  TellInv'
<1> DEFINE h == hfAt[tip]
<1>1. /\ flows[f].at = "watch"
      /\ status' = IF h < Edge!One THEN "liq" ELSE "safe"
  BY DEF Edge!WatchRead
<1>2. ~Announcing(f)
  BY <1>1 DEF Announcing
<1>3. CASE /\ flows' = [flows EXCEPT ![f] = [Edge!NoFlow EXCEPT !.at = "publish",
                              !.block = flows[f].block, !.crossed = Edge!Crossed(h)]]
           /\ Edge!Silent(status')
  <2> DEFINE v == [Edge!NoFlow EXCEPT !.at = "publish", !.block = flows[f].block,
                                       !.crossed = Edge!Crossed(h)]
  <2>1. flows' = [flows EXCEPT ![f] = v]
    BY <1>3
  <2>2. CASE Edge!Crossed(h)
    <3>1. flows' = [g \in Checks |-> flows'[g]]
      BY <2>1, <1>2, OthersAnnounce
    <3>2. Announcing(f)'
      <4>1. flows'[f] = v
        BY <2>1 DEF TellInv
      <4>2. v.at = "publish" /\ v.crossed = Edge!Crossed(h)
        BY DEF Edge!NoFlow
      <4> QED BY <2>2, <4>1, <4>2 DEF Announcing
    <3> QED BY <3>1, <3>2 DEF TellInv
  <2>3. CASE ~Edge!Crossed(h)
    <3>1. status' # "liq" \/ (status = "liq" /\ told' = told)
      BY <2>3, <1>1, <1>3 DEF Edge!Crossed, Edge!Silent
    <3> QED BY <2>1, <1>2, <3>1, CheckTells
  <2> QED BY <2>2, <2>3
<1>4. CASE /\ flows' = [flows EXCEPT ![f] = Edge!NoFlow]
           /\ IF Edge!Crossed(h) THEN Edge!Emit(flows[f].block) ELSE Edge!Silent(status')
  <2>1. \/ told' = TRUE
        \/ status' # "liq"
        \/ status = "liq" /\ told' = told
    BY <1>1, <1>4 DEF Edge!Crossed, Edge!Emit, Edge!Silent
  <2> QED BY <1>2, <1>4, <2>1, CheckTells
<1> QED BY <1>3, <1>4 DEF Edge!WatchRead

LEMMA TellNext == TellInv /\ [Edge!Next]_(Edge!vars) => TellInv'
<1> SUFFICES ASSUME TellInv, [Edge!Next]_(Edge!vars) PROVE TellInv'
  OBVIOUS
<1>1. CASE Edge!NewBlock \/ UNCHANGED Edge!vars
  <2>1. UNCHANGED <<flows, status, told>>
    BY <1>1 DEF Edge!NewBlock, Edge!vars
  <2> QED BY <2>1 DEF TellInv, Announcing
<1>2. ASSUME NEW b \in Edge!Blocks, Edge!HeadCheck(b) PROVE TellInv'
  <2>1. UNCHANGED <<flows, status, told>>
    BY <1>2 DEF Edge!HeadCheck
  <2> QED BY <2>1 DEF TellInv, Announcing
<1>3. ASSUME NEW f \in Checks, NEW at, NEW b, Edge!Start(f, at, b) PROVE TellInv'
  <2>1. /\ ~Announcing(f) /\ UNCHANGED <<status, told>>
        /\ flows' = [flows EXCEPT ![f] = [Edge!NoFlow EXCEPT !.at = at, !.block = b]]
    BY <1>3 DEF Edge!Start, Announcing
  <2> QED BY <2>1, CheckTells
<1>4. ASSUME NEW f \in Checks, Edge!ScanRead(f) PROVE TellInv'
  <2>1. ~Announcing(f) /\ UNCHANGED <<status, told>>
    BY <1>4 DEF Edge!ScanRead, Announcing
  <2>2. \/ flows' = [flows EXCEPT ![f] = Edge!NoFlow]
        \/ flows' = [flows EXCEPT ![f] = [flows[f] EXCEPT !.at = "sprinter",
                                                          !.hf = hfAt[flows[f].block]]]
    BY <1>4 DEF Edge!ScanRead
  <2> QED BY <2>1, <2>2, CheckTells
<1>5. ASSUME NEW f \in Checks, Edge!Schedule(f) PROVE TellInv'
  <2>1. ~Announcing(f)
    BY <1>5 DEF Edge!Schedule, Announcing
  <2>2. CASE /\ flows' = [flows EXCEPT ![f] = [flows[f] EXCEPT !.at = "micro"]]
             /\ UNCHANGED <<status, told>>
    BY <2>1, <2>2, CheckTells
  <2>3. CASE /\ flows' = [flows EXCEPT ![f] = Edge!NoFlow]
             /\ Edge!ShouldEmit(flows[f].hf, flows[f].block, lastEmit)
    BY <2>1, <2>3, DecisionTells, CheckTells
  <2> QED BY <1>5, <2>2, <2>3 DEF Edge!Schedule
<1>6. ASSUME NEW f \in Checks, Edge!Verified(f) PROVE TellInv'
  <2>1. ~Announcing(f) /\ flows' = [flows EXCEPT ![f] = Edge!NoFlow]
    BY <1>6 DEF Edge!Verified, Announcing
  <2>2. \/ Edge!ShouldEmit(flows[f].hf, flows[f].block, lastEmit)
        \/ told' = TRUE
    BY <1>6 DEF Edge!Verified, Edge!Emit
  <2> QED BY <2>1, <2>2, DecisionTells, CheckTells
<1>7. ASSUME NEW f \in Checks, Edge!WatchRead(f) PROVE TellInv'
  BY <1>7, WatchTells
<1>8. ASSUME NEW f \in Checks, Edge!WatchPublished(f) PROVE TellInv'
  <2>1. /\ flows' = [flows EXCEPT ![f] = Edge!NoFlow] /\ status' = status
        /\ IF flows[f].crossed THEN told' = TRUE ELSE told' = told
    BY <1>8 DEF Edge!WatchPublished, Edge!Emit
  <2>2. CASE flows[f].crossed
    <3>1. flows' = [g \in Checks |-> flows'[g]]
      BY <2>1 DEF TellInv
    <3> QED BY <2>1, <2>2, <3>1 DEF TellInv
  <2>3. CASE ~flows[f].crossed
    BY <2>1, <2>3, CheckTells DEF Announcing, TellInv
  <2> QED BY <2>2, <2>3
<1> QED BY <1>1, <1>2, <1>3, <1>4, <1>5, <1>6, <1>7, <1>8 DEF Edge!Next

LEMMA EdgeTells == Edge!Spec => []Edge!EdgeIsTold
<1>1. TellInv => Edge!EdgeIsTold
  BY DEF TellInv, Announcing, Edge!EdgeIsTold
<1> QED BY <1>1, TellInit, TellNext, PTL DEF Edge!Spec

LEMMA EdgePart == ServicesSpec => Edge!Spec
<1>1. ServicesInit => Edge!Init
  BY DEF ServicesInit
<1>2. [ServicesNext]_servicesVars => [Edge!Next]_(Edge!vars)
  BY DEF ServicesNext, servicesVars, edgeVars, Edge!vars, FollowLimiter,
         FollowBorrowers, FollowFeed, FollowCache, FollowChoice, FollowExecutor,
         FollowEdge, FollowVerify, FollowLink
<1> QED BY <1>1, <1>2, PTL DEF ServicesSpec, Edge!Spec

\* However scans, verifications and fast paths of one user overlap, a user that is taken
\* for liquidatable has been announced since, or is about to be.
THEOREM EdgesAreTold == ServicesSpec => []EdgeIsTold
  BY EdgeTells, EdgePart, PTL DEF EdgeIsTold

-----------------------------------------------------------------------------
\* LiquidationExecutor, for any assets, rates, loans, fees and balances.

\* The parts of a liquidation are whole numbers of units, and what the properties say
\* holds of the liquidation just executed.
PayInv ==
  /\ held \in [Assets -> Int]
  /\ NetIsGuaranteed /\ Executor!DebtAssetSwept

LEMMA BpsType ==
  ASSUME NEW amount \in Nat, NEW rate \in Nat
  PROVE  Vault!Bps(amount, rate) \in Nat
<1>1. amount * rate \in Nat
  OBVIOUS
<1>2. \A n \in Nat : n \div 10000 \in Nat
  OBVIOUS
<1> QED BY <1>1, <1>2 DEF Vault!Bps

\* The swap leaves whole numbers of units, of every asset.
LEMMA SwapType ==
  ASSUME held \in [Assets -> Int], NEW c \in Assets, NEW d \in Assets,
         NEW loan \in Int, NEW covered \in Int, NEW seized \in Int, NEW sold \in Int,
         NEW bought \in Int
  PROVE  Executor!AfterSwap(Executor!AfterAave(d, c, loan, covered, seized),
                            d, c, sold, bought) \in [Assets -> Int]
<1> DEFINE lent == [held EXCEPT ![d] = @ + loan - covered]
           aave == [lent EXCEPT ![c] = @ + seized]
           given == [aave EXCEPT ![c] = @ - sold]
           swap == [given EXCEPT ![d] = @ + bought]
<1>1. lent \in [Assets -> Int]
  OBVIOUS
<1> HIDE DEF lent
<1>2. aave \in [Assets -> Int]
  BY <1>1
<1> HIDE DEF aave
<1>3. given \in [Assets -> Int]
  BY <1>2
<1> HIDE DEF given
<1>4. swap \in [Assets -> Int]
  BY <1>3
<1> QED BY <1>4 DEF Executor!AfterSwap, Executor!AfterAave, lent, aave, given

\* A payout is what is left of the debt asset after the loan and the fee: at least the
\* net when the fee is within the allowance.
LEMMA NetBound ==
  ASSUME NEW balance \in Int, NEW minOut \in Nat, NEW loan \in Nat, NEW fee \in Nat,
         Executor!Enough(balance, minOut, loan, fee),
         Executor!Repayment(loan, fee) <= Vault!ComputeMinRequiredOut(loan)
  PROVE  Executor!Profit(balance, loan, fee) >= Vault!ComputeNetDebtToken(minOut, loan)
<1> DEFINE f == Vault!Bps(loan, VaultFeeBps)
           b == Vault!Bps(loan, VaultBufferBps)
<1>1. f \in Nat /\ b \in Nat
  BY BpsType, PartAssumptions DEF Vault!SafetyAssumption
<1>2. loan + fee <= loan + f + b /\ balance >= minOut
  BY DEF Executor!Repayment, Vault!ComputeMinRequiredOut, Executor!Enough
<1> HIDE DEF f, b
<1>3. balance - (loan + fee) >= minOut - loan - f - b
  BY <1>1, <1>2
<1> QED BY <1>3 DEF Executor!Profit, Executor!Repayment, Vault!ComputeNetDebtToken, f, b

LEMMA PayInit == Executor!Init => PayInv
  BY DEF Executor!Init, PayInv, NetIsGuaranteed, Executor!DebtAssetSwept

\* A liquidation pays the net at least and leaves nothing of the debt asset.
LEMMA LiquidationPays ==
  ASSUME PayInv, NEW caller, NEW c \in Assets, NEW d \in Assets,
         NEW loan \in Executor!Units \ {0}, NEW minOut \in Executor!Units, NEW payout,
         Executor!InitiateLiquidation(caller, c, d, loan, minOut, payout)
  PROVE  PayInv'
<1>1. MaxFee \in Nat /\ MaxUnits \in Nat /\ loan \in Nat /\ minOut \in Nat
  BY PartAssumptions DEF Executor!ExecutorAssumption, Executor!Units
<1>2. PICK fee \in 0 .. MaxFee, covered \in 1 .. loan, seized \in Executor!Units,
           bought \in Executor!Units :
      \E sold \in 0 .. Executor!AfterAave(d, c, loan, covered, seized)[c] :
        LET swap == Executor!AfterSwap(Executor!AfterAave(d, c, loan, covered, seized),
                                       d, c, sold, bought)
            profit == Executor!Profit(swap[d], loan, fee)
        IN  /\ Executor!Enough(swap[d], minOut, loan, fee)
            /\ held' = [swap EXCEPT ![d] = @ - Executor!Repayment(loan, fee) - profit]
            /\ \A a \in Assets : held'[a] <= MaxUnits
            /\ event' = [debtAsset |-> d, loan |-> loan, fee |-> fee, minOut |-> minOut,
                         swapOut |-> bought, profit |-> profit,
                         payout |-> Executor!Payout(payout)]
  BY DEF Executor!InitiateLiquidation
<1> DEFINE aave == Executor!AfterAave(d, c, loan, covered, seized)
<1>3. PICK sold \in 0 .. aave[c] :
        LET swap == Executor!AfterSwap(aave, d, c, sold, bought)
            profit == Executor!Profit(swap[d], loan, fee)
        IN  /\ Executor!Enough(swap[d], minOut, loan, fee)
            /\ held' = [swap EXCEPT ![d] = @ - Executor!Repayment(loan, fee) - profit]
            /\ \A a \in Assets : held'[a] <= MaxUnits
            /\ event' = [debtAsset |-> d, loan |-> loan, fee |-> fee, minOut |-> minOut,
                         swapOut |-> bought, profit |-> profit,
                         payout |-> Executor!Payout(payout)]
  BY <1>2
<1> DEFINE swap == Executor!AfterSwap(aave, d, c, sold, bought)
           profit == Executor!Profit(swap[d], loan, fee)
           after == Executor!Repayment(loan, fee)
<1>4. /\ fee \in Nat /\ covered \in Int /\ seized \in Int /\ bought \in Int /\ sold \in Int
  BY <1>1 DEF Executor!Units
<1>5. swap \in [Assets -> Int]
  BY <1>1, <1>4, SwapType DEF PayInv
<1>6. swap[d] \in Int /\ after \in Int /\ profit = swap[d] - after
  BY <1>1, <1>4, <1>5 DEF Executor!Profit, Executor!Repayment
<1>7. /\ Executor!Enough(swap[d], minOut, loan, fee)
      /\ held' = [swap EXCEPT ![d] = @ - after - profit]
      /\ event'.debtAsset = d /\ event'.loan = loan /\ event'.fee = fee
      /\ event'.minOut = minOut /\ event'.profit = profit
  BY <1>3
<1>8. held' \in [Assets -> Int] /\ held'[d] = 0
  <2> HIDE DEF swap, profit, after
  <2>1. swap[d] - after - profit = 0
    BY <1>6
  <2>2. held' = [swap EXCEPT ![d] = 0]
    BY <1>7, <2>1
  <2> QED BY <1>5, <2>2
<1>9. NetIsGuaranteed'
  <2>1. Executor!Repayment(loan, fee) <= Vault!ComputeMinRequiredOut(loan)
          => profit >= Vault!ComputeNetDebtToken(minOut, loan)
    BY <1>1, <1>4, <1>6, <1>7, NetBound
  <2> QED BY <1>7, <2>1 DEF NetIsGuaranteed
<1>10. Executor!DebtAssetSwept'
  BY <1>7, <1>8 DEF Executor!DebtAssetSwept
<1> QED BY <1>8, <1>9, <1>10 DEF PayInv

LEMMA PayNext == PayInv /\ [Executor!Next]_(Executor!vars) => PayInv'
<1> SUFFICES ASSUME PayInv, [Executor!Next]_(Executor!vars) PROVE PayInv'
  OBVIOUS
<1>m. MaxUnits \in Nat
  BY PartAssumptions DEF Executor!ExecutorAssumption
<1>1. ASSUME NEW caller \in Accounts, Executor!Configure(caller) PROVE PayInv'
  <2>1. UNCHANGED <<held, event>>
    BY <1>1 DEF Executor!Configure, Executor!SetVault, Executor!SetPool, Executor!SetRouter,
                Executor!SetPayoutDefault, Executor!TransferOwnership, Executor!SetWhitelist,
                Executor!SetPaused
  <2> QED BY <2>1 DEF PayInv, NetIsGuaranteed, Executor!DebtAssetSwept
<1>2. ASSUME NEW caller \in Accounts, NEW c \in Assets, NEW d \in Assets,
             NEW loan \in Executor!Units \ {0}, NEW minOut \in Executor!Units,
             NEW payout \in Accounts \cup {Zero},
             Executor!InitiateLiquidation(caller, c, d, loan, minOut, payout)
      PROVE  PayInv'
  BY <1>2, LiquidationPays
<1>3. ASSUME NEW caller \in Accounts, NEW a \in Assets, NEW amount \in Executor!Units,
             Executor!EmergencyWithdraw(caller, a, amount)
      PROVE  PayInv'
  <2>1. event' = NoEvent /\ held' = [held EXCEPT ![a] = @ - amount] /\ amount \in Int
    BY <1>3, <1>m DEF Executor!EmergencyWithdraw, Executor!Units
  <2> QED BY <2>1 DEF PayInv, NetIsGuaranteed, Executor!DebtAssetSwept
<1>4. ASSUME NEW a \in Assets, Executor!Receive(a) PROVE PayInv'
  <2>1. event' = NoEvent /\ held' = [held EXCEPT ![a] = @ + 1]
    BY <1>4 DEF Executor!Receive
  <2> QED BY <2>1 DEF PayInv, NetIsGuaranteed, Executor!DebtAssetSwept
<1>5. CASE Executor!Settle
  BY <1>5 DEF PayInv, Executor!Settle, NetIsGuaranteed, Executor!DebtAssetSwept
<1>6. CASE UNCHANGED Executor!vars
  BY <1>6 DEF PayInv, Executor!vars, NetIsGuaranteed, Executor!DebtAssetSwept
<1> QED BY <1>1, <1>2, <1>3, <1>4, <1>5, <1>6 DEF Executor!Next

LEMMA ExecutorPays == Executor!Spec => [](NetIsGuaranteed /\ Executor!DebtAssetSwept)
<1>1. PayInv => NetIsGuaranteed /\ Executor!DebtAssetSwept
  BY DEF PayInv
<1> QED BY <1>1, PayInit, PayNext, PTL DEF Executor!Spec

LEMMA ExecutorPart == ServicesSpec => Executor!Spec
<1>1. ServicesInit => Executor!Init
  BY DEF ServicesInit
<1>2. [ServicesNext]_servicesVars => [Executor!Next]_(Executor!vars)
  BY DEF ServicesNext, servicesVars, executorVars, Executor!vars, Executor!config,
         Executor!links, FollowLimiter, FollowBorrowers, FollowFeed, FollowCache,
         FollowChoice, FollowExecutor, FollowEdge, FollowVerify, FollowLink
<1> QED BY <1>1, <1>2, PTL DEF ServicesSpec, Executor!Spec

\* Whatever the vault charges within the allowance, Aave takes of the loan and the router
\* pays, a liquidation pays out its net at least and keeps nothing of the debt asset.
THEOREM LiquidationsPay == ServicesSpec => []ContractPays
  BY ExecutorPays, ExecutorPart, PTL DEF ContractPays
-----------------------------------------------------------------------------
\* PriceFeed and PlanCache, for any symbols, callers, users, times to live and bounds.

\* A set of naturals with a member has a least one.
LEMMA LeastNumber ==
  ASSUME NEW S \in SUBSET Nat, S # {}
  PROVE  \E t \in S : \A u \in S : t <= u
<1>1. PICK t \in S : \A u \in S : ~ (<<u, t>> \in OpToRel(<, Nat))
  BY NatLessThanWellFounded, WFMin
<1>2. ASSUME NEW u \in S PROVE t <= u
  <2>1. u \in Nat /\ t \in Nat
    OBVIOUS
  <2>2. ~ (u < t)
    BY <1>1, <2>1 DEF OpToRel
  <2> QED BY <2>1, <2>2
<1> QED BY <1>2

\* What the instance counts is what FiniteSets counts.
LEMMA PlansCounted == \A S : Cache!Cardinality(S) = Cardinality(S)
  BY DEF Cache!Cardinality, Cardinality

\* The cache of plans is within its bound, which is what makes a full cache give up
\* exactly one plan.
CacheInv ==
  /\ Cache!TypeOK
  /\ IsFiniteSet(cache)
  /\ Cardinality(cache) <= MaxPlanned

LEMMA CacheInit == Cache!Init => CacheInv
  BY FS_EmptySet, PartAssumptions
  DEF Cache!Init, CacheInv, Cache!TypeOK, Cache!PlanCacheAssumption

LEMMA FewerPlans ==
  ASSUME CacheInv, NEW kept \in SUBSET cache
  PROVE  IsFiniteSet(kept) /\ Cardinality(kept) <= Cardinality(cache)
         /\ Cardinality(kept) \in Nat /\ Cardinality(cache) \in Nat
         /\ (kept # cache => Cardinality(kept) < Cardinality(cache))
  BY FS_Subset, FS_CardinalityType DEF CacheInv

\* A full cache without a plan of the user has a plan to give up.
LEMMA RoomIsMade ==
  ASSUME CacheInv, NEW u \in Planned, Cache!Victims(u) = {}, Cache!Of(u) = {}
  PROVE  Cardinality(cache) < MaxPlanned
<1> SUFFICES ASSUME Cardinality(cache) >= MaxPlanned PROVE FALSE
  BY FewerPlans, PartAssumptions DEF Cache!PlanCacheAssumption
<1>1. cache # {}
  BY FS_EmptySet, PartAssumptions DEF Cache!PlanCacheAssumption
<1> DEFINE times == {p.createdAt : p \in cache}
<1>2. times \in SUBSET Nat /\ times # {}
  BY <1>1, PartAssumptions DEF CacheInv, Cache!TypeOK, Cache!Plan, Cache!PlanCacheAssumption
<1>3. PICK t \in times : \A x \in times : t <= x
  BY <1>2, LeastNumber
<1>4. PICK p \in cache : p.createdAt = t
  BY <1>3
<1>5. \A q \in cache : p.createdAt <= q.createdAt
  BY <1>3, <1>4
<1> QED BY <1>4, <1>5, PlansCounted DEF Cache!Victims

LEMMA PrepareKeepsRoom ==
  ASSUME CacheInv, NEW u \in Planned, Cache!Prepare(u)
  PROVE  CacheInv'
<1> DEFINE plan == [user |-> u, createdAt |-> time]
           kept == cache \ Cache!Of(u)
<1>m. MaxPlanned \in Nat /\ PlanHorizon \in Nat
  BY PartAssumptions DEF Cache!PlanCacheAssumption
<1>1. plan \in Cache!Plan /\ time' = time /\ servedPlan' = NoPlan
  BY DEF CacheInv, Cache!TypeOK, Cache!Plan, Cache!Prepare
<1>2. PICK room \in SUBSET cache :
        cache' = room \cup {plan} /\ Cardinality(room) < MaxPlanned
  <2>1. CASE Cache!Victims(u) # {}
    <3>1. PICK v \in Cache!Victims(u) : cache' = (kept \ {v}) \cup {plan}
      BY <2>1 DEF Cache!Prepare
    <3>2. v \in cache /\ kept \ {v} \in SUBSET cache /\ kept \ {v} # cache
      BY <3>1 DEF Cache!Victims
    <3>3. Cardinality(kept \ {v}) < MaxPlanned
      BY <1>m, <3>2, FewerPlans DEF CacheInv
    <3> QED BY <3>1, <3>2, <3>3
  <2>2. CASE Cache!Victims(u) = {} /\ Cache!Of(u) = {}
    <3>1. cache' = cache \cup {plan}
      BY <2>2 DEF Cache!Prepare
    <3> QED BY <2>2, <3>1, RoomIsMade
  <2>3. CASE Cache!Victims(u) = {} /\ Cache!Of(u) # {}
    <3>1. cache' = kept \cup {plan}
      BY <2>3 DEF Cache!Prepare
    <3>2. kept \in SUBSET cache /\ kept # cache
      BY <2>3 DEF Cache!Of
    <3>3. Cardinality(kept) < MaxPlanned
      BY <1>m, <3>2, FewerPlans DEF CacheInv
    <3> QED BY <3>1, <3>2, <3>3
  <2> QED BY <2>1, <2>2, <2>3
<1>3. IsFiniteSet(room) /\ Cardinality(room) \in Nat
  BY FewerPlans
<1>4. IsFiniteSet(cache') /\ Cardinality(cache') <= MaxPlanned
  <2>1. IsFiniteSet(room \cup {plan})
        /\ Cardinality(room \cup {plan})
             = IF plan \in room THEN Cardinality(room) ELSE Cardinality(room) + 1
    BY <1>3, FS_AddElement
  <2> QED BY <1>m, <1>2, <1>3, <2>1
<1> QED BY <1>1, <1>2, <1>4 DEF CacheInv, Cache!TypeOK

LEMMA CacheNext == CacheInv /\ [Cache!Next]_(Cache!vars) => CacheInv'
<1> SUFFICES ASSUME CacheInv, [Cache!Next]_(Cache!vars) PROVE CacheInv'
  OBVIOUS
<1>1. CASE Cache!Tick
  BY <1>1, PartAssumptions
  DEF CacheInv, Cache!TypeOK, Cache!Tick, Cache!Plan, Cache!PlanCacheAssumption
<1>2. ASSUME NEW u \in Planned, Cache!Prepare(u) PROVE CacheInv'
  BY <1>2, PrepareKeepsRoom
<1>3. ASSUME NEW u \in Planned, Cache!GetHit(u) PROVE CacheInv'
  BY <1>3 DEF CacheInv, Cache!TypeOK, Cache!GetHit, Cache!Of
<1>4. ASSUME NEW u \in Planned, Cache!GetMiss(u) \/ Cache!Invalidate(u) PROVE CacheInv'
  <2>1. cache' \in SUBSET cache /\ servedPlan' = NoPlan /\ time' = time
    BY <1>4 DEF Cache!GetMiss, Cache!Invalidate
  <2>2. IsFiniteSet(cache') /\ Cardinality(cache') <= MaxPlanned
    BY <2>1, FewerPlans, PartAssumptions DEF CacheInv, Cache!PlanCacheAssumption
  <2> QED BY <2>1, <2>2 DEF CacheInv, Cache!TypeOK
<1>5. CASE UNCHANGED Cache!vars
  BY <1>5 DEF CacheInv, Cache!TypeOK, Cache!vars
<1> QED BY <1>1, <1>2, <1>3, <1>4, <1>5 DEF Cache!Next

LEMMA EvictsOldest ==
  ASSUME CacheInv, NEW u \in Planned, Cache!Prepare(u),
         NEW v \in cache \ cache', v.user # u
  PROVE  /\ Cardinality(cache) = MaxPlanned /\ Cache!Of(u) = {}
         /\ \A p \in cache \cap cache' : v.createdAt <= p.createdAt
<1>1. v \in cache \ Cache!Of(u)
  BY DEF Cache!Of
<1>2. Cache!Victims(u) # {}
  BY <1>1 DEF Cache!Prepare
<1>3. v \in Cache!Victims(u)
  BY <1>1, <1>2 DEF Cache!Prepare
<1>4. /\ Cardinality(cache) >= MaxPlanned /\ Cache!Of(u) = {}
      /\ \A p \in cache : v.createdAt <= p.createdAt
  BY <1>3, PlansCounted DEF Cache!Victims
<1>5. Cardinality(cache) \in Nat /\ MaxPlanned \in Nat
  BY FewerPlans, PartAssumptions DEF Cache!PlanCacheAssumption
<1> QED BY <1>4, <1>5 DEF CacheInv

LEMMA CacheEvicts == Cache!Spec => Cache!EvictsOldestOnly
<1>1. CacheInv /\ [Cache!Next]_(Cache!vars)
        => [\A u \in Planned : Cache!Prepare(u) =>
              \A v \in cache \ cache' : v.user # u =>
                /\ Cache!Cardinality(cache) = MaxPlanned /\ Cache!Of(u) = {}
                /\ \A p \in cache \cap cache' : v.createdAt <= p.createdAt]_(Cache!vars)
  BY EvictsOldest, PlansCounted
<1> QED BY <1>1, CacheInit, CacheNext, PTL DEF Cache!Spec, Cache!EvictsOldestOnly

LEMMA CachePart == ServicesSpec => Cache!Spec
<1>1. ServicesInit => Cache!Init
  BY DEF ServicesInit
<1>2. [ServicesNext]_servicesVars => [Cache!Next]_(Cache!vars)
  BY DEF ServicesNext, servicesVars, cacheVars, Cache!vars, FollowLimiter,
         FollowBorrowers, FollowFeed, FollowCache, FollowChoice, FollowExecutor,
         FollowEdge, FollowVerify, FollowLink
<1> QED BY <1>1, <1>2, PTL DEF ServicesSpec, Cache!Spec
\* The listener has been past r since t at the earliest, or is not past it.
NotBefore(since, r, t) ==
  \A q \in Feed!Rounds : q > r /\ since[q] # Feed!Never => since[q] >= t

\* The listener has been at the rounds up to its own, each since some time; those on
\* their way are newer, and none is delivered that was not published.
RoundsInOrder ==
  /\ boot = "adding" => logs = {} /\ delivered = {} /\ listener = 0
  /\ listener <= round
  /\ \A q \in Feed!Rounds :
       IF q <= listener THEN heldSince[q] \in 0 .. feedNow ELSE heldSince[q] = Feed!Never
  /\ \A q \in delivered : q <= round
  /\ \A q \in logs : listener < q /\ q <= round /\ \A p \in delivered : p < q

\* A cached price was not superseded longer than a request before it was stored.
CachedWereNew ==
  \A s \in Symbols : local[s].by # "none" =>
    local[s].at <= feedNow
      /\ (local[s].by = "chainlink"
            => NotBefore(heldSince, local[s].round, local[s].at - MaxRpc))

\* What a request has read was not superseded before the request began, and no request
\* outlives MaxRpc.
WarmWasNew ==
  boot = "warming" =>
    /\ warm.since <= feedNow /\ feedNow - warm.since <= MaxRpc
    /\ warm.round # 0 => NotBefore(heldSince, warm.round, warm.since)

ReadsWereNew ==
  \A a \in Asks : ask[a].pc # "idle" =>
    /\ ask[a].since <= feedNow /\ feedNow - ask[a].since <= MaxRpc
    /\ ask[a].pc = "read" => NotBefore(heldSince, ask[a].round, ask[a].since)

FeedInv ==
  Feed!TypeOK /\ RoundsInOrder /\ CachedWereNew /\ WarmWasNew /\ ReadsWereNew
    /\ Feed!LagBounded

LEMMA FeedConstants ==
  /\ PriceTtl \in Nat /\ MaxRpc \in Nat \ {0} /\ MaxRounds \in Nat \ {0}
  /\ FeedHorizon \in Nat /\ NoSymbol \notin Symbols
  BY PartAssumptions DEF Feed!FeedAssumption

LEMMA FeedInit == Feed!Init => FeedInv
<1> SUFFICES ASSUME Feed!Init PROVE FeedInv
  OBVIOUS
<1>1. Feed!TypeOK
  <2>1. local \in [Symbols -> Feed!Entry]
    BY FeedConstants DEF Feed!Init, Feed!Entry, Feed!NoEntry
  <2>2. Feed!IdleAsk \in Feed!AskState
    BY FeedConstants DEF Feed!AskState, Feed!IdleAsk
  <2>3. ask \in [Asks -> Feed!AskState]
    BY <2>2 DEF Feed!Init
  <2>4. heldSince \in [Feed!Rounds -> (0 .. FeedHorizon) \cup {Feed!Never}]
    BY DEF Feed!Init
  <2>5. served \in [by : {"none", "chainlink", "pyth"}, round : 0 .. MaxRounds,
                     late : (0 .. FeedHorizon) \cup {Feed!Never}]
    BY FeedConstants DEF Feed!Init
  <2>6. /\ feedNow \in 0 .. FeedHorizon /\ round \in Feed!Rounds /\ listener \in 0 .. MaxRounds
        /\ warm \in [since : 0 .. FeedHorizon, round : 0 .. MaxRounds]
    BY FeedConstants DEF Feed!Init, Feed!Rounds
  <2> QED BY <2>1, <2>3, <2>4, <2>5, <2>6 DEF Feed!Init, Feed!TypeOK
<1>2. RoundsInOrder
  BY FeedConstants DEF Feed!Init, RoundsInOrder, Feed!Rounds, Feed!Never
<1>3. CachedWereNew /\ WarmWasNew /\ ReadsWereNew
  BY DEF Feed!Init, CachedWereNew, WarmWasNew, ReadsWereNew, Feed!NoEntry, Feed!IdleAsk
<1>4. Feed!LagBounded
  BY FeedConstants DEF Feed!Init, Feed!LagBounded, Feed!Never
<1> QED BY <1>1, <1>2, <1>3, <1>4 DEF FeedInv

\* How late a price is, when the listener was not past it before t.
LEMMA LateBound ==
  ASSUME FeedInv, NEW r \in 0 .. MaxRounds, NEW t \in Int, t <= feedNow,
         NotBefore(heldSince, r, t)
  PROVE  Feed!Late(r) \in (0 .. FeedHorizon) \cup {Feed!Never} /\ Feed!Late(r) <= feedNow - t
<1>t. feedNow \in 0 .. FeedHorizon /\ FeedHorizon \in Nat
  BY FeedConstants DEF FeedInv, Feed!TypeOK
<1>1. CASE r >= listener
  <2>1. Feed!Late(r) = Feed!Never
    BY <1>1, FeedConstants DEF Feed!Late, FeedInv, Feed!TypeOK
  <2> QED BY <2>1, <1>t DEF Feed!Never
<1>2. CASE r < listener
  <2>1. r + 1 \in Feed!Rounds /\ r + 1 <= listener /\ r + 1 > r
    BY <1>2, FeedConstants DEF FeedInv, Feed!TypeOK, Feed!Rounds
  <2>2. heldSince[r + 1] \in 0 .. feedNow /\ Feed!Late(r) = feedNow - heldSince[r + 1]
    BY <1>2, <2>1 DEF FeedInv, RoundsInOrder, Feed!Late
  <2>3. heldSince[r + 1] >= t
    BY <1>t, <2>1, <2>2 DEF NotBefore, Feed!Never
  <2> QED BY <1>t, <2>2, <2>3
<1> QED BY <1>1, <1>2, FeedConstants DEF FeedInv, Feed!TypeOK

\* An answer is late by no more than the time to live and a request.
LEMMA ServeBound ==
  ASSUME FeedInv, NEW by \in {"none", "chainlink", "pyth"}, NEW r \in 0 .. MaxRounds,
         NEW t \in Int, t <= feedNow, feedNow - t <= PriceTtl + MaxRpc,
         by = "chainlink" => NotBefore(heldSince, r, t), Feed!Serve(by, r)
  PROVE  /\ served' \in [by : {"none", "chainlink", "pyth"}, round : 0 .. MaxRounds,
                         late : (0 .. FeedHorizon) \cup {Feed!Never}]
         /\ served'.late <= PriceTtl + MaxRpc
<1>1. CASE by = "chainlink"
  <2>1. Feed!Late(r) \in (0 .. FeedHorizon) \cup {Feed!Never}
        /\ Feed!Late(r) <= feedNow - t
    BY <1>1, LateBound
  <2>2. served' = [by |-> by, round |-> r, late |-> Feed!Late(r)]
    BY <1>1 DEF Feed!Serve
  <2>3. Feed!Late(r) \in Int /\ feedNow \in Int /\ PriceTtl + MaxRpc \in Int
    BY <2>1, FeedConstants DEF FeedInv, Feed!TypeOK, Feed!Never
  <2> QED BY <2>1, <2>2, <2>3
<1>2. CASE by # "chainlink"
  BY <1>2, FeedConstants DEF Feed!Serve, Feed!Never
<1> QED BY <1>1, <1>2

\* The listener is not past its own round.
LEMMA NothingNewer ==
  ASSUME FeedInv, NEW r \in Int, r >= listener, NEW t \in Int
  PROVE  NotBefore(heldSince, r, t)
  BY DEF FeedInv, RoundsInOrder, NotBefore, Feed!TypeOK, Feed!Rounds

\* A price that was not superseded for longer than a request may be stored.
LEMMA StoreKeeps ==
  ASSUME FeedInv, NEW symbols, NEW by \in {"chainlink", "pyth"}, NEW r \in 0 .. MaxRounds,
         Feed!Store(symbols, by, r),
         by = "chainlink" => NotBefore(heldSince, r, feedNow - MaxRpc),
         feedNow' = feedNow, heldSince' = heldSince
  PROVE  local' \in [Symbols -> Feed!Entry] /\ CachedWereNew'
<1>1. ASSUME NEW s \in Symbols
      PROVE  local'[s] = IF s \in symbols THEN [by |-> by, round |-> r, at |-> feedNow]
                                          ELSE local[s]
  BY DEF Feed!Store
<1>2. local' \in [Symbols -> Feed!Entry]
  BY DEF Feed!Store, FeedInv, Feed!TypeOK, Feed!Entry
<1>3. CachedWereNew'
  <2> SUFFICES ASSUME NEW s \in Symbols, local'[s].by # "none"
               PROVE  /\ local'[s].at <= feedNow
                      /\ local'[s].by = "chainlink"
                           => NotBefore(heldSince, local'[s].round, local'[s].at - MaxRpc)
    BY DEF CachedWereNew
  <2>1. CASE s \in symbols
    BY <1>1, <2>1 DEF FeedInv, Feed!TypeOK
  <2>2. CASE s \notin symbols
    BY <1>1, <2>2 DEF FeedInv, CachedWereNew
  <2> QED BY <2>1, <2>2
<1> QED BY <1>2, <1>3

\* Leaves the feed's rounds and requests as they were.
LEMMA FeedKept ==
  ASSUME FeedInv, UNCHANGED <<feedNow, round, logs, delivered, boot, warm, listener, ask, heldSince>>
  PROVE  RoundsInOrder' /\ WarmWasNew' /\ ReadsWereNew'
  BY DEF FeedInv, RoundsInOrder, WarmWasNew, ReadsWereNew

LEMMA FeedTicks == ASSUME FeedInv, Feed!Tick PROVE FeedInv'
<1>1. feedNow' = feedNow + 1 /\ feedNow \in 0 .. FeedHorizon - 1 /\ feedNow' \in 0 .. FeedHorizon
  BY FeedConstants DEF Feed!Tick, FeedInv, Feed!TypeOK
<1>2. UNCHANGED <<round, logs, delivered, boot, warm, decimals, feedSeen, listener, local, ask,
                  heldSince, served>>
  BY DEF Feed!Tick
<1>3. Feed!TypeOK' /\ Feed!LagBounded'
  BY <1>1, <1>2 DEF FeedInv, Feed!TypeOK, Feed!LagBounded
<1>6. \A q \in Feed!Rounds : heldSince[q] # Feed!Never => heldSince[q] \in 0 .. FeedHorizon
  BY DEF FeedInv, Feed!TypeOK
<1>7. RoundsInOrder'
  BY <1>1, <1>2, <1>6, FeedConstants DEF FeedInv, RoundsInOrder
<1>8. \A s \in Symbols : local[s].at \in 0 .. FeedHorizon
  BY DEF FeedInv, Feed!TypeOK, Feed!Entry
<1>9. CachedWereNew'
  BY <1>1, <1>2, <1>8, FeedConstants DEF FeedInv, CachedWereNew
<1>4. WarmWasNew'
  BY <1>1, <1>2, FeedConstants DEF Feed!Tick, FeedInv, Feed!TypeOK, WarmWasNew
<1>5. ReadsWereNew'
  <2> SUFFICES ASSUME NEW a \in Asks, ask[a].pc # "idle"
               PROVE  /\ ask[a].since <= feedNow' /\ feedNow' - ask[a].since <= MaxRpc
                      /\ ask[a].pc = "read"
                           => NotBefore(heldSince, ask[a].round, ask[a].since)
    BY <1>2 DEF ReadsWereNew
  <2>1. feedNow - ask[a].since < MaxRpc /\ ask[a].since \in Int
    BY FeedConstants DEF Feed!Tick, FeedInv, Feed!TypeOK, Feed!AskState
  <2> QED BY <1>1, <2>1, FeedConstants DEF FeedInv, ReadsWereNew
<1> QED BY <1>3, <1>4, <1>5, <1>7, <1>9 DEF FeedInv

LEMMA FeedTransmits == ASSUME FeedInv, Feed!Transmit PROVE FeedInv'
<1>1. /\ round' = round + 1 /\ round' \in Feed!Rounds /\ logs' \subseteq logs \cup {round + 1}
      /\ boot = "adding" => logs' = logs
      /\ UNCHANGED <<feedNow, delivered, boot, warm, decimals, feedSeen, listener, local, ask,
                     heldSince, served>>
  BY FeedConstants DEF Feed!Transmit, FeedInv, Feed!TypeOK, Feed!Rounds
<1>2. Feed!TypeOK'
  BY <1>1 DEF FeedInv, Feed!TypeOK
<1>3. RoundsInOrder'
  <2>1. round \in Nat /\ listener \in Nat /\ \A q \in logs \cup delivered : q \in Nat
    BY FeedConstants DEF FeedInv, Feed!TypeOK, Feed!Rounds
  <2>2. \A q \in logs' : listener < q /\ q <= round + 1 /\ \A p \in delivered : p < q
    BY <1>1, <2>1 DEF FeedInv, RoundsInOrder
  <2>3. \A q \in delivered : q <= round + 1
    BY <2>1 DEF FeedInv, RoundsInOrder
  <2> QED BY <1>1, <2>1, <2>2, <2>3 DEF FeedInv, RoundsInOrder
<1>4. CachedWereNew' /\ WarmWasNew' /\ ReadsWereNew' /\ Feed!LagBounded'
  BY <1>1 DEF FeedInv, CachedWereNew, WarmWasNew, ReadsWereNew, Feed!LagBounded
<1> QED BY <1>2, <1>3, <1>4 DEF FeedInv

\* The listener goes on or back to a published round; those on their way are newer.
LEMMA TakesOver ==
  ASSUME FeedInv, NEW r \in Feed!Rounds, r <= round, Feed!TakeOver(r),
         \A q \in logs' : q \in logs /\ r < q /\ \A p \in delivered' : p < q,
         \A p \in delivered' : p <= round,
         boot' # "adding", UNCHANGED <<feedNow, round>>
  PROVE  /\ listener' \in 0 .. MaxRounds
         /\ heldSince' \in [Feed!Rounds -> (0 .. FeedHorizon) \cup {Feed!Never}]
         /\ RoundsInOrder'
         /\ \A x \in Int, t \in Int :
              t <= feedNow /\ NotBefore(heldSince, x, t) => NotBefore(heldSince', x, t)
<1>1. /\ heldSince \in [Feed!Rounds -> (0 .. FeedHorizon) \cup {Feed!Never}]
      /\ feedNow \in 0 .. FeedHorizon /\ Feed!Rounds \subseteq Nat /\ listener \in Nat
      /\ round \in Nat /\ FeedHorizon \in Nat
  BY FeedConstants DEF FeedInv, Feed!TypeOK, Feed!Rounds
<1>2. listener' = r /\ DOMAIN heldSince' = Feed!Rounds
      /\ \A q \in Feed!Rounds : heldSince'[q] = IF q > r THEN Feed!Never
                                              ELSE IF heldSince[q] = Feed!Never THEN feedNow
                                              ELSE heldSince[q]
  BY DEF Feed!TakeOver
<1>3. \A q \in Feed!Rounds : heldSince[q] = Feed!Never \/ heldSince[q] \in 0 .. feedNow
  BY DEF FeedInv, RoundsInOrder
<1>4. \A q \in Feed!Rounds :
        IF q <= r THEN heldSince'[q] \in 0 .. feedNow ELSE heldSince'[q] = Feed!Never
  BY <1>1, <1>2, <1>3
<1>5. heldSince' \in [Feed!Rounds -> (0 .. FeedHorizon) \cup {Feed!Never}]
  <2>1. \A q \in Feed!Rounds : heldSince'[q] \in (0 .. FeedHorizon) \cup {Feed!Never}
    BY <1>1, <1>4
  <2>2. heldSince' = [q \in Feed!Rounds |-> heldSince'[q]]
    BY DEF Feed!TakeOver
  <2> QED BY <2>1, <2>2
<1>6. RoundsInOrder'
  BY <1>2, <1>4 DEF FeedInv, RoundsInOrder
<1>7. ASSUME NEW x \in Int, NEW t \in Int, t <= feedNow, NotBefore(heldSince, x, t)
      PROVE  NotBefore(heldSince', x, t)
  <2> SUFFICES ASSUME NEW q \in Feed!Rounds, q > x, heldSince'[q] # Feed!Never
               PROVE  heldSince'[q] >= t
    BY DEF NotBefore
  <2>1. heldSince'[q] = feedNow \/ heldSince'[q] = heldSince[q]
    BY <1>2
  <2> QED BY <1>1, <1>7, <2>1 DEF NotBefore
<1>8. listener' \in 0 .. MaxRounds
  BY <1>2, FeedConstants DEF Feed!Rounds
<1> QED BY <1>5, <1>6, <1>7, <1>8

\* Not before t is not before an earlier time.
LEMMA Earlier ==
  ASSUME FeedInv, NEW r \in Int, NEW t \in Int, NEW t1 \in Int, t1 <= t,
         NotBefore(heldSince, r, t)
  PROVE  NotBefore(heldSince, r, t1)
<1>1. \A q \in Feed!Rounds : heldSince[q] # Feed!Never => heldSince[q] \in 0 .. FeedHorizon
  BY DEF FeedInv, Feed!TypeOK
<1> QED BY <1>1, FeedConstants DEF NotBefore

\* What was new before a round is taken over is new afterwards.
LEMMA CachedStayNew ==
  ASSUME FeedInv, UNCHANGED <<feedNow, local>>,
         \A r \in Int, t \in Int :
           t <= feedNow /\ NotBefore(heldSince, r, t) => NotBefore(heldSince', r, t)
  PROVE  CachedWereNew'
<1> SUFFICES ASSUME NEW s \in Symbols, local[s].by # "none"
             PROVE  /\ local[s].at <= feedNow
                    /\ local[s].by = "chainlink"
                         => NotBefore(heldSince', local[s].round, local[s].at - MaxRpc)
  BY DEF CachedWereNew
<1>1. /\ local[s].round \in Int /\ local[s].at \in Int /\ feedNow \in Int /\ MaxRpc \in Nat
      /\ local[s].at <= feedNow
      /\ local[s].by = "chainlink"
           => NotBefore(heldSince, local[s].round, local[s].at - MaxRpc)
  BY FeedConstants DEF FeedInv, Feed!TypeOK, Feed!Entry, CachedWereNew
<1>2. local[s].at - MaxRpc \in Int /\ local[s].at - MaxRpc <= feedNow
  BY <1>1
<1> QED BY <1>1, <1>2

LEMMA ReadsStayNew ==
  ASSUME FeedInv, UNCHANGED <<feedNow, ask, warm>>, boot' = "warming" => boot = "warming",
         \A r \in Int, t \in Int :
           t <= feedNow /\ NotBefore(heldSince, r, t) => NotBefore(heldSince', r, t)
  PROVE  WarmWasNew' /\ ReadsWereNew'
<1>1. WarmWasNew'
  <2> SUFFICES ASSUME boot' = "warming" PROVE
        /\ warm.since <= feedNow /\ feedNow - warm.since <= MaxRpc
        /\ warm.round # 0 => NotBefore(heldSince', warm.round, warm.since)
    BY DEF WarmWasNew
  <2>1. warm.round \in Int /\ warm.since \in Int
    BY FeedConstants DEF FeedInv, Feed!TypeOK
  <2> QED BY <2>1 DEF FeedInv, WarmWasNew
<1>2. ReadsWereNew'
  <2> SUFFICES ASSUME NEW a \in Asks, ask[a].pc # "idle"
               PROVE  /\ ask[a].since <= feedNow /\ feedNow - ask[a].since <= MaxRpc
                      /\ ask[a].pc = "read"
                           => NotBefore(heldSince', ask[a].round, ask[a].since)
    BY DEF ReadsWereNew
  <2>1. ask[a].round \in Int /\ ask[a].since \in Int
    BY FeedConstants DEF FeedInv, Feed!TypeOK, Feed!AskState
  <2> QED BY <2>1 DEF FeedInv, ReadsWereNew
<1> QED BY <1>1, <1>2

LEMMA FeedIsAdded == ASSUME FeedInv, Feed!AddFeed PROVE FeedInv'
<1>1. /\ boot = "adding" /\ boot' = "subscribed" /\ decimals' \in BOOLEAN
      /\ logs = {} /\ delivered = {} /\ listener = 0
      /\ UNCHANGED <<feedNow, round, logs, delivered, warm, feedSeen, local, ask, served>>
      /\ \/ Feed!TakeOver(round)
         \/ listener' = listener /\ heldSince' = heldSince
  BY DEF Feed!AddFeed, FeedInv, RoundsInOrder
<1>2. round \in Feed!Rounds /\ round \in Nat /\ 0 <= round
  BY FeedConstants DEF FeedInv, Feed!TypeOK, Feed!Rounds
<1>3. /\ listener' \in 0 .. MaxRounds
      /\ heldSince' \in [Feed!Rounds -> (0 .. FeedHorizon) \cup {Feed!Never}]
      /\ RoundsInOrder'
      /\ \A r \in Int, t \in Int :
           t <= feedNow /\ NotBefore(heldSince, r, t) => NotBefore(heldSince', r, t)
  <2>1. CASE Feed!TakeOver(round)
    BY <1>1, <1>2, <2>1, TakesOver
  <2>2. CASE listener' = listener /\ heldSince' = heldSince
    BY <1>1, <2>2 DEF FeedInv, Feed!TypeOK, RoundsInOrder
  <2> QED BY <1>1, <2>1, <2>2
<1>4. WarmWasNew' /\ ReadsWereNew'
  BY <1>1, <1>3, ReadsStayNew
<1>5. CachedWereNew'
  BY <1>1, <1>3, CachedStayNew
<1> QED BY <1>1, <1>3, <1>4, <1>5 DEF FeedInv, Feed!TypeOK, Feed!LagBounded

LEMMA FeedIsReady == ASSUME FeedInv, Feed!Ready PROVE FeedInv'
<1>1. /\ boot = "subscribed" /\ boot' \in {"running", "warming"}
      /\ UNCHANGED <<feedNow, round, logs, delivered, decimals, feedSeen, listener, ask, heldSince, served>>
  BY DEF Feed!Ready
<1>2. listener \in 0 .. MaxRounds /\ feedNow \in 0 .. FeedHorizon
  BY DEF FeedInv, Feed!TypeOK
<1>3. RoundsInOrder' /\ ReadsWereNew' /\ Feed!LagBounded'
  BY <1>1 DEF FeedInv, RoundsInOrder, ReadsWereNew, Feed!LagBounded
<1>4. CASE listener # 0
  <2>1. boot' = "running" /\ warm' = warm /\ Feed!Store(Symbols, "chainlink", listener)
    BY <1>4 DEF Feed!Ready
  <2>2. NotBefore(heldSince, listener, feedNow - MaxRpc)
    BY <1>2, NothingNewer, FeedConstants
  <2>3. local' \in [Symbols -> Feed!Entry] /\ CachedWereNew'
    BY <1>1, <1>2, <2>1, <2>2, StoreKeeps
  <2> QED BY <1>1, <1>3, <2>1, <2>3 DEF FeedInv, Feed!TypeOK, WarmWasNew
<1>5. CASE listener = 0
  <2>1. boot' = "warming" /\ warm' = [since |-> feedNow, round |-> 0] /\ local' = local
    BY <1>5 DEF Feed!Ready
  <2>2. WarmWasNew' /\ CachedWereNew'
    BY <1>1, <1>2, <2>1, FeedConstants DEF FeedInv, WarmWasNew, CachedWereNew
  <2>3. Feed!TypeOK'
    BY <1>1, <1>2, <2>1, FeedConstants DEF FeedInv, Feed!TypeOK
  <2> QED BY <1>3, <2>2, <2>3 DEF FeedInv
<1> QED BY <1>4, <1>5

LEMMA FeedIsWarmed == ASSUME FeedInv, Feed!WarmRead \/ Feed!WarmEnds PROVE FeedInv'
<1>1. /\ boot = "warming"
      /\ UNCHANGED <<feedNow, round, logs, delivered, decimals, feedSeen, listener, ask, heldSince, served>>
  BY DEF Feed!WarmRead, Feed!WarmEnds
<1>2. /\ listener <= round /\ round \in 0 .. MaxRounds /\ round \in Int /\ listener \in Int
      /\ warm.since \in 0 .. FeedHorizon /\ warm.round \in 0 .. MaxRounds
      /\ feedNow \in 0 .. FeedHorizon /\ FeedHorizon \in Nat
      /\ warm = [since |-> warm.since, round |-> warm.round]
  BY FeedConstants DEF FeedInv, RoundsInOrder, Feed!TypeOK, Feed!Rounds
<1>3. ReadsWereNew' /\ Feed!LagBounded'
  BY <1>1 DEF FeedInv, ReadsWereNew, Feed!LagBounded
<1>4. CASE Feed!WarmRead
  <2>1. boot' = boot /\ local' = local /\ warm' = [since |-> warm.since, round |-> round]
    BY <1>2, <1>4 DEF Feed!WarmRead
  <2>2. NotBefore(heldSince, round, warm.since)
    BY <1>2, NothingNewer
  <2>3. WarmWasNew' /\ CachedWereNew' /\ RoundsInOrder'
    BY <1>1, <1>2, <2>1, <2>2 DEF FeedInv, WarmWasNew, CachedWereNew, RoundsInOrder
  <2>4. Feed!TypeOK'
    BY <1>1, <1>2, <2>1 DEF FeedInv, Feed!TypeOK
  <2> QED BY <1>3, <2>3, <2>4 DEF FeedInv
<1>5. CASE Feed!WarmEnds
  <2>1. /\ boot' \in {"running", "dead"} /\ warm' = warm
        /\ \/ warm.round # 0 /\ Feed!Store(Symbols, "chainlink", warm.round)
           \/ local' = local
    BY <1>5 DEF Feed!WarmEnds
  <2>2. RoundsInOrder' /\ WarmWasNew'
    BY <1>1, <2>1 DEF FeedInv, RoundsInOrder, WarmWasNew
  <2>3. local' \in [Symbols -> Feed!Entry] /\ CachedWereNew'
    <3>1. CASE warm.round # 0 /\ Feed!Store(Symbols, "chainlink", warm.round)
      <4>1. NotBefore(heldSince, warm.round, warm.since) /\ feedNow - warm.since <= MaxRpc
        BY <1>1, <3>1 DEF FeedInv, WarmWasNew
      <4>2. NotBefore(heldSince, warm.round, feedNow - MaxRpc)
        BY <1>2, <4>1, Earlier, FeedConstants
      <4> QED BY <1>1, <1>2, <3>1, <4>2, StoreKeeps
    <3>2. CASE local' = local
      BY <1>1, <3>2 DEF FeedInv, Feed!TypeOK, CachedWereNew
    <3> QED BY <2>1, <3>1, <3>2
  <2>4. Feed!TypeOK'
    BY <1>1, <2>1, <2>3 DEF FeedInv, Feed!TypeOK
  <2> QED BY <1>3, <2>2, <2>3, <2>4 DEF FeedInv
<1> QED BY <1>4, <1>5

LEMMA FeedDelivers ==
  ASSUME FeedInv, NEW r \in Feed!Rounds, Feed!Deliver(r) \/ Feed!Miss(r)
  PROVE  FeedInv'
<1>1. /\ r \in logs \cup delivered /\ delivered' \subseteq delivered \cup {r}
      /\ logs' = logs \ {r} /\ feedSeen' \subseteq feedSeen \cup {r}
      /\ boot = "adding" => logs = {} /\ delivered = {}
      /\ UNCHANGED <<feedNow, round, boot, warm, decimals, ask, served>>
  BY DEF Feed!Deliver, Feed!Miss, FeedInv, RoundsInOrder
<1>2. /\ feedSeen' \subseteq Feed!Rounds /\ logs' \subseteq Feed!Rounds
      /\ delivered' \subseteq Feed!Rounds
      /\ feedNow \in 0 .. FeedHorizon /\ Feed!LagBounded'
      /\ listener \in 0 .. MaxRounds /\ r \in 0 .. MaxRounds /\ round \in Int
      /\ \A q \in logs \cup delivered : q \in Int
  BY <1>1, FeedConstants DEF FeedInv, Feed!TypeOK, Feed!LagBounded, Feed!Rounds
<1>o. /\ r <= round /\ boot' # "adding"
      /\ \A p \in delivered' : p <= round
      /\ \A q \in logs' : /\ q \in logs /\ listener < q /\ q <= round
                          /\ \A p \in delivered' : p < q
  <2>1. ASSUME NEW q \in logs'
        PROVE  \A p \in delivered' : p < q
    <3>1. q \in logs /\ q # r /\ \A p \in delivered : p < q
      BY <1>1 DEF FeedInv, RoundsInOrder
    <3>2. CASE Feed!Deliver(r)
      <4>1. r <= q
        BY <3>1, <3>2 DEF Feed!Deliver
      <4>2. r < q
        BY <1>1, <1>2, <3>1, <4>1
      <4> QED BY <1>1, <3>1, <4>2
    <3>3. CASE Feed!Miss(r)
      BY <3>1, <3>3 DEF Feed!Miss
    <3> QED BY <3>2, <3>3
  <2> QED BY <1>1, <2>1 DEF FeedInv, RoundsInOrder
<1>3. CASE UNCHANGED <<listener, local, heldSince>>
  <2>1. RoundsInOrder'
    BY <1>1, <1>3, <1>o DEF FeedInv, RoundsInOrder
  <2>2. CachedWereNew' /\ WarmWasNew' /\ ReadsWereNew'
    BY <1>1, <1>3 DEF FeedInv, CachedWereNew, WarmWasNew, ReadsWereNew
  <2> QED BY <1>1, <1>2, <1>3, <2>1, <2>2 DEF FeedInv, Feed!TypeOK
<1>4. CASE ~ UNCHANGED <<listener, local, heldSince>>
  <2>1. /\ Feed!TakeOver(r) /\ Feed!Store({Own}, "chainlink", r) /\ r \in delivered'
    BY <1>4 DEF Feed!Deliver, Feed!Miss
  <2>2. listener' = r
    BY <2>1 DEF Feed!TakeOver
  <2>4. /\ listener' \in 0 .. MaxRounds
        /\ heldSince' \in [Feed!Rounds -> (0 .. FeedHorizon) \cup {Feed!Never}]
        /\ RoundsInOrder'
        /\ \A x \in Int, t \in Int :
             t <= feedNow /\ NotBefore(heldSince, x, t) => NotBefore(heldSince', x, t)
    BY <1>1, <1>o, <2>1, TakesOver
  <2>5. WarmWasNew' /\ ReadsWereNew'
    BY <1>1, <2>4, ReadsStayNew
  <2>6. r \in Int /\ listener \in Int /\ feedNow \in Int /\ MaxRpc \in Nat
        /\ feedNow - MaxRpc \in Int /\ feedNow - MaxRpc <= feedNow
    BY <1>2, FeedConstants
  <2>7. NotBefore(heldSince', r, feedNow - MaxRpc)
    BY <2>2, <2>4, <2>6 DEF NotBefore, RoundsInOrder
  <2>8. local' \in [Symbols -> Feed!Entry] /\ CachedWereNew'
    <3>1. ASSUME NEW s \in Symbols
          PROVE  local'[s] = IF s \in {Own}
                               THEN [by |-> "chainlink", round |-> r, at |-> feedNow]
                               ELSE local[s]
      BY <2>1 DEF Feed!Store
    <3>2. local' \in [Symbols -> Feed!Entry]
      BY <1>2, <2>1 DEF Feed!Store, FeedInv, Feed!TypeOK, Feed!Entry
    <3>3. ASSUME NEW s \in Symbols, local'[s].by # "none"
          PROVE  /\ local'[s].at <= feedNow
                 /\ local'[s].by = "chainlink"
                      => NotBefore(heldSince', local'[s].round, local'[s].at - MaxRpc)
      <4>1. CASE s = Own
        BY <2>6, <2>7, <3>1, <4>1
      <4>2. CASE s # Own
        <5>1. /\ local'[s] = local[s] /\ local[s].round \in Int /\ local[s].at \in Int
              /\ local[s].at <= feedNow
              /\ local[s].by = "chainlink"
                   => NotBefore(heldSince, local[s].round, local[s].at - MaxRpc)
          BY <3>1, <3>3, <4>2, FeedConstants
          DEF FeedInv, Feed!TypeOK, Feed!Entry, CachedWereNew
        <5>2. local[s].at - MaxRpc \in Int /\ local[s].at - MaxRpc <= feedNow
          BY <2>6, <5>1
        <5> QED BY <2>4, <5>1, <5>2
      <4> QED BY <4>1, <4>2
    <3>4. feedNow' = feedNow
      BY <1>1
    <3> QED BY <3>2, <3>3, <3>4 DEF CachedWereNew
  <2> QED BY <1>1, <1>2, <2>4, <2>5, <2>8 DEF FeedInv, Feed!TypeOK
<1> QED BY <1>3, <1>4

\* The dedupe cache is not part of what the properties say.
LEMMA DedupeIsCleared == ASSUME FeedInv, Feed!ClearDedupe PROVE FeedInv'
<1>1. feedSeen' = {} /\ UNCHANGED <<feedNow, round, logs, delivered, boot, warm, decimals,
                                   listener, local, ask, heldSince, served>>
  BY DEF Feed!ClearDedupe
<1>2. RoundsInOrder' /\ CachedWereNew' /\ WarmWasNew' /\ ReadsWereNew'
  BY <1>1 DEF FeedInv, RoundsInOrder, CachedWereNew, WarmWasNew, ReadsWereNew
<1> QED BY <1>1, <1>2 DEF FeedInv, Feed!TypeOK, Feed!LagBounded

LEMMA FeedTicksPyth ==
  ASSUME FeedInv, NEW s \in Symbols, Feed!PythTick(s)
  PROVE  FeedInv'
<1>1. /\ Feed!Store({s}, "pyth", 0)
      /\ UNCHANGED <<feedNow, round, logs, delivered, boot, warm, decimals, feedSeen, listener, ask,
                     heldSince, served>>
  BY DEF Feed!PythTick
<1>2. local' \in [Symbols -> Feed!Entry] /\ CachedWereNew'
  <2>1. 0 \in 0 .. MaxRounds
    BY FeedConstants
  <2> QED BY <1>1, <2>1, StoreKeeps
<1>3. RoundsInOrder' /\ WarmWasNew' /\ ReadsWereNew'
  BY <1>1, FeedKept
<1> QED BY <1>1, <1>2, <1>3 DEF FeedInv, Feed!TypeOK, Feed!LagBounded

\* A price that is asked for comes from the cache, from the listener, or is requested.
LEMMA PriceIsAsked ==
  ASSUME FeedInv, NEW a \in Asks, NEW s \in Symbols, NEW stores \in BOOLEAN,
         Feed!AskPrice(a, s, stores)
  PROVE  FeedInv'
<1>1. UNCHANGED <<feedNow, round, logs, delivered, boot, warm, decimals, feedSeen, listener, local,
                  heldSince>>
  BY DEF Feed!AskPrice
<1>2. /\ feedNow \in 0 .. FeedHorizon /\ listener \in 0 .. MaxRounds
      /\ local[s] \in Feed!Entry /\ feedNow \in Int /\ listener \in Int
      /\ PriceTtl \in Nat /\ MaxRpc \in Nat
  BY FeedConstants DEF FeedInv, Feed!TypeOK
<1>3. RoundsInOrder' /\ CachedWereNew' /\ WarmWasNew'
  BY <1>1 DEF FeedInv, RoundsInOrder, CachedWereNew, WarmWasNew
<1>4. CASE Feed!Fresh(s) /\ Feed!Serve(local[s].by, local[s].round) /\ ask' = ask
  <2>1. /\ local[s].by \in {"none", "chainlink", "pyth"} /\ local[s].round \in 0 .. MaxRounds
        /\ local[s].at \in Int
    BY <1>2, FeedConstants DEF Feed!Entry
  <2>2. /\ local[s].at <= feedNow /\ feedNow - local[s].at <= PriceTtl
        /\ local[s].by = "chainlink"
             => NotBefore(heldSince, local[s].round, local[s].at - MaxRpc)
    BY <1>4 DEF Feed!Fresh, FeedInv, CachedWereNew
  <2>3. PICK by \in {"none", "chainlink", "pyth"}, r \in 0 .. MaxRounds, t \in Int :
          by = local[s].by /\ r = local[s].round /\ t = local[s].at - MaxRpc
    <3>1. local[s].at - MaxRpc \in Int
      BY <1>2, <2>1
    <3> QED BY <2>1, <3>1
  <2>4. t <= feedNow /\ feedNow - t <= PriceTtl + MaxRpc
        /\ (by = "chainlink" => NotBefore(heldSince, r, t)) /\ Feed!Serve(by, r)
    BY <1>2, <1>4, <2>1, <2>2, <2>3
  <2>5. /\ served' \in [by : {"none", "chainlink", "pyth"}, round : 0 .. MaxRounds,
                        late : (0 .. FeedHorizon) \cup {Feed!Never}]
        /\ served'.late <= PriceTtl + MaxRpc
    BY <2>4, ServeBound
  <2> QED BY <1>1, <1>3, <1>4, <2>5
      DEF FeedInv, Feed!TypeOK, Feed!LagBounded, ReadsWereNew
<1>5. CASE Feed!Serve("chainlink", listener) /\ ask' = ask
  <2>1. PICK r \in 0 .. MaxRounds : r = listener
    BY <1>2
  <2>2. NotBefore(heldSince, r, feedNow) /\ r \in Int
    BY <1>2, <2>1, NothingNewer
  <2>3. PICK t \in Int : t = feedNow
    BY <1>2
  <2>4. t <= feedNow /\ feedNow - t <= PriceTtl + MaxRpc /\ NotBefore(heldSince, r, t)
        /\ Feed!Serve("chainlink", r)
    BY <1>2, <1>5, <2>1, <2>2, <2>3
  <2>5. /\ served' \in [by : {"none", "chainlink", "pyth"}, round : 0 .. MaxRounds,
                        late : (0 .. FeedHorizon) \cup {Feed!Never}]
        /\ served'.late <= PriceTtl + MaxRpc
    BY <2>4, ServeBound
  <2> QED BY <1>1, <1>3, <1>5, <2>5
      DEF FeedInv, Feed!TypeOK, Feed!LagBounded, ReadsWereNew
<1>6. CASE /\ served' = served
           /\ ask' = [ask EXCEPT ![a] = [pc |-> "asked", symbol |-> s, stores |-> stores,
                                         since |-> feedNow, round |-> 0]]
  <2> DEFINE begun == [pc |-> "asked", symbol |-> s, stores |-> stores, since |-> feedNow,
                       round |-> 0]
  <2>1. begun \in Feed!AskState /\ begun.pc = "asked" /\ begun.since = feedNow
    BY <1>2, FeedConstants DEF Feed!AskState
  <2> HIDE DEF begun
  <2>2. ask' \in [Asks -> Feed!AskState]
        /\ \A b \in Asks : ask'[b] = IF b = a THEN begun ELSE ask[b]
    BY <1>6, <2>1 DEF FeedInv, Feed!TypeOK, begun
  <2>3. ReadsWereNew'
    BY <1>1, <1>2, <2>1, <2>2 DEF FeedInv, ReadsWereNew
  <2> QED BY <1>1, <1>3, <1>6, <2>2, <2>3 DEF FeedInv, Feed!TypeOK, Feed!LagBounded
<1> QED BY <1>4, <1>5, <1>6 DEF Feed!AskPrice

\* The steps of a request: the node reads, the answer comes back, or it fails.
LEMMA RequestSteps ==
  ASSUME FeedInv, NEW a \in Asks,
         Feed!RpcRead(a) \/ Feed!RpcAnswer(a) \/ Feed!RpcFails(a)
  PROVE  FeedInv'
<1>1. /\ ask[a].pc # "idle"
      /\ UNCHANGED <<feedNow, round, logs, delivered, boot, warm, decimals, feedSeen, listener, heldSince>>
  BY DEF Feed!RpcRead, Feed!RpcAnswer, Feed!RpcFails
<1>2. /\ feedNow \in 0 .. FeedHorizon /\ round \in 0 .. MaxRounds /\ feedNow \in Int
      /\ round \in Int /\ listener \in Int /\ listener <= round
      /\ ask[a] \in Feed!AskState /\ MaxRpc \in Nat /\ PriceTtl \in Nat
      /\ Feed!IdleAsk \in Feed!AskState
  BY FeedConstants DEF FeedInv, RoundsInOrder, Feed!TypeOK, Feed!Rounds, Feed!IdleAsk,
                       Feed!AskState
<1>3. ask[a].round \in 0 .. MaxRounds /\ ask[a].since \in Int /\ ask[a].stores \in BOOLEAN
      /\ ask[a].since \in 0 .. FeedHorizon
  BY <1>2, FeedConstants DEF Feed!AskState
<1>4. RoundsInOrder' /\ WarmWasNew'
  BY <1>1 DEF FeedInv, RoundsInOrder, WarmWasNew
<1>5. CASE Feed!RpcRead(a)
  <2>1. /\ ask' = [ask EXCEPT ![a] = [ask[a] EXCEPT !.pc = "read", !.round = round]]
        /\ UNCHANGED <<local, served>>
    BY <1>5 DEF Feed!RpcRead
  <2> DEFINE read == [ask[a] EXCEPT !.pc = "read", !.round = round]
  <2>2. read \in Feed!AskState /\ read.since = ask[a].since /\ read.round = round
    BY <1>2 DEF Feed!AskState
  <2> HIDE DEF read
  <2>3. ask' \in [Asks -> Feed!AskState]
        /\ \A b \in Asks : ask'[b] = IF b = a THEN read ELSE ask[b]
    BY <2>1, <2>2 DEF FeedInv, Feed!TypeOK, read
  <2>4. NotBefore(heldSince, round, ask[a].since)
    BY <1>2, <1>3, NothingNewer
  <2>5. ReadsWereNew'
    BY <1>1, <2>2, <2>3, <2>4 DEF FeedInv, ReadsWereNew
  <2>6. CachedWereNew'
    BY <1>1, <2>1 DEF FeedInv, CachedWereNew
  <2> QED BY <1>1, <1>4, <2>1, <2>3, <2>5, <2>6 DEF FeedInv, Feed!TypeOK, Feed!LagBounded
<1>6. ASSUME ask' = [ask EXCEPT ![a] = Feed!IdleAsk]
      PROVE  ask' \in [Asks -> Feed!AskState] /\ ReadsWereNew'
  <2>1. \A b \in Asks : ask'[b] = IF b = a THEN Feed!IdleAsk ELSE ask[b]
    BY <1>6 DEF FeedInv, Feed!TypeOK
  <2>2. Feed!IdleAsk.pc = "idle"
    BY DEF Feed!IdleAsk
  <2>3. ReadsWereNew'
    BY <1>1, <2>1, <2>2 DEF FeedInv, ReadsWereNew
  <2> QED BY <1>2, <1>6, <2>3 DEF FeedInv, Feed!TypeOK
<1>7. CASE Feed!RpcAnswer(a)
  <2>1. /\ ask[a].pc = "read" /\ ask' = [ask EXCEPT ![a] = Feed!IdleAsk]
        /\ Feed!Serve("chainlink", ask[a].round)
        /\ \/ Feed!Store({ask[a].symbol}, "chainlink", ask[a].round)
           \/ local' = local
    BY <1>7 DEF Feed!RpcAnswer
  <2>2. PICK r \in 0 .. MaxRounds, t \in Int : r = ask[a].round /\ t = ask[a].since
    BY <1>3
  <2>3. t <= feedNow /\ feedNow - t <= MaxRpc /\ NotBefore(heldSince, r, t)
    BY <1>1, <2>1, <2>2 DEF FeedInv, ReadsWereNew
  <2>4. /\ served' \in [by : {"none", "chainlink", "pyth"}, round : 0 .. MaxRounds,
                        late : (0 .. FeedHorizon) \cup {Feed!Never}]
        /\ served'.late <= PriceTtl + MaxRpc
    <3>1. feedNow - t <= PriceTtl + MaxRpc
      BY <1>2, <2>3
    <3> QED BY <2>1, <2>2, <2>3, <3>1, ServeBound
  <2>5. local' \in [Symbols -> Feed!Entry] /\ CachedWereNew'
    <3>1. CASE Feed!Store({ask[a].symbol}, "chainlink", ask[a].round)
      <4>1. r \in Int /\ feedNow - MaxRpc \in Int /\ feedNow - MaxRpc <= t
        BY <1>2, <2>3
      <4>2. NotBefore(heldSince, r, feedNow - MaxRpc)
        BY <2>3, <4>1, Earlier
      <4>3. PICK symbols : symbols = {ask[a].symbol}
        OBVIOUS
      <4>4. Feed!Store(symbols, "chainlink", r)
        BY <3>1, <2>2, <4>3
      <4> QED BY <1>1, <4>2, <4>4, StoreKeeps
    <3>2. CASE local' = local
      BY <1>1, <3>2 DEF FeedInv, Feed!TypeOK, CachedWereNew
    <3> QED BY <2>1, <3>1, <3>2
  <2> QED BY <1>1, <1>4, <1>6, <2>1, <2>4, <2>5 DEF FeedInv, Feed!TypeOK, Feed!LagBounded
<1>8. CASE Feed!RpcFails(a)
  <2>1. ask' = [ask EXCEPT ![a] = Feed!IdleAsk] /\ UNCHANGED <<local, served>>
    BY <1>8 DEF Feed!RpcFails
  <2>2. CachedWereNew'
    BY <1>1, <2>1 DEF FeedInv, CachedWereNew
  <2> QED BY <1>1, <1>4, <1>6, <2>1, <2>2 DEF FeedInv, Feed!TypeOK, Feed!LagBounded
<1> QED BY <1>5, <1>7, <1>8

LEMMA FeedNext == FeedInv /\ [Feed!Next]_(Feed!vars) => FeedInv'
<1> SUFFICES ASSUME FeedInv, [Feed!Next]_(Feed!vars) PROVE FeedInv'
  OBVIOUS
<1>1. CASE UNCHANGED Feed!vars
  BY <1>1 DEF Feed!vars, FeedInv, Feed!TypeOK, RoundsInOrder, CachedWereNew, WarmWasNew,
              ReadsWereNew, Feed!LagBounded
<1> QED BY <1>1, FeedTicks, FeedTransmits, FeedIsAdded, FeedIsReady, FeedIsWarmed,
           FeedDelivers, DedupeIsCleared, FeedTicksPyth, PriceIsAsked, RequestSteps DEF Feed!Next

LEMMA FeedLags == Feed!Spec => []Feed!LagBounded
<1>1. FeedInv => Feed!LagBounded
  BY DEF FeedInv
<1> QED BY <1>1, FeedInit, FeedNext, PTL DEF Feed!Spec

LEMMA FeedPart == ServicesSpec => Feed!Spec
<1>1. ServicesInit => Feed!Init
  BY DEF ServicesInit
<1>2. [ServicesNext]_servicesVars => [Feed!Next]_(Feed!vars)
  BY DEF ServicesNext, servicesVars, feedVars, Feed!vars, FollowLimiter,
         FollowBorrowers, FollowFeed, FollowCache, FollowChoice, FollowExecutor,
         FollowEdge, FollowVerify, FollowLink
<1> QED BY <1>1, <1>2, PTL DEF ServicesSpec, Feed!Spec

\* However transmissions, start-up, Pyth ticks and price requests interleave, a Chainlink
\* price that is served was superseded no longer ago than its time to live and a request;
\* and a full cache gives up its oldest plan only.
THEOREM CachesAreNew == ServicesSpec => CachesKeepUp
  BY FeedLags, FeedPart, CacheEvicts, CachePart, PTL DEF CachesKeepUp

-----------------------------------------------------------------------------
\* PlanChoice, for any reserves, decimals, prices, bonuses and rates.

\* A quotient rounded down, times the divisor, is at most the dividend.
LEMMA DivBound ==
  ASSUME NEW n \in Nat, NEW k \in Nat \ {0}
  PROVE  n \div k \in Nat /\ (n \div k) * k <= n
  OBVIOUS

LEMMA MulType == ASSUME NEW m \in Nat, NEW n \in Nat PROVE m * n \in Nat
  OBVIOUS

LEMMA MulMono ==
  ASSUME NEW m \in Nat, NEW n \in Nat, NEW k \in Nat, m <= n
  PROVE  m * k <= n * k
  OBVIOUS

LEMMA MulCancel ==
  ASSUME NEW m \in Int, NEW n \in Int, NEW k \in Nat \ {0}, m * k <= n * k
  PROVE  m <= n
<1> SUFFICES ASSUME n < m PROVE FALSE
  OBVIOUS
<1>1. (m - n) * k >= k
  OBVIOUS
<1>2. (m - n) * k = m * k - n * k
  OBVIOUS
<1> QED BY <1>1, <1>2

\* Scaled down from eighteen decimals and up again, an amount has not grown.
LEMMA ScalingRoundsDown ==
  ASSUME NEW x \in Nat, NEW a \in Assets
  PROVE  /\ Choice!Denormalised(x, a) \in Nat
         /\ Choice!Normalised(x, a) \in Nat
         /\ Choice!Normalised(Choice!Denormalised(x, a), a) <= x
<1>1. Up[a] \in Nat \ {0} /\ Down[a] \in Nat \ {0}
  BY PartAssumptions DEF Choice!PlanAssumption
<1> DEFINE mult == Up[a]
           quot == Down[a]
           y == (x * quot) \div mult
<1> HIDE DEF mult, quot
<1>2. mult \in Nat \ {0} /\ quot \in Nat \ {0}
  BY <1>1 DEF mult, quot
<1>3. x * quot \in Nat /\ x * mult \in Nat
  BY <1>2, MulType
<1>4. y \in Nat /\ y * mult <= x * quot
  BY <1>2, <1>3, DivBound
<1>5. (x * mult) \div quot \in Nat
  BY <1>2, <1>3, DivBound
<1> HIDE DEF y
<1>6. y * mult \in Nat
  BY <1>2, <1>4, MulType
<1>7. (y * mult) \div quot \in Nat /\ ((y * mult) \div quot) * quot <= y * mult
  BY <1>2, <1>6, DivBound
<1> DEFINE z == (y * mult) \div quot
<1> HIDE DEF z
<1>8. z \in Nat /\ z * quot <= x * quot
  BY <1>3, <1>4, <1>6, <1>7, MulType, <1>2 DEF z
<1>9. z <= x
  BY <1>2, <1>8, MulCancel
<1> QED BY <1>4, <1>5, <1>9 DEF Choice!Normalised, Choice!Denormalised, mult, quot, y, z

LEMMA ChoiceRates ==
  /\ Wad \in Nat \ {0} /\ HaircutBps \in 0 .. 10000 /\ HaircutBps \in Nat
  /\ CloseFactorBps \in Nat /\ TopN \in Nat \ {0} /\ Spread \in Nat
  /\ FlashloanFeeBps \in Nat /\ SafetyBufferBps \in Nat
<1>1. FlashloanFeeBps \in Nat /\ SafetyBufferBps \in Nat
  BY PartAssumptions DEF Choice!SafetyAssumption
<1>p. Choice!PlanAssumption
  BY PartAssumptions
<1>2. /\ Wad \in Nat \ {0} /\ HaircutBps \in 0 .. 10000 /\ CloseFactorBps \in 0 .. 10000
      /\ TopN \in Nat \ {0} /\ Spread \in Nat
  BY <1>p DEF Choice!PlanAssumption
<1>3. HaircutBps \in Nat /\ CloseFactorBps \in Nat
  BY <1>2
<1> QED BY <1>1, <1>2, <1>3

LEMMA ChoiceNumbers == Balances \subseteq Nat /\ Prices \subseteq Nat \ {0} /\ Bonuses \subseteq Nat
<1>1. Choice!PlanAssumption
  BY PartAssumptions
<1> QED BY <1>1 DEF Choice!PlanAssumption

LEMMA BpsBound ==
  ASSUME NEW amount \in Nat, NEW rate \in Nat
  PROVE  Choice!Bps(amount, rate) \in Nat /\ Choice!Bps(amount, rate) * 10000 <= amount * rate
  BY MulType, DivBound DEF Choice!Bps

LEMMA SharesAreNat == \A amount, rate \in Nat : Choice!Bps(amount, rate) \in Nat
  BY BpsBound

LEMMA FeesAreNat ==
  \A loan \in Nat :
    Choice!Bps(loan, FlashloanFeeBps) \in Nat /\ Choice!Bps(loan, SafetyBufferBps) \in Nat
<1>1. FlashloanFeeBps \in Nat /\ SafetyBufferBps \in Nat
  BY ChoiceRates
<1> QED BY <1>1, SharesAreNat

\* The numbers of a position.
PositionType ==
  /\ debt \in [Assets -> Balances] /\ collateral \in [Assets -> Balances]
  /\ price \in [Assets -> Prices] /\ bonus \in [Assets -> Bonuses]

LEMMA PositionNumbers ==
  ASSUME PositionType, NEW a \in Assets
  PROVE  debt[a] \in Nat /\ price[a] \in Nat \ {0} /\ bonus[a] \in Nat
         /\ Choice!BonusBps(a) \in Nat /\ Choice!DebtToCover(a) \in Nat
<1>1. debt[a] \in Nat /\ price[a] \in Nat \ {0} /\ bonus[a] \in Nat
  BY ChoiceNumbers DEF PositionType
<1>2. Choice!BonusBps(a) \in Nat
  BY <1>1 DEF Choice!BonusBps
<1>3. Choice!DebtToCover(a) \in Nat
  <2>1. CloseFactorBps \in Nat /\ debt[a] \in Nat
    BY <1>1, ChoiceRates
  <2> QED BY <2>1, SharesAreNat DEF Choice!DebtToCover
<1> QED BY <1>1, <1>2, <1>3

LEMMA ValueType ==
  ASSUME PositionType, NEW amount \in Nat, NEW a \in Assets
  PROVE  /\ Choice!CalculateUsdValue(amount, a) \in Nat
         /\ Choice!CalculateUsdValue(amount, a) * Wad
              <= Choice!Normalised(amount, a) * price[a]
<1>1. Choice!Normalised(amount, a) \in Nat /\ price[a] \in Nat /\ Wad \in Nat \ {0}
  BY ScalingRoundsDown, PositionNumbers, ChoiceRates
<1> QED BY <1>1, MulType, DivBound DEF Choice!CalculateUsdValue

LEMMA ValueOfNothing ==
  ASSUME NEW a \in Assets
  PROVE  Choice!CalculateUsdValue(0, a) = 0 \/ price[a] \notin Nat
<1> SUFFICES ASSUME price[a] \in Nat PROVE Choice!CalculateUsdValue(0, a) = 0
  OBVIOUS
<1>1. Up[a] \in Nat \ {0} /\ Down[a] \in Nat \ {0} /\ Wad \in Nat \ {0}
  BY PartAssumptions DEF Choice!PlanAssumption
<1>2. \A k \in Nat \ {0} : 0 \div k = 0
  OBVIOUS
<1>3. 0 * Up[a] = 0 /\ 0 * price[a] = 0
  BY <1>1
<1>4. Choice!Normalised(0, a) = 0
  BY <1>1, <1>2, <1>3 DEF Choice!Normalised
<1> QED BY <1>1, <1>2, <1>3, <1>4 DEF Choice!CalculateUsdValue

\* The chain of the arithmetic: what is seized is worth at most the bonus more than
\* what is covered. w and p are the wad and the price, x and v what the value of the
\* debt and of the collateral are, q the collateral before the bonus, b with it.
LEMMA BonusChain ==
  ASSUME NEW w \in Nat \ {0}, NEW p \in Nat \ {0}, NEW x \in Nat, NEW v \in Nat,
         NEW q \in Nat, NEW b \in Nat, NEW n \in Nat, NEW r \in Nat,
         q * p <= x * w, b * 10000 <= q * (10000 + r), n <= b, v * w <= n * p
  PROVE  v * 10000 <= x * (10000 + r)
<1> DEFINE k == 10000 + r
<1>k. k \in Nat
  OBVIOUS
<1> HIDE DEF k
<1>1. v * w <= b * p
  BY MulMono, MulType
<1>2. (v * w) * 10000 <= (b * p) * 10000
  BY <1>1, MulMono, MulType
<1>3. (b * p) * 10000 = (b * 10000) * p
  OBVIOUS
<1>4. (b * 10000) * p <= (q * k) * p
  BY <1>k, MulMono, MulType DEF k
<1>5. (q * k) * p = (q * p) * k
  BY <1>k
<1>6. (q * p) * k <= (x * w) * k
  BY <1>k, MulMono, MulType
<1>7. (x * w) * k = (x * k) * w /\ (v * w) * 10000 = (v * 10000) * w
  BY <1>k
<1>8. (v * w) * 10000 \in Int /\ (b * p) * 10000 \in Int /\ (q * k) * p \in Int
      /\ (x * w) * k \in Int /\ v * 10000 \in Int /\ x * k \in Int
  BY <1>k
<1>9. (v * 10000) * w <= (x * k) * w
  BY <1>2, <1>3, <1>4, <1>5, <1>6, <1>7, <1>8
<1> QED BY <1>8, <1>9, MulCancel DEF k

\* Rounding never makes a pair look better than its bonus.
LEMMA ProfitWithinBonus ==
  ASSUME PositionType, NEW d \in Assets, NEW c \in Assets
  PROVE  /\ Choice!CalculateExpectedCollateral(d, c) \in Nat
         /\ Choice!ProfitUsd(d, c) \in Int
         /\ Choice!ProfitUsd(d, c) * 10000
              <= Choice!CalculateUsdValue(Choice!DebtToCover(d), d) * Choice!BonusBps(c)
<1> DEFINE x == Choice!CalculateUsdValue(Choice!DebtToCover(d), d)
           p == price[c]
           q == (x * Wad) \div p
           r == Choice!BonusBps(c)
           b == Choice!Bps(q, 10000 + r)
           e == Choice!Denormalised(b, c)
           n == Choice!Normalised(e, c)
           v == Choice!CalculateUsdValue(e, c)
<1>1. Choice!CalculateExpectedCollateral(d, c) = e /\ Choice!ProfitUsd(d, c) = v - x
  BY DEF Choice!CalculateExpectedCollateral, Choice!ProfitUsd
<1>2. x \in Nat /\ p \in Nat \ {0} /\ r \in Nat /\ Wad \in Nat \ {0}
  BY PositionNumbers, ValueType, ChoiceRates
<1> HIDE DEF x, p, r
<1>3. q \in Nat /\ q * p <= x * Wad
  BY <1>2, MulType, DivBound
<1> HIDE DEF q
<1>4. b \in Nat /\ b * 10000 <= q * (10000 + r)
  BY <1>2, <1>3, BpsBound
<1> HIDE DEF b
<1>5. e \in Nat /\ n \in Nat /\ n <= b
  BY <1>4, ScalingRoundsDown
<1>6. v \in Nat /\ v * Wad <= n * p
  BY <1>5, ValueType DEF p
<1> HIDE DEF e, n, v
<1>7. v * 10000 <= x * (10000 + r)
  BY <1>2, <1>3, <1>4, <1>5, <1>6, BonusChain
<1>8. (v - x) * 10000 <= x * r
  <2>1. x * (10000 + r) = x * 10000 + x * r /\ x * r \in Nat
    BY <1>2, MulType
  <2> QED BY <1>2, <1>6, <1>7, <2>1
<1> QED BY <1>1, <1>2, <1>5, <1>6, <1>8 DEF x, r

\* The haircut makes a profit smaller and no loss a profit.
LEMMA HaircutOnlyTakes ==
  ASSUME NEW y \in Int
  PROVE  LET s == y - Choice!Truncated(y, HaircutBps)
         IN  s \in Int /\ (y > 0 => s <= y) /\ (y <= 0 => s <= 0)
<1>1. CASE y > 0
  <2>1. Choice!Bps(y, HaircutBps) \in Nat
    BY <1>1, BpsBound, ChoiceRates
  <2> QED BY <1>1, <2>1 DEF Choice!Truncated
<1>2. CASE y <= 0
  <2> DEFINE z == -y
             t == Choice!Bps(z, HaircutBps)
  <2>1. z \in Nat /\ y = -z
    BY <1>2
  <2> HIDE DEF z
  <2>h. HaircutBps \in Nat /\ HaircutBps <= 10000
    BY ChoiceRates
  <2>2. t \in Nat /\ t * 10000 <= z * HaircutBps
    BY <2>1, <2>h, BpsBound
  <2>3. HaircutBps * z <= 10000 * z /\ HaircutBps * z = z * HaircutBps
    BY <2>1, <2>h, MulMono
  <2>4. t <= z
    <3> HIDE DEF t
    <3> QED BY <2>1, <2>h, <2>2, <2>3, MulType
  <2>5. y - Choice!Truncated(y, HaircutBps) \in Int
        /\ y - Choice!Truncated(y, HaircutBps) <= 0
    <3>1. CASE y = 0
      <4>1. z = 0
        BY <2>1, <3>1
      <4>2. Choice!Truncated(y, HaircutBps) = t
        BY <3>1, <4>1 DEF Choice!Truncated
      <4> HIDE DEF t
      <4> QED BY <2>2, <3>1, <4>2
    <3>2. CASE y # 0
      <4>1. Choice!Truncated(y, HaircutBps) = -t
        BY <1>2, <3>2, <2>1 DEF Choice!Truncated, z
      <4> HIDE DEF t
      <4> QED BY <2>1, <2>2, <2>4, <4>1
    <3> QED BY <3>1, <3>2
  <2> QED BY <1>2, <2>5
<1> QED BY <1>1, <1>2

\* A candidate is of assets of the market, covers and seizes something, and promises no
\* more than the bonus.
SoundCandidate(k) ==
  /\ k \in Choice!Candidates
  /\ k.debtToCover > 0 /\ k.expectedCollateralOut > 0
  /\ k.oracleScore * 10000
       <= Choice!CalculateUsdValue(k.debtToCover, k.debtAsset)
            * Choice!BonusBps(k.collateralAsset)

\* A quote is of such a candidate, and unless the plan was prepared it repays the loan.
SoundQuote(q) ==
  /\ q \in Choice!Quoted
  /\ q.candidate.debtToCover > 0 /\ q.candidate.expectedCollateralOut > 0
  /\ ~ prepared => q.minOut >= Choice!ComputeMinRequiredOut(q.candidate.debtToCover)

ChoiceInv ==
  /\ Choice!TypeOK
  /\ pc = "building" => asked = 0
  /\ pc = "quoting" => asked < Len(candidates)
  /\ \A i \in 1 .. Len(candidates) : SoundCandidate(candidates[i])
  /\ \A i \in 1 .. Len(quoted) : SoundQuote(quoted[i])
  /\ pc = "checking" => SoundQuote(chosen)

LEMMA ChoiceInit == Choice!Init => ChoiceInv
<1> SUFFICES ASSUME Choice!Init PROVE ChoiceInv
  OBVIOUS
<1>1. candidates = <<>> /\ quoted = <<>> /\ asked = 0 /\ TopN \in Nat /\ pc = "building"
  BY ChoiceRates DEF Choice!Init
<1>2. Len(candidates) = 0 /\ Len(quoted) = 0
  BY <1>1
<1>3. candidates \in Seq(Choice!Candidates) /\ quoted \in Seq(Choice!Quoted)
  BY <1>1
<1>4. Len(candidates) <= TopN /\ asked \in 0 .. Len(candidates) /\ Len(quoted) <= asked
  BY <1>1, <1>2
<1>5. chosen \in Choice!Quoted \cup {NoCandidate}
  BY DEF Choice!Init
<1>6. Choice!TypeOK
  BY <1>3, <1>4, <1>5 DEF Choice!Init, Choice!TypeOK
<1> QED BY <1>1, <1>2, <1>6 DEF ChoiceInv

\* Soundness is kept while the position and the kind of plan are.
LEMMA SoundStays ==
  ASSUME UNCHANGED <<price, bonus, prepared>>
  PROVE  /\ \A k : SoundCandidate(k) => SoundCandidate(k)'
         /\ \A q : SoundQuote(q) => SoundQuote(q)'
<1>1. ASSUME NEW k, SoundCandidate(k) PROVE SoundCandidate(k)'
  <2>1. \A x, a : Choice!CalculateUsdValue(x, a)' = Choice!CalculateUsdValue(x, a)
    BY DEF Choice!CalculateUsdValue, Choice!Normalised
  <2>2. \A a : Choice!BonusBps(a)' = Choice!BonusBps(a)
    BY DEF Choice!BonusBps
  <2> QED BY <1>1, <2>1, <2>2 DEF SoundCandidate
<1>2. ASSUME NEW q, SoundQuote(q) PROVE SoundQuote(q)'
  BY <1>2 DEF SoundQuote
<1> QED BY <1>1, <1>2

\* A pair worth a plan makes a sound candidate.
LEMMA PairIsSound ==
  ASSUME PositionType, NEW d \in Assets, NEW c \in Assets, Choice!Worthwhile(d, c)
  PROVE  SoundCandidate(Choice!Candidate(d, c))
<1> DEFINE x == Choice!CalculateUsdValue(Choice!DebtToCover(d), d)
           r == Choice!BonusBps(c)
           e == Choice!CalculateExpectedCollateral(d, c)
           v == Choice!CalculateUsdValue(e, c)
           y == Choice!ProfitUsd(d, c)
           s == Choice!Score(d, c)
<1>1. /\ Choice!DebtToCover(d) \in Nat /\ x \in Nat /\ r \in Nat /\ e \in Nat /\ v \in Nat
      /\ y \in Int /\ y = v - x /\ y * 10000 <= x * r
  BY PositionNumbers, ValueType, ProfitWithinBonus DEF Choice!ProfitUsd
<1>2. s \in Int /\ s > 0 /\ y > 0 /\ s <= y
  <2>1. s = y - Choice!Truncated(y, HaircutBps) /\ s > 0
    BY DEF Choice!Score, Choice!Worthwhile
  <2> HIDE DEF y, s
  <2> QED BY <1>1, <2>1, HaircutOnlyTakes
<1>3. s * 10000 <= x * r
  <2>1. x * r \in Nat
    BY <1>1, MulType
  <2> HIDE DEF s, y, x, r
  <2> QED BY <1>1, <1>2, <2>1
<1>4. Choice!DebtToCover(d) # 0
  <2> SUFFICES ASSUME Choice!DebtToCover(d) = 0 PROVE FALSE
    OBVIOUS
  <2>1. price[d] \in Nat
    BY PositionNumbers
  <2>2. x = 0
    BY <2>1, ValueOfNothing
  <2> HIDE DEF x, r, y
  <2>3. x * r = 0
    BY <1>1, <2>2
  <2> QED BY <1>1, <1>2, <2>3
<1>5. e # 0
  <2> SUFFICES ASSUME e = 0 PROVE FALSE
    OBVIOUS
  <2>1. price[c] \in Nat
    BY PositionNumbers
  <2>2. v = 0
    BY <2>1, ValueOfNothing
  <2> HIDE DEF x, v, y
  <2> QED BY <1>1, <1>2, <2>2
<1>6. Choice!Candidate(d, c) =
        [debtAsset |-> d, collateralAsset |-> c, debtToCover |-> Choice!DebtToCover(d),
         expectedCollateralOut |-> e, oracleScore |-> s]
  BY DEF Choice!Candidate
<1> HIDE DEF e, s
<1>7. Choice!Candidate(d, c) \in Choice!Candidates
  BY <1>1, <1>2, <1>6 DEF Choice!Candidates
<1> QED BY <1>1, <1>3, <1>4, <1>5, <1>6, <1>7 DEF SoundCandidate

\* What the instance counts is what FiniteSets counts, and pairs of assets can be counted.
LEMMA PairsCounted ==
  /\ \A S : Choice!Cardinality(S) = Cardinality(S)
  /\ \A S : S \subseteq Assets \X Assets => Choice!Cardinality(S) \in Nat
<1>1. \A S : Choice!Cardinality(S) = Cardinality(S)
  BY DEF Choice!Cardinality, Cardinality
<1>2. Choice!IsFiniteSet(Assets)
  BY PartAssumptions DEF Choice!PlanAssumption
<1>3. IsFiniteSet(Assets)
  BY <1>2 DEF Choice!IsFiniteSet, IsFiniteSet
<1>4. IsFiniteSet(Assets \X Assets)
  BY <1>3, FS_Product
<1> QED BY <1>1, <1>4, FS_Subset, FS_CardinalityType

LEMMA PlansAreBuilt == ASSUME ChoiceInv, Choice!Build PROVE ChoiceInv'
<1>p. PositionType /\ TopN \in Nat /\ prepared \in BOOLEAN
  BY ChoiceRates DEF ChoiceInv, Choice!TypeOK, PositionType
<1>u. /\ UNCHANGED <<debt, collateral, price, bonus, prepared, quoted, asked, chosen, sent>>
      /\ pc = "building" /\ pc' = IF candidates' = <<>> THEN "done" ELSE "quoting"
  BY DEF Choice!Build, Choice!position
<1>1. PICK known \in SUBSET Assets : \E s \in Choice!Ranked(Choice!Pairs(known)) :
        candidates' = [i \in 1 .. (IF prepared THEN Choice!Fewer(1, Len(s)) ELSE Len(s)) |->
                         Choice!Candidate(s[i][1], s[i][2])]
  BY DEF Choice!Build
<1> DEFINE pairs == Choice!Pairs(known)
           m == Choice!Fewer(TopN, Choice!Cardinality(pairs))
<1>2. PICK s \in Choice!Ranked(pairs) :
        candidates' = [i \in 1 .. (IF prepared THEN Choice!Fewer(1, Len(s)) ELSE Len(s)) |->
                         Choice!Candidate(s[i][1], s[i][2])]
  BY <1>1
<1>3. /\ pairs \subseteq Assets \X Assets
      /\ \A p \in pairs : Choice!Worthwhile(p[1], p[2])
  BY DEF Choice!Pairs
<1>4. m \in Nat /\ m <= TopN
  BY <1>3, <1>p, PairsCounted DEF Choice!Fewer
<1>5. s \in [1 .. m -> pairs]
  BY <1>2 DEF Choice!Ranked
<1> HIDE DEF pairs, m
<1>6. Len(s) = m
  BY <1>4, <1>5
<1> DEFINE n == IF prepared THEN Choice!Fewer(1, Len(s)) ELSE Len(s)
<1>7. n \in Nat /\ n <= m
  BY <1>4, <1>6 DEF Choice!Fewer
<1>8. candidates' = [i \in 1 .. n |-> Choice!Candidate(s[i][1], s[i][2])]
  BY <1>2
<1> HIDE DEF n
<1>9. \A i \in 1 .. n : SoundCandidate(candidates'[i])
  <2> SUFFICES ASSUME NEW i \in 1 .. n PROVE SoundCandidate(candidates'[i])
    OBVIOUS
  <2>1. s[i] \in pairs
    BY <1>4, <1>5, <1>7
  <2>2. s[i][1] \in Assets /\ s[i][2] \in Assets /\ Choice!Worthwhile(s[i][1], s[i][2])
    BY <1>3, <2>1
  <2>3. candidates'[i] = Choice!Candidate(s[i][1], s[i][2])
    BY <1>8
  <2> QED BY <1>p, <2>2, <2>3, PairIsSound
<1>10. candidates' \in Seq(Choice!Candidates) /\ Len(candidates') = n
  <2>1. \A i \in 1 .. n : Choice!Candidate(s[i][1], s[i][2]) \in Choice!Candidates
    BY <1>8, <1>9 DEF SoundCandidate
  <2> QED BY <1>7, <1>8, <2>1
<1>11. (\A i \in 1 .. Len(candidates) : SoundCandidate(candidates[i]))'
  BY <1>9, <1>10, <1>u, SoundStays
<1>12. (\A i \in 1 .. Len(quoted) : SoundQuote(quoted[i]))'
  BY <1>u, SoundStays DEF ChoiceInv
<1>13. pc' = "quoting" => asked' < Len(candidates')
  <2>1. asked' = 0
    BY <1>u DEF ChoiceInv
  <2>2. candidates' # <<>> => Len(candidates') > 0
    BY <1>10, <1>7
  <2> QED BY <1>u, <2>1, <2>2
<1>14. Choice!TypeOK'
  <2>1. /\ asked' = 0 /\ Len(candidates') \in Nat /\ Len(candidates') <= TopN
        /\ asked' \in 0 .. Len(candidates') /\ Len(quoted') <= asked'
    BY <1>p, <1>u, <1>4, <1>7, <1>10 DEF ChoiceInv, Choice!TypeOK
  <2>2. pc' \in {"building", "quoting", "choosing", "checking", "done"}
    BY <1>u
  <2> QED BY <1>10, <1>u, <2>1, <2>2 DEF ChoiceInv, Choice!TypeOK
<1> QED BY <1>11, <1>12, <1>13, <1>14, <1>u DEF ChoiceInv

\* A quote whose net is positive repays the loan.
LEMMA NetRepays ==
  ASSUME NEW minOut \in Nat, NEW loan \in Nat,
         Choice!ComputeNetDebtToken(minOut, loan) > 0
  PROVE  minOut >= Choice!ComputeMinRequiredOut(loan)
<1> DEFINE f == Choice!Bps(loan, FlashloanFeeBps)
           b == Choice!Bps(loan, SafetyBufferBps)
<1>1. f \in Nat /\ b \in Nat
  BY FeesAreNat
<1> HIDE DEF f, b
<1>2. minOut - loan - f - b > 0
  BY DEF Choice!ComputeNetDebtToken, f, b
<1>3. minOut >= loan + f + b
  BY <1>1, <1>2
<1> QED BY <1>3 DEF Choice!ComputeMinRequiredOut, f, b

LEMMA PlansAreQuoted == ASSUME ChoiceInv, Choice!Quote PROVE ChoiceInv'
<1> DEFINE c == candidates[asked + 1]
<1>u. /\ UNCHANGED <<debt, collateral, price, bonus, prepared, candidates, chosen, sent>>
      /\ pc = "quoting" /\ asked' = asked + 1
      /\ pc' = IF asked' < Len(candidates) THEN "quoting" ELSE "choosing"
  BY DEF Choice!Quote, Choice!position
<1>1. /\ asked \in Nat /\ asked < Len(candidates) /\ Len(candidates) \in Nat
      /\ prepared \in BOOLEAN /\ Len(quoted) <= asked /\ quoted \in Seq(Choice!Quoted)
      /\ Len(quoted) \in Nat
  BY <1>u DEF ChoiceInv, Choice!TypeOK
<1>2. SoundCandidate(c) /\ c \in Choice!Candidates
  <2>1. asked + 1 \in 1 .. Len(candidates)
    BY <1>1
  <2> QED BY <2>1 DEF ChoiceInv, SoundCandidate
<1> HIDE DEF c
<1>3. \/ quoted' = quoted
      \/ \E q : SoundQuote(q) /\ quoted' = Append(quoted, q)
  <2> SUFFICES ASSUME quoted' # quoted
               PROVE  \E q : SoundQuote(q) /\ quoted' = Append(quoted, q)
    OBVIOUS
  <2>1. PICK off \in -Spread .. Spread :
          LET minOut == Choice!ComputeMinRequiredOut(c.debtToCover) + off
              net == Choice!ComputeNetDebtToken(minOut, c.debtToCover)
          IN  /\ minOut > 0
              /\ quoted' = IF Choice!Kept(net)
                             THEN Append(quoted, [candidate |-> c, minOut |-> minOut,
                                                  net |-> net])
                             ELSE quoted
    BY DEF Choice!Quote, c
  <2> DEFINE minOut == Choice!ComputeMinRequiredOut(c.debtToCover) + off
             net == Choice!ComputeNetDebtToken(minOut, c.debtToCover)
             q == [candidate |-> c, minOut |-> minOut, net |-> net]
  <2>2. minOut > 0 /\ Choice!Kept(net) /\ quoted' = Append(quoted, q)
    BY <2>1
  <2>3. c.debtToCover \in Nat
    BY <1>2 DEF Choice!Candidates
  <2>4. minOut \in Nat /\ net \in Int
    <3> DEFINE loan == c.debtToCover
               f == Choice!Bps(loan, FlashloanFeeBps)
               b == Choice!Bps(loan, SafetyBufferBps)
    <3>1. loan \in Nat
      BY <2>3
    <3> HIDE DEF loan
    <3>2. f \in Nat /\ b \in Nat
      BY <3>1, FeesAreNat
    <3> HIDE DEF f, b
    <3>3. minOut = loan + f + b + off /\ net = minOut - loan - f - b
      BY DEF Choice!ComputeMinRequiredOut, Choice!ComputeNetDebtToken, loan, f, b
    <3> HIDE DEF minOut, net
    <3>4. off \in Int
      BY ChoiceRates
    <3> QED BY <2>2, <3>1, <3>2, <3>3, <3>4
  <2> HIDE DEF minOut, net
  <2>5. q \in Choice!Quoted
    BY <1>2, <2>4 DEF Choice!Quoted
  <2>6. ~ prepared => minOut >= Choice!ComputeMinRequiredOut(c.debtToCover)
    <3>1. ~ prepared => Choice!ComputeNetDebtToken(minOut, c.debtToCover) > 0
      BY <2>2 DEF Choice!Kept, net
    <3> QED BY <2>3, <2>4, <3>1, NetRepays
  <2>7. SoundQuote(q)
    BY <1>2, <2>5, <2>6 DEF SoundQuote, SoundCandidate
  <2> QED BY <2>2, <2>7
<1>4. /\ quoted' \in Seq(Choice!Quoted) /\ Len(quoted') <= asked'
      /\ \A i \in 1 .. Len(quoted') : SoundQuote(quoted'[i])
  <2>1. CASE quoted' = quoted
    BY <1>1, <1>u, <2>1 DEF ChoiceInv
  <2>2. CASE quoted' # quoted
    <3>1. PICK q : SoundQuote(q) /\ quoted' = Append(quoted, q)
      BY <1>3, <2>2
    <3>2. q \in Choice!Quoted
      BY <3>1 DEF SoundQuote
    <3>3. /\ quoted' \in Seq(Choice!Quoted) /\ Len(quoted') = Len(quoted) + 1
          /\ \A i \in 1 .. Len(quoted') :
               quoted'[i] = IF i <= Len(quoted) THEN quoted[i] ELSE q
      BY <1>1, <3>1, <3>2
    <3>4. \A i \in 1 .. Len(quoted) : SoundQuote(quoted[i])
      BY DEF ChoiceInv
    <3> QED BY <1>1, <1>u, <3>1, <3>3, <3>4
  <2> QED BY <2>1, <2>2
<1>5. /\ (\A i \in 1 .. Len(quoted) : SoundQuote(quoted[i]))'
      /\ (\A i \in 1 .. Len(candidates) : SoundCandidate(candidates[i]))'
  BY <1>4, <1>u, SoundStays DEF ChoiceInv
<1>6. Choice!TypeOK'
  <2>1. asked' \in 0 .. Len(candidates)
    BY <1>1, <1>u
  <2>2. pc' \in {"building", "quoting", "choosing", "checking", "done"}
    BY <1>u
  <2> QED BY <1>4, <1>u, <2>1, <2>2 DEF ChoiceInv, Choice!TypeOK
<1> QED BY <1>5, <1>6, <1>u DEF ChoiceInv

LEMMA PlanIsChosen == ASSUME ChoiceInv, Choice!Choose PROVE ChoiceInv'
<1>1. /\ UNCHANGED <<debt, collateral, price, bonus, prepared, candidates, quoted, asked, sent>>
      /\ pc' \in {"done", "checking"}
      /\ pc' = "checking" => \E i \in DOMAIN quoted : chosen' = quoted[i]
      /\ pc' = "done" => chosen' = chosen
  BY DEF Choice!Choose, Choice!position
<1>2. DOMAIN quoted = 1 .. Len(quoted)
  BY DEF ChoiceInv, Choice!TypeOK
<1>3. /\ (\A i \in 1 .. Len(quoted) : SoundQuote(quoted[i]))'
      /\ (\A i \in 1 .. Len(candidates) : SoundCandidate(candidates[i]))'
  BY <1>1, SoundStays DEF ChoiceInv
<1>4. pc' = "checking" => SoundQuote(chosen)'
  BY <1>1, <1>2, <1>3
<1>5. chosen' \in Choice!Quoted \cup {NoCandidate}
  BY <1>1, <1>4 DEF SoundQuote, ChoiceInv, Choice!TypeOK
<1>6. Choice!TypeOK'
  BY <1>1, <1>5 DEF ChoiceInv, Choice!TypeOK
<1> QED BY <1>1, <1>3, <1>4, <1>6 DEF ChoiceInv

LEMMA ChoiceNext == ChoiceInv /\ [Choice!Next]_(Choice!vars) => ChoiceInv'
<1> SUFFICES ASSUME ChoiceInv, [Choice!Next]_(Choice!vars) PROVE ChoiceInv'
  OBVIOUS
<1>1. CASE Choice!AttemptLiquidation \/ UNCHANGED Choice!vars
  <2>1. /\ UNCHANGED <<debt, collateral, price, bonus, prepared, candidates, quoted, asked,
                       chosen>>
        /\ pc' \in {pc, "done"} /\ sent' \in BOOLEAN
    BY <1>1 DEF Choice!AttemptLiquidation, Choice!PerformSafetyChecks, Choice!vars,
                Choice!position, ChoiceInv, Choice!TypeOK
  <2>2. /\ (\A i \in 1 .. Len(quoted) : SoundQuote(quoted[i]))'
        /\ (\A i \in 1 .. Len(candidates) : SoundCandidate(candidates[i]))'
        /\ pc' = "checking" => SoundQuote(chosen)'
    BY <2>1, SoundStays DEF ChoiceInv
  <2>3. Choice!TypeOK'
    BY <2>1 DEF ChoiceInv, Choice!TypeOK
  <2> QED BY <2>1, <2>2, <2>3 DEF ChoiceInv
<1> QED BY <1>1, PlansAreBuilt, PlansAreQuoted, PlanIsChosen DEF Choice!Next

LEMMA ChoiceIsSafe ==
  Choice!Spec => [](Choice!ScoreWithinBonus /\ Choice!FreshPlansPass)
<1>1. ChoiceInv => Choice!ScoreWithinBonus /\ Choice!FreshPlansPass
  <2> SUFFICES ASSUME ChoiceInv PROVE Choice!ScoreWithinBonus /\ Choice!FreshPlansPass
    OBVIOUS
  <2>1. DOMAIN candidates = 1 .. Len(candidates)
    BY DEF ChoiceInv, Choice!TypeOK
  <2>2. Choice!ScoreWithinBonus
    BY <2>1 DEF ChoiceInv, SoundCandidate, Choice!ScoreWithinBonus
  <2>3. Choice!FreshPlansPass
    BY DEF ChoiceInv, SoundQuote, Choice!FreshPlansPass, Choice!PerformSafetyChecks
  <2> QED BY <2>2, <2>3
<1> QED BY <1>1, ChoiceInit, ChoiceNext, PTL DEF Choice!Spec

LEMMA ChoicePart == ServicesSpec => Choice!Spec
<1>1. ServicesInit => Choice!Init
  BY DEF ServicesInit
<1>2. [ServicesNext]_servicesVars => [Choice!Next]_(Choice!vars)
  BY DEF ServicesNext, servicesVars, choiceVars, Choice!vars, Choice!position,
         FollowLimiter, FollowBorrowers, FollowFeed, FollowCache, FollowChoice,
         FollowExecutor, FollowEdge, FollowVerify, FollowLink
<1> QED BY <1>1, <1>2, PTL DEF ServicesSpec, Choice!Spec

\* Whatever the decimals, prices, balances and rates, rounding neither makes a pair look
\* better than its bonus nor stops a plan that was built and quoted on the spot.
THEOREM RoundingIsNeverUnsafe == ServicesSpec => []RoundingIsSafe
  BY ChoiceIsSafe, ChoicePart, PTL DEF RoundingIsSafe
-----------------------------------------------------------------------------
\* BorrowersIndex, for any borrowers, reserves, windows, chunks and restarts.

\* What holds at lo, and with every number below hi at the next, holds up to hi.
LEMMA StepByStep ==
  ASSUME NEW lo \in Int, NEW hi \in Int, NEW S, lo \in S,
         \A n \in S : n \in lo .. hi - 1 => n + 1 \in S
  PROVE  \A n \in lo .. hi : n \in S
<1> DEFINE missing == {k \in Nat : lo + k <= hi /\ lo + k \notin S}
<1>1. SUFFICES missing = {}
  <2> SUFFICES ASSUME missing = {}, NEW n \in lo .. hi, n \notin S PROVE FALSE
    OBVIOUS
  <2>1. PICK k \in Nat : n = lo + k
    <3>1. n - lo \in Nat /\ n = lo + (n - lo)
      OBVIOUS
    <3> QED BY <3>1
  <2>2. k \in missing
    BY <2>1
  <2> QED BY <2>2
<1>2. SUFFICES ASSUME missing # {} PROVE FALSE
  OBVIOUS
<1>3. PICK k \in missing : \A j \in missing : k <= j
  <2>1. missing \in SUBSET Nat
    OBVIOUS
  <2> HIDE DEF missing
  <2> QED BY <1>2, <2>1, LeastNumber
<1>4. k \in Nat /\ lo + k <= hi /\ lo + k \notin S
  OBVIOUS
<1>5. k # 0
  BY <1>4
<1>6. PICK j \in Nat : k = j + 1
  <2>1. k - 1 \in Nat /\ k = (k - 1) + 1
    BY <1>4, <1>5
  <2> QED BY <2>1
<1>7. lo + j <= hi /\ ~ k <= j
  BY <1>4, <1>6
<1>8. j \notin missing
  BY <1>3, <1>7
<1>9. lo + j \in S
  BY <1>7, <1>8
<1>10. lo + j \in lo .. hi - 1
  BY <1>4, <1>6
<1>11. (lo + j) + 1 \in S
  BY <1>9, <1>10
<1>12. (lo + j) + 1 = lo + k
  BY <1>6
<1> QED BY <1>4, <1>11, <1>12

\* The borrowers that the logs of the blocks in C leave of S: those of S who burnt no debt
\* in C, and those who received debt in one block and burnt none in a later one.
Held(blocks, S, C) ==
  {u \in Debtors :
     \/ u \in S /\ \A c \in C : ~ (blocks[c].from = u /\ blocks[c].to = Zero)
     \/ \E b \in C :
          /\ blocks[b].to = u
          /\ \A c \in C : c > b => ~ (blocks[c].from = u /\ blocks[c].to = Zero)}

\* The blocks from i to j with a log of reserve a.
LogsOf(blocks, a, i, j) == {b \in i .. j : b > 0 /\ blocks[b].asset = a}

\* One more log, later than the others.
LEMMA HeldNext ==
  ASSUME Zero \notin Debtors, NEW S, NEW C \in SUBSET Nat, NEW m \in Nat, \A c \in C : c < m,
         chain[m].to \in Debtors \cup {Zero}
  PROVE  Held(chain, S, C \cup {m}) = Borrowers!ProcessTransferLog(chain[m], Held(chain, S, C))
<1> DEFINE Burns(u, c) == chain[c].from = u /\ chain[c].to = Zero
<1>1. ASSUME NEW b \in C PROVE ~ (b > m) /\ m > b
  <2>1. b \in Nat /\ b < m
    OBVIOUS
  <2> QED BY <2>1
<1>2. ~ m > m
  OBVIOUS
<1>3. ASSUME NEW u \in Debtors
      PROVE  u \in Held(chain, S, C \cup {m}) <=>
               \/ chain[m].to = u
               \/ u \in Held(chain, S, C) /\ ~ Burns(u, m)
  <2>1. ASSUME NEW b \in C, chain[b].to = u,
               \A c \in C \cup {m} : c > b => ~ Burns(u, c)
        PROVE  u \in Held(chain, S, C) /\ ~ Burns(u, m)
    BY <1>1, <2>1 DEF Held
  <2>2. ASSUME u \in Held(chain, S, C), ~ Burns(u, m) PROVE u \in Held(chain, S, C \cup {m})
    <3>1. CASE u \in S /\ \A c \in C : ~ Burns(u, c)
      BY <2>2, <3>1 DEF Held
    <3>2. CASE \E b \in C : chain[b].to = u /\ \A c \in C : c > b => ~ Burns(u, c)
      <4>1. PICK b \in C : chain[b].to = u /\ \A c \in C : c > b => ~ Burns(u, c)
        BY <3>2
      <4> QED BY <2>2, <4>1 DEF Held
    <3> QED BY <2>2, <3>1, <3>2 DEF Held
  <2>3. ASSUME chain[m].to = u PROVE u \in Held(chain, S, C \cup {m})
    BY <1>1, <1>2, <2>3 DEF Held
  <2>4. ASSUME u \in Held(chain, S, C \cup {m}), chain[m].to # u PROVE u \in Held(chain, S, C) /\ ~ Burns(u, m)
    <3>1. CASE u \in S /\ \A c \in C \cup {m} : ~ Burns(u, c)
      BY <3>1 DEF Held
    <3>2. CASE \E b \in C \cup {m} :
                 chain[b].to = u /\ \A c \in C \cup {m} : c > b => ~ Burns(u, c)
      <4>1. PICK b \in C \cup {m} :
              chain[b].to = u /\ \A c \in C \cup {m} : c > b => ~ Burns(u, c)
        BY <3>2
      <4>2. b \in C
        BY <2>4, <4>1
      <4> QED BY <2>1, <4>1, <4>2
    <3> QED BY <2>4, <3>1, <3>2 DEF Held
  <2> QED BY <2>2, <2>3, <2>4
<1>4. Held(chain, S, C) \subseteq Debtors /\ Held(chain, S, C \cup {m}) \subseteq Debtors
  BY DEF Held
<1>5. CASE chain[m].to = Zero
  <2>1. Borrowers!ProcessTransferLog(chain[m], Held(chain, S, C)) = Held(chain, S, C) \ {chain[m].from}
    BY <1>5 DEF Borrowers!ProcessTransferLog
  <2>2. \A u \in Debtors : chain[m].to # u
    BY <1>5
  <2>3. \A u \in Debtors : Burns(u, m) <=> u = chain[m].from
    BY <1>5
  <2> HIDE DEF Burns
  <2> QED BY <1>3, <1>4, <2>1, <2>2, <2>3
<1>6. CASE chain[m].to # Zero
  <2>1. Borrowers!ProcessTransferLog(chain[m], Held(chain, S, C)) = Held(chain, S, C) \cup {chain[m].to}
    BY <1>6 DEF Borrowers!ProcessTransferLog
  <2>2. \A u : ~ Burns(u, m)
    BY <1>6
  <2> HIDE DEF Burns
  <2> QED BY <1>3, <1>4, <1>6, <2>1, <2>2
<1> QED BY <1>5, <1>6

\* A chunk that is read adds what its logs say: as many as there are, in their order.
LEMMA ReplayHolds ==
  ASSUME Zero \notin Debtors, NEW a, NEW i \in Nat, NEW j \in Nat, i <= j,
         \A b \in 1 .. j : chain[b].to \in Debtors \cup {Zero},
         NEW S, NEW C \in SUBSET Nat, \A c \in C : c < i
  PROVE  Borrowers!Replay(a, i, j, Held(chain, S, C)) = Held(chain, S, C \cup LogsOf(chain, a, i, j))
<1> DEFINE set == Held(chain, S, C)
           first == IF i = 0 THEN 1 ELSE i
           D == first - 1 .. j
           upTo == [b \in D |-> Held(chain, S, C \cup LogsOf(chain, a, first, b))]
           Replayed(f) == f = [b \in D |->
             IF b < first THEN set
             ELSE IF chain[b].asset = a THEN Borrowers!ProcessTransferLog(chain[b], f[b - 1])
             ELSE f[b - 1]]
           after == CHOOSE f : Replayed(f)
<1>1. PICK l \in Nat : l + 1 = first /\ l <= j
  <2>1. CASE i = 0
    <3>1. 0 \in Nat /\ 0 + 1 = first /\ 0 <= j
      BY <2>1
    <3> QED BY <3>1
  <2>2. CASE i # 0
    <3>1. i - 1 \in Nat /\ (i - 1) + 1 = first /\ i - 1 <= j
      BY <2>2
    <3> QED BY <3>1
  <2> QED BY <2>1, <2>2
<1>2. D = l .. j /\ l \in D /\ j \in D
  BY <1>1
<1>3. ASSUME NEW b \in D, b < first PROVE LogsOf(chain, a, first, b) = {}
  BY <1>1, <1>3 DEF LogsOf
<1>4. ASSUME NEW b \in D, ~ b < first
      PROVE  /\ b - 1 \in D /\ b \in Nat \ {0}
             /\ LogsOf(chain, a, first, b) =
                  IF chain[b].asset = a THEN LogsOf(chain, a, first, b - 1) \cup {b}
                  ELSE LogsOf(chain, a, first, b - 1)
             /\ C \cup LogsOf(chain, a, first, b - 1) \in SUBSET Nat
             /\ \A c \in C \cup LogsOf(chain, a, first, b - 1) : c < b
             /\ chain[b].to \in Debtors \cup {Zero}
  <2>1. b \in Nat \ {0} /\ b - 1 \in Nat /\ b - 1 \in D /\ b \in 1 .. j /\ first \in Nat
    BY <1>1, <1>2, <1>4
  <2>2. LogsOf(chain, a, first, b) =
          IF chain[b].asset = a THEN LogsOf(chain, a, first, b - 1) \cup {b}
          ELSE LogsOf(chain, a, first, b - 1)
    <3>1. first .. b = (first .. b - 1) \cup {b} /\ b > 0
      BY <1>4, <2>1
    <3> HIDE DEF first
    <3> QED BY <3>1 DEF LogsOf
  <2>3. \A c \in LogsOf(chain, a, first, b - 1) : c \in Nat /\ c < b
    BY <2>1 DEF LogsOf
  <2>4. \A c \in C : c < b
    BY <1>1, <1>4, <2>1
  <2> QED BY <2>1, <2>2, <2>3, <2>4
<1> HIDE DEF D, first
<1>5. Replayed(upTo)
  <2>1. ASSUME NEW b \in D, b < first PROVE upTo[b] = set
    BY <1>3, <2>1
  <2>2. ASSUME NEW b \in D, ~ b < first, chain[b].asset = a
        PROVE  upTo[b] = Borrowers!ProcessTransferLog(chain[b], upTo[b - 1])
    <3>1. upTo[b - 1] = Held(chain, S, C \cup LogsOf(chain, a, first, b - 1))
      BY <1>4, <2>2
    <3>2. C \cup LogsOf(chain, a, first, b) = (C \cup LogsOf(chain, a, first, b - 1)) \cup {b}
      BY <1>4, <2>2
    <3>3. Held(chain, S, (C \cup LogsOf(chain, a, first, b - 1)) \cup {b}) =
            Borrowers!ProcessTransferLog(chain[b], Held(chain, S, C \cup LogsOf(chain, a, first, b - 1)))
      BY <1>4, <2>2, HeldNext
    <3> QED BY <3>1, <3>2, <3>3
  <2>3. ASSUME NEW b \in D, ~ b < first, chain[b].asset # a PROVE upTo[b] = upTo[b - 1]
    BY <1>4, <2>3
  <2>4. DOMAIN upTo = D /\ upTo = [b \in D |-> upTo[b]]
    OBVIOUS
  <2> HIDE DEF upTo
  <2> QED BY <2>1, <2>2, <2>3, <2>4
<1>6. Replayed(after)
  <2> HIDE DEF Replayed
  <2> QED BY <1>5
<1> HIDE DEF after
<1>7. PICK g : g = upTo
  OBVIOUS
<1>8. Replayed(g)
  BY <1>5, <1>7
<1> HIDE DEF upTo
<1>9. ASSUME NEW b \in D
      PROVE  /\ b < first => after[b] = set /\ g[b] = set
             /\ ~ b < first /\ chain[b].asset = a =>
                  /\ after[b] = Borrowers!ProcessTransferLog(chain[b], after[b - 1])
                  /\ g[b] = Borrowers!ProcessTransferLog(chain[b], g[b - 1])
             /\ ~ b < first /\ chain[b].asset # a => after[b] = after[b - 1] /\ g[b] = g[b - 1]
  BY <1>6, <1>8, Zenon
<1>10. \A b \in D : after[b] = g[b]
  <2> DEFINE same == {n \in D : after[n] = g[n]}
  <2>1. l \in same
    BY <1>1, <1>2, <1>9
  <2>2. ASSUME NEW n \in same, n \in l .. j - 1 PROVE n + 1 \in same
    <3>1. n + 1 \in D /\ ~ n + 1 < first /\ (n + 1) - 1 = n /\ after[n] = g[n]
      BY <1>1, <1>2, <2>2
    <3>2. after[n + 1] = g[n + 1]
      BY <1>9, <3>1
    <3> QED BY <3>1, <3>2
  <2>3. \A b \in D : b \in same
    <3> HIDE DEF same
    <3>1. l \in Int /\ j \in Int
      OBVIOUS
    <3> QED BY <1>2, <2>1, <2>2, <3>1, StepByStep
  <2> QED BY <2>3
<1>11. Borrowers!Replay(a, i, j, set) = after[j]
  BY Zenon DEF Borrowers!Replay, after, Replayed, D, first
<1>12. after[j] = Held(chain, S, C \cup LogsOf(chain, a, first, j))
  BY <1>2, <1>7, <1>10 DEF upTo
<1>13. LogsOf(chain, a, first, j) = LogsOf(chain, a, i, j)
  BY DEF LogsOf, first
<1> QED BY <1>11, <1>12, <1>13
\* The blocks up to n in which u received, or gave, a unit of the debt of reserve a, and
\* the debt that leaves.
Received(blocks, a, u, n) == {b \in 1 .. n : blocks[b].asset = a /\ blocks[b].to = u}
Gave(blocks, a, u, n) == {b \in 1 .. n : blocks[b].asset = a /\ blocks[b].from = u}
Owes(blocks, a, u, n) ==
  Cardinality(Received(blocks, a, u, n)) - Cardinality(Gave(blocks, a, u, n))

\* One more block, with its log.
Owing(log, a, u, before) ==
  IF log.asset # a THEN before
  ELSE before + (IF log.to = u THEN 1 ELSE 0) - (IF log.from = u THEN 1 ELSE 0)

LEMMA OwesNext ==
  ASSUME NEW blocks, NEW a, NEW u, NEW n \in Nat
  PROVE  /\ Owes(blocks, a, u, 0) = 0 /\ Owes(blocks, a, u, n) \in Int
         /\ Owes(blocks, a, u, n + 1) = Owing(blocks[n + 1], a, u, Owes(blocks, a, u, n))
<1> DEFINE R == Received(blocks, a, u, n)
           G == Gave(blocks, a, u, n)
           In == blocks[n + 1].asset = a /\ blocks[n + 1].to = u
           Out == blocks[n + 1].asset = a /\ blocks[n + 1].from = u
<1>1. IsFiniteSet(R) /\ IsFiniteSet(G) /\ n + 1 \notin R /\ n + 1 \notin G
  <2>1. IsFiniteSet(1 .. n) /\ R \subseteq 1 .. n /\ G \subseteq 1 .. n
    BY FS_Interval DEF Received, Gave
  <2>2. n + 1 \notin 1 .. n
    OBVIOUS
  <2> HIDE DEF R, G
  <2> QED BY <2>1, <2>2, FS_Subset
<1>2. Received(blocks, a, u, 0) = {} /\ Gave(blocks, a, u, 0) = {}
  BY DEF Received, Gave
<1>3. /\ Received(blocks, a, u, n + 1) = IF In THEN R \cup {n + 1} ELSE R
      /\ Gave(blocks, a, u, n + 1) = IF Out THEN G \cup {n + 1} ELSE G
  <2>1. 1 .. n + 1 = (1 .. n) \cup {n + 1}
    OBVIOUS
  <2> QED BY <2>1 DEF Received, Gave
<1>4. Cardinality(R) \in Nat /\ Cardinality(G) \in Nat
  BY <1>1, FS_CardinalityType
<1>5. Cardinality(R \cup {n + 1}) = Cardinality(R) + 1
      /\ Cardinality(G \cup {n + 1}) = Cardinality(G) + 1
  BY <1>1, FS_AddElement
<1>6. Owes(blocks, a, u, 0) = 0
  BY <1>2, FS_EmptySet DEF Owes
<1>7. Owes(blocks, a, u, n) = Cardinality(R) - Cardinality(G)
  BY DEF Owes
<1>8. Owes(blocks, a, u, n + 1) =
        (IF In THEN Cardinality(R) + 1 ELSE Cardinality(R))
          - (IF Out THEN Cardinality(G) + 1 ELSE Cardinality(G))
  <2> HIDE DEF R, G, In, Out
  <2> QED BY <1>3, <1>5 DEF Owes
<1> HIDE DEF R, G
<1> QED BY <1>4, <1>6, <1>7, <1>8 DEF Owing

\* The debt that the logs add up to.
LEMMA DebtIsCounted ==
  ASSUME NEW a, NEW u, Len(chain) \in Nat
  PROVE  Borrowers!Debt(a, u) = Owes(chain, a, u, Len(chain))
<1> DEFINE D == 0 .. Len(chain)
           upTo == [b \in D |-> Owes(chain, a, u, b)]
           Summed(f) == f = [b \in D |->
             IF b = 0 THEN 0
             ELSE Owing(chain[b], a, u, f[b - 1])]
           owed == CHOOSE f : Summed(f)
<1>1. D = 0 .. Len(chain) /\ 0 \in D /\ Len(chain) \in D
  OBVIOUS
<1>2. ASSUME NEW b \in D, b # 0 PROVE b - 1 \in D /\ b - 1 \in Nat /\ (b - 1) + 1 = b
  BY <1>2
<1> HIDE DEF D
<1>3. \A b \in D : upTo[b] = Owes(chain, a, u, b)
  OBVIOUS
<1>4. Summed(upTo)
  <2>1. ASSUME NEW b \in D, b = 0 PROVE upTo[b] = 0
    BY <1>3, <2>1, OwesNext
  <2>2. ASSUME NEW b \in D, b # 0
        PROVE  upTo[b] = Owing(chain[b], a, u, upTo[b - 1])
    <3>1. PICK n \in Nat : n = b - 1 /\ n + 1 = b /\ n \in D
      BY <1>2, <2>2
    <3>2. upTo[b] = Owes(chain, a, u, n + 1) /\ upTo[b - 1] = Owes(chain, a, u, n)
      BY <1>3, <3>1
    <3>3. Owes(chain, a, u, n + 1) =
            Owing(chain[n + 1], a, u, Owes(chain, a, u, n))
      BY OwesNext
    <3> HIDE DEF upTo
    <3> QED BY <3>1, <3>2, <3>3, Zenon
  <2>3. upTo = [b \in D |-> upTo[b]]
    OBVIOUS
  <2> HIDE DEF upTo
  <2> QED BY <2>1, <2>2, <2>3
<1>5. Summed(owed)
  <2> HIDE DEF Summed
  <2> QED BY <1>4
<1>6. PICK g : g = upTo
  OBVIOUS
<1>7. Summed(g)
  BY <1>4, <1>6
<1> HIDE DEF upTo, owed
<1>8. ASSUME NEW b \in D
      PROVE  /\ b = 0 => owed[b] = 0 /\ g[b] = 0
             /\ b # 0 => /\ owed[b] = Owing(chain[b], a, u, owed[b - 1])
                         /\ g[b] = Owing(chain[b], a, u, g[b - 1])
  BY <1>5, <1>7, Zenon
<1>9. \A b \in D : owed[b] = g[b]
  <2> DEFINE same == {n \in D : owed[n] = g[n]}
  <2>1. 0 \in same
    BY <1>1, <1>8
  <2>2. ASSUME NEW n \in same, n \in 0 .. Len(chain) - 1 PROVE n + 1 \in same
    <3>1. n + 1 \in D /\ n + 1 # 0 /\ (n + 1) - 1 = n /\ owed[n] = g[n]
      BY <1>1, <2>2
    <3>2. owed[n + 1] = g[n + 1]
      BY <1>8, <3>1
    <3> QED BY <3>1, <3>2
  <2>3. \A b \in D : b \in same
    <3> HIDE DEF same
    <3>1. 0 \in Int /\ Len(chain) \in Int
      OBVIOUS
    <3> QED BY <1>1, <2>1, <2>2, <3>1, StepByStep
  <2> QED BY <2>3
<1>10. Borrowers!Debt(a, u) = owed[Len(chain)]
  BY Zenon DEF Borrowers!Debt, Borrowers!Tip, owed, Summed, D, Owing
<1> QED BY <1>1, <1>3, <1>6, <1>9, <1>10
\* Those whose chunk did not fail.
Read(blocks, gone, a, i, j) == {b \in LogsOf(blocks, a, i, j) : <<a, b>> \notin gone}

\* Debts that the chain keeps within bounds; a backfill that has read every block before
\* its next, but those of failed chunks, and holds what they leave; after it the same
\* of the whole window, and of the live logs since.
DebtsAreBounded ==
  \A a \in Reserves, u \in Debtors : Owes(chain, a, u, Len(chain)) \in 0 .. MaxDebt

IndexIsOrdered ==
  /\ target <= Len(chain) /\ seen <= Len(chain)
  /\ \A a \in Reserves : \A b \in 0 .. IndexBlocks :
       <<a, b>> \in missed => b <= target /\ (phase = "backfill" => b < next[a])
  /\ phase \in {"load", "range"} => missed = {}
  /\ phase = "backfill" => \A a \in Reserves : from <= next[a] /\ next[a] <= target + 1
  /\ phase = "live" => target <= liveFrom /\ liveFrom <= seen

IndexHolds ==
  /\ phase \in {"load", "range"} => \A a \in Reserves : borrowers[a] = {}
  /\ phase = "backfill" =>
       \A a \in Reserves :
         borrowers[a] = Held(chain, {}, Read(chain, missed, a, from, next[a] - 1))
  /\ phase = "subscribe" =>
       \A a \in Reserves :
         borrowers[a] = Held(chain, {}, Read(chain, missed, a, from, target))
  /\ phase = "live" =>
       \A a \in Reserves : borrowers[a] = Held(chain, {}, Borrowers!Covered(a))

IndexInv ==
  /\ Borrowers!TypeOK
  /\ DebtsAreBounded
  /\ IndexIsOrdered
  /\ ~ loaded /\ phase # "load" => IndexHolds

LEMMA IndexInit == Borrowers!Init => IndexInv
<1> SUFFICES ASSUME Borrowers!Init PROVE IndexInv
  OBVIOUS
<1>1. Borrowers!TypeOK
  <2>1. BackfillBlocks \in Nat /\ IndexBlocks \in Nat /\ MaxRestarts \in Nat
    BY PartAssumptions DEF Borrowers!IndexAssumption
  <2>2. chain \in Seq(Borrowers!Log) /\ Len(chain) = 0
    BY DEF Borrowers!Init
  <2>3. 0 \in 0 .. IndexBlocks /\ 0 \in 0 .. IndexBlocks + 1 /\ 0 \in 0 .. MaxRestarts
    BY <2>1
  <2>4. [n \in Reserves |-> {}] \in [Reserves -> SUBSET Debtors]
        /\ [n \in Reserves |-> 0] \in [Reserves -> 0 .. IndexBlocks + 1]
    BY <2>3
  <2>5. Len(chain) <= IndexBlocks /\ from <= target
    BY <2>1, <2>2 DEF Borrowers!Init
  <2> QED BY <2>2, <2>3, <2>4, <2>5
          DEF Borrowers!Init, Borrowers!TypeOK, Borrowers!NoBorrowers, Borrowers!Tip
<1>2. DebtsAreBounded
  <2>1. Len(chain) = 0 /\ 0 \in 0 .. MaxDebt
    BY PartAssumptions DEF Borrowers!Init, Borrowers!IndexAssumption
  <2> QED BY <2>1, OwesNext DEF DebtsAreBounded
<1>3. IndexIsOrdered
  BY DEF Borrowers!Init, IndexIsOrdered
<1> QED BY <1>1, <1>2, <1>3 DEF IndexInv, Borrowers!Init

\* A block more leaves what the others say alone.
LEMMA HeldStays ==
  ASSUME NEW s, NEW t, NEW C, \A b \in C : t[b] = s[b]
  PROVE  Held(t, {}, C) = Held(s, {}, C)
  BY DEF Held

LEMMA OwesStays ==
  ASSUME NEW s, NEW t, NEW n, NEW a, NEW u, \A b \in 1 .. n : t[b] = s[b]
  PROVE  Owes(t, a, u, n) = Owes(s, a, u, n)
<1>1. Received(t, a, u, n) = Received(s, a, u, n) /\ Gave(t, a, u, n) = Gave(s, a, u, n)
  BY DEF Received, Gave
<1> QED BY <1>1 DEF Owes

LEMMA NoneHeld == \A blocks : Held(blocks, {}, {}) = {}
  BY DEF Held

\* A transfer moves a unit of debt, and leaves the index alone.
LEMMA TransferInv ==
  ASSUME IndexInv, NEW a \in Reserves, NEW x \in Debtors \cup {Zero},
         NEW y \in Debtors \cup {Zero}, Borrowers!Transfer(a, x, y)
  PROVE  IndexInv'
<1> DEFINE log == [asset |-> a, from |-> x, to |-> y,
                   left |-> IF x = Zero THEN 0 ELSE Borrowers!Debt(a, x) - 1]
<1>1. /\ Len(chain) < IndexBlocks /\ x # y
      /\ x # Zero => Borrowers!Debt(a, x) > 0
      /\ y # Zero => Borrowers!Debt(a, y) < MaxDebt
      /\ chain' = Append(chain, log)
      /\ UNCHANGED <<configured, mode, store, phase, borrowers, from, target, next, loaded,
                     missed, liveFrom, seen, restarts>>
  BY DEF Borrowers!Transfer, Borrowers!Tip, Borrowers!position
<1>2. chain \in Seq(Borrowers!Log) /\ Len(chain) \in Nat /\ IndexBlocks \in Nat /\ MaxDebt \in Nat
      /\ Zero \notin Debtors
  BY PartAssumptions DEF IndexInv, Borrowers!TypeOK, Borrowers!IndexAssumption
<1>3. \A b \in Reserves, u \in Debtors :
        Borrowers!Debt(b, u) = Owes(chain, b, u, Len(chain)) /\ Borrowers!Debt(b, u) \in 0 .. MaxDebt
  BY <1>2, DebtIsCounted DEF IndexInv, DebtsAreBounded
<1>4. log \in Borrowers!Log
  <2>1. CASE x = Zero
    BY <1>2, <2>1 DEF Borrowers!Log
  <2>2. CASE x # Zero
    <3>1. Borrowers!Debt(a, x) - 1 \in 0 .. MaxDebt
      BY <1>1, <1>2, <1>3, <2>2
    <3> QED BY <2>2, <3>1 DEF Borrowers!Log
  <2> QED BY <2>1, <2>2
<1>5. PICK entry : entry = log
  OBVIOUS
<1>6. entry.asset = a /\ entry.from = x /\ entry.to = y
  BY <1>5
<1>7. chain' = Append(chain, entry) /\ entry \in Borrowers!Log
  BY <1>1, <1>4, <1>5
<1> HIDE DEF log
<1>8. /\ chain' \in Seq(Borrowers!Log) /\ Len(chain') = Len(chain) + 1
      /\ \A b \in 1 .. Len(chain) : chain'[b] = chain[b]
      /\ chain'[Len(chain) + 1] = entry
  BY <1>2, <1>7
<1>9. Borrowers!TypeOK'
  <2>1. Len(chain') <= IndexBlocks
    BY <1>1, <1>2, <1>8
  <2> QED BY <1>1, <1>8, <2>1 DEF IndexInv, Borrowers!TypeOK, Borrowers!Tip
<1>10. DebtsAreBounded'
  <2> SUFFICES ASSUME NEW b \in Reserves, NEW u \in Debtors
               PROVE  Owes(chain', b, u, Len(chain')) \in 0 .. MaxDebt
    BY DEF DebtsAreBounded
  <2>1. PICK t : t = chain'
    OBVIOUS
  <2>u. PICK n \in Nat : t = chain' /\ n = Len(chain)
    BY <1>2, <2>1
  <2>2. Owes(t, b, u, n) = Owes(chain, b, u, n)
    BY <1>8, <2>u, OwesStays
  <2>3. Owes(t, b, u, n + 1) = Owing(t[n + 1], b, u, Owes(t, b, u, n))
    BY OwesNext
  <2>4. Owes(chain', b, u, Len(chain')) = Owing(entry, b, u, Borrowers!Debt(b, u))
    BY <1>3, <1>8, <2>u, <2>2, <2>3
  <2>5. Owing(entry, b, u, Borrowers!Debt(b, u)) \in 0 .. MaxDebt
    <3>1. u # Zero
      BY <1>2
    <3>2. Borrowers!Debt(b, u) \in 0 .. MaxDebt
      BY <1>3
    <3>3. CASE a # b
      BY <1>6, <3>2, <3>3 DEF Owing
    <3>4. CASE a = b /\ x = u
      <4>1. Owing(entry, b, u, Borrowers!Debt(b, u)) = Borrowers!Debt(b, u) + 0 - 1
        BY <1>1, <1>6, <3>4 DEF Owing
      <4> QED BY <1>1, <1>2, <3>1, <3>2, <3>4, <4>1
    <3>5. CASE a = b /\ y = u
      <4>1. Owing(entry, b, u, Borrowers!Debt(b, u)) = Borrowers!Debt(b, u) + 1 - 0
        BY <1>1, <1>6, <3>5 DEF Owing
      <4> QED BY <1>1, <1>2, <3>1, <3>2, <3>5, <4>1
    <3>6. CASE x # u /\ y # u
      <4>1. a = b => Owing(entry, b, u, Borrowers!Debt(b, u)) = Borrowers!Debt(b, u) + 0 - 0
        BY <1>6, <3>6 DEF Owing
      <4> QED BY <1>2, <3>2, <3>3, <4>1
    <3> QED BY <3>3, <3>4, <3>5, <3>6
  <2> QED BY <2>4, <2>5
<1>11. IndexIsOrdered'
  BY <1>1, <1>2, <1>8 DEF IndexInv, IndexIsOrdered, Borrowers!TypeOK
<1>12. ASSUME NEW b \in Reserves, NEW n \in Int, n <= Len(chain)
       PROVE  Held(chain', {}, Read(chain', missed, b, from, n))
                = Held(chain, {}, Read(chain, missed, b, from, n))
  <2>1. from \in Nat
    BY DEF IndexInv, Borrowers!TypeOK
  <2>2. LogsOf(chain', b, from, n) = LogsOf(chain, b, from, n)
    BY <1>2, <1>8, <1>12, <2>1 DEF LogsOf
  <2>3. \A c \in Read(chain, missed, b, from, n) : c \in 1 .. Len(chain)
    BY <1>2, <1>12, <2>1 DEF Read, LogsOf
  <2>4. Held(chain', {}, Read(chain, missed, b, from, n)) = Held(chain, {}, Read(chain, missed, b, from, n))
    BY <1>8, <2>3, HeldStays
  <2> QED BY <2>2, <2>4 DEF Read
<1>13. ASSUME NEW b \in Reserves
       PROVE  Held(chain', {}, Borrowers!Covered(b)') = Held(chain, {}, Borrowers!Covered(b))
  <2>1. from \in Nat /\ target \in Nat /\ liveFrom \in Nat /\ seen \in Nat
        /\ target <= Len(chain) /\ seen <= Len(chain)
    BY DEF IndexInv, IndexIsOrdered, Borrowers!TypeOK
  <2>2. \A c \in (from .. target) \cup (liveFrom + 1 .. seen) : c > 0 => c \in 1 .. Len(chain)
    BY <1>2, <2>1
  <2>3. Borrowers!Covered(b)' = Borrowers!Covered(b)
    BY <1>1, <1>8, <2>2 DEF Borrowers!Covered
  <2>4. \A c \in Borrowers!Covered(b) : c \in 1 .. Len(chain)
    BY <2>2 DEF Borrowers!Covered
  <2>5. Held(chain', {}, Borrowers!Covered(b)) = Held(chain, {}, Borrowers!Covered(b))
    BY <1>8, <2>4, HeldStays
  <2> QED BY <2>3, <2>5
<1>14. ~ loaded' /\ phase' # "load" => IndexHolds'
  <2> SUFFICES ASSUME ~ loaded, phase # "load" PROVE IndexHolds'
    BY <1>1
  <2>1. IndexHolds
    BY DEF IndexInv
  <2>2. ASSUME phase = "backfill", NEW b \in Reserves
        PROVE  borrowers[b] = Held(chain', {}, Read(chain', missed, b, from, next[b] - 1))
    <3>1. next[b] - 1 \in Int /\ next[b] - 1 <= Len(chain)
      BY <1>2, <2>2 DEF IndexInv, IndexIsOrdered, Borrowers!TypeOK
    <3> QED BY <1>12, <2>1, <2>2, <3>1 DEF IndexHolds
  <2>3. ASSUME phase = "subscribe", NEW b \in Reserves
        PROVE  borrowers[b] = Held(chain', {}, Read(chain', missed, b, from, target))
    <3>1. target \in Int /\ target <= Len(chain)
      BY DEF IndexInv, IndexIsOrdered, Borrowers!TypeOK
    <3> QED BY <1>12, <2>1, <2>3, <3>1 DEF IndexHolds
  <2>4. ASSUME phase = "live", NEW b \in Reserves
        PROVE  borrowers[b] = Held(chain', {}, Borrowers!Covered(b)')
    BY <1>13, <2>1, <2>4 DEF IndexHolds
  <2> QED BY <1>1, <2>1, <2>2, <2>3, <2>4 DEF IndexHolds
<1> QED BY <1>9, <1>10, <1>11, <1>14 DEF IndexInv
\* What is stored and where initialize() is, apart, while the chain stays as it is.
LEMMA IndexSteps ==
  ASSUME IndexInv,
         \/ Borrowers!ConnectFails \/ Borrowers!Load \/ Borrowers!PerformBackfill
         \/ Borrowers!Save \/ Borrowers!Subscribe \/ Borrowers!Restart
  PROVE  IndexInv'
<1>1. chain' = chain
  BY DEF Borrowers!ConnectFails, Borrowers!Load, Borrowers!PerformBackfill, Borrowers!Save,
         Borrowers!Subscribe, Borrowers!Restart
<1>2. /\ BackfillBlocks \in Nat /\ IndexBlocks \in Nat /\ MaxRestarts \in Nat
      /\ chain \in Seq(Borrowers!Log) /\ Len(chain) \in 0 .. IndexBlocks
  <2>1. Len(chain) \in Nat
    BY DEF IndexInv, Borrowers!TypeOK
  <2> QED BY <2>1, PartAssumptions
          DEF Borrowers!IndexAssumption, IndexInv, Borrowers!TypeOK, Borrowers!Tip
<1>3. DebtsAreBounded'
  BY <1>1 DEF IndexInv, DebtsAreBounded
<1>4. CASE Borrowers!ConnectFails
  <2>1. /\ UNCHANGED <<chain, configured, store, phase, borrowers, from, target, next, loaded,
                       missed, liveFrom, seen, restarts>>
        /\ mode' = "memory"
    BY <1>4 DEF Borrowers!ConnectFails, Borrowers!position
  <2>2. Borrowers!TypeOK' /\ IndexIsOrdered'
    BY <2>1 DEF IndexInv, IndexIsOrdered, Borrowers!TypeOK, Borrowers!Tip
  <2>3. IndexHolds => IndexHolds'
    BY <2>1 DEF IndexHolds, Borrowers!Covered
  <2> QED BY <1>3, <2>1, <2>2, <2>3 DEF IndexInv
<1>5. CASE Borrowers!Load
  <2>1. PICK read \in SUBSET Reserves :
          borrowers' = [a \in Reserves |-> IF a \in read THEN store[a] ELSE {}]
          /\ loaded' = (borrowers' # Borrowers!NoBorrowers)
          /\ phase' \in {"subscribe", "range"} /\ (phase' = "subscribe" => loaded')
    BY <1>5 DEF Borrowers!Load
  <2>2. /\ phase = "load"
        /\ UNCHANGED <<configured, mode, store, from, target, next, missed, liveFrom, seen,
                       restarts>>
    BY <1>5 DEF Borrowers!Load
  <2>3. borrowers' \in [Reserves -> SUBSET Debtors] /\ loaded' \in BOOLEAN
    BY <2>1 DEF IndexInv, Borrowers!TypeOK
  <2>4. Borrowers!TypeOK' /\ IndexIsOrdered'
    BY <1>1, <2>1, <2>2, <2>3 DEF IndexInv, IndexIsOrdered, Borrowers!TypeOK, Borrowers!Tip
  <2>5. ~ loaded' => IndexHolds'
    BY <2>1 DEF IndexHolds, Borrowers!NoBorrowers
  <2> QED BY <1>3, <2>4, <2>5 DEF IndexInv
<1>6. CASE Borrowers!PerformBackfill
  <2>1. /\ phase = "range"
        /\ UNCHANGED <<configured, mode, store, borrowers, loaded, missed, liveFrom, seen,
                       restarts>>
    BY <1>6 DEF Borrowers!PerformBackfill
  <2>2. missed = {}
    BY <2>1 DEF IndexInv, IndexIsOrdered
  <2>3. CASE phase' = "absent" /\ UNCHANGED <<from, target, next>>
    <3>1. Borrowers!TypeOK' /\ IndexIsOrdered'
      BY <1>1, <2>1, <2>3 DEF IndexInv, IndexIsOrdered, Borrowers!TypeOK, Borrowers!Tip
    <3>2. IndexHolds'
      BY <2>3 DEF IndexHolds
    <3> QED BY <1>3, <3>1, <3>2 DEF IndexInv
  <2>4. CASE phase' = "backfill"
    <3>1. target' = Len(chain) /\ from' \in 0 .. Len(chain) /\ next' = [a \in Reserves |-> from']
      BY <1>2, <1>6, <2>4 DEF Borrowers!PerformBackfill, Borrowers!Tip
    <3>2. from' \in 0 .. IndexBlocks /\ from' <= target' /\ target' \in 0 .. IndexBlocks
          /\ from' \in 0 .. IndexBlocks + 1
      BY <1>2, <3>1
    <3>3. Borrowers!TypeOK'
      BY <1>1, <2>1, <2>4, <3>1, <3>2 DEF IndexInv, Borrowers!TypeOK, Borrowers!Tip
    <3>4. IndexIsOrdered'
      <4>1. \A a \in Reserves : from' <= next'[a] /\ next'[a] <= target' + 1
        BY <1>2, <3>1, <3>2
      <4> QED BY <1>1, <1>2, <2>1, <2>2, <2>4, <3>1, <4>1 DEF IndexInv, IndexIsOrdered
    <3>5. ~ loaded => IndexHolds'
      <4> SUFFICES ASSUME ~ loaded, NEW a \in Reserves
                   PROVE  borrowers'[a] = Held(chain', {}, Read(chain', missed', a, from', next'[a] - 1))
        BY <2>4 DEF IndexHolds
      <4>1. next'[a] = from' /\ from' .. from' - 1 = {}
        <5>1. PICK k \in Nat : k = from'
          BY <1>2, <3>1
        <5>2. k .. k - 1 = {}
          OBVIOUS
        <5> QED BY <3>1, <5>1, <5>2
      <4>2. Read(chain', missed', a, from', next'[a] - 1) = {}
        BY <4>1 DEF Read, LogsOf
      <4>3. borrowers'[a] = {}
        BY <2>1 DEF IndexInv, IndexHolds
      <4> QED BY <4>2, <4>3, NoneHeld
    <3> QED BY <1>3, <2>1, <3>3, <3>4, <3>5 DEF IndexInv
  <2> QED BY <1>6, <2>3, <2>4 DEF Borrowers!PerformBackfill
<1>7. CASE Borrowers!Save
  <2>1. /\ phase = "backfill" /\ phase' = "subscribe"
        /\ \A a \in Reserves : next[a] > target
        /\ UNCHANGED <<configured, mode, borrowers, from, target, next, loaded, missed,
                       liveFrom, seen, restarts>>
    BY <1>7 DEF Borrowers!Save, Borrowers!position
  <2>2. store' \in [Reserves -> SUBSET Debtors]
    <3>1. store \in [Reserves -> SUBSET Debtors] /\ borrowers \in [Reserves -> SUBSET Debtors]
      BY DEF IndexInv, Borrowers!TypeOK
    <3> QED BY <1>7, <3>1 DEF Borrowers!Save, Borrowers!Saved
  <2>3. Borrowers!TypeOK' /\ IndexIsOrdered'
    BY <1>1, <2>1, <2>2 DEF IndexInv, IndexIsOrdered, Borrowers!TypeOK, Borrowers!Tip
  <2>4. ASSUME ~ loaded PROVE IndexHolds'
    <3> SUFFICES ASSUME NEW a \in Reserves
                 PROVE  borrowers[a] = Held(chain, {}, Read(chain, missed, a, from, target))
      BY <1>1, <2>1 DEF IndexHolds
    <3>1. next[a] - 1 = target
      BY <2>1 DEF IndexInv, IndexIsOrdered, Borrowers!TypeOK
    <3> QED BY <2>1, <2>4, <3>1 DEF IndexInv, IndexHolds
  <2> QED BY <1>3, <2>1, <2>3, <2>4 DEF IndexInv
<1>8. CASE Borrowers!Subscribe
  <2>1. /\ phase = "subscribe" /\ phase' = "live" /\ liveFrom' = Len(chain) /\ seen' = Len(chain)
        /\ UNCHANGED <<configured, mode, store, borrowers, from, target, next, loaded, missed,
                       restarts>>
    BY <1>8 DEF Borrowers!Subscribe, Borrowers!Tip
  <2>2. Borrowers!TypeOK'
    BY <1>1, <1>2, <2>1 DEF IndexInv, Borrowers!TypeOK, Borrowers!Tip
  <2>3. IndexIsOrdered'
    BY <1>1, <1>2, <2>1 DEF IndexInv, IndexIsOrdered
  <2>4. ASSUME ~ loaded PROVE IndexHolds'
    <3> SUFFICES ASSUME NEW a \in Reserves
                 PROVE  borrowers[a] = Held(chain, {}, Borrowers!Covered(a)')
      BY <1>1, <2>1 DEF IndexHolds
    <3>1. liveFrom' + 1 .. seen' = {}
      BY <1>2, <2>1
    <3>2. Borrowers!Covered(a)' = Read(chain, missed, a, from, target)
      BY <1>1, <2>1, <3>1 DEF Borrowers!Covered, Read, LogsOf
    <3> QED BY <2>1, <2>4, <3>2 DEF IndexInv, IndexHolds
  <2> QED BY <1>3, <2>1, <2>2, <2>3, <2>4 DEF IndexInv
<1>9. CASE Borrowers!Restart
  <2>1. /\ restarts < MaxRestarts /\ restarts' = restarts + 1
        /\ mode' = configured /\ phase' = "load"
        /\ borrowers' = [a \in Reserves |-> {}] /\ next' = [a \in Reserves |-> 0]
        /\ from' = 0 /\ target' = 0 /\ loaded' = FALSE /\ missed' = {}
        /\ liveFrom' = 0 /\ seen' = 0 /\ UNCHANGED <<configured, store>>
    BY <1>9 DEF Borrowers!Restart, Borrowers!NoBorrowers
  <2>2. 0 \in 0 .. IndexBlocks /\ 0 \in 0 .. IndexBlocks + 1 /\ restarts' \in 0 .. MaxRestarts
    BY <1>2, <2>1 DEF IndexInv, Borrowers!TypeOK
  <2>3. next' \in [Reserves -> 0 .. IndexBlocks + 1]
        /\ borrowers' \in [Reserves -> SUBSET Debtors] /\ from' <= target'
    BY <2>1, <2>2
  <2>4. Borrowers!TypeOK'
    BY <1>1, <2>1, <2>2, <2>3 DEF IndexInv, Borrowers!TypeOK, Borrowers!Tip
  <2>5. IndexIsOrdered'
    BY <1>1, <1>2, <2>1 DEF IndexIsOrdered
  <2> QED BY <1>3, <2>1, <2>4, <2>5 DEF IndexInv
<1> QED BY <1>4, <1>5, <1>6, <1>7, <1>8, <1>9
\* A chunk reads on where the last one ended, or is left out as a whole.
LEMMA ChunkInv ==
  ASSUME IndexInv, NEW a \in Reserves, Borrowers!Chunk(a)
  PROVE  IndexInv'
<1>1. PICK start \in Nat, end \in Nat :
        /\ start = next[a] /\ start <= end /\ end <= target
        /\ \/ /\ borrowers' = [borrowers EXCEPT ![a] = Borrowers!Replay(a, start, end, @)]
              /\ missed' = missed
           \/ /\ missed' = missed \cup {a} \X (start .. end)
              /\ borrowers' = borrowers
        /\ next' = [next EXCEPT ![a] = end + 1]
  <2> DEFINE e == IF next[a] + ChunkSize - 1 <= target THEN next[a] + ChunkSize - 1 ELSE target
  <2>1. /\ next[a] \in Nat /\ next[a] <= target /\ target \in Nat /\ ChunkSize \in Nat \ {0}
    BY PartAssumptions DEF Borrowers!Chunk, IndexInv, Borrowers!TypeOK, Borrowers!IndexAssumption
  <2>2. e \in Nat /\ next[a] <= e /\ e <= target
    BY <2>1
  <2>3. PICK start \in Nat : start = next[a]
    BY <2>1
  <2>4. PICK end \in Nat : end = e
    BY <2>2
  <2>5. /\ \/ /\ borrowers' = [borrowers EXCEPT ![a] = Borrowers!Replay(a, next[a], e, @)]
              /\ missed' = missed
           \/ /\ missed' = missed \cup {a} \X (next[a] .. e)
              /\ borrowers' = borrowers
        /\ next' = [next EXCEPT ![a] = e + 1]
    BY Zenon DEF Borrowers!Chunk
  <2> HIDE DEF e
  <2> QED BY <2>2, <2>3, <2>4, <2>5
<1>2. /\ phase = "backfill"
      /\ UNCHANGED <<chain, configured, mode, store, phase, from, target, loaded, liveFrom,
                     seen, restarts>>
  BY DEF Borrowers!Chunk
<1>3. /\ IndexBlocks \in Nat /\ Zero \notin Debtors /\ chain \in Seq(Borrowers!Log)
      /\ from \in Nat /\ target \in 0 .. IndexBlocks /\ target <= Len(chain)
      /\ missed \subseteq Reserves \X (0 .. IndexBlocks)
      /\ next \in [Reserves -> 0 .. IndexBlocks + 1]
      /\ borrowers \in [Reserves -> SUBSET Debtors]
      /\ from <= start
      /\ \A b \in 0 .. IndexBlocks : <<a, b>> \in missed => b < start
  BY <1>1, <1>2, PartAssumptions
     DEF IndexInv, IndexIsOrdered, Borrowers!TypeOK, Borrowers!IndexAssumption
<1>4. \A b \in 1 .. end : chain[b].to \in Debtors \cup {Zero}
  <2> SUFFICES ASSUME NEW b \in 1 .. end PROVE chain[b].to \in Debtors \cup {Zero}
    OBVIOUS
  <2>1. b \in 1 .. Len(chain)
    BY <1>1, <1>3
  <2>2. chain[b] \in Borrowers!Log
    BY <1>3, <2>1
  <2> QED BY <2>2 DEF Borrowers!Log
<1>5. PICK C : C = Read(chain, missed, a, from, start - 1)
  OBVIOUS
<1>6. C \in SUBSET Nat /\ \A c \in C : c < start
  BY <1>3, <1>5 DEF Read, LogsOf
<1>7. Borrowers!Replay(a, start, end, Held(chain, {}, C)) = Held(chain, {}, C \cup LogsOf(chain, a, start, end))
  BY <1>1, <1>3, <1>4, <1>6, ReplayHolds
<1>8. \A b \in start .. end : <<a, b>> \notin missed
  <2>1. start .. end \subseteq 0 .. IndexBlocks
    BY <1>1, <1>3
  <2> QED BY <1>1, <1>3, <2>1
<1>9. Read(chain, missed, a, from, end) = C \cup LogsOf(chain, a, start, end)
  <2>1. from .. end = (from .. start - 1) \cup (start .. end)
    BY <1>1, <1>3
  <2> QED BY <1>5, <1>8, <2>1 DEF Read, LogsOf
<1>10. Read(chain, missed \cup {a} \X (start .. end), a, from, end) = C
  <2>1. from .. end = (from .. start - 1) \cup (start .. end)
    BY <1>1, <1>3
  <2>2. \A b \in from .. start - 1 : b \notin start .. end
    BY <1>1, <1>3
  <2> QED BY <1>5, <2>1, <2>2 DEF Read, LogsOf
<1>11. next'[a] = end + 1 /\ \A c \in Reserves : c # a => next'[c] = next[c]
  BY <1>1, <1>3
<1>12. Borrowers!TypeOK'
  <2>1. end + 1 \in 0 .. IndexBlocks + 1 /\ start .. end \subseteq 0 .. IndexBlocks
    BY <1>1, <1>3
  <2>2. next' \in [Reserves -> 0 .. IndexBlocks + 1]
    BY <1>1, <1>3, <2>1
  <2>3. missed' \subseteq Reserves \X (0 .. IndexBlocks)
    BY <1>1, <1>3, <2>1
  <2>4. borrowers' \in [Reserves -> SUBSET Debtors]
    <3>1. CASE borrowers' = borrowers
      BY <1>3, <3>1
    <3>2. CASE borrowers' = [borrowers EXCEPT ![a] = Borrowers!Replay(a, start, end, @)]
      <4>1. Borrowers!Replay(a, start, end, borrowers[a]) \in SUBSET Debtors
        <5>1. PICK S : S = borrowers[a]
          OBVIOUS
        <5>2. Held(chain, S, {}) = S
          BY <1>3, <5>1 DEF Held
        <5>3. Borrowers!Replay(a, start, end, Held(chain, S, {}))
                = Held(chain, S, {} \cup LogsOf(chain, a, start, end))
          BY <1>1, <1>3, <1>4, ReplayHolds
        <5> QED BY <5>1, <5>2, <5>3 DEF Held
      <4> QED BY <1>3, <3>2, <4>1
    <3> QED BY <1>1, <3>1, <3>2
  <2> QED BY <1>2, <2>2, <2>3, <2>4 DEF IndexInv, Borrowers!TypeOK, Borrowers!Tip
<1>13. IndexIsOrdered'
  <2>1. ASSUME NEW c \in Reserves, NEW b \in 0 .. IndexBlocks, <<c, b>> \in missed'
        PROVE  b <= target /\ b < next'[c]
    <3>1. CASE <<c, b>> \in missed
      <4>1. b <= target /\ b < next[c]
        BY <1>2, <3>1 DEF IndexInv, IndexIsOrdered
      <4> QED BY <1>1, <1>3, <1>11, <4>1
    <3>2. CASE <<c, b>> \in {a} \X (start .. end)
      BY <1>1, <1>3, <1>11, <3>2
    <3> QED BY <1>1, <2>1, <3>1, <3>2
  <2>2. ASSUME NEW c \in Reserves PROVE from <= next'[c] /\ next'[c] <= target + 1
    BY <1>1, <1>2, <1>3, <1>11 DEF IndexInv, IndexIsOrdered
  <2> QED BY <1>2, <2>1, <2>2 DEF IndexInv, IndexIsOrdered
<1>14. ASSUME ~ loaded PROVE IndexHolds'
  <2> SUFFICES ASSUME NEW c \in Reserves
               PROVE  borrowers'[c] = Held(chain, {}, Read(chain, missed', c, from, next'[c] - 1))
    BY <1>2 DEF IndexHolds
  <2>1. borrowers[c] = Held(chain, {}, Read(chain, missed, c, from, next[c] - 1))
    BY <1>2, <1>14 DEF IndexInv, IndexHolds
  <2>2. CASE c # a
    <3>1. Read(chain, missed', c, from, next[c] - 1) = Read(chain, missed, c, from, next[c] - 1)
      BY <1>1, <2>2 DEF Read
    <3> QED BY <1>1, <1>3, <1>11, <2>1, <2>2, <3>1
  <2>3. CASE c = a
    <3>1. next'[c] - 1 = end /\ borrowers[a] = Held(chain, {}, C)
      BY <1>1, <1>5, <1>11, <2>1, <2>3
    <3>2. CASE borrowers' = [borrowers EXCEPT ![a] = Borrowers!Replay(a, start, end, @)]
               /\ missed' = missed
      <4>1. borrowers'[a] = Borrowers!Replay(a, start, end, borrowers[a])
        BY <1>3, <3>2
      <4> QED BY <1>7, <1>9, <2>3, <3>1, <3>2, <4>1
    <3>3. CASE missed' = missed \cup {a} \X (start .. end) /\ borrowers' = borrowers
      BY <1>10, <2>3, <3>1, <3>3
    <3> QED BY <1>1, <3>2, <3>3
  <2> QED BY <2>2, <2>3
<1>15. DebtsAreBounded'
  BY <1>2 DEF IndexInv, DebtsAreBounded
<1> QED BY <1>2, <1>12, <1>13, <1>14, <1>15 DEF IndexInv

\* A live log is one more block that is covered.
LEMMA LiveLogInv == ASSUME IndexInv, Borrowers!LiveLog PROVE IndexInv'
<1>1. PICK m \in Nat, a \in Reserves :
        /\ m = seen + 1 /\ m \in 1 .. Len(chain) /\ a = chain[m].asset
        /\ chain[m] \in Borrowers!Log
  <2>1. seen + 1 \in Nat /\ seen + 1 \in 1 .. Len(chain) /\ chain \in Seq(Borrowers!Log)
    BY DEF Borrowers!LiveLog, IndexInv, Borrowers!TypeOK, Borrowers!Tip
  <2>2. chain[seen + 1] \in Borrowers!Log
    BY <2>1
  <2> QED BY <2>1, <2>2 DEF Borrowers!Log
<1>2. /\ phase = "live" /\ seen' = m
      /\ borrowers' = [borrowers EXCEPT ![a] = Borrowers!ProcessTransferLog(chain[m], @)]
      /\ UNCHANGED <<chain, configured, mode, store, phase, from, target, next, loaded,
                     missed, liveFrom, restarts>>
  BY <1>1, Zenon DEF Borrowers!LiveLog
<1>3. /\ IndexBlocks \in Nat /\ Zero \notin Debtors /\ Len(chain) <= IndexBlocks
      /\ chain[m].to \in Debtors \cup {Zero}
      /\ from \in Nat /\ target \in Nat /\ liveFrom \in Nat /\ seen \in Nat /\ Len(chain) \in Nat
      /\ target <= liveFrom /\ liveFrom <= seen
      /\ borrowers \in [Reserves -> SUBSET Debtors]
  BY <1>1, <1>2, PartAssumptions
     DEF IndexInv, IndexIsOrdered, Borrowers!TypeOK, Borrowers!IndexAssumption, Borrowers!Tip,
         Borrowers!Log
<1>4. Borrowers!TypeOK'
  <2>1. m \in 0 .. IndexBlocks
    BY <1>1, <1>3
  <2>2. Borrowers!ProcessTransferLog(chain[m], borrowers[a]) \in SUBSET Debtors
    BY <1>3 DEF Borrowers!ProcessTransferLog
  <2>3. borrowers' \in [Reserves -> SUBSET Debtors]
    BY <1>2, <1>3, <2>2
  <2> QED BY <1>2, <2>1, <2>3 DEF IndexInv, Borrowers!TypeOK, Borrowers!Tip
<1>5. IndexIsOrdered'
  BY <1>1, <1>2, <1>3 DEF IndexInv, IndexIsOrdered
<1>6. ASSUME NEW c \in Reserves
      PROVE  /\ Borrowers!Covered(c) \in SUBSET Nat
             /\ \A b \in Borrowers!Covered(c) : b < m
             /\ Borrowers!Covered(c)' = IF c = a THEN Borrowers!Covered(c) \cup {m}
                                        ELSE Borrowers!Covered(c)
  <2>1. liveFrom + 1 .. m = (liveFrom + 1 .. seen) \cup {m} /\ m > 0
    BY <1>1, <1>3
  <2>2. <<c, m>> \notin missed
    BY <1>1, <1>3 DEF IndexInv, IndexIsOrdered
  <2>3. \A b \in (from .. target) \cup (liveFrom + 1 .. seen) : b \in Nat /\ b < m
    BY <1>1, <1>3
  <2>4. \A b : b \in Borrowers!Covered(c)' <=>
          b \in Borrowers!Covered(c) \/ (b = m /\ c = a)
    BY <1>1, <1>2, <2>1, <2>2 DEF Borrowers!Covered
  <2> QED BY <2>3, <2>4 DEF Borrowers!Covered
<1>7. ASSUME ~ loaded PROVE IndexHolds'
  <2> SUFFICES ASSUME NEW c \in Reserves
               PROVE  borrowers'[c] = Held(chain, {}, Borrowers!Covered(c)')
    BY <1>2 DEF IndexHolds
  <2>1. borrowers[c] = Held(chain, {}, Borrowers!Covered(c))
    BY <1>2, <1>7 DEF IndexInv, IndexHolds
  <2>2. CASE c = a
    <3>1. borrowers'[c] = Borrowers!ProcessTransferLog(chain[m], borrowers[c])
      BY <1>2, <1>3, <2>2
    <3>2. Held(chain, {}, Borrowers!Covered(c) \cup {m})
            = Borrowers!ProcessTransferLog(chain[m], Held(chain, {}, Borrowers!Covered(c)))
      BY <1>3, <1>6, HeldNext
    <3> QED BY <1>6, <2>1, <2>2, <3>1, <3>2
  <2>3. CASE c # a
    BY <1>2, <1>3, <1>6, <2>1, <2>3
  <2> QED BY <2>2, <2>3
<1>8. DebtsAreBounded'
  BY <1>2 DEF IndexInv, DebtsAreBounded
<1> QED BY <1>2, <1>4, <1>5, <1>7, <1>8 DEF IndexInv

LEMMA IndexNext == IndexInv /\ [Borrowers!Next]_(Borrowers!vars) => IndexInv'
<1> SUFFICES ASSUME IndexInv, [Borrowers!Next]_(Borrowers!vars) PROVE IndexInv'
  OBVIOUS
<1>1. CASE UNCHANGED Borrowers!vars
  BY <1>1 DEF IndexInv, IndexIsOrdered, IndexHolds, DebtsAreBounded, Borrowers!vars,
     Borrowers!TypeOK, Borrowers!Tip, Borrowers!Covered
<1>2. CASE Borrowers!Next
  BY <1>2, IndexSteps, ChunkInv, LiveLogInv, TransferInv DEF Borrowers!Next
<1> QED BY <1>1, <1>2

LEMMA IndexIsRight == Borrowers!Spec => []Borrowers!IndexIsWhatWasSeen
<1>1. IndexInv => Borrowers!IndexIsWhatWasSeen
  <2> SUFFICES ASSUME IndexInv, phase = "live", ~ loaded, NEW a \in Reserves
               PROVE  borrowers[a] = {u \in Debtors : \E b \in Borrowers!Covered(a) :
                        /\ chain[b].to = u
                        /\ \A c \in Borrowers!Covered(a) :
                             c > b => ~ (chain[c].from = u /\ chain[c].to = Zero)}
    BY DEF Borrowers!IndexIsWhatWasSeen
  <2>1. borrowers[a] = Held(chain, {}, Borrowers!Covered(a))
    BY DEF IndexInv, IndexHolds
  <2> QED BY <2>1, Zenon DEF Held
<1> QED BY <1>1, IndexInit, IndexNext, PTL DEF Borrowers!Spec

LEMMA BorrowersPart == ServicesSpec => Borrowers!Spec
<1>1. ServicesInit => Borrowers!Init
  BY DEF ServicesInit
<1>2. [ServicesNext]_servicesVars => [Borrowers!Next]_(Borrowers!vars)
  BY DEF ServicesNext, servicesVars, borrowersVars, Borrowers!vars, Borrowers!position,
         FollowLimiter, FollowBorrowers, FollowFeed, FollowCache, FollowChoice,
         FollowExecutor, FollowEdge, FollowVerify, FollowLink
<1> QED BY <1>1, <1>2, PTL DEF ServicesSpec, Borrowers!Spec

\* Whatever the window, the chunks, the storage, the failures and the restarts, a live index
\* that was read from the chain holds who received debt in a covered block and burnt none
\* in a later one.
THEOREM IndexIsComplete == ServicesSpec => []IndexIsWhatWasSeen
  BY IndexIsRight, BorrowersPart, PTL DEF IndexIsWhatWasSeen
-----------------------------------------------------------------------------
\* Every variable of every part keeps its type.

\* The attempts are counted beyond their number only by what stops the service.
LinkTypes == Link!TypeOK /\ (~down => attempts <= MaxAttempts)

LEMMA DisconnectTypes ==
  ASSUME LinkTypes, Link!HandleDisconnect
  PROVE  /\ down' \in BOOLEAN /\ open' \subseteq Sockets /\ listening' \subseteq Sockets
         /\ hearts' \in Nat /\ timers' \in Nat /\ attempts' \in 0 .. MaxAttempts + 1
         /\ ~down' => attempts' <= MaxAttempts
<1>1. MaxAttempts \in Nat /\ attempts \in 0 .. MaxAttempts + 1
  BY PartAssumptions DEF Link!ConnectionAssumption, LinkTypes, Link!TypeOK
<1>2. CASE down
  BY <1>2 DEF Link!HandleDisconnect, LinkTypes, Link!TypeOK
<1>3. CASE ~down /\ attempts + 1 > MaxAttempts
  <2>1. attempts' = attempts + 1 /\ Link!Stop
    BY <1>3 DEF Link!HandleDisconnect
  <2>2. attempts' \in 0 .. MaxAttempts + 1
    BY <1>1, <1>3, <2>1 DEF LinkTypes
  <2> QED BY <2>1, <2>2 DEF Link!Stop, LinkTypes, Link!TypeOK
<1>4. CASE ~down /\ ~(attempts + 1 > MaxAttempts)
  <2>1. attempts' = attempts + 1 /\ timers' = timers + 1 /\ UNCHANGED <<down, hearts, open, listening>>
    BY <1>4 DEF Link!HandleDisconnect
  <2> QED BY <1>1, <1>4, <2>1 DEF LinkTypes, Link!TypeOK
<1> QED BY <1>2, <1>3, <1>4

LEMMA SetupTypes ==
  ASSUME LinkTypes, NEW f \in Reconnects, NEW kind \in {"stall", "timer"},
         Link!SetupProvider(f, kind)
  PROVE  /\ current' \in Sockets /\ open' \subseteq Sockets /\ used' \subseteq Sockets
         /\ attempts' \in 0 .. MaxAttempts + 1 /\ attempts' <= MaxAttempts
         /\ reconnects' \in [Reconnects -> Link!FlowState]
<1>1. MaxAttempts \in Nat
  BY PartAssumptions DEF Link!ConnectionAssumption
<1>2. [at |-> "contracts", kind |-> kind] \in Link!FlowState
  BY DEF Link!FlowState
<1>3. attempts' = 0 /\ 0 \in 0 .. MaxAttempts + 1 /\ 0 <= MaxAttempts
  BY <1>1 DEF Link!SetupProvider
<1> QED BY <1>2, <1>3 DEF Link!SetupProvider, LinkTypes, Link!TypeOK

LEMMA LinkTypesNext == LinkTypes /\ [Link!Next]_(Link!vars) => LinkTypes'
<1> SUFFICES ASSUME LinkTypes, [Link!Next]_(Link!vars) PROVE LinkTypes'
  OBVIOUS
<1>m. MaxAttempts \in Nat /\ MaxErrors \in Nat
  BY PartAssumptions DEF Link!ConnectionAssumption
<1>n. Link!NoFlow \in Link!FlowState
  BY DEF Link!NoFlow, Link!FlowState
<1>1. CASE Link!StopCalled
  BY <1>1 DEF Link!StopCalled, Link!Stop, LinkTypes, Link!TypeOK
<1>2. CASE Link!Block \/ Link!Silence \/ UNCHANGED Link!vars
  <2>1. UNCHANGED <<down, current, open, listening, hearts, stalling, timers, attempts,
                    reconnects, used, errors>> /\ quiet' \in BOOLEAN
    BY <1>2 DEF Link!Block, Link!Silence, Link!vars, LinkTypes, Link!TypeOK
  <2> QED BY <2>1 DEF LinkTypes, Link!TypeOK
<1>3. CASE Link!Heartbeat
  <2>u. UNCHANGED <<down, current, quiet, timers, attempts, used, errors>>
    BY <1>3 DEF Link!Heartbeat
  <2>h. hearts > 0 /\ hearts' \in {hearts, hearts - 1}
    BY <1>3 DEF Link!Heartbeat
  <2>o. /\ open' \in {open, open \ {current}} /\ listening' \in {listening, listening \ {current}}
        /\ stalling' \in {stalling, TRUE}
    BY <1>3 DEF Link!Heartbeat
  <2>t. /\ hearts \in Nat /\ open \subseteq Sockets /\ listening \subseteq Sockets
        /\ stalling \in BOOLEAN
    BY DEF LinkTypes, Link!TypeOK
  <2>k. hearts' \in Nat
    BY <2>h, <2>t
  <2>1. open' \subseteq Sockets /\ listening' \subseteq Sockets /\ stalling' \in BOOLEAN
    BY <2>o, <2>t
  <2>2. reconnects' \in [Reconnects -> Link!FlowState]
    <3>1. [at |-> "destroy", kind |-> "stall"] \in Link!FlowState
      BY DEF Link!FlowState
    <3>2. \/ reconnects' = reconnects
          \/ \E f \in Reconnects :
               reconnects' = [reconnects EXCEPT ![f] = [at |-> "destroy", kind |-> "stall"]]
      BY <1>3 DEF Link!Heartbeat
    <3> QED BY <3>1, <3>2 DEF LinkTypes, Link!TypeOK
  <2> QED BY <2>u, <2>k, <2>1, <2>2 DEF LinkTypes, Link!TypeOK
<1>4. CASE Link!BackoffOver
  <2>1. /\ timers > 0 /\ timers' = timers - 1
        /\ UNCHANGED <<down, listening, quiet, hearts, stalling, errors>>
        /\ \E f \in Reconnects : Link!SetupProvider(f, "timer")
    BY <1>4 DEF Link!BackoffOver
  <2>2. timers' \in Nat
    BY <2>1 DEF LinkTypes, Link!TypeOK
  <2> QED BY <2>1, <2>2, SetupTypes DEF LinkTypes, Link!TypeOK
<1>5. ASSUME NEW s \in Sockets, Link!ProviderError(s) PROVE LinkTypes'
  <2>1. /\ errors < MaxErrors /\ errors' = errors + 1 /\ Link!HandleDisconnect
        /\ UNCHANGED <<current, quiet, stalling, reconnects, used>>
    BY <1>5 DEF Link!ProviderError
  <2>2. errors' \in 0 .. MaxErrors
    BY <1>m, <2>1 DEF LinkTypes, Link!TypeOK
  <2> QED BY <2>1, <2>2, DisconnectTypes DEF LinkTypes, Link!TypeOK
<1>6. ASSUME NEW f \in Reconnects, Link!Destroyed(f) PROVE LinkTypes'
  <2>1. /\ reconnects[f].kind \in {"stall", "timer"} /\ Link!SetupProvider(f, reconnects[f].kind)
        /\ UNCHANGED <<down, listening, quiet, hearts, stalling, timers, errors>>
    BY <1>6 DEF Link!Destroyed, LinkTypes, Link!TypeOK, Link!FlowState
  <2> QED BY <2>1, SetupTypes DEF LinkTypes, Link!TypeOK
<1>7. ASSUME NEW f \in Reconnects, Link!ContractsVerified(f) PROVE LinkTypes'
  <2>1. reconnects' \in [Reconnects -> Link!FlowState] /\ listening' \subseteq Sockets
    BY <1>7 DEF Link!ContractsVerified, LinkTypes, Link!TypeOK, Link!FlowState
  <2>2. UNCHANGED <<down, current, open, quiet, hearts, stalling, timers, attempts, used, errors>>
    BY <1>7 DEF Link!ContractsVerified
  <2> QED BY <2>1, <2>2 DEF LinkTypes, Link!TypeOK
<1>8. ASSUME NEW f \in Reconnects, Link!Finish(f)
      PROVE  reconnects' \in [Reconnects -> Link!FlowState] /\ stalling' \in BOOLEAN
  BY <1>8, <1>n DEF Link!Finish, LinkTypes, Link!TypeOK
<1>9. ASSUME NEW f \in Reconnects, Link!RealtimeUp(f) PROVE LinkTypes'
  <2>1. /\ Link!Finish(f) /\ hearts' = hearts + 1 /\ quiet' = FALSE /\ attempts' \in {0, attempts}
        /\ UNCHANGED <<down, current, open, listening, timers, used, errors>>
    BY <1>9 DEF Link!RealtimeUp
  <2>2. hearts' \in Nat /\ attempts' \in 0 .. MaxAttempts + 1 /\ (~down => attempts' <= MaxAttempts)
    BY <1>m, <2>1 DEF LinkTypes, Link!TypeOK
  <2> QED BY <1>8, <2>1, <2>2 DEF LinkTypes, Link!TypeOK
<1>10. ASSUME NEW f \in Reconnects, Link!SetupFails(f) PROVE LinkTypes'
  <2>1. /\ errors < MaxErrors /\ errors' = errors + 1 /\ Link!Finish(f) /\ Link!HandleDisconnect
        /\ UNCHANGED <<current, quiet, used>>
    BY <1>10 DEF Link!SetupFails, Link!AfterFailure
  <2>2. errors' \in 0 .. MaxErrors
    BY <1>m, <2>1 DEF LinkTypes, Link!TypeOK
  <2> QED BY <1>8, <2>1, <2>2, DisconnectTypes DEF LinkTypes, Link!TypeOK
<1> QED BY <1>1, <1>2, <1>3, <1>4, <1>5, <1>6, <1>7, <1>9, <1>10 DEF Link!Next

LEMMA LinkTyped == Link!Spec => []Link!TypeOK
<1>1. Link!Init => LinkTypes
  <2> SUFFICES ASSUME Link!Init PROVE LinkTypes
    OBVIOUS
  <2>1. MaxAttempts \in Nat /\ MaxErrors \in Nat /\ 0 \in 0 .. MaxAttempts + 1 /\ 0 \in 0 .. MaxErrors
    BY PartAssumptions DEF Link!ConnectionAssumption
  <2>2. Link!NoFlow \in Link!FlowState
    BY DEF Link!NoFlow, Link!FlowState
  <2>3. reconnects \in [Reconnects -> Link!FlowState]
    BY <2>2 DEF Link!Init
  <2>4. attempts \in 0 .. MaxAttempts + 1 /\ errors \in 0 .. MaxErrors /\ attempts <= MaxAttempts
        /\ hearts \in Nat /\ timers \in Nat
    BY <2>1 DEF Link!Init
  <2>5. /\ down \in BOOLEAN /\ current \in Sockets /\ open \subseteq Sockets
        /\ listening \subseteq Sockets /\ quiet \in BOOLEAN /\ stalling \in BOOLEAN
        /\ used \subseteq Sockets
    BY DEF Link!Init
  <2> QED BY <2>3, <2>4, <2>5 DEF LinkTypes, Link!TypeOK
<1>2. LinkTypes => Link!TypeOK
  BY DEF LinkTypes
<1> QED BY <1>1, <1>2, LinkTypesNext, PTL DEF Link!Spec
\* A block that is scanned is one there has been.
EdgeTypes ==
  Edge!TypeOK /\ \A f \in Checks : flows[f].at = "scan" => flows[f].block \in Edge!Blocks

LEMMA EdgeConstants ==
  /\ EdgeBlocks \in Nat \ {0} /\ MaxChecks \in Nat /\ Edge!NoFlow \in Edge!FlowState
  /\ \A b \in Edge!Blocks : b \in 0 .. EdgeBlocks
<1>1. EdgeBlocks \in Nat \ {0} /\ MaxChecks \in Nat
  BY PartAssumptions DEF Edge!EdgeAssumption
<1> QED BY <1>1 DEF Edge!NoFlow, Edge!FlowState, Edge!Blocks

LEMMA EmitTypes ==
  ASSUME Edge!TypeOK, NEW b, Edge!Emit(b) \/ UNCHANGED <<emits, told>> \/ \E s : Edge!Silent(s)
  PROVE  emits' \in [Edge!Blocks -> Nat] /\ told' \in BOOLEAN
<1>1. emits \in [Edge!Blocks -> Nat] /\ told \in BOOLEAN
  BY DEF Edge!TypeOK
<1>2. CASE Edge!Emit(b)
  <2>1. emits' = [emits EXCEPT ![b] = emits[b] + 1]
    BY <1>2 DEF Edge!Emit
  <2>2. emits' \in [Edge!Blocks -> Nat]
    <3>1. CASE b \in Edge!Blocks
      BY <1>1, <2>1, <3>1
    <3>2. CASE b \notin Edge!Blocks
      <4>1. emits' = emits
        BY <1>1, <2>1, <3>2
      <4> QED BY <1>1, <4>1
    <3> QED BY <3>1, <3>2
  <2> QED BY <1>2, <2>2 DEF Edge!Emit
<1>3. CASE UNCHANGED <<emits, told>>
  BY <1>1, <1>3
<1>4. CASE \E s : Edge!Silent(s)
  BY <1>1, <1>4 DEF Edge!Silent
<1> QED BY <1>2, <1>3, <1>4

LEMMA DecisionTypes ==
  ASSUME Edge!TypeOK, NEW h \in Hfs \cup {0}, NEW b \in 0 .. EdgeBlocks,
         Edge!ShouldEmit(h, b, lastEmit)
  PROVE  /\ status' \in {"none", "safe", "liq"} /\ lastHf' \in Hfs \cup {0}
         /\ lastEmit' \in 0 .. EdgeBlocks /\ edgeSeen' \in BOOLEAN
         /\ emits' \in [Edge!Blocks -> Nat] /\ told' \in BOOLEAN
<1>1. /\ status' \in {"none", "safe", "liq"} /\ lastHf' \in Hfs \cup {0}
      /\ lastEmit' \in 0 .. EdgeBlocks /\ edgeSeen' \in BOOLEAN
  BY DEF Edge!ShouldEmit, Edge!TypeOK
<1>2. Edge!Emit(b) \/ UNCHANGED <<emits, told>> \/ \E s : Edge!Silent(s)
  BY DEF Edge!ShouldEmit
<1> QED BY <1>1, <1>2, EmitTypes

\* The steps of a check.
LEMMA FlowTypes ==
  ASSUME EdgeTypes, NEW f \in Checks, NEW v \in Edge!FlowState, v.at # "scan",
         flows' = [flows EXCEPT ![f] = v]
  PROVE  /\ flows' \in [Checks -> Edge!FlowState]
         /\ \A g \in Checks : flows'[g].at = "scan" => flows'[g].block \in Edge!Blocks
  BY DEF EdgeTypes, Edge!TypeOK

LEMMA CheckTypes ==
  ASSUME EdgeTypes, NEW f \in Checks,
         \/ Edge!ScanRead(f) \/ Edge!Schedule(f) \/ Edge!Verified(f)
         \/ Edge!WatchRead(f) \/ Edge!WatchPublished(f)
  PROVE  EdgeTypes'
<1>1. /\ flows[f] \in Edge!FlowState /\ flows[f].hf \in Hfs \cup {0}
      /\ flows[f].block \in 0 .. EdgeBlocks /\ hfAt[tip] \in Hfs \cup {0}
      /\ Edge!NoFlow \in Edge!FlowState /\ Edge!NoFlow.at = "off"
  BY EdgeConstants DEF EdgeTypes, Edge!TypeOK, Edge!FlowState, Edge!NoFlow
<1>2. CASE Edge!ScanRead(f)
  <2>1. UNCHANGED <<tip, hfAt, status, lastHf, lastEmit, edgeSeen, headBlock, near, emits, told, checks>>
    BY <1>2 DEF Edge!ScanRead
  <2>2. PICK v \in Edge!FlowState : v.at # "scan" /\ flows' = [flows EXCEPT ![f] = v]
    <3> DEFINE w == [flows[f] EXCEPT !.at = "sprinter", !.hf = hfAt[flows[f].block]]
    <3>1. hfAt[flows[f].block] \in Hfs \cup {0}
      BY <1>2 DEF EdgeTypes, Edge!TypeOK, Edge!ScanRead
    <3>2. w \in Edge!FlowState /\ w.at = "sprinter"
      BY <1>1, <3>1 DEF Edge!FlowState
    <3>3. flows' = [flows EXCEPT ![f] = Edge!NoFlow] \/ flows' = [flows EXCEPT ![f] = w]
      BY <1>2 DEF Edge!ScanRead
    <3> HIDE DEF w
    <3> QED BY <1>1, <3>2, <3>3
  <2> QED BY <2>1, <2>2, FlowTypes DEF EdgeTypes, Edge!TypeOK
<1>3. CASE Edge!Schedule(f)
  <2>1. near' \in Hfs \cup {0} /\ UNCHANGED <<tip, hfAt, headBlock, checks>>
    BY <1>1, <1>3 DEF Edge!Schedule
  <2>2. PICK v \in Edge!FlowState : v.at # "scan" /\ flows' = [flows EXCEPT ![f] = v]
    <3> DEFINE w == [flows[f] EXCEPT !.at = "micro"]
    <3>1. w \in Edge!FlowState /\ w.at = "micro"
      BY <1>1 DEF Edge!FlowState
    <3>2. flows' = [flows EXCEPT ![f] = Edge!NoFlow] \/ flows' = [flows EXCEPT ![f] = w]
      BY <1>3 DEF Edge!Schedule
    <3> HIDE DEF w
    <3> QED BY <1>1, <3>1, <3>2
  <2>3. /\ status' \in {"none", "safe", "liq"} /\ lastHf' \in Hfs \cup {0}
        /\ lastEmit' \in 0 .. EdgeBlocks /\ edgeSeen' \in BOOLEAN
        /\ emits' \in [Edge!Blocks -> Nat] /\ told' \in BOOLEAN
    <3>1. \/ UNCHANGED <<status, lastHf, lastEmit, edgeSeen, emits, told>>
          \/ Edge!ShouldEmit(flows[f].hf, flows[f].block, lastEmit)
      BY <1>3 DEF Edge!Schedule
    <3> QED BY <1>1, <3>1, DecisionTypes DEF EdgeTypes, Edge!TypeOK
  <2> QED BY <2>1, <2>2, <2>3, FlowTypes DEF EdgeTypes, Edge!TypeOK
<1>4. CASE Edge!Verified(f)
  <2>1. flows' = [flows EXCEPT ![f] = Edge!NoFlow] /\ UNCHANGED <<tip, hfAt, headBlock, near, checks>>
    BY <1>4 DEF Edge!Verified
  <2>2. /\ status' \in {"none", "safe", "liq"} /\ lastHf' \in Hfs \cup {0}
        /\ lastEmit' \in 0 .. EdgeBlocks /\ edgeSeen' \in BOOLEAN
        /\ emits' \in [Edge!Blocks -> Nat] /\ told' \in BOOLEAN
    <3>1. CASE Edge!ShouldEmit(flows[f].hf, flows[f].block, lastEmit)
      BY <1>1, <3>1, DecisionTypes DEF EdgeTypes
    <3>2. CASE /\ Edge!Emit(flows[f].block) /\ edgeSeen' = TRUE /\ lastEmit' = flows[f].block
               /\ UNCHANGED <<status, lastHf>>
      BY <1>1, <3>2, EmitTypes DEF EdgeTypes, Edge!TypeOK
    <3> QED BY <1>4, <3>1, <3>2 DEF Edge!Verified
  <2> QED BY <1>1, <2>1, <2>2, FlowTypes DEF EdgeTypes, Edge!TypeOK
<1>5. CASE Edge!WatchRead(f)
  <2>1. /\ UNCHANGED <<tip, hfAt, lastEmit, edgeSeen, headBlock, near, checks>>
        /\ status' \in {"none", "safe", "liq"} /\ lastHf' \in Hfs \cup {0}
    BY <1>1, <1>5 DEF Edge!WatchRead
  <2>2. Edge!Emit(flows[f].block) \/ \E s : Edge!Silent(s)
    BY <1>5 DEF Edge!WatchRead
  <2>3. PICK v \in Edge!FlowState : v.at # "scan" /\ flows' = [flows EXCEPT ![f] = v]
    <3>1. Edge!Crossed(hfAt[tip]) \in BOOLEAN
      BY DEF Edge!Crossed
    <3>2. PICK x \in BOOLEAN : x = Edge!Crossed(hfAt[tip])
      BY <3>1
    <3>3. PICK w : w = [Edge!NoFlow EXCEPT !.at = "publish", !.block = flows[f].block,
                                           !.crossed = x]
      OBVIOUS
    <3>4. w \in Edge!FlowState /\ w.at = "publish"
      BY <1>1, <3>3 DEF Edge!FlowState, Edge!NoFlow
    <3>5. flows' = [flows EXCEPT ![f] = Edge!NoFlow] \/ flows' = [flows EXCEPT ![f] = w]
      BY <1>5, <3>2, <3>3 DEF Edge!WatchRead
    <3> QED BY <1>1, <3>4, <3>5
  <2> QED BY <2>1, <2>2, <2>3, FlowTypes, EmitTypes DEF EdgeTypes, Edge!TypeOK
<1>6. CASE Edge!WatchPublished(f)
  <2>1. /\ flows' = [flows EXCEPT ![f] = Edge!NoFlow]
        /\ Edge!Emit(flows[f].block) \/ UNCHANGED <<emits, told>>
        /\ UNCHANGED <<tip, hfAt, status, lastHf, lastEmit, edgeSeen, headBlock, near, checks>>
    BY <1>6 DEF Edge!WatchPublished
  <2> QED BY <1>1, <2>1, FlowTypes, EmitTypes DEF EdgeTypes, Edge!TypeOK
<1> QED BY <1>2, <1>3, <1>4, <1>5, <1>6

LEMMA EdgeTypesNext == EdgeTypes /\ [Edge!Next]_(Edge!vars) => EdgeTypes'
<1> SUFFICES ASSUME EdgeTypes, [Edge!Next]_(Edge!vars) PROVE EdgeTypes'
  OBVIOUS
<1>1. CASE Edge!NewBlock
  <2>1. /\ tip < EdgeBlocks /\ tip' = tip + 1 /\ \E h \in Hfs : hfAt' = [hfAt EXCEPT ![tip + 1] = h]
        /\ UNCHANGED <<status, lastHf, lastEmit, edgeSeen, headBlock, near, flows, emits, told, checks>>
    BY <1>1 DEF Edge!NewBlock
  <2>2. tip' \in Edge!Blocks
    BY <2>1, EdgeConstants DEF EdgeTypes, Edge!TypeOK, Edge!Blocks
  <2>3. hfAt' \in [Edge!Blocks -> Hfs \cup {0}]
    BY <2>1 DEF EdgeTypes, Edge!TypeOK
  <2> QED BY <2>1, <2>2, <2>3 DEF EdgeTypes, Edge!TypeOK
<1>2. ASSUME NEW b \in Edge!Blocks, Edge!HeadCheck(b) PROVE EdgeTypes'
  BY <1>2, EdgeConstants DEF Edge!HeadCheck, EdgeTypes, Edge!TypeOK
<1>3. ASSUME NEW f \in Checks, NEW at \in {"scan", "watch"}, NEW b \in Edge!Blocks, Edge!Start(f, at, b)
      PROVE  EdgeTypes'
  <2>1. /\ checks < MaxChecks /\ checks' = checks + 1
        /\ flows' = [flows EXCEPT ![f] = [Edge!NoFlow EXCEPT !.at = at, !.block = b]]
        /\ UNCHANGED <<tip, hfAt, status, lastHf, lastEmit, edgeSeen, headBlock, near, emits, told>>
    BY <1>3 DEF Edge!Start
  <2>2. checks' \in 0 .. MaxChecks
    BY <2>1, EdgeConstants DEF EdgeTypes, Edge!TypeOK
  <2>w. PICK w : w = [Edge!NoFlow EXCEPT !.at = at, !.block = b]
    OBVIOUS
  <2>3. flows' = [flows EXCEPT ![f] = w]
    BY <2>1, <2>w
  <2>4. w \in Edge!FlowState /\ w.block \in Edge!Blocks
    BY <2>w, EdgeConstants DEF Edge!FlowState, Edge!NoFlow
  <2>5. /\ flows' \in [Checks -> Edge!FlowState]
        /\ \A g \in Checks : flows'[g].at = "scan" => flows'[g].block \in Edge!Blocks
    BY <2>3, <2>4 DEF EdgeTypes, Edge!TypeOK
  <2> QED BY <2>1, <2>2, <2>5 DEF EdgeTypes, Edge!TypeOK
<1>4. CASE UNCHANGED Edge!vars
  BY <1>4 DEF Edge!vars, EdgeTypes, Edge!TypeOK
<1> QED BY <1>1, <1>2, <1>3, <1>4, CheckTypes DEF Edge!Next

LEMMA EdgeTyped == Edge!Spec => []Edge!TypeOK
<1>1. Edge!Init => EdgeTypes
  <2> SUFFICES ASSUME Edge!Init PROVE EdgeTypes
    OBVIOUS
  <2>1. 1 \in Edge!Blocks /\ 0 \in 0 .. EdgeBlocks /\ 0 \in 0 .. MaxChecks
    BY EdgeConstants DEF Edge!Blocks
  <2>2. hfAt \in [Edge!Blocks -> Hfs \cup {0}]
    BY DEF Edge!Init
  <2>3. flows \in [Checks -> Edge!FlowState] /\ \A f \in Checks : flows[f].at = "off"
    BY EdgeConstants DEF Edge!Init, Edge!NoFlow
  <2>4. emits \in [Edge!Blocks -> Nat]
    BY DEF Edge!Init
  <2> QED BY <2>1, <2>2, <2>3, <2>4 DEF Edge!Init, EdgeTypes, Edge!TypeOK
<1>2. EdgeTypes => Edge!TypeOK
  BY DEF EdgeTypes
<1> QED BY <1>1, <1>2, EdgeTypesNext, PTL DEF Edge!Spec
LEMMA VerifyConstants ==
  /\ VerifyBlocks \in Nat \ {0} /\ MaxReads \in Nat
  /\ \A u \in VerifiedUsers, t \in Verify!Tags : <<u, t>> \in Verify!Keys
  /\ \A k \in Verify!Keys : k[1] \in VerifiedUsers /\ k[2] \in Verify!Tags
  /\ Verify!NoRead \in [on: BOOLEAN, key: Verify!Keys, from: Verify!Blocks, replaced: BOOLEAN]
  /\ Verify!Absent \in [cached: BOOLEAN, at: Verify!Answers]
  /\ Verify!NoCall \in [on: BOOLEAN, tag: Verify!Tags, read: Reads \cup {Verify!None}]
  /\ \A b \in Verify!Blocks : b \in Verify!Answers
<1>1. VerifyBlocks \in Nat \ {0} /\ MaxReads \in Nat /\ VerifiedUsers # {}
  BY PartAssumptions DEF Verify!VerifyAssumption
<1>2. 0 \in Verify!Tags /\ 1 \in Verify!Blocks /\ 0 \in Verify!Answers
  BY <1>1 DEF Verify!Tags, Verify!Blocks, Verify!Answers
<1>3. (CHOOSE u \in VerifiedUsers : TRUE) \in VerifiedUsers
  BY <1>1
<1>4. \A u \in VerifiedUsers, t \in Verify!Tags : <<u, t>> \in Verify!Keys
  BY DEF Verify!Keys
<1>5. \A k \in Verify!Keys : k[1] \in VerifiedUsers /\ k[2] \in Verify!Tags
  BY DEF Verify!Keys
<1>6. Verify!NoRead \in [on: BOOLEAN, key: Verify!Keys, from: Verify!Blocks, replaced: BOOLEAN]
  <2>1. <<CHOOSE u \in VerifiedUsers : TRUE, 0>> \in Verify!Keys
    BY <1>2, <1>3, <1>4
  <2> QED BY <1>2, <2>1 DEF Verify!NoRead
<1>7. Verify!Absent \in [cached: BOOLEAN, at: Verify!Answers]
      /\ Verify!NoCall \in [on: BOOLEAN, tag: Verify!Tags, read: Reads \cup {Verify!None}]
  BY <1>2 DEF Verify!Absent, Verify!NoCall
<1>8. \A b \in Verify!Blocks : b \in Verify!Answers
  BY <1>1 DEF Verify!Blocks, Verify!Answers
<1> QED BY <1>1, <1>4, <1>5, <1>6, <1>7, <1>8

\* The block a verifier works on is one that there is an entry for.
LEMMA BlockTagged == ASSUME Verify!TypeOK PROVE block \in Verify!Tags /\ block \in Nat
  BY VerifyConstants DEF Verify!TypeOK, Verify!Tags, Verify!Blocks

LEMMA VerifyTypes ==
  ASSUME Verify!TypeOK, NEW u \in VerifiedUsers, NEW c \in Calls, Verify!Verify(u, c)
  PROVE  Verify!TypeOK'
<1>1. UNCHANGED <<head, block, count, verified, pausing, readCache, servedRead>>
  BY DEF Verify!Verify
<1>2. PICK key : key = <<u, block>>
  OBVIOUS
<1>3. key \in Verify!Keys /\ block \in Verify!Tags
  BY <1>2, BlockTagged, VerifyConstants
<1>4. CASE inflight[key] # Verify!None
  <2>1. PICK v : v = [on |-> TRUE, tag |-> block, read |-> inflight[key]]
    OBVIOUS
  <2>2. v \in [on: BOOLEAN, tag: Verify!Tags, read: Reads \cup {Verify!None}]
    BY <1>3, <2>1 DEF Verify!TypeOK
  <2>3. UNCHANGED <<inflight, reads, started>> /\ calls' = [calls EXCEPT ![c] = v]
    BY <1>2, <1>4, <2>1 DEF Verify!Verify
  <2> QED BY <1>1, <2>2, <2>3 DEF Verify!TypeOK
<1>5. CASE inflight[key] = Verify!None
  <2>1. started < MaxReads /\ started' = started + 1
    BY <1>2, <1>5 DEF Verify!Verify
  <2>2. PICK r \in Reads :
          /\ reads' = [reads EXCEPT ![r] = [on |-> TRUE, key |-> key, from |-> head, replaced |-> FALSE]]
          /\ inflight' = [inflight EXCEPT ![key] = r]
          /\ calls' = [calls EXCEPT ![c] = [on |-> TRUE, tag |-> block, read |-> r]]
    BY <1>2, <1>5 DEF Verify!Verify
  <2>3. started' \in 0 .. MaxReads
    BY <2>1, VerifyConstants DEF Verify!TypeOK
  <2>4. [on |-> TRUE, key |-> key, from |-> head, replaced |-> FALSE]
          \in [on: BOOLEAN, key: Verify!Keys, from: Verify!Blocks, replaced: BOOLEAN]
    BY <1>3 DEF Verify!TypeOK
  <2>5. [on |-> TRUE, tag |-> block, read |-> r]
          \in [on: BOOLEAN, tag: Verify!Tags, read: Reads \cup {Verify!None}]
    BY <1>3
  <2>6. reads' \in [Reads -> [on: BOOLEAN, key: Verify!Keys, from: Verify!Blocks, replaced: BOOLEAN]]
    BY <2>2, <2>4 DEF Verify!TypeOK
  <2>7. calls' \in [Calls -> [on: BOOLEAN, tag: Verify!Tags, read: Reads \cup {Verify!None}]]
    BY <2>2, <2>5 DEF Verify!TypeOK
  <2>8. inflight' \in [Verify!Keys -> Reads \cup {Verify!None}]
    BY <2>2 DEF Verify!TypeOK
  <2> QED BY <1>1, <2>3, <2>6, <2>7, <2>8 DEF Verify!TypeOK
<1> QED BY <1>4, <1>5

LEMMA ReadEndsTypes ==
  ASSUME Verify!TypeOK, NEW r \in Reads, Verify!ReadEnds(r)
  PROVE  Verify!TypeOK'
<1>1. UNCHANGED <<head, block, started>>
  BY DEF Verify!ReadEnds
<1>2. PICK key \in Verify!Keys : key = reads[r].key
  BY DEF Verify!TypeOK
<1>3. PICK at \in Verify!Answers :
        /\ readCache' = [readCache EXCEPT ![key] = [cached |-> TRUE, at |-> at]]
        /\ servedRead' = [tag |-> key[2], at |-> at]
  <2>1. head \in Verify!Blocks /\ reads[r].from \in Verify!Blocks /\ 0 \in Verify!Answers
    BY VerifyConstants DEF Verify!TypeOK, Verify!Answers
  <2>2. \A at \in reads[r].from .. head : at \in Verify!Answers
    BY <2>1, VerifyConstants DEF Verify!Blocks, Verify!Answers
  <2>3. CASE \E at \in reads[r].from .. head :
               /\ readCache' = [readCache EXCEPT ![key] = [cached |-> TRUE, at |-> at]]
               /\ servedRead' = [tag |-> key[2], at |-> at]
    BY <2>2, <2>3
  <2>4. CASE /\ readCache' = [readCache EXCEPT ![key] = [cached |-> TRUE, at |-> 0]]
             /\ servedRead' = [tag |-> key[2], at |-> 0]
    BY <2>1, <2>4
  <2> QED BY <1>2, <2>3, <2>4 DEF Verify!ReadEnds
<1>4. count' \in Nat /\ verified' \subseteq VerifiedUsers /\ pausing' \in BOOLEAN
  <2>1. \/ UNCHANGED <<count, verified, pausing>>
        \/ count' = count + 1 /\ verified' = verified \cup {key[1]} /\ pausing' = TRUE
    BY <1>2 DEF Verify!ReadEnds
  <2>2. key[1] \in VerifiedUsers
    BY DEF Verify!Keys
  <2>3. count \in Nat /\ verified \subseteq VerifiedUsers /\ pausing \in BOOLEAN
    BY DEF Verify!TypeOK
  <2>4. CASE UNCHANGED <<count, verified, pausing>>
    BY <2>3, <2>4
  <2>5. CASE count' = count + 1 /\ verified' = verified \cup {key[1]} /\ pausing' = TRUE
    BY <2>2, <2>3, <2>5
  <2> QED BY <2>1, <2>4, <2>5
<1>5. reads' \in [Reads -> [on: BOOLEAN, key: Verify!Keys, from: Verify!Blocks, replaced: BOOLEAN]]
  <2>1. reads' = [reads EXCEPT ![r] = Verify!NoRead]
    BY DEF Verify!ReadEnds
  <2> QED BY <2>1, VerifyConstants DEF Verify!TypeOK
<1>6. inflight' \in [Verify!Keys -> Reads \cup {Verify!None}]
  <2>1. inflight' = [inflight EXCEPT ![key] = Verify!None]
    BY <1>2 DEF Verify!ReadEnds
  <2> QED BY <2>1 DEF Verify!TypeOK
<1>7. calls' \in [Calls -> [on: BOOLEAN, tag: Verify!Tags, read: Reads \cup {Verify!None}]]
  <2>1. calls' = [c \in Calls |-> IF calls[c].on /\ calls[c].read = r THEN Verify!NoCall ELSE calls[c]]
    BY DEF Verify!ReadEnds
  <2> QED BY <2>1, VerifyConstants DEF Verify!TypeOK
<1>8. readCache' \in [Verify!Keys -> [cached: BOOLEAN, at: Verify!Answers]]
  BY <1>3 DEF Verify!TypeOK
<1>9. servedRead' \in [tag: Verify!Tags, at: Verify!Answers]
  BY <1>3, VerifyConstants
<1> QED BY <1>1, <1>4, <1>5, <1>6, <1>7, <1>8, <1>9 DEF Verify!TypeOK

LEMMA VerifyTypesNext == Verify!TypeOK /\ [Verify!Next]_(Verify!vars) => Verify!TypeOK'
<1> SUFFICES ASSUME Verify!TypeOK, [Verify!Next]_(Verify!vars) PROVE Verify!TypeOK'
  OBVIOUS
<1>1. CASE Verify!NewHead
  <2>1. head < VerifyBlocks /\ head' = head + 1
        /\ UNCHANGED <<block, count, verified, pausing, readCache, inflight, reads, calls, servedRead, started>>
    BY <1>1 DEF Verify!NewHead
  <2>2. head' \in Verify!Blocks /\ block' \in 0 .. head'
    BY <2>1, VerifyConstants DEF Verify!TypeOK, Verify!Blocks
  <2> QED BY <2>1, <2>2 DEF Verify!TypeOK
<1>2. CASE Verify!OnNewBlock
  <2>1. block' \in block + 1 .. head /\ count' = 0 /\ verified' = {}
        /\ UNCHANGED <<head, pausing, readCache, inflight, reads, calls, servedRead, started>>
    BY <1>2 DEF Verify!OnNewBlock
  <2>2. block' \in 0 .. head'
    BY <2>1, BlockTagged, VerifyConstants DEF Verify!TypeOK, Verify!Blocks
  <2> QED BY <2>1, <2>2 DEF Verify!TypeOK
<1>3. CASE Verify!NewVerifier
  <2>1. block' = 0 /\ count' = 0 /\ verified' = {} /\ pausing' = FALSE
        /\ reads' = [r \in Reads |-> [reads[r] EXCEPT !.replaced = reads[r].on]]
        /\ UNCHANGED <<head, readCache, inflight, calls, servedRead, started>>
    BY <1>3 DEF Verify!NewVerifier
  <2>2. block' \in 0 .. head'
    BY <2>1, VerifyConstants DEF Verify!TypeOK, Verify!Blocks
  <2>3. reads' \in [Reads -> [on: BOOLEAN, key: Verify!Keys, from: Verify!Blocks, replaced: BOOLEAN]]
    BY <2>1 DEF Verify!TypeOK
  <2> QED BY <2>1, <2>2, <2>3 DEF Verify!TypeOK
<1>4. CASE Verify!PauseOver \/ UNCHANGED Verify!vars
  BY <1>4 DEF Verify!PauseOver, Verify!vars, Verify!TypeOK
<1>5. ASSUME NEW u \in VerifiedUsers, Verify!CacheHit(u) PROVE Verify!TypeOK'
  <2>1. UNCHANGED <<head, block, count, verified, pausing, readCache, inflight, reads, calls, started>>
        /\ servedRead' = [tag |-> block, at |-> readCache[<<u, block>>].at]
    BY <1>5 DEF Verify!CacheHit, Verify!CacheKeys
  <2>2. <<u, block>> \in Verify!Keys /\ block \in Verify!Tags
    BY BlockTagged, VerifyConstants
  <2>3. servedRead' \in [tag: Verify!Tags, at: Verify!Answers]
    BY <2>1, <2>2 DEF Verify!TypeOK
  <2> QED BY <2>1, <2>3 DEF Verify!TypeOK
<1>6. ASSUME NEW u \in VerifiedUsers, Verify!InvalidateUser(u) PROVE Verify!TypeOK'
  <2>1. UNCHANGED <<head, block, count, verified, pausing, reads, calls, servedRead, started>>
        /\ readCache' = [k \in Verify!Keys |-> IF k[1] = u THEN Verify!Absent ELSE readCache[k]]
        /\ inflight' = [k \in Verify!Keys |-> IF k[1] = u THEN Verify!None ELSE inflight[k]]
    BY <1>6 DEF Verify!InvalidateUser
  <2>2. readCache' \in [Verify!Keys -> [cached: BOOLEAN, at: Verify!Answers]]
    BY <2>1, VerifyConstants DEF Verify!TypeOK
  <2>3. inflight' \in [Verify!Keys -> Reads \cup {Verify!None}]
    BY <2>1 DEF Verify!TypeOK
  <2> QED BY <2>1, <2>2, <2>3 DEF Verify!TypeOK
<1>7. ASSUME NEW k \in Verify!Keys, Verify!Expire(k) PROVE Verify!TypeOK'
  <2>1. UNCHANGED <<head, block, count, verified, pausing, reads, calls, servedRead, started>>
        /\ \/ readCache' = [readCache EXCEPT ![k] = Verify!Absent] /\ UNCHANGED inflight
           \/ inflight' = [inflight EXCEPT ![k] = Verify!None] /\ UNCHANGED readCache
    BY <1>7 DEF Verify!Expire
  <2>2. Verify!Absent \in [cached: BOOLEAN, at: Verify!Answers]
    BY VerifyConstants
  <2>3. readCache' \in [Verify!Keys -> [cached: BOOLEAN, at: Verify!Answers]]
    BY <2>1, <2>2 DEF Verify!TypeOK
  <2>4. inflight' \in [Verify!Keys -> Reads \cup {Verify!None}]
    BY <2>1 DEF Verify!TypeOK
  <2> QED BY <2>1, <2>3, <2>4 DEF Verify!TypeOK
<1> QED BY <1>1, <1>2, <1>3, <1>4, <1>5, <1>6, <1>7, VerifyTypes, ReadEndsTypes DEF Verify!Next

LEMMA VerifyTyped == Verify!Spec => []Verify!TypeOK
<1>1. Verify!Init => Verify!TypeOK
  <2> SUFFICES ASSUME Verify!Init PROVE Verify!TypeOK
    OBVIOUS
  <2>1. head \in Verify!Blocks /\ block \in 0 .. head /\ started \in 0 .. MaxReads /\ count \in Nat
        /\ 0 \in Verify!Tags /\ 0 \in Verify!Answers
    BY VerifyConstants DEF Verify!Init, Verify!Blocks, Verify!Tags, Verify!Answers
  <2>2. readCache \in [Verify!Keys -> [cached: BOOLEAN, at: Verify!Answers]]
        /\ inflight \in [Verify!Keys -> Reads \cup {Verify!None}]
        /\ reads \in [Reads -> [on: BOOLEAN, key: Verify!Keys, from: Verify!Blocks, replaced: BOOLEAN]]
        /\ calls \in [Calls -> [on: BOOLEAN, tag: Verify!Tags, read: Reads \cup {Verify!None}]]
    BY VerifyConstants DEF Verify!Init
  <2>3. servedRead \in [tag: Verify!Tags, at: Verify!Answers]
    BY <2>1 DEF Verify!Init
  <2> QED BY <2>1, <2>2, <2>3 DEF Verify!Init, Verify!TypeOK
<1> QED BY <1>1, VerifyTypesNext, PTL DEF Verify!Spec\* A liquidation leaves no balance below zero: Aave takes at most the loan, and the
\* router at most the balance it was approved for.
LEMMA SwapCounts ==
  ASSUME held \in [Assets -> Nat], NEW c \in Assets, NEW d \in Assets, NEW loan \in Nat,
         NEW covered \in 1 .. loan, NEW seized \in Nat, NEW bought \in Nat,
         NEW sold \in 0 .. Executor!AfterAave(d, c, loan, covered, seized)[c]
  PROVE  Executor!AfterSwap(Executor!AfterAave(d, c, loan, covered, seized),
                            d, c, sold, bought) \in [Assets -> Nat]
<1> DEFINE lent == [held EXCEPT ![d] = @ + loan - covered]
           aave == [lent EXCEPT ![c] = @ + seized]
           given == [aave EXCEPT ![c] = @ - sold]
           swap == [given EXCEPT ![d] = @ + bought]
<1>1. lent \in [Assets -> Nat]
  <2>1. held[d] + loan - covered \in Nat
    OBVIOUS
  <2> QED BY <2>1
<1>2. sold \in 0 .. aave[c]
  BY DEF Executor!AfterAave
<1> HIDE DEF lent
<1>3. aave \in [Assets -> Nat]
  BY <1>1
<1> HIDE DEF aave
<1>4. given \in [Assets -> Nat]
  <2>1. aave[c] - sold \in Nat
    BY <1>2, <1>3
  <2> QED BY <1>3, <2>1
<1> HIDE DEF given
<1>5. swap \in [Assets -> Nat]
  BY <1>4
<1> QED BY <1>5 DEF Executor!AfterSwap, Executor!AfterAave, lent, aave, given

LEMMA LiquidationTypes ==
  ASSUME Executor!TypeOK, NEW caller, NEW c \in Assets, NEW d \in Assets,
         NEW loan \in Executor!Units \ {0}, NEW minOut \in Executor!Units,
         NEW payout \in Accounts \cup {Zero},
         Executor!InitiateLiquidation(caller, c, d, loan, minOut, payout)
  PROVE  Executor!TypeOK'
<1>1. MaxFee \in Nat /\ MaxUnits \in Nat /\ loan \in Nat /\ minOut \in Nat
  BY PartAssumptions DEF Executor!ExecutorAssumption, Executor!Units
<1>2. PICK fee \in 0 .. MaxFee, covered \in 1 .. loan, seized \in Executor!Units,
           bought \in Executor!Units :
      \E sold \in 0 .. Executor!AfterAave(d, c, loan, covered, seized)[c] :
        LET swap == Executor!AfterSwap(Executor!AfterAave(d, c, loan, covered, seized),
                                       d, c, sold, bought)
            profit == Executor!Profit(swap[d], loan, fee)
        IN  /\ Executor!Enough(swap[d], minOut, loan, fee)
            /\ held' = [swap EXCEPT ![d] = @ - Executor!Repayment(loan, fee) - profit]
            /\ \A a \in Assets : held'[a] <= MaxUnits
            /\ event' = [debtAsset |-> d, loan |-> loan, fee |-> fee, minOut |-> minOut,
                         swapOut |-> bought, profit |-> profit,
                         payout |-> Executor!Payout(payout)]
  BY DEF Executor!InitiateLiquidation
<1> DEFINE aave == Executor!AfterAave(d, c, loan, covered, seized)
<1>3. PICK sold \in 0 .. aave[c] :
        LET swap == Executor!AfterSwap(aave, d, c, sold, bought)
            profit == Executor!Profit(swap[d], loan, fee)
        IN  /\ Executor!Enough(swap[d], minOut, loan, fee)
            /\ held' = [swap EXCEPT ![d] = @ - Executor!Repayment(loan, fee) - profit]
            /\ event' = [debtAsset |-> d, loan |-> loan, fee |-> fee, minOut |-> minOut,
                         swapOut |-> bought, profit |-> profit,
                         payout |-> Executor!Payout(payout)]
  BY <1>2
<1> DEFINE swap == Executor!AfterSwap(aave, d, c, sold, bought)
           profit == Executor!Profit(swap[d], loan, fee)
           after == Executor!Repayment(loan, fee)
<1>4. fee \in Nat /\ seized \in Nat /\ bought \in Nat
  BY <1>1 DEF Executor!Units
<1>5. swap \in [Assets -> Nat]
  BY <1>1, <1>4, SwapCounts DEF Executor!TypeOK
<1>6. swap[d] \in Nat /\ after \in Nat /\ profit = swap[d] - after
  BY <1>1, <1>4, <1>5 DEF Executor!Profit, Executor!Repayment
<1>7. /\ Executor!Enough(swap[d], minOut, loan, fee)
      /\ held' = [swap EXCEPT ![d] = @ - after - profit]
      /\ event' = [debtAsset |-> d, loan |-> loan, fee |-> fee, minOut |-> minOut,
                   swapOut |-> bought, profit |-> profit,
                   payout |-> Executor!Payout(payout)]
  BY <1>3
<1>8. profit \in Nat
  <2>1. swap[d] >= after
    BY <1>7 DEF Executor!Enough
  <2> HIDE DEF swap, profit, after
  <2> QED BY <1>6, <2>1
<1>9. held' \in [Assets -> Nat]
  <2> HIDE DEF swap, profit, after
  <2>1. swap[d] - after - profit = 0
    BY <1>6
  <2>2. held' = [swap EXCEPT ![d] = 0]
    BY <1>7, <2>1
  <2> QED BY <1>5, <2>2
<1>10. event' \in Executor!Event
  <2>1. Executor!Payout(payout) \in Accounts
    BY DEF Executor!Payout, Executor!TypeOK
  <2> HIDE DEF swap, profit, after
  <2> QED BY <1>1, <1>4, <1>7, <1>8, <2>1 DEF Executor!Event
<1>11. UNCHANGED Executor!config
  BY DEF Executor!InitiateLiquidation
<1> QED BY <1>9, <1>10, <1>11 DEF Executor!TypeOK, Executor!config, Executor!links

LEMMA ExecutorTypesNext == Executor!TypeOK /\ [Executor!Next]_(Executor!vars) => Executor!TypeOK'
<1> SUFFICES ASSUME Executor!TypeOK, [Executor!Next]_(Executor!vars) PROVE Executor!TypeOK'
  OBVIOUS
<1>m. MaxUnits \in Nat
  BY PartAssumptions DEF Executor!ExecutorAssumption
<1>1. ASSUME NEW caller \in Accounts, Executor!Configure(caller) PROVE Executor!TypeOK'
  <2>1. ASSUME NEW a \in Contracts \cup {Zero},
               Executor!SetVault(caller, a) \/ Executor!SetPool(caller, a)
                 \/ Executor!SetRouter(caller, a)
        PROVE  Executor!TypeOK'
    BY <2>1 DEF Executor!SetVault, Executor!SetPool, Executor!SetRouter, Executor!TypeOK
  <2>2. ASSUME NEW a \in Accounts \cup {Zero},
               Executor!SetPayoutDefault(caller, a) \/ Executor!TransferOwnership(caller, a)
        PROVE  Executor!TypeOK'
    BY <2>2 DEF Executor!SetPayoutDefault, Executor!TransferOwnership, Executor!links,
                Executor!TypeOK
  <2>3. ASSUME NEW a \in Assets, NEW on \in BOOLEAN,
               Executor!SetWhitelist(caller, a, on)
        PROVE  Executor!TypeOK'
    BY <2>3 DEF Executor!SetWhitelist, Executor!links, Executor!TypeOK
  <2>4. ASSUME NEW on \in BOOLEAN, Executor!SetPaused(caller, on)
        PROVE  Executor!TypeOK'
    BY <2>4 DEF Executor!SetPaused, Executor!links, Executor!TypeOK
  <2> QED BY <1>1, <2>1, <2>2, <2>3, <2>4 DEF Executor!Configure
<1>2. ASSUME NEW caller \in Accounts, NEW a \in Assets, NEW amount \in Executor!Units,
             Executor!EmergencyWithdraw(caller, a, amount)
      PROVE  Executor!TypeOK'
  <2>1. amount \in Nat
    BY <1>m DEF Executor!Units
  <2>2. held[a] - amount \in Nat
    BY <1>2, <2>1 DEF Executor!EmergencyWithdraw, Executor!TypeOK
  <2> QED BY <1>2, <2>2
          DEF Executor!EmergencyWithdraw, Executor!config, Executor!links, Executor!TypeOK
<1>3. ASSUME NEW a \in Assets, Executor!Receive(a) PROVE Executor!TypeOK'
  BY <1>3 DEF Executor!Receive, Executor!config, Executor!links, Executor!TypeOK
<1>4. CASE Executor!Settle \/ UNCHANGED Executor!vars
  BY <1>4 DEF Executor!Settle, Executor!vars, Executor!config, Executor!links, Executor!TypeOK
<1> QED BY <1>1, <1>2, <1>3, <1>4, LiquidationTypes DEF Executor!Next

LEMMA ExecutorTyped == Executor!Spec => []Executor!TypeOK
<1>1. Executor!Init => Executor!TypeOK
  <2> SUFFICES ASSUME Executor!Init PROVE Executor!TypeOK
    OBVIOUS
  <2>1. owner \in Accounts
    BY PartAssumptions DEF Executor!ExecutorAssumption, Executor!Init
  <2>2. held \in [Assets -> Nat]
    BY DEF Executor!Init
  <2> QED BY <2>1, <2>2 DEF Executor!Init, Executor!TypeOK
<1> QED BY <1>1, ExecutorTypesNext, PTL DEF Executor!Spec
\* The other parts' invariants hold their types.
LEMMA OthersTyped ==
  /\ Borrowers!Spec => []Borrowers!TypeOK
  /\ Feed!Spec => []Feed!TypeOK
  /\ Cache!Spec => []Cache!TypeOK
  /\ Choice!Spec => []Choice!TypeOK
<1>1. Borrowers!Spec => []Borrowers!TypeOK
  <2>1. IndexInv => Borrowers!TypeOK
    BY DEF IndexInv
  <2> QED BY <2>1, IndexInit, IndexNext, PTL DEF Borrowers!Spec
<1>2. Feed!Spec => []Feed!TypeOK
  <2>1. FeedInv => Feed!TypeOK
    BY DEF FeedInv
  <2> QED BY <2>1, FeedInit, FeedNext, PTL DEF Feed!Spec
<1>3. Cache!Spec => []Cache!TypeOK
  <2>1. CacheInv => Cache!TypeOK
    BY DEF CacheInv
  <2> QED BY <2>1, CacheInit, CacheNext, PTL DEF Cache!Spec
<1>4. Choice!Spec => []Choice!TypeOK
  <2>1. ChoiceInv => Choice!TypeOK
    BY DEF ChoiceInv
  <2> QED BY <2>1, ChoiceInit, ChoiceNext, PTL DEF Choice!Spec
<1> QED BY <1>1, <1>2, <1>3, <1>4

LEMMA LimiterPart == ServicesSpec => Spec
<1>1. ServicesInit => Init
  BY DEF ServicesInit
<1>2. [ServicesNext]_servicesVars => [Next]_vars
  BY DEF ServicesNext, servicesVars, vars, FollowLimiter, FollowBorrowers, FollowFeed,
         FollowCache, FollowChoice, FollowExecutor, FollowEdge, FollowVerify, FollowLink
<1> QED BY <1>1, <1>2, PTL DEF ServicesSpec, Spec

\* Every part keeps the types of its variables: no balance and no bucket below zero, no
\* index, round or attempt out of its range, no request or call with another's fields.
THEOREM ServicesTypeCorrect == ServicesSpec => []ServicesTypeOK
  BY LimiterTypeCorrect, LimiterPart, OthersTyped, BorrowersPart, FeedPart, CachePart,
     ChoicePart, ExecutorTyped, ExecutorPart, EdgeTyped, EdgePart, VerifyTyped, VerifyPart,
     LinkTyped, LinkPart, PTL DEF ServicesTypeOK
=============================================================================
