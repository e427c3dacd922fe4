------------------------------- MODULE MicroVerify -------------------------------
(***************************************************************************)
(* Verifying one user at once: services/MicroVerifier.ts and               *)
(* services/microVerify/MicroVerifyCache.ts.  Calls of verify for the      *)
(* users of one block share a read in flight and a cached answer; a limit  *)
(* per block and a pause between reads are looked at before the read and   *)
(* counted after it; an event of the user invalidates what is cached and   *)
(* in flight, but the read itself goes on.  A reconnect makes a new        *)
(* verifier, which knows no block yet, over the same cache.                *)
(***************************************************************************)
EXTENDS Integers, FiniteSets

CONSTANTS
  Users,
  Reads,        \* bound: reads under way at one time
  Calls,        \* bound: calls of verify under way at one time
  MaxBlock,     \* bound: blocks
  MaxPerBlock,  \* microVerifyMaxPerBlock
  MaxReads      \* bound: reads started

VerifyAssumption ==
  /\ Users # {}
  /\ MaxBlock \in Nat \ {0} /\ MaxPerBlock \in Nat /\ MaxReads \in Nat
  /\ IsFiniteSet(Reads) /\ IsFiniteSet(Calls)

VARIABLES
  head,       \* the block the node answers for
  block,      \* currentBlockNumber; 0 is null, the key `latest'
  count,      \* verificationsThisBlock
  verified,   \* verifiedUsersThisBlock
  pausing,    \* lastVerifyTime is less than intervalMs ago
  cache,      \* per user and block: absent or the answer of a read
  inflight,   \* inflightRequests: the read to share, or None
  reads,      \* calls of performVerification under way
  calls,      \* calls of verify that wait for a read
  served,     \* history: the last answer handed out
  started     \* counter of the bound

vars == <<head, block, count, verified, pausing, cache, inflight, reads, calls, served,
          started>>

Blocks == 1 .. MaxBlock
Tags == 0 .. MaxBlock
Keys == Users \X Tags
None == "none"

\* An answer: the block of the state it was read from; 0 when the read failed.
Answers == 0 .. MaxBlock
Absent == [cached |-> FALSE, at |-> 0]

\* A read knows the newest block when it was sent; it is counted by the verifier
\* that sent it.
NoRead == [on |-> FALSE, key |-> <<CHOOSE u \in Users : TRUE, 0>>, from |-> 1,
           replaced |-> FALSE]
NoCall == [on |-> FALSE, tag |-> 0, read |-> None]

TypeOK ==
  /\ head \in Blocks
  /\ block \in 0 .. head
  /\ count \in Nat
  /\ verified \subseteq Users
  /\ pausing \in BOOLEAN
  /\ cache \in [Keys -> [cached: BOOLEAN, at: Answers]]
  /\ inflight \in [Keys -> Reads \cup {None}]
  /\ reads \in [Reads -> [on: BOOLEAN, key: Keys, from: Blocks, replaced: BOOLEAN]]
  /\ calls \in [Calls -> [on: BOOLEAN, tag: Tags, read: Reads \cup {None}]]
  /\ served \in [tag: Tags, at: Answers]
  /\ started \in 0 .. MaxReads

Init ==
  /\ head = 1
  /\ block = 0
  /\ count = 0
  /\ verified = {}
  /\ pausing = FALSE
  /\ cache = [k \in Keys |-> Absent]
  /\ inflight = [k \in Keys |-> None]
  /\ reads = [r \in Reads |-> NoRead]
  /\ calls = [c \in Calls |-> NoCall]
  /\ served = [tag |-> 0, at |-> 0]
  /\ started = 0

-----------------------------------------------------------------------------
\* The chain moves before the service is told.
NewHead ==
  /\ head < MaxBlock
  /\ head' = head + 1
  /\ UNCHANGED <<block, count, verified, pausing, cache, inflight, reads, calls, served,
                 started>>

\* MicroVerifier.onNewBlock.
OnNewBlock ==
  /\ block < head
  /\ block' \in block + 1 .. head
  /\ count' = 0
  /\ verified' = {}
  /\ UNCHANGED <<head, pausing, cache, inflight, reads, calls, served, started>>

\* setupContracts after a reconnect makes a new MicroVerifier.
NewVerifier ==
  /\ block # 0
  /\ block' = 0
  /\ count' = 0
  /\ verified' = {}
  /\ pausing' = FALSE
  /\ reads' = [r \in Reads |-> [reads[r] EXCEPT !.replaced = reads[r].on]]
  /\ UNCHANGED <<head, cache, inflight, calls, served, started>>

PauseOver ==
  /\ pausing
  /\ pausing' = FALSE
  /\ UNCHANGED <<head, block, count, verified, cache, inflight, reads, calls, served,
                 started>>

\* Mutant: the key of the cache names the user only.
CacheKeysOfUser(u) == {u} \X Tags

\* MicroVerifyCache.get: the entries that answer for the user at this block.
CacheKeys(u) == {<<u, block>>}

Cached(u) == \E k \in CacheKeys(u) : cache[k].cached

\* verify answers from the cache, also with what a failed read left there.
CacheHit(u) ==
  /\ \E k \in CacheKeys(u) :
       /\ cache[k].cached
       /\ served' = [tag |-> block, at |-> cache[k].at]
  /\ UNCHANGED <<head, block, count, verified, pausing, cache, inflight, reads, calls,
                 started>>

\* MicroVerifier.canVerify.
CanVerify(u) == count < MaxPerBlock /\ ~pausing /\ u \notin verified

\* verify without a cached answer: getOrCreateInflight.
Verify(u, c) ==
  LET key == <<u, block>> IN
  /\ ~Cached(u) /\ CanVerify(u)
  /\ ~calls[c].on
  /\ \/ /\ inflight[key] # None
        /\ calls' = [calls EXCEPT ![c] =
                       [on |-> TRUE, tag |-> block, read |-> inflight[key]]]
        /\ UNCHANGED <<inflight, reads, started>>
     \/ /\ inflight[key] = None
        /\ started < MaxReads
        /\ started' = started + 1
        /\ \E r \in Reads :
             /\ ~reads[r].on
             /\ \A d \in Calls : calls[d].on => calls[d].read # r
             /\ reads' = [reads EXCEPT ![r] =
                          [on |-> TRUE, key |-> key, from |-> head, replaced |-> FALSE]]
             /\ inflight' = [inflight EXCEPT ![key] = r]
             /\ calls' = [calls EXCEPT ![c] = [on |-> TRUE, tag |-> block, read |-> r]]
  /\ UNCHANGED <<head, block, count, verified, pausing, cache, served>>

\* performVerification ends in read r: with the state of a block since it was
\* sent, counted in the block of the moment, or with an error, which is cached
\* like an answer.  The calls that share the read answer.
ReadEnds(r) ==
  LET key == reads[r].key IN
  /\ reads[r].on
  /\ reads' = [reads EXCEPT ![r] = NoRead]
  /\ \/ /\ \E at \in reads[r].from .. head :
             /\ cache' = [cache EXCEPT ![key] = [cached |-> TRUE, at |-> at]]
             /\ served' = [tag |-> key[2], at |-> at]
        /\ IF reads[r].replaced
             THEN UNCHANGED <<count, verified, pausing>>
             ELSE /\ count' = count + 1
                  /\ verified' = verified \cup {key[1]}
                  /\ pausing' = TRUE
     \/ /\ cache' = [cache EXCEPT ![key] = [cached |-> TRUE, at |-> 0]]
        /\ served' = [tag |-> key[2], at |-> 0]
        /\ UNCHANGED <<count, verified, pausing>>
  /\ inflight' = [inflight EXCEPT ![key] = None]
  /\ calls' = [c \in Calls |-> IF calls[c].on /\ calls[c].read = r THEN NoCall
                                                                  ELSE calls[c]]
  /\ UNCHANGED <<head, block, started>>

\* MicroVerifyCache.invalidateUser: an Aave event names the user.
InvalidateUser(u) ==
  /\ cache' = [k \in Keys |-> IF k[1] = u THEN Absent ELSE cache[k]]
  /\ inflight' = [k \in Keys |-> IF k[1] = u THEN None ELSE inflight[k]]
  /\ UNCHANGED <<head, block, count, verified, pausing, reads, calls, served, started>>

\* The ttl of an entry is over, or cleanup forgets a read that takes long.
Expire(k) ==
  /\ \/ cache' = [cache EXCEPT ![k] = Absent] /\ UNCHANGED inflight
     \/ inflight' = [inflight EXCEPT ![k] = None] /\ UNCHANGED cache
  /\ UNCHANGED <<head, block, count, verified, pausing, reads, calls, served, started>>

Next ==
  \/ NewHead \/ OnNewBlock \/ NewVerifier \/ PauseOver
  \/ \E u \in Users : CacheHit(u) \/ InvalidateUser(u) \/ \E c \in Calls : Verify(u, c)
  \/ \E r \in Reads : ReadEnds(r)
  \/ \E k \in Keys : Expire(k)

Spec == Init /\ [][Next]_vars

-----------------------------------------------------------------------------
\* Properties.

\* Whoever asks during a block gets an answer of that block's state or a later
\* one, or of a failed read: no cached answer, shared read, invalidation or
\* late block notification hands out the state of an earlier block.
AnswersOfTheBlock == served.at # 0 => served.at >= served.tag

\* "Multiple concurrent requests for same user/block share a single RPC call".
SharedReads ==
  \A r, q \in Reads :
    r # q /\ reads[r].on /\ reads[q].on => reads[r].key # reads[q].key
=============================================================================
