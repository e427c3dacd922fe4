---------------------------- MODULE BorrowersIndex ----------------------------
(***************************************************************************)
(* services/BorrowersIndexService.ts: the borrowers of each reserve, from  *)
(* the Transfer logs of its debt token.  They are loaded from Redis or     *)
(* Postgres, or else read in chunks from the logs of a window of blocks    *)
(* and saved; then the live logs follow.  A restart of the program and a   *)
(* reconnect both make a new index that starts from what was saved; the    *)
(* program never calls stop().                                             *)
(***************************************************************************)
EXTENDS Integers, Sequences

CONSTANTS
  Users, Assets,
  Zero,         \* the zero address
  Window,       \* backfillBlocks
  ChunkSize,    \* chunkSize
  Modes,        \* configured storage: "memory", "redis", "postgres"
  MaxDebt,      \* bound: debt of a user
  MaxBlock,     \* bound: blocks, each with one Transfer log
  MaxRestarts   \* bound: restarts and reconnects

IndexAssumption ==
  /\ Zero \notin Users
  /\ {Window, MaxBlock, MaxDebt, MaxRestarts} \subseteq Nat /\ ChunkSize \in Nat \ {0}
  /\ Modes \subseteq {"memory", "redis", "postgres"}

VARIABLES
  chain,       \* the Transfer logs; block b is at place b
  configured,  \* the configured mode
  mode,        \* the mode in use: "memory" once a connection failed
  store,       \* borrowers saved in Redis or Postgres
  phase,       \* where initialize() is; "absent": it failed and the index is dropped
  borrowers,   \* borrowersByReserve
  from, target,  \* fromBlock and currentBlock of the backfill
  next,        \* the start of the next chunk of each reserve
  loaded,      \* history: some borrowers of this index were loaded
  missed,      \* history: <<asset, block>> of chunks that failed
  liveFrom,    \* history: the tip when the live logs were subscribed
  seen,        \* the last block whose log was delivered live
  restarts

vars == <<chain, configured, mode, store, phase, borrowers, from, target, next, loaded,
          missed, liveFrom, seen, restarts>>
position == <<from, target, next, loaded, missed, liveFrom, seen>>

Tip == Len(chain)
Log == [asset : Assets, from : Users \cup {Zero}, to : Users \cup {Zero}, left : 0 .. MaxDebt]
NoBorrowers == [a \in Assets |-> {}]

TypeOK ==
  /\ chain \in Seq(Log) /\ Tip <= MaxBlock
  /\ configured \in Modes
  /\ mode \in {configured, "memory"}
  /\ store \in [Assets -> SUBSET Users]
  /\ phase \in {"load", "range", "backfill", "subscribe", "live", "absent"}
  /\ borrowers \in [Assets -> SUBSET Users]
  /\ from \in 0 .. MaxBlock /\ target \in 0 .. MaxBlock /\ from <= target
  /\ next \in [Assets -> 0 .. MaxBlock + 1]
  /\ loaded \in BOOLEAN
  /\ missed \subseteq Assets \X (0 .. MaxBlock)
  /\ liveFrom \in 0 .. MaxBlock /\ seen \in 0 .. MaxBlock
  /\ restarts \in 0 .. MaxRestarts

Init ==
  /\ chain = <<>>
  /\ configured \in Modes
  /\ mode = configured
  /\ store = NoBorrowers
  /\ phase = "load"
  /\ borrowers = NoBorrowers
  /\ from = 0 /\ target = 0
  /\ next = [a \in Assets |-> 0]
  /\ loaded = FALSE
  /\ missed = {}
  /\ liveFrom = 0 /\ seen = 0
  /\ restarts = 0

-----------------------------------------------------------------------------
\* The chain.  A burn tells what leaves the balance; the debt left stays unsaid,
\* and the record keeps it for the properties only.

Debt(a, u) ==
  LET owed[b \in 0 .. Tip] ==
        IF b = 0 THEN 0
        ELSE IF chain[b].asset # a THEN owed[b - 1]
        ELSE owed[b - 1] + (IF chain[b].to = u THEN 1 ELSE 0)
                         - (IF chain[b].from = u THEN 1 ELSE 0)
  IN  owed[Tip]

\* A borrow (from zero), a repayment in part or in full (to zero), or a debt that
\* changes hands, one unit each.
Transfer(a, x, y) ==
  /\ Tip < MaxBlock
  /\ x # y
  /\ x # Zero => Debt(a, x) > 0
  /\ y # Zero => Debt(a, y) < MaxDebt
  /\ chain' = Append(chain, [asset |-> a, from |-> x, to |-> y,
                             left |-> IF x = Zero THEN 0 ELSE Debt(a, x) - 1])
  /\ UNCHANGED <<configured, mode, store, phase, borrowers, position, restarts>>

-----------------------------------------------------------------------------
\* processTransferLog, on the borrowers of the log's reserve.
ProcessTransferLog(log, set) ==
  IF log.to = Zero THEN set \ {log.from} ELSE set \cup {log.to}

\* The borrowers of reserve a after the logs of blocks i to j, one after the other;
\* block 0 has none.
Replay(a, i, j, set) ==
  LET first == IF i = 0 THEN 1 ELSE i
      after[b \in first - 1 .. j] ==
        IF b < first THEN set
        ELSE IF chain[b].asset = a THEN ProcessTransferLog(chain[b], after[b - 1])
        ELSE after[b - 1]
  IN  after[j]

\* The connection to the store fails: the index falls back to memory.
ConnectFails ==
  /\ mode # "memory"
  /\ phase \in {"load", "range", "backfill"}
  /\ mode' = "memory"
  /\ UNCHANGED <<chain, configured, store, phase, borrowers, position, restarts>>

\* loadFromPersistence reads reserve after reserve.  It has loaded when nothing
\* failed and some reserve had borrowers; a failure keeps what was read.
Load ==
  /\ phase = "load"
  /\ \E read \in SUBSET Assets :
       LET found == [a \in Assets |-> IF a \in read THEN store[a] ELSE {}] IN
       /\ mode = "memory" => read = {}
       /\ borrowers' = found
       /\ loaded' = (found # NoBorrowers)
       /\ phase' = IF read = Assets /\ found # NoBorrowers THEN "subscribe" ELSE "range"
  /\ UNCHANGED <<chain, configured, mode, store, from, target, next, missed, liveFrom,
                 seen, restarts>>

\* performBackfill asks for the tip; without an answer initialize() fails.
PerformBackfill ==
  /\ phase = "range"
  /\ \/ /\ phase' = "backfill"
        /\ target' = Tip
        /\ from' = IF Tip > Window THEN Tip - Window ELSE 0
        /\ next' = [a \in Assets |-> from']
     \/ phase' = "absent" /\ UNCHANGED <<from, target, next>>
  /\ UNCHANGED <<chain, configured, mode, store, borrowers, loaded, missed, liveFrom, seen,
                 restarts>>

\* Mutant: the chunks of backfillReserve leave a block out between them.
ChunkSkipping(a) ==
  LET start == next[a]
      end == IF start + ChunkSize - 1 <= target THEN start + ChunkSize - 1 ELSE target
  IN
  /\ phase = "backfill"
  /\ start <= target
  /\ \A b \in Assets \ {a} : next[b] = from \/ next[b] > target
  /\ borrowers' = [borrowers EXCEPT ![a] = Replay(a, start, end, @)]
  /\ next' = [next EXCEPT ![a] = end + 2]
  /\ UNCHANGED <<chain, configured, mode, store, phase, from, target, loaded, missed,
                 liveFrom, seen, restarts>>

\* The next chunk of the reserve at hand in backfillReserve; a chunk that fails is
\* left out, and a reserve is read to its end before another is begun.
Chunk(a) ==
  LET start == next[a]
      end == IF start + ChunkSize - 1 <= target THEN start + ChunkSize - 1 ELSE target
  IN
  /\ phase = "backfill"
  /\ start <= target
  /\ \A b \in Assets \ {a} : next[b] = from \/ next[b] > target
  /\ \/ /\ borrowers' = [borrowers EXCEPT ![a] = Replay(a, start, end, @)]
        /\ UNCHANGED missed
     \/ /\ missed' = missed \cup {a} \X (start .. end)
        /\ UNCHANGED borrowers
  /\ next' = [next EXCEPT ![a] = end + 1]
  /\ UNCHANGED <<chain, configured, mode, store, phase, from, target, loaded, liveFrom,
                 seen, restarts>>

\* saveToPersistence.  Redis takes one reserve after the other, deletes before it
\* adds, skips the empty ones, and may fail on the way; Postgres takes all or none.
Saved ==
  \/ store' = store
  \/ /\ mode = "postgres"
     /\ store' = borrowers
  \/ /\ mode = "redis"
     /\ \E done \in SUBSET {a \in Assets : borrowers[a] # {}} :
          \/ store' = [a \in Assets |-> IF a \in done THEN borrowers[a] ELSE store[a]]
          \/ \E cut \in Assets \ done :
               /\ borrowers[cut] # {}
               /\ store' = [a \in Assets |-> IF a \in done THEN borrowers[a]
                                             ELSE IF a = cut THEN {} ELSE store[a]]

Save ==
  /\ phase = "backfill"
  /\ \A a \in Assets : next[a] > target
  /\ phase' = "subscribe"
  /\ Saved
  /\ UNCHANGED <<chain, configured, mode, borrowers, position, restarts>>

\* startLiveUpdates.
Subscribe ==
  /\ phase = "subscribe"
  /\ phase' = "live"
  /\ liveFrom' = Tip
  /\ seen' = Tip
  /\ UNCHANGED <<chain, configured, mode, store, borrowers, from, target, next, loaded,
                 missed, restarts>>

\* The next live log.
LiveLog ==
  /\ phase = "live"
  /\ seen < Tip
  /\ seen' = seen + 1
  /\ LET log == chain[seen + 1]
     IN  borrowers' = [borrowers EXCEPT ![log.asset] = ProcessTransferLog(log, @)]
  /\ UNCHANGED <<chain, configured, mode, store, phase, from, target, next, loaded,
                 missed, liveFrom, restarts>>

\* The program restarts, at any moment, or a reconnect makes a new index.
Restart ==
  /\ restarts < MaxRestarts
  /\ restarts' = restarts + 1
  /\ mode' = configured
  /\ phase' = "load"
  /\ borrowers' = NoBorrowers
  /\ from' = 0 /\ target' = 0
  /\ next' = [a \in Assets |-> 0]
  /\ loaded' = FALSE
  /\ missed' = {}
  /\ liveFrom' = 0 /\ seen' = 0
  /\ UNCHANGED <<chain, configured, store>>

Next ==
  \/ ConnectFails \/ Load \/ PerformBackfill \/ Save \/ Subscribe \/ LiveLog \/ Restart
  \/ \E a \in Assets : Chunk(a)
  \/ \E a \in Assets, x, y \in Users \cup {Zero} : Transfer(a, x, y)

Spec == Init /\ [][Next]_vars

-----------------------------------------------------------------------------
\* Properties.

\* The blocks whose logs of reserve a reached a live index that took nothing from
\* the store.
Covered(a) ==
  {b \in (from .. target) \cup (liveFrom + 1 .. seen) :
     b > 0 /\ <<a, b>> \notin missed /\ chain[b].asset = a}

\* A live index that was read from the chain holds who received debt in a covered
\* block and burnt none in a later one, neither more nor less: the chunks leave
\* no block out, take none twice and keep the order.  What it misses is in chunks
\* that failed, before the window, or between backfill and subscription.
IndexIsWhatWasSeen ==
  phase = "live" /\ ~loaded =>
    \A a \in Assets :
      borrowers[a] = {u \in Users : \E b \in Covered(a) :
        /\ chain[b].to = u
        /\ \A c \in Covered(a) : c > b => ~(chain[c].from = u /\ chain[c].to = Zero)}

\* "Users with partial repayment remain in the set." Not so: a burn of a part of the debt
\* is a Transfer to the zero address like one of the whole, and deletes the user.
PartialRepaymentStays ==
  phase = "live" /\ ~loaded =>
    \A a \in Assets, u \in Users : \A b \in Covered(a) :
      /\ chain[b].from = u
      /\ chain[b].left > 0
      /\ \A c \in Covered(a) : c > b => u \notin {chain[c].from, chain[c].to}
      => u \in borrowers[a]
=============================================================================
