--------------------------- MODULE BroadcastPromise ---------------------------
(***************************************************************************)
(* What a caller of TxBroadcaster.broadcastWithReplacement may rely on: a  *)
(* call lands on chain at most once, whatever number of replacements it    *)
(* signed, and the two definite answers ("mined", and "failed" with a      *)
(* hash, named "reverted" here) are true of the chain when they are given. *)
(* "pending" and "failed" without a hash promise nothing.                  *)
(***************************************************************************)
CONSTANT Calls

VARIABLES
  phase,  \* per call: "idle", "busy", or the answer it was given
  landed  \* per call: "no", or how its one transaction ended: "ok", "reverted"

vars == <<phase, landed>>

Answers == {"mined", "pending", "reverted", "failed"}

Init ==
  /\ phase = [c \in Calls |-> "idle"]
  /\ landed = [c \in Calls |-> "no"]

Begin(c) ==
  /\ phase[c] = "idle"
  /\ phase' = [phase EXCEPT ![c] = "busy"]
  /\ UNCHANGED landed

\* A transaction may land while the call runs or long after it answered.
Land(c) ==
  /\ phase[c] # "idle"
  /\ landed[c] = "no"
  /\ \E how \in {"ok", "reverted"} : landed' = [landed EXCEPT ![c] = how]
  /\ UNCHANGED phase

Answer(c) ==
  /\ phase[c] = "busy"
  /\ \E a \in Answers :
       /\ a = "mined" => landed[c] = "ok"
       /\ a = "reverted" => landed[c] = "reverted"
       /\ phase' = [phase EXCEPT ![c] = a]
  /\ UNCHANGED landed

Next == \E c \in Calls : Begin(c) \/ Land(c) \/ Answer(c)

Spec == Init /\ [][Next]_vars
=============================================================================
