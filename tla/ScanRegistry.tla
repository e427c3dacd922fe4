----------------------------- MODULE ScanRegistry -----------------------------
(***************************************************************************)
(* services/ScanRegistry.ts of the first backend: the lock on a scan key   *)
(* (trigger type, asset, block) that keeps two scans of the same key apart *)
(* and refuses a key that was scanned less than ttl ago.  The maps         *)
(* inFlight and recentlyCompleted never hold live entries of one key, so   *)
(* one status per key stands for both.                                     *)
(***************************************************************************)
CONSTANT Keys

VARIABLE entry     \* per key: "free", "inFlight" or "done" (recently completed)

TypeOK == entry \in [Keys -> {"free", "inFlight", "done"}]

Init == entry = [k \in Keys |-> "free"]

\* Mutant: acquire() looks at the completed scans only.
AcquireBusy(k) == entry[k] # "done" /\ entry' = [entry EXCEPT ![k] = "inFlight"]

\* acquire() answers true on a key without a live entry only.
Acquire(k) == entry[k] = "free" /\ entry' = [entry EXCEPT ![k] = "inFlight"]

Suppressed(k) == entry[k] # "free" /\ UNCHANGED entry

\* release() knows the key and not the holder; it counts every scan as done,
\* also one that read nothing.
Release(k) ==
  entry' = IF entry[k] = "inFlight" THEN [entry EXCEPT ![k] = "done"] ELSE entry

\* The ttl of an entry is over: acquire() and cleanup() take it for absent.
Lapse(k) == entry[k] # "free" /\ entry' = [entry EXCEPT ![k] = "free"]
=============================================================================
