----------------------------- MODULE AtMostOnce -----------------------------
(***************************************************************************)
(* What the engine promises its callers of every ledger file, without      *)
(* ledgers, locks or crashes: an operation id is dispatched at most once   *)
(* and not after anyone was told how it ended; a caller that is told of no *)
(* effect or of success is told the truth, and known answers agree.        *)
(***************************************************************************)
CONSTANTS File, Op, Hash, Success, NoEffect, Unknown

Key == [op : Op, hash : Hash]
Terminal == Success \union NoEffect \union Unknown

VARIABLES
  dispatched,  \* whether a key was dispatched through a file
  effect,      \* "none", "inflight" or "done"
  told         \* what callers were told of a key

vars == <<dispatched, effect, told>>

Init ==
  /\ dispatched = [f \in File |-> [k \in Key |-> FALSE]]
  /\ effect = [f \in File |-> [k \in Key |-> "none"]]
  /\ told = [f \in File |-> [k \in Key |-> {}]]

(* Nothing was dispatched under the operation id of k, and nobody was told *)
(* more than that the outcome is unknown.                                  *)
Open(f, k) ==
  \A j \in Key : j.op = k.op => ~dispatched[f][j] /\ told[f][j] \subseteq Unknown

Dispatch(f, k) ==
  /\ Open(f, k)
  /\ dispatched' = [dispatched EXCEPT ![f][k] = TRUE]
  /\ effect' = [effect EXCEPT ![f][k] = "inflight"]
  /\ UNCHANGED told

Land(f, k) ==
  /\ effect[f][k] = "inflight"
  /\ effect' = [effect EXCEPT ![f][k] = "done"]
  /\ UNCHANGED <<dispatched, told>>

(* The executor refuses an action, or the machine stops: what is in flight *)
(* does not happen.                                                        *)
Withdraw(K) ==
  /\ \A f \in File, k \in Key : <<f, k>> \in K => effect[f][k] = "inflight"
  /\ effect' = [f \in File |-> [k \in Key |->
                  IF <<f, k>> \in K THEN "none" ELSE effect[f][k]]]
  /\ UNCHANGED <<dispatched, told>>

(* No effect is claimed only when none can come, success only after it.    *)
Answer(f, k, z) ==
  /\ z \in NoEffect => effect[f][k] = "none"
  /\ z \in Success => effect[f][k] = "done"
  /\ z \notin Unknown => told[f][k] \subseteq Unknown \union {z}
  /\ told' = [told EXCEPT ![f][k] = @ \union {z}]
  /\ UNCHANGED <<dispatched, effect>>

Next ==
  \/ \E f \in File, k \in Key :
       Dispatch(f, k) \/ Land(f, k) \/ \E z \in Terminal : Answer(f, k, z)
  \/ \E K \in SUBSET (File \X Key) : Withdraw(K)

Spec == Init /\ [][Next]_vars

=============================================================================
