--------------------------- MODULE ExecutorContract ---------------------------
(***************************************************************************)
(* What an executor promises the engine of its dispatches, without         *)
(* providers, channels or retries: Executor::dispatch returns once, with a *)
(* DispatchReceipt ("ok") or a DispatchError whose EffectKnowledge is      *)
(* NoEffect, CancelledBeforeEffect or ExpiredBeforeEffect ("none") or      *)
(* Unknown.  The engine tells its callers that it is safe to try again     *)
(* after "none" and that it is done after "ok", so both must be true and   *)
(* stay true, also of effects that come after the call has returned.       *)
(***************************************************************************)
CONSTANT Call  \* calls of dispatch

Knowledge == {"ok", "none", "unknown"}

VARIABLES
  touched,  \* calls that had an effect
  told      \* <<call, knowledge>>: what the engine was told

vars == <<touched, told>>

Init == touched = {} /\ told = {}

(* An effect, before the call returns or after it; never after "none".     *)
Touch(n) ==
  /\ touched' = touched \union {n}
  /\ <<n, "none">> \notin told
  /\ UNCHANGED told

(* The call returns once, perhaps in the moment of its last effect.        *)
Tell(n, z) ==
  /\ told' = told \union {<<n, z>>}
  /\ \A y \in Knowledge : <<n, y>> \notin told
  /\ touched' \in {touched, touched \union {n}}
  /\ z = "none" => n \notin touched'
  /\ z = "ok" => n \in touched'

Next == \E n \in Call : Touch(n) \/ \E z \in Knowledge : Tell(n, z)

Spec == Init /\ [][Next]_vars

=============================================================================
