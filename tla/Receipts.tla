------------------------------ MODULE Receipts ------------------------------
(***************************************************************************)
(* What the engine says about an action and what its callers accept: the   *)
(* delivery routes, receipts and terminals of src/src/lib.rs, the lists of *)
(* capabilities of the executors, the requests that the engine validates,  *)
(* and the requests, acknowledgements and capabilities that pass the       *)
(* Hermes plugin (src/plugins/hermes/__init__.py), the OpenClaw plugin     *)
(* (src/plugins/openclaw/index.ts) and the command line (src/src/main.rs). *)
(* All of it is without state; Bridge puts it into the calls it concerns.  *)
(*                                                                         *)
(* Of a message only what these decisions depend on is kept.  Identifiers, *)
(* hashes, times and texts are well formed wherever the engine wrote them; *)
(* an answer in which they are not is garbage to a plugin (Bridge).        *)
(***************************************************************************)
EXTENDS Naturals

Platform == {"macos", "windows", "linux", "browser"}
Plugin == {"hermes", "openclaw"}
Client == Plugin \union {"cli", "batch"}

Action == {"invoke", "set_value", "click", "scroll"}
Mode == {"interactive", "background_only", "unknown"}
Verification == {"none", "snapshot", "value_hash", "other_hash"}
Target == {"element", "coordinates", "none"}
Request == [action : Action, mode : Mode, verification : Verification, target : Target]

Route == {"target_addressed", "pointer", "per_process_event", "unknown"}
Isolation == {"shared_desktop", "host_isolated", "unknown"}
Context == {"not_applicable", "unchanged_at_boundaries", "changed", "unavailable",
            "host_isolated"}
Effect == {"verified", "executed_unverified", "unknown"}
Receipt == [action : Action \union {"unknown"}, route : Route, isolation : Isolation,
            mode : Mode, context : Context \union {"none"}, effect : Effect]

NoEffectKind == {"rejected", "failed", "expired_before_effect"}
Kind == {"succeeded", "outcome_unknown"} \union NoEffectKind
Code == {"unsupported", "unguarded", "stale_target", "dispatch_failed", "none"}

NoReceipt == [action |-> "unknown", route |-> "unknown", isolation |-> "unknown",
              mode |-> "unknown", context |-> "none", effect |-> "unknown"]

-----------------------------------------------------------------------------
(* Routes and capabilities                                                 *)

PointerRoute(platform) == IF platform = "macos" THEN "per_process_event" ELSE "pointer"

(* The route that the request itself suggests.                             *)
RequestRoute(request, platform) ==
  IF request.target # "element" THEN "pointer"
  ELSE CASE request.action \in {"invoke", "set_value"} -> "target_addressed"
         [] request.action = "scroll" ->
              IF platform = "macos" THEN PointerRoute(platform) ELSE "target_addressed"
         [] OTHER -> PointerRoute(platform)

ClaimRoute(request, platform) ==
  IF request.action = "scroll" THEN "unknown" ELSE RequestRoute(request, platform)

Fact(action, route, support) == [action |-> action, route |-> route, support |-> support]

SemanticFacts ==
  {Fact(a, "target_addressed", "guarded") : a \in {"invoke", "set_value"}}

(* On Linux the input actions depend on the session, not on accessibility. *)
LinuxFacts(permitted) ==
  (IF permitted THEN SemanticFacts ELSE {})
  \union {Fact(a, "pointer", "unavailable") : a \in {"click", "scroll"}}

(* macOS and Windows; "application" launches and quits applications.       *)
NativeFacts(platform, permitted) ==
  (IF ~permitted THEN {}
   ELSE SemanticFacts
        \union {Fact("click", "pointer", "unavailable"),
                Fact("scroll", PointerRoute(platform),
                     IF platform = "macos" THEN "guarded" ELSE "unavailable")})
  \union (IF platform = "macos" THEN {Fact("application", "pointer", "unavailable")} ELSE {})

BrowserFacts(permitted) ==
  IF permitted THEN {Fact(a, "target_addressed", "host_isolated_only")
                       : a \in {"invoke", "scroll", "set_value"}}
  ELSE {}

Facts(platform, permitted) ==
  CASE platform = "linux" -> LinuxFacts(permitted)
    [] platform = "browser" -> BrowserFacts(permitted)
    [] OTHER -> NativeFacts(platform, permitted)

(* strict_action_capability: every fact must have a route its action can   *)
(* have, and there is one fact for the action.                             *)
RouteIsValid(fact) ==
  CASE fact.action \in {"invoke", "set_value"} -> fact.route = "target_addressed"
    [] fact.action = "application" -> fact.route = "pointer" /\ fact.support = "unavailable"
    [] fact.action = "click" -> fact.route \in {"pointer", "per_process_event"}
    [] fact.action = "scroll" -> fact.route # "unknown"
    [] OTHER -> FALSE

StrictFacts(facts, action) ==
  IF \A f \in facts : RouteIsValid(f) THEN {f \in facts : f.action = action} ELSE {}

(* background_capability_is_authorized                                     *)
Authorised(fact, isolation) ==
  \/ /\ isolation = "shared_desktop"
     /\ fact.route = "target_addressed" /\ fact.support = "guarded"
  \/ /\ isolation = "host_isolated"
     /\ fact.support \in {"guarded", "host_isolated_only"}

-----------------------------------------------------------------------------
(* Receipts                                                                *)

(* Mutant of RecoveredContext: an isolation is no context.                 *)
IsolationAsContext(mode, isolation) ==
  IF mode = "interactive" THEN "not_applicable" ELSE isolation

(* recovered_context_preservation                                          *)
RecoveredContext(mode, isolation) ==
  CASE mode = "interactive" -> "not_applicable"
    [] mode = "background_only" /\ isolation = "host_isolated" -> "host_isolated"
    [] OTHER -> "unavailable"

(* Mutant of EmptyReceipt: the context is left open.                       *)
OpenReceipt(request, platform, isolation) ==
  [action |-> request.action, route |-> RequestRoute(request, platform),
   isolation |-> isolation, mode |-> request.mode,
   context |-> "unavailable", effect |-> "unknown"]

(* empty_receipt, which always comes with Effect::Unknown.                 *)
EmptyReceipt(request, platform, isolation) ==
  [action |-> request.action, route |-> RequestRoute(request, platform),
   isolation |-> isolation, mode |-> request.mode,
   context |-> RecoveredContext(request.mode, isolation), effect |-> "unknown"]

(* A claim; one that an older version wrote does not have these fields.    *)
ClaimOf(request, platform, isolation) ==
  [action |-> request.action, route |-> ClaimRoute(request, platform),
   isolation |-> isolation, mode |-> request.mode]

LegacyClaim == [action |-> "unknown", route |-> "unknown", isolation |-> "unknown",
                mode |-> "unknown"]

NoClaim == [action |-> "none", route |-> "none", isolation |-> "none", mode |-> "none"]

Terminal(kind, code, receipt) == [kind |-> kind, code |-> code, receipt |-> receipt]

Unknown(receipt) == Terminal("outcome_unknown", "none", receipt)

NoTerminal == Terminal("none", "none", NoReceipt)

(* What execute makes of a claim without a terminal: the receipt of the    *)
(* request, overwritten with what the claim says, except for the context.  *)
RecoveredUnknown(request, platform, claim) ==
  Unknown([EmptyReceipt(request, platform, claim.isolation) EXCEPT
             !.action = claim.action, !.route = claim.route, !.mode = claim.mode])

(* What status makes of it.                                                *)
InterruptedAck(claim) ==
  Unknown([action |-> claim.action, route |-> claim.route,
           isolation |-> claim.isolation, mode |-> claim.mode,
           context |-> RecoveredContext(claim.mode, claim.isolation),
           effect |-> "unknown"])

PersistenceUnknown(terminal) ==
  IF terminal.kind = "succeeded" THEN Unknown(terminal.receipt) ELSE terminal

-----------------------------------------------------------------------------
(* Requests                                                                *)

(* validate_request, as far as requests differ here.                       *)
Validates(request) ==
  /\ request.mode # "unknown"
  /\ request.target # "none"
  /\ request.target = "coordinates" => request.action = "click"
  /\ IF request.action = "set_value" THEN request.verification = "value_hash"
     ELSE request.verification \notin {"value_hash", "other_hash"}

(* Mutant of HermesProposes: the value is not hashed again.                *)
TrustHash(request) ==
  /\ request.target = "element"
  /\ request.mode \in {"interactive", "background_only"}
  /\ \/ request.action = "invoke" /\ request.verification = "none"
     \/ request.action = "click" /\ request.mode = "interactive"
                                 /\ request.verification = "none"
     \/ request.action = "set_value" /\ request.verification \in {"value_hash", "other_hash"}

(* _valid_proposal                                                         *)
HermesProposes(request) ==
  /\ request.target = "element"
  /\ request.mode \in {"interactive", "background_only"}
  /\ \/ request.action = "invoke" /\ request.verification = "none"
     \/ request.action = "click" /\ request.mode = "interactive"
                                 /\ request.verification = "none"
     \/ request.action = "set_value" /\ request.verification = "value_hash"

(* The schema of the tool and validRequest.                                *)
OpenClawProposes(request) ==
  /\ request.target = "element"
  /\ request.mode \in {"interactive", "background_only"}
  /\ \/ request.action = "invoke" /\ request.verification = "none"
     \/ request.action = "set_value" /\ request.verification = "value_hash"

(* The one-shot execute takes its target from the observation it was given *)
(* and hashes the value itself unless a verification was named.            *)
CliRequest(request) ==
  [request EXCEPT
     !.target = "element",
     !.verification = IF request.action = "set_value" /\ @ = "none" THEN "value_hash" ELSE @]

Proposes(client, request) ==
  CASE client = "hermes" -> HermesProposes(request)
    [] client = "openclaw" -> OpenClawProposes(request)
    [] OTHER -> request.target = "element"

-----------------------------------------------------------------------------
(* Acknowledgements                                                        *)

(* _receipt and receipt: which receipts have the right shape.              *)
HermesReceipt(r) ==
  /\ r.action \in {"invoke", "set_value", "click", "unknown"}
  /\ r.route \in {"target_addressed", "pointer", "unknown"}
  /\ r.mode = "interactive" => r.context = "not_applicable"
  /\ (r.mode = "background_only" /\ r.isolation = "host_isolated") =>
       r.context = "host_isolated"
  /\ (r.mode = "background_only" /\ r.isolation = "shared_desktop") =>
       r.context # "host_isolated"

OpenClawReceipt(r) ==
  /\ r.action \in {"invoke", "set_value", "unknown"}
  /\ r.route \in {"target_addressed", "unknown"}

SomeUnknown(r) == "unknown" \in {r.action, r.route, r.isolation, r.mode}

IsRecoveryReceipt(r, kind) ==
  /\ kind = "outcome_unknown"
  /\ r.effect = "unknown"
  /\ r.context = "unavailable"
  /\ SomeUnknown(r)

RouteOf(action) == IF action = "click" THEN "pointer" ELSE "target_addressed"

ValidReceiptContext(r, kind) ==
  \/ IsRecoveryReceipt(r, kind)
  \/ /\ ~SomeUnknown(r)
     /\ r.route = RouteOf(r.action)
     /\ IF r.mode = "interactive" THEN r.context = "not_applicable"
        ELSE IF r.isolation = "host_isolated" THEN r.context = "host_isolated"
        ELSE IF kind = "succeeded" \/ r.effect # "unknown"
        THEN r.context = "unchanged_at_boundaries"
        ELSE r.context # "host_isolated"

HermesEffect(r, kind) ==
  \/ kind = "outcome_unknown"
  \/ /\ kind = "succeeded"
     /\ \/ r.action \in {"invoke", "click"} /\ r.effect # "unknown"
        \/ r.action = "set_value" /\ r.effect = "verified"

OpenClawEffect(r, kind) ==
  \/ kind = "outcome_unknown"
  \/ /\ kind = "succeeded"
     /\ \/ r.action = "invoke" /\ r.effect # "unknown"
        \/ r.action = "set_value" /\ r.effect = "verified"

HasReceipt(terminal) == terminal.kind \in {"succeeded", "outcome_unknown"}

(* _ack and acknowledgement, for the terminal acknowledgement.             *)
TakesAck(plugin, terminal) ==
  HasReceipt(terminal) =>
    LET r == terminal.receipt IN
    /\ IF plugin = "hermes" THEN HermesReceipt(r) /\ HermesEffect(r, terminal.kind)
       ELSE OpenClawReceipt(r) /\ OpenClawEffect(r, terminal.kind)
    /\ ValidReceiptContext(r, terminal.kind)

(* The effect that an outcome can have with the verification that was      *)
(* asked for.                                                              *)
EffectFits(request, terminal) ==
  LET effect == terminal.receipt.effect IN
  IF terminal.kind = "outcome_unknown"
  THEN \/ effect = "unknown"
       \/ /\ request.action \in {"invoke", "click"} /\ request.verification = "none"
          /\ effect = "executed_unverified"
       \/ request.action = "set_value" /\ request.verification = "value_hash"
  ELSE \/ /\ request.action \in {"invoke", "click"} /\ request.verification = "none"
          /\ effect = "executed_unverified"
       \/ /\ request.action = "set_value" /\ request.verification = "value_hash"
          /\ effect = "verified"

(* _valid_execution and validExecution: the sequence numbers of a report   *)
(* grow up to the terminal, and its receipt is one for the request.        *)
ValidExecution(request, sequence, terminal) ==
  /\ sequence \in {<<2>>, <<0, 2>>, <<1, 2>>, <<0, 1, 2>>}
  /\ HasReceipt(terminal) =>
       /\ \/ IsRecoveryReceipt(terminal.receipt, terminal.kind)
          \/ /\ terminal.receipt.action = request.action
             /\ terminal.receipt.route = RouteOf(request.action)
             /\ terminal.receipt.mode = request.mode
       /\ EffectFits(request, terminal)

-----------------------------------------------------------------------------
(* Capabilities                                                            *)

Semantic == {"invoke", "set_value"}

(* The facts that Hermes expects of each platform.                         *)
HermesFact(platform, f) ==
  CASE platform = "browser" -> f.action \in Semantic \union {"scroll"}
                               /\ f.route = "target_addressed"
                               /\ f.support = "host_isolated_only"
    [] platform # "browser" /\ f.action \in Semantic ->
         f.route = "target_addressed" /\ f.support = "guarded"
    [] platform = "macos" /\ f.action = "scroll" ->
         f.route \in {"per_process_event", "target_addressed"} /\ f.support = "guarded"
    [] OTHER -> f.action \in {"click", "scroll"}
                /\ \/ f.route = "pointer" /\ f.support = "unavailable"
                   \/ /\ platform = "windows" /\ f.action = "scroll"
                      /\ f.route = "target_addressed" /\ f.support = "guarded"

OpenClawFact(platform, f) ==
  CASE platform = "browser" -> f.action \in Semantic \union {"scroll"}
                               /\ f.route = "target_addressed"
                               /\ f.support = "host_isolated_only"
    [] platform # "browser" /\ f.action \in Semantic ->
         f.route = "target_addressed" /\ f.support = "guarded"
    [] platform = "macos" /\ f.action = "scroll" ->
         f.route = "per_process_event" /\ f.support = "guarded"
    [] OTHER -> f.action \in {"click", "scroll"}
                /\ \/ f.route = "pointer" /\ f.support = "unavailable"
                   \/ /\ platform = "windows" /\ f.action = "scroll"
                      /\ f.route = "target_addressed" /\ f.support = "guarded"

TakesFacts(plugin, platform, facts) ==
  \A f \in facts : IF plugin = "hermes" THEN HermesFact(platform, f)
                   ELSE OpenClawFact(platform, f)

=============================================================================
