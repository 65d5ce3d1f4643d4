------------------------------- MODULE Bridge -------------------------------
(***************************************************************************)
(* A caller of the engine and everything between the two: a tool call of   *)
(* the Hermes or the OpenClaw plugin, which starts the host's bridge       *)
(* process and waits 30 s for its answer; the one-shot command line; and   *)
(* execute_batch in a program that embeds the engine.  The engine is       *)
(* Engine::execute and Engine::status of src/src/lib.rs with a null        *)
(* outcome ledger, with the terminals and receipts that Engine leaves out, *)
(* and with the desktop that it verifies against.                          *)
(*                                                                         *)
(* The bridge is code of the host: it adds identity and authority to the   *)
(* request of a plugin, calls the engine and prints what the engine said.  *)
(* Of the ledger only the last claim and terminal of an operation are      *)
(* kept; Engine has its lines.  Executors are what Cdp, Accessibility and  *)
(* NativeInput show them to be: Ok only after the effect.                  *)
(***************************************************************************)
EXTENDS Receipts, FiniteSets

CONSTANTS
  Setups,      \* the callers and machines to look at
  MaxCalls     \* bound: calls in a behaviour

(* requests: what the model or the user may ask for.  changes: bound on    *)
(* the changes of the desktop that are nobody's effect.  apart: the engine *)
(* runs in a child of the bridge process.  legacy: the ledger has a claim  *)
(* of an older version for the first operation.                            *)
Setup == [client : Client, platform : Platform, isolation : Isolation,
          requests : SUBSET Request, changes : Nat,
          permitted : BOOLEAN, apart : BOOLEAN, legacy : BOOLEAN]

(* Only a plugin gets its operation id from somebody who may have used it. *)
ASSUME BridgeAssumption ==
  /\ Setups \subseteq Setup
  /\ \A s \in Setups : s.legacy => s.client \in Plugin
  /\ MaxCalls \in Nat \ {0}

Call == 1..MaxCalls
Op == Call

VARIABLES
  setup,     \* which client, on which machine
  passed,    \* the deadline of the requests and the expiry of their grants
  desk,      \* the desktop as the executor sees it
  changes,   \* how often it changed by itself
  ledger,    \* what the ledger says of each operation
  holder,    \* the call that has the execution lock, or 0
  effect,    \* what happened on the desktop because of each operation
  call       \* the calls

vars == <<setup, passed, desk, changes, ledger, holder, effect, call>>

View == [face : {"named", "other"}, geometry : {1, 2},
         value : {"old", "wanted"}]
Desk == [view : View, context : Nat]
NoView == [face |-> "none", geometry |-> 0, value |-> "none"]

NoRequest == [action |-> "none", mode |-> "none", verification |-> "none", target |-> "none"]

ClaimSet == [action : Action \union {"unknown", "none"}, route : Route \union {"none"},
             isolation : Isolation \union {"none"}, mode : Mode \union {"none"}]
TerminalSet == [kind : Kind \union {"none"}, code : Code, receipt : Receipt]

Entry == [hash : Request \union {NoRequest}, claim : ClaimSet, terminal : TerminalSet]
NoEntry == [hash |-> NoRequest, claim |-> NoClaim, terminal |-> NoTerminal]

(* flying: handed to the desktop and possibly still to come.  late: landed *)
(* after the deadline or the expiry of the grant.  disturbed: it moved the *)
(* focus or the pointer.  held: since it was handed over, the target has   *)
(* had the wanted value.                                                   *)
Deed == [flying : BOOLEAN, landed : BOOLEAN, late : BOOLEAN, disturbed : BOOLEAN,
         held : BOOLEAN]
NoDeed == [flying |-> FALSE, landed |-> FALSE, late |-> FALSE, disturbed |-> FALSE,
           held |-> FALSE]

Told == [kind : {"none", "error", "report", "null", "facts"},
         code : {"none", "invalid_request", "host_executor_unavailable",
                 "praefectus_error", "protocol_error"},
         terminal : TerminalSet, retry : BOOLEAN]
Silence == [kind |-> "none", code |-> "none", terminal |-> NoTerminal, retry |-> TRUE]

Tool == {"execute", "status", "capabilities"}

ProgramCounter ==
  {"idle", "gate", "lock", "read", "prepare", "context", "dispatch",
   "executing", "uncertain", "returned", "after", "finish", "finish_effect",
   "answer", "done"}

Sequences == {<<>>, <<2>>, <<0, 2>>, <<0, 1, 2>>}

CallRecord == [at : ProgramCounter, tool : Tool, request : Request \union {NoRequest},
               before : View \union {NoView}, sample : Nat,
               context : Context \union {"none"}, terminal : TerminalSet,
               sequence : Sequences, told : Told]

TypeOK ==
  /\ setup \in Setups
  /\ passed \subseteq {"deadline", "grant"}
  /\ desk \in Desk
  /\ changes \in 0..setup.changes
  /\ ledger \in [Op -> Entry]
  /\ holder \in Call \union {0}
  /\ effect \in [Op -> Deed]
  /\ call \in [Call -> CallRecord]

NoCall == [at |-> "idle", tool |-> "status", request |-> NoRequest, before |-> NoView,
           sample |-> 0, context |-> "none", terminal |-> NoTerminal, sequence |-> <<>>,
           told |-> Silence]

-----------------------------------------------------------------------------
At(c) == call[c].at

IsPlugin == setup.client \in Plugin

(* The one-shot command invents an operation for each call.                *)
OpOf(c) == IF setup.client \in Plugin \/ call[c].tool = "status" THEN 1 ELSE c

(* Mutant of Expired: the grant is looked at when it is verified only.     *)
DeadlinePassed == "deadline" \in passed

(* The effect deadline is the earlier of the deadline and the expiry.      *)
Expired == passed # {}

Guarded(c) ==
  call[c].request.mode = "background_only" /\ setup.isolation = "shared_desktop"

(* Call c goes on at pc; whoever is done with the ledger drops the lock.   *)
Goto(c, pc) == call' = [call EXCEPT ![c].at = pc]

Leave(c) == holder' = IF holder = c THEN 0 ELSE holder

Init ==
  /\ setup \in Setups
  /\ passed = {}
  /\ desk = [view |-> [face |-> "named", geometry |-> 1, value |-> "old"], context |-> 0]
  /\ changes = 0
  /\ holder = 0
  /\ call = [c \in Call |-> NoCall]
  /\ IF setup.legacy
     THEN \E r \in setup.requests, landed \in BOOLEAN :
            /\ ledger = [o \in Op |-> IF o = 1 THEN [NoEntry EXCEPT !.hash = r,
                                                                   !.claim = LegacyClaim]
                                      ELSE NoEntry]
            /\ effect = [o \in Op |-> IF o = 1 THEN [NoDeed EXCEPT !.landed = landed]
                                      ELSE NoDeed]
     ELSE /\ ledger = [o \in Op |-> NoEntry]
          /\ effect = [o \in Op |-> NoDeed]

-----------------------------------------------------------------------------
(* The caller                                                              *)

Refusal(code) == [Silence EXCEPT !.kind = "error", !.code = code, !.retry = FALSE]

(* An error of execute is never safe to retry; of status and capabilities  *)
(* the plugins say nothing about it.                                       *)
Error(c, code) == [Refusal(code) EXCEPT !.retry = call[c].tool # "execute"]

(* What the caller learns when the engine returns an error: the plugins    *)
(* see an exit status, the others the error, which has no effect behind it. *)
Failure(c) == IF IsPlugin THEN Error(c, "host_executor_unavailable")
              ELSE [Silence EXCEPT !.kind = "error", !.code = "protocol_error"]

(* execute_batch goes on after a verified success only.  The user of the   *)
(* command line waits for one command before the next.                     *)
GoesOn(told) == told.terminal.kind = "succeeded" /\ told.terminal.receipt.effect = "verified"

(* The tool or command capabilities, which reads nothing that changes: the *)
(* whole call is one step.                                                 *)
ShownFacts(failed) ==
  CASE failed -> [Silence EXCEPT !.kind = "error", !.code = "host_executor_unavailable"]
    [] ~failed /\ (IsPlugin => TakesFacts(setup.client, setup.platform,
                                         Facts(setup.platform, setup.permitted))) ->
         [Silence EXCEPT !.kind = "facts"]
    [] OTHER -> [Silence EXCEPT !.kind = "error", !.code = "praefectus_error"]

Begin(c) ==
  /\ At(c) = "idle"
  /\ c > 1 => /\ At(c - 1) # "idle"
              /\ setup.client \notin Plugin => At(c - 1) = "done"
              /\ setup.client = "batch" => GoesOn(call[c - 1].told)
  /\ \/ \E r \in setup.requests :
          LET request == IF setup.client = "cli" THEN CliRequest(r) ELSE r IN
          call' = [call EXCEPT ![c] = [NoCall EXCEPT
                     !.tool = "execute", !.request = request,
                     !.at = IF Proposes(setup.client, request) THEN "gate" ELSE "done",
                     !.told = IF Proposes(setup.client, request) THEN Silence
                              ELSE Refusal("invalid_request")]]
     \/ /\ setup.client # "batch"
        /\ call' = [call EXCEPT ![c].tool = "status", ![c].at = "lock"]
     \/ /\ setup.client # "batch"
        /\ \E failed \in BOOLEAN :
             call' = [call EXCEPT ![c].tool = "capabilities", ![c].at = "done",
                                  ![c].told = ShownFacts(failed)]
  /\ UNCHANGED <<setup, passed, desk, changes, ledger, holder, effect>>

(* What the plugins make of an answer that they could read.                *)
Judge(c) ==
  LET t == call[c].terminal IN
  IF call[c].sequence = <<>> THEN [Silence EXCEPT !.kind = "null"]
  ELSE IF /\ TakesAck(setup.client, t)
          /\ call[c].tool = "execute" => ValidExecution(call[c].request, call[c].sequence, t)
  THEN [Silence EXCEPT !.kind = "report", !.terminal = t, !.retry = t.kind # "outcome_unknown"]
  ELSE Error(c, "praefectus_error")

(* The command line prints the report either way; only a success exits     *)
(* with 0, and everything else says to reconcile before a retry.           *)
Show(c) ==
  IF call[c].sequence = <<>> THEN [Silence EXCEPT !.kind = "null"]
  ELSE [Silence EXCEPT !.kind = "report", !.terminal = call[c].terminal,
                       !.retry = call[c].tool = "execute"
                                 /\ call[c].terminal.kind = "succeeded"]

Answer(c, told) ==
  call' = [call EXCEPT ![c] =
             [NoCall EXCEPT !.at = "done", !.tool = call[c].tool, !.request = call[c].request,
                !.terminal = IF told.code = "praefectus_error" THEN call[c].terminal
                             ELSE NoTerminal,
                !.told = IF call[c].told = Silence THEN told ELSE call[c].told]]

(* Reading the whole answer of an engine that has exited.                  *)
Accept(c) ==
  /\ At(c) = "answer"
  /\ Answer(c, IF IsPlugin THEN Judge(c) ELSE Show(c))
  /\ UNCHANGED <<setup, passed, desk, changes, ledger, holder, effect>>

(* Whether killing the bridge's process group reaches the engine: Windows  *)
(* has no such groups, and only the bridge itself is killed.               *)
Reaches == ~(setup.apart /\ setup.platform = "windows")

(* Mutant of GiveUp: the process is left to itself.                        *)
WalkAway(c) ==
  /\ IsPlugin /\ At(c) \notin {"idle", "done"} /\ call[c].told = Silence
  /\ call' = [call EXCEPT ![c].told = Error(c, "host_executor_unavailable")]
  /\ UNCHANGED <<setup, passed, desk, changes, ledger, holder, effect>>

(* The process cannot be started, stdin fails, stdout is too long or not   *)
(* JSON, or 30 s are over.                                                 *)
GiveUp(c) ==
  /\ IsPlugin /\ At(c) \notin {"idle", "done"} /\ call[c].told = Silence
  /\ IF Reaches
     THEN Answer(c, Error(c, "host_executor_unavailable")) /\ Leave(c)
     ELSE /\ call' = [call EXCEPT ![c].told = Error(c, "host_executor_unavailable")]
          /\ UNCHANGED holder
  /\ UNCHANGED <<setup, passed, desk, changes, ledger, effect>>

-----------------------------------------------------------------------------
(* The engine                                                              *)

InEngine(c) == At(c) \notin {"idle", "answer", "done"}

(* The engine returns an error, or its process ends.                       *)
Abort(c, told) == Answer(c, told) /\ Leave(c)

(* The process of the engine is killed: a plugin sees that it has ended,   *)
(* the user of the command line sees nothing.                              *)
Crash(c) ==
  /\ InEngine(c)
  /\ Abort(c, IF IsPlugin THEN Failure(c) ELSE Silence)
  /\ UNCHANGED <<setup, passed, desk, changes, ledger, effect>>

(* validate_request, normalized_action_hash and the verifier, which looks  *)
(* at the grant but not at the clock.                                      *)
Gate(c) ==
  /\ At(c) = "gate"
  /\ \/ Validates(call[c].request) /\ Goto(c, "lock") /\ UNCHANGED holder
     \/ Abort(c, Failure(c))
  /\ UNCHANGED <<setup, passed, desk, changes, ledger, effect>>

(* execution_lock: execute waits until the effect deadline, status for     *)
(* ever.                                                                   *)
Lock(c) ==
  /\ At(c) = "lock"
  /\ \/ holder = 0 /\ holder' = c /\ Goto(c, "read")
     \/ /\ holder # 0 /\ call[c].tool = "execute" /\ Expired
        /\ Abort(c, Failure(c))
  /\ UNCHANGED <<setup, passed, desk, changes, ledger, effect>>

(* The call ends with a terminal that is in the ledger.                    *)
Replay(c, terminal) ==
  /\ call' = [call EXCEPT ![c].at = "answer", ![c].terminal = terminal,
                          ![c].sequence = IF terminal = NoTerminal THEN <<>> ELSE <<2>>]
  /\ Leave(c)
  /\ UNCHANGED ledger

(* The call ends with a terminal that has no effect behind it.  When the   *)
(* append fails the line may be in the file all the same.                  *)
Finish(c, terminal, sequence) ==
  \/ /\ ledger' = [ledger EXCEPT ![OpOf(c)].terminal = terminal]
     /\ call' = [call EXCEPT ![c].at = "answer", ![c].terminal = terminal,
                             ![c].sequence = sequence]
     /\ Leave(c)
  \/ /\ \E written \in {ledger[OpOf(c)].terminal, terminal} :
          ledger' = [ledger EXCEPT ![OpOf(c)].terminal = written]
     /\ Abort(c, Failure(c))

(* OperationLedger::claim                                                  *)
Claim(c) ==
  LET entry == [NoEntry EXCEPT !.hash = call[c].request,
                               !.claim = ClaimOf(call[c].request, setup.platform,
                                                 setup.isolation)] IN
  \/ /\ ledger' = [ledger EXCEPT ![OpOf(c)] = entry]
     /\ Goto(c, "prepare")
     /\ UNCHANGED holder
  \/ /\ \E written \in {ledger[OpOf(c)], entry} : ledger' = [ledger EXCEPT ![OpOf(c)] = written]
     /\ Abort(c, Failure(c))

Read(c) ==
  LET entry == ledger[OpOf(c)]
      execute == call[c].tool = "execute" IN
  /\ At(c) = "read"
  /\ \/ Abort(c, Failure(c)) /\ UNCHANGED ledger
     \/ execute /\ entry = NoEntry /\ Claim(c)
     \/ /\ execute /\ entry # NoEntry /\ entry.hash # call[c].request
        /\ Abort(c, Failure(c)) /\ UNCHANGED ledger
     \/ /\ execute => entry.hash = call[c].request
        /\ execute \/ entry # NoEntry
        /\ entry.terminal # NoTerminal
        /\ Replay(c, entry.terminal)
     \/ ~execute /\ entry = NoEntry /\ Replay(c, NoTerminal)
     \/ /\ entry # NoEntry /\ entry.terminal = NoTerminal
        /\ execute => entry.hash = call[c].request
        /\ Finish(c, IF execute THEN RecoveredUnknown(call[c].request, setup.platform, entry.claim)
                     ELSE InterruptedAck(entry.claim), <<2>>)
  /\ UNCHANGED <<setup, passed, desk, changes, effect>>

Early(kind, code) == Terminal(kind, code, NoReceipt)

FinishEarly(c, kind, code) == Finish(c, Early(kind, code), <<0, 2>>)

ActionFacts(c) == StrictFacts(Facts(setup.platform, setup.permitted), call[c].request.action)

(* From the claim to the first observation: deadline, isolation, the       *)
(* capability facts of the action, observe_with_boundary and               *)
(* resolve_with_boundary.  Each of the executor's answers may be an error, *)
(* and each look at the clock may find the deadline gone.                  *)
Usable(c) ==
  /\ setup.isolation # "unknown"
  /\ ActionFacts(c) # {}
  /\ call[c].request.mode = "background_only" =>
       \E f \in ActionFacts(c) : Authorised(f, setup.isolation)

Prepare(c) ==
  /\ At(c) = "prepare"
  /\ \/ FinishEarly(c, "failed", "dispatch_failed")
     \/ Expired /\ FinishEarly(c, "expired_before_effect", "none")
     \/ ~Expired /\ ~Usable(c) /\ FinishEarly(c, "rejected", "unsupported")
     \/ Usable(c) /\ FinishEarly(c, "rejected", "stale_target")
     \/ /\ ~Expired /\ Usable(c)
        /\ call' = [call EXCEPT ![c].at = "context", ![c].before = desk.view]
        /\ UNCHANGED <<ledger, holder>>
  /\ UNCHANGED <<setup, passed, desk, changes, effect>>

(* The last look at the deadline, and the context to compare with later.   *)
SampleBefore(c) ==
  /\ At(c) = "context"
  /\ \/ Expired /\ FinishEarly(c, "expired_before_effect", "none")
     \/ ~Expired /\ Guarded(c) /\ FinishEarly(c, "rejected", "unguarded")
     \/ /\ ~Expired
        /\ call' = [call EXCEPT ![c].at = "dispatch",
                                ![c].sample = IF Guarded(c) THEN desk.context ELSE 0]
        /\ UNCHANGED <<ledger, holder>>
  /\ UNCHANGED <<setup, passed, desk, changes, effect>>

Holds(d) == d.view.face = "named" /\ d.view.value = "wanted"

(* What was begun by then has seen the wanted value.                       *)
Notice(deeds, d) ==
  [o \in Op |-> [deeds[o] EXCEPT
     !.held = @ \/ ((deeds[o].flying \/ deeds[o].landed) /\ Holds(d))]]

Dispatch(c) ==
  /\ At(c) = "dispatch"
  /\ effect' = Notice([effect EXCEPT ![OpOf(c)].flying = TRUE], desk)
  /\ Goto(c, "executing")
  /\ UNCHANGED <<setup, passed, desk, changes, ledger, holder>>

(* What dispatch returns: Ok, an error without an effect, or an unknown    *)
(* effect.                                                                 *)
Return(c) ==
  /\ At(c) = "executing"
  /\ \/ /\ effect[OpOf(c)].landed
        /\ Goto(c, IF Expired THEN "uncertain" ELSE "returned")
        /\ UNCHANGED effect
     \/ /\ ~effect[OpOf(c)].landed
        /\ effect' = [effect EXCEPT ![OpOf(c)].flying = FALSE]
        /\ call' = [call EXCEPT ![c].at = "finish",
                      ![c].terminal = IF Expired THEN Early("expired_before_effect", "none")
                                      ELSE Early("rejected", "dispatch_failed")]
     \/ Goto(c, "uncertain") /\ UNCHANGED effect
  /\ UNCHANGED <<setup, passed, desk, changes, ledger, holder>>

(* context_preservation; the second sample may fail.                       *)
Preservation(c) ==
  IF call[c].request.mode # "background_only" THEN {"not_applicable"}
  ELSE IF setup.isolation = "host_isolated" THEN {"host_isolated"}
  ELSE {"unavailable", IF desk.context = call[c].sample THEN "unchanged_at_boundaries"
                       ELSE "changed"}

(* Mutant of Doubt: an executor that does not know is one that failed.     *)
DoubtIsFailure(c) ==
  /\ At(c) = "uncertain"
  /\ call' = [call EXCEPT ![c].at = "finish_effect",
                          ![c].terminal = Early("failed", "dispatch_failed")]
  /\ UNCHANGED <<setup, passed, desk, changes, ledger, holder, effect>>

(* The receipt of an unknown effect.                                       *)
Doubt(c) ==
  /\ At(c) = "uncertain"
  /\ \E context \in Preservation(c) :
       call' = [call EXCEPT ![c].at = "finish_effect",
                  ![c].terminal = Unknown([EmptyReceipt(call[c].request, setup.platform,
                                                        setup.isolation)
                                           EXCEPT !.context = context])]
  /\ UNCHANGED <<setup, passed, desk, changes, ledger, holder, effect>>

SampleAfter(c) ==
  /\ At(c) = "returned"
  /\ \E context \in Preservation(c) :
       call' = [call EXCEPT ![c].at = "after", ![c].context = context]
  /\ UNCHANGED <<setup, passed, desk, changes, ledger, holder, effect>>

(* Mutant of Verify: the value is all that is compared.                    *)
ValueOnly(request, before, after) ==
  IF request.verification = "value_hash" /\ after.value = "wanted"
  THEN "verified" ELSE "executed_unverified"

(* verify; after is NoView when there is no second observation.            *)
Verify(request, before, after) ==
  IF /\ request.verification = "value_hash"
     /\ after.value = "wanted"
     /\ before.face = "named" /\ after.face = before.face
     /\ after.geometry = before.geometry
  THEN "verified" ELSE "executed_unverified"

(* The second observation, and the terminal of a dispatch that returned.   *)
Conclude(c) ==
  /\ At(c) = "after"
  /\ \E after \in {desk.view, NoView} :
       LET request == call[c].request
           doubtful == Expired \/ call[c].context \in {"changed", "unavailable"}
           seen == IF doubtful THEN "unknown" ELSE Verify(request, call[c].before, after)
           success == seen # "unknown" /\ (request.verification = "none" \/ seen = "verified")
       IN call' = [call EXCEPT ![c].at = "finish_effect",
                     ![c].terminal = Terminal(
                        IF success THEN "succeeded" ELSE "outcome_unknown", "none",
                        [action |-> request.action,
                         route |-> (CHOOSE f \in ActionFacts(c) : TRUE).route,
                         isolation |-> setup.isolation, mode |-> request.mode,
                         context |-> call[c].context, effect |-> seen])]
  /\ UNCHANGED <<setup, passed, desk, changes, ledger, holder, effect>>

FinishNoEffect(c) ==
  /\ At(c) = "finish"
  /\ Finish(c, call[c].terminal, <<0, 1, 2>>)
  /\ UNCHANGED <<setup, passed, desk, changes, effect>>

(* finish_after_effect: a success that may not be durable is told as       *)
(* unknown, and written once more.                                         *)
FinishEffect(c) ==
  LET told == call[c].terminal
      weaker == PersistenceUnknown(told) IN
  /\ At(c) = "finish_effect"
  /\ \E written \in {ledger[OpOf(c)].terminal, told, weaker}, out \in {told, weaker} :
       /\ out = told => written = told \/ told = weaker
       /\ ledger' = [ledger EXCEPT ![OpOf(c)].terminal = written]
       /\ call' = [call EXCEPT ![c].at = "answer", ![c].terminal = out,
                               ![c].sequence = <<0, 1, 2>>]
  /\ Leave(c)
  /\ UNCHANGED <<setup, passed, desk, changes, effect>>

-----------------------------------------------------------------------------
(* The desktop and the clock                                               *)

(* What was dispatched for o happens, whether or not anybody waits for it. *)
Land(o) ==
  /\ effect[o].flying
  /\ \E disturbed \in BOOLEAN, value \in {"wanted", desk.view.value} :
       /\ disturbed => ledger[o].hash.mode = "background_only"
       /\ value # desk.view.value => ledger[o].hash.action = "set_value"
       /\ LET d == [view |-> [desk.view EXCEPT !.value = value],
                    context |-> desk.context + IF disturbed THEN 1 ELSE 0] IN
          /\ desk' = d
          /\ effect' = Notice([effect EXCEPT ![o] =
                                [flying |-> FALSE, landed |-> TRUE, late |-> passed # {},
                                 disturbed |-> disturbed, held |-> @.held]], d)
  /\ UNCHANGED <<setup, passed, changes, ledger, holder, call>>

(* What may become of the desktop by itself: the user turns to something   *)
(* else, the displays change, the element gets another value, or another   *)
(* element with the wanted value takes its place.                          *)
Changed ==
  LET With(view) == [desk EXCEPT !.view = view] IN
  {[desk EXCEPT !.context = @ + 1],
   With([desk.view EXCEPT !.geometry = 3 - @]),
   With([desk.view EXCEPT !.value = IF @ = "old" THEN "wanted" ELSE "old"]),
   With([desk.view EXCEPT !.face = "other", !.value = "wanted"])}

Change ==
  /\ changes < setup.changes
  /\ \E d \in Changed :
       /\ desk' = d
       /\ effect' = Notice(effect, d)
  /\ changes' = changes + 1
  /\ UNCHANGED <<setup, passed, ledger, holder, call>>

Tick ==
  /\ passed = {}
  /\ \E limit \in {"deadline", "grant"} : passed' = {limit}
  /\ UNCHANGED <<setup, desk, changes, ledger, holder, effect, call>>

-----------------------------------------------------------------------------
Engine(c) ==
  \/ Crash(c) \/ Gate(c) \/ Lock(c) \/ Read(c) \/ Prepare(c) \/ SampleBefore(c)
  \/ Dispatch(c) \/ Return(c) \/ Doubt(c) \/ SampleAfter(c) \/ Conclude(c)
  \/ FinishNoEffect(c) \/ FinishEffect(c)

Next ==
  \/ \E c \in Call : Begin(c) \/ Accept(c) \/ GiveUp(c) \/ Engine(c)
  \/ \E o \in Op : Land(o)
  \/ Change
  \/ Tick

(* The timers of the plugins.  Nothing says that the engine goes on.       *)
Spec == Init /\ [][Next]_vars /\ \A c \in Call : WF_vars(GiveUp(c) \/ Accept(c))

-----------------------------------------------------------------------------
(* A terminal that a caller was told is true of the desktop: a success     *)
(* happened, and what was refused, failed or expired has not and will not. *)
(* Unless execute says otherwise, the action may be asked for again        *)
(* without its effect happening twice (retry_safe, exit status).           *)
ToldIsTrue ==
  \A c \in Call :
    LET told == call[c].told
        deed == effect[OpOf(c)] IN
    /\ told.terminal.kind = "succeeded" => deed.landed
    /\ told.terminal.kind \in NoEffectKind => ~deed.landed /\ ~deed.flying
    /\ (call[c].tool = "execute" /\ told.kind # "none" /\ told.retry
        /\ told.terminal.kind # "succeeded") => ~deed.landed /\ ~deed.flying

(* A success is what was granted: it happened while the deadline and the   *)
(* grant were good, the earlier of which is the effect deadline            *)
(* (lib.rs:4424), and in the background of a shared desktop it left the    *)
(* focus and the pointer alone (context_preservation).                     *)
SuccessIsGranted ==
  \A c \in Call :
    LET told == call[c].told.terminal
        deed == effect[OpOf(c)] IN
    told.kind = "succeeded" =>
      /\ ~deed.late
      /\ (told.receipt.mode = "background_only" /\ told.receipt.isolation = "shared_desktop")
           => ~deed.disturbed

(* What was told as verified was there: after it was handed the action,    *)
(* the element that the request names had the value (verify).  So it is    *)
(* with every action of a batch before the next is begun (execute_batch).  *)
VerifiedWasSeen ==
  /\ \A c \in Call :
       call[c].told.terminal.receipt.effect = "verified" => effect[OpOf(c)].held
  /\ setup.client = "batch" =>
       \A c \in Call \ {1} : (effect[c].flying \/ effect[c].landed) => effect[c - 1].held

(* The answers of the engine that no plugin takes although nothing is      *)
(* wrong with them: a click on macOS whose effect is unknown, which has    *)
(* the route of its events; a claim made with an unknown isolation or by   *)
(* an older version, when its interaction mode is known; and the           *)
(* capabilities of macOS, which list application.                          *)
Exception(c) ==
  \/ call[c].terminal.receipt.route = "per_process_event"
  \/ /\ call[c].terminal.receipt.isolation = "unknown"
     /\ call[c].terminal.receipt.context = "not_applicable"
  \/ call[c].tool = "capabilities" /\ setup.platform = "macos"

(* Whatever else the engine says reaches the model: the plugins refuse no  *)
(* answer that they could read (_redact, redact, _valid_execution).        *)
OutcomesAreTold ==
  \A c \in Call : call[c].told.code = "praefectus_error" => Exception(c)

(* A request that a plugin forwards is one that the engine validates: what *)
(* the host is asked to approve is not refused for its form.               *)
ForwardedIsValid ==
  \A c \in Call :
    (setup.client \in Plugin /\ call[c].tool = "execute" /\ InEngine(c))
      => Validates(call[c].request)

(* No action is begun for a caller that has its answer: a tool call that   *)
(* gave up has killed the engine, wherever that can be reached.            *)
DispatchIsAwaited ==
  [][Reaches => \A o \in Op :
       (~effect[o].flying /\ effect'[o].flying)
         => \E c \in Call : OpOf(c) = o /\ call[c].told.kind = "none"
                            /\ call[c].at = "dispatch"]_vars

(* An executor that hangs does not keep the lock for ever: the plugin that *)
(* waits for it kills it.  status waits for the lock without a deadline.   *)
LockIsFreed ==
  \A c \in Call : (IsPlugin /\ Reaches /\ holder = c) ~> (holder # c)

=============================================================================
