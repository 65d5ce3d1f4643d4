---------------------------- MODULE BridgeProofs ----------------------------
(***************************************************************************)
(* Proofs about Bridge, for every set of callers and machines and every    *)
(* number of calls.                                                        *)
(***************************************************************************)
EXTENDS Bridge, TLAPS

(* Claims and terminals that are in a ledger.                              *)
Claims == [action : Action \union {"unknown"}, route : Route, isolation : Isolation,
           mode : Mode]
Terminals == [kind : Kind, code : Code, receipt : Receipt]

-----------------------------------------------------------------------------
(* Receipts                                                                *)

(* request_delivery_route and claim_delivery_route give a DeliveryRoute.   *)
LEMMA RouteTypes ==
  \A request \in Request, platform \in Platform :
    /\ RequestRoute(request, platform) \in Route
    /\ ClaimRoute(request, platform) \in Route
BY DEF RequestRoute, ClaimRoute, PointerRoute, Route, Request

(* recovered_context_preservation gives a ContextPreservation.             *)
LEMMA ContextTypes ==
  \A mode \in Mode, isolation \in Isolation : RecoveredContext(mode, isolation) \in Context
BY DEF RecoveredContext, Context

(* empty_receipt gives a receipt, and claim a line with a claim.           *)
LEMMA ReceiptTypes ==
  \A request \in Request, platform \in Platform, isolation \in Isolation :
    /\ EmptyReceipt(request, platform, isolation) \in Receipt
    /\ ClaimOf(request, platform, isolation) \in Claims
BY RouteTypes, ContextTypes DEF EmptyReceipt, ClaimOf, Claims, Receipt, Request, Effect

(* A terminal stays one when persistence_unknown_ack weakens it.           *)
LEMMA UnknownTypes ==
  /\ \A receipt \in Receipt : Unknown(receipt) \in Terminals
  /\ \A terminal \in Terminals : PersistenceUnknown(terminal) \in Terminals
BY DEF Unknown, Terminal, Terminals, Kind, Code, PersistenceUnknown

(* Both recoveries of an interrupted claim, by execute and by status       *)
(* (interrupted_ack), give a terminal.                                     *)
LEMMA RecoveredTypes ==
  ASSUME NEW request \in Request, NEW platform \in Platform, NEW claim \in Claims
  PROVE  /\ RecoveredUnknown(request, platform, claim) \in Terminals
         /\ InterruptedAck(claim) \in Terminals
<1>1. claim.isolation \in Isolation /\ claim.mode \in Mode /\ claim.route \in Route
      /\ claim.action \in Action \union {"unknown"}
  BY DEF Claims
<1>2. EmptyReceipt(request, platform, claim.isolation) \in Receipt
  BY <1>1, ReceiptTypes
<1>3. [EmptyReceipt(request, platform, claim.isolation) EXCEPT
         !.action = claim.action, !.route = claim.route, !.mode = claim.mode] \in Receipt
  BY <1>1, <1>2 DEF Receipt
<1>4. [action |-> claim.action, route |-> claim.route, isolation |-> claim.isolation,
       mode |-> claim.mode, context |-> RecoveredContext(claim.mode, claim.isolation),
       effect |-> "unknown"] \in Receipt
  BY <1>1, ContextTypes DEF Receipt, Effect
<1> QED
  BY <1>3, <1>4, UnknownTypes DEF RecoveredUnknown, InterruptedAck

(* Every fact that capabilities lists has a route.                         *)
LEMMA FactTypes ==
  \A platform \in Platform, permitted \in BOOLEAN :
    \A f \in Facts(platform, permitted) : f.route \in Route
BY DEF Facts, LinuxFacts, NativeFacts, BrowserFacts, SemanticFacts, Fact, PointerRoute, Route

(* What a plugin lets through passes validate_request.                     *)
LEMMA ProposalIsValid ==
  \A request, client : client \in Plugin /\ Proposes(client, request) => Validates(request)
BY DEF Plugin, Proposes, HermesProposes, OpenClawProposes, Validates

-----------------------------------------------------------------------------
(* Types                                                                   *)

(* Labels behind the claim of the operation, and those of them behind the  *)
(* look at the capabilities.                                               *)
Prepared == {"context", "dispatch", "executing", "uncertain", "returned", "after"}
Granted == Prepared \union {"prepare", "finish", "finish_effect"}

EntryType(entry) ==
  /\ entry.terminal \in Terminals \union {NoTerminal}
  /\ \/ entry.hash = NoRequest /\ entry.claim = NoClaim
     \/ entry.hash \in Request /\ entry.claim \in Claims

(* What the labels say about the types of what a call keeps.               *)
CallType(c) ==
  /\ (InEngine(c) /\ call[c].tool = "execute") => call[c].request \in Request
  /\ At(c) \in Granted \union {"gate"} => call[c].tool = "execute"
  /\ At(c) \in Prepared => Usable(c)
  /\ At(c) \in {"finish", "finish_effect"} => call[c].terminal \in Terminals

TypeInv ==
  /\ TypeOK
  /\ \A o \in Op : EntryType(ledger[o])
  /\ \A c \in Call : CallType(c)

(* The types of everything but the calls and the ledger.                   *)
RestType ==
  /\ setup \in Setups /\ setup \in Setup
  /\ passed \subseteq {"deadline", "grant"}
  /\ desk \in Desk
  /\ changes \in 0..setup.changes
  /\ holder \in Call \union {0}
  /\ effect \in [Op -> Deed]

LedgerType == ledger \in [Op -> Entry] /\ \A o \in Op : EntryType(ledger[o])

CallsType == call \in [Call -> CallRecord] /\ \A c \in Call : CallType(c)

(* TypeInv in the parts that the steps disturb separately.                 *)
LEMMA TypeParts == TypeInv <=> RestType /\ LedgerType /\ CallsType
BY BridgeAssumption DEF TypeInv, TypeOK, RestType, LedgerType, CallsType

(* The machine and its caller.                                             *)
LEMMA SetupTypes ==
  ASSUME TypeInv
  PROVE  /\ setup.client \in Client /\ setup.platform \in Platform
         /\ setup.isolation \in Isolation /\ setup.permitted \in BOOLEAN
         /\ setup.requests \subseteq Request /\ setup.changes \in Nat
BY BridgeAssumption DEF TypeInv, TypeOK, Setup

(* Every call works for an operation.                                      *)
LEMMA OpOfType == \A c \in Call : OpOf(c) \in Op
BY BridgeAssumption DEF OpOf, Call, Op

(* What a ledger can hold is a terminal; that it holds none is not.        *)
LEMMA TerminalTypes ==
  /\ Terminals \subseteq TerminalSet
  /\ NoTerminal \in TerminalSet
  /\ NoTerminal \notin Terminals
BY DEF Terminals, TerminalSet, NoTerminal, Terminal, NoReceipt, Receipt, Kind, Code, Context,
       Route, Isolation, Mode, Effect, NoEffectKind

(* finish_early gives a terminal.                                          *)
LEMMA EarlyTypes ==
  \A kind \in Kind, code \in Code : Early(kind, code) \in Terminals
BY DEF Early, Terminals, Terminal, NoReceipt, Receipt, Context, Route, Isolation, Mode, Effect

(* A caller may have been told nothing.                                    *)
LEMMA SilenceType == Silence \in Told
BY TerminalTypes DEF Silence, Told

(* A call that has not begun.                                              *)
LEMMA NoCallType == NoCall \in CallRecord
<1>1. <<>> \in Sequences
  BY DEF Sequences
<1> QED
  BY <1>1, SilenceType, TerminalTypes DEF NoCall, CallRecord, ProgramCounter, Tool

(* A call that goes on to another label, or ends.                          *)
LEMMA GotoTypes ==
  ASSUME CallsType, NEW c \in Call, NEW pc \in ProgramCounter, Goto(c, pc)
  PROVE  /\ call' \in [Call -> CallRecord]
         /\ call'[c].at = pc
         /\ call'[c].tool = call[c].tool /\ call'[c].request = call[c].request
         /\ call'[c].terminal = call[c].terminal /\ call'[c].told = call[c].told
         /\ \A b \in Call \ {c} : call'[b] = call[b]
<1> DEFINE r == [call[c] EXCEPT !.at = pc]
<1>1. call[c] \in CallRecord /\ call' = [call EXCEPT ![c] = r]
  BY DEF CallsType, Goto
<1>2. /\ r \in CallRecord /\ r.at = pc
      /\ r.tool = call[c].tool /\ r.request = call[c].request
      /\ r.terminal = call[c].terminal /\ r.told = call[c].told
  BY <1>1 DEF CallRecord
<1> QED
  BY <1>1, <1>2 DEF CallsType

(* What a caller was told first is all that it is told: an engine that     *)
(* goes on behind a timeout adds nothing.                                  *)
LEMMA AnswerTypes ==
  ASSUME CallsType, NEW c \in Call, NEW told \in Told, Answer(c, told)
  PROVE  /\ call' \in [Call -> CallRecord]
         /\ call'[c].at = "done"
         /\ call'[c].tool = call[c].tool /\ call'[c].request = call[c].request
         /\ call'[c].told = IF call[c].told = Silence THEN told ELSE call[c].told
         /\ \A b \in Call \ {c} : call'[b] = call[b]
<1> DEFINE left == IF told.code = "praefectus_error" THEN call[c].terminal ELSE NoTerminal
           out == IF call[c].told = Silence THEN told ELSE call[c].told
           r == [NoCall EXCEPT !.at = "done", !.tool = call[c].tool,
                   !.request = call[c].request, !.terminal = left, !.told = out]
<1>1. call[c] \in CallRecord
  BY DEF CallsType
<1>2. left \in TerminalSet /\ out \in Told
  BY <1>1, TerminalTypes DEF CallRecord
<1>3. call' = [call EXCEPT ![c] = r]
  BY DEF Answer
<1>4. r \in CallRecord /\ r.at = "done" /\ r.tool = call[c].tool /\ r.told = out
      /\ r.request = call[c].request
  <2> HIDE DEF left, out
  <2> QED
    BY <1>1, <1>2, NoCallType DEF CallRecord, ProgramCounter
<1> QED
  BY <1>3, <1>4 DEF CallsType

(* Calls that do not move keep their types while the capabilities last.    *)
LEMMA OtherTypes ==
  ASSUME NEW b \in Call, CallType(b), call'[b] = call[b], setup' = setup
  PROVE  CallType(b)'
<1>1. Usable(b)' <=> Usable(b)
  BY DEF Usable, ActionFacts
<1> QED
  BY <1>1 DEF CallType, InEngine, At

(* A step of one call.                                                     *)
LEMMA StepTypes ==
  ASSUME TypeInv, NEW c \in Call, setup' = setup, RestType', LedgerType',
         call' \in [Call -> CallRecord],
         \A b \in Call \ {c} : call'[b] = call[b],
         CallType(c)'
  PROVE  TypeInv'
<1>1. ASSUME NEW b \in Call PROVE CallType(b)'
  <2>1. CASE b = c
    BY <2>1
  <2>2. CASE b # c
    BY <2>2, OtherTypes DEF TypeInv
  <2> QED
    BY <2>1, <2>2
<1>2. CallsType'
  BY <1>1 DEF CallsType
<1> QED
  BY <1>2, TypeParts, PTL

(* A step that ends a call.                                                *)
LEMMA AnswerKeepsTypes ==
  ASSUME TypeInv, NEW c \in Call, NEW told \in Told, Answer(c, told),
         setup' = setup, RestType', LedgerType'
  PROVE  TypeInv'
<1>1. CallsType
  BY TypeParts
<1>2. CallType(c)'
  BY <1>1, AnswerTypes DEF CallType, InEngine, At, Granted, Prepared
<1> QED
  BY <1>1, <1>2, AnswerTypes, StepTypes

(* Every answer that the callers make of what the engine says.             *)
LEMMA ToldTypes ==
  ASSUME TypeInv, NEW c \in Call
  PROVE  /\ Failure(c) \in Told
         /\ Error(c, "host_executor_unavailable") \in Told
         /\ Refusal("invalid_request") \in Told
         /\ Judge(c) \in Told
         /\ Show(c) \in Told
         /\ \A failed \in BOOLEAN : ShownFacts(failed) \in Told
<1>1. call[c].terminal \in TerminalSet
  BY DEF TypeInv, TypeOK, CallRecord
<1>2. \A code \in {"invalid_request", "host_executor_unavailable", "praefectus_error"} :
        /\ Refusal(code) \in Told
        /\ Error(c, code) \in Told
  BY SilenceType DEF Refusal, Error, Told
<1>3. Failure(c) \in Told
  BY <1>2, SilenceType DEF Failure, Told
<1>4. \A retry \in BOOLEAN :
        [Silence EXCEPT !.kind = "report", !.terminal = call[c].terminal, !.retry = retry]
          \in Told
  BY <1>1, SilenceType DEF Told
<1>5. \A kind \in {"null", "facts"} : [Silence EXCEPT !.kind = kind] \in Told
  BY SilenceType DEF Told
<1>6. Judge(c) \in Told
  BY <1>2, <1>4, <1>5 DEF Judge
<1>7. Show(c) \in Told
  BY <1>4, <1>5 DEF Show
<1>8. \A failed \in BOOLEAN : ShownFacts(failed) \in Told
  BY <1>5, SilenceType DEF ShownFacts, Told
<1> QED
  BY <1>2, <1>3, <1>6, <1>7, <1>8

(* Whatever else a step does, these keep the types of the rest.            *)
LEMMA RestKeeps ==
  ASSUME RestType, UNCHANGED <<setup, passed, desk, changes, effect>>,
         holder' = holder \/ \E c \in Call : holder' = c \/ Leave(c)
  PROVE  RestType'
BY DEF RestType, Leave

(* append of a claim.                                                      *)
LEMMA LedgerKeeps ==
  ASSUME LedgerType, NEW o \in Op, NEW entry \in Entry, EntryType(entry),
         ledger' = [ledger EXCEPT ![o] = entry]
  PROVE  LedgerType'
BY DEF LedgerType

(* append of a terminal, or an append that left nothing behind.            *)
LEMMA WriteKeeps ==
  ASSUME LedgerType, NEW o \in Op,
         NEW terminal \in {ledger[o].terminal} \union Terminals,
         ledger' = [ledger EXCEPT ![o].terminal = terminal]
  PROVE  LedgerType'
<1> DEFINE entry == [ledger[o] EXCEPT !.terminal = terminal]
<1>1. ledger[o] \in Entry /\ EntryType(ledger[o])
  BY DEF LedgerType
<1>2. terminal \in Terminals \union {NoTerminal}
  BY <1>1 DEF EntryType
<1>3. entry \in Entry /\ entry.terminal = terminal /\ entry.hash = ledger[o].hash
      /\ entry.claim = ledger[o].claim
  BY <1>1, <1>2, TerminalTypes DEF Entry
<1>4. EntryType(entry)
  BY <1>1, <1>2, <1>3 DEF EntryType
<1>5. ledger' = [ledger EXCEPT ![o] = entry]
  OBVIOUS
<1> QED
  BY <1>3, <1>4, <1>5, LedgerKeeps

(* A step that ends a call and its process drops the lock.                 *)
LEMMA AbortKeepsTypes ==
  ASSUME TypeInv, NEW c \in Call, NEW told \in Told, Abort(c, told),
         UNCHANGED <<setup, passed, desk, changes, effect>>, LedgerType'
  PROVE  TypeInv'
<1>1. RestType'
  BY TypeParts, RestKeeps DEF Abort
<1> QED
  BY <1>1, AnswerKeepsTypes DEF Abort

(* finish, whether or not its append succeeds.                             *)
LEMMA FinishKeepsTypes ==
  ASSUME TypeInv, NEW c \in Call, NEW terminal \in Terminals, NEW sequence \in Sequences,
         Finish(c, terminal, sequence),
         UNCHANGED <<setup, passed, desk, changes, effect>>
  PROVE  TypeInv'
<1>1. CallsType /\ LedgerType /\ RestType /\ OpOf(c) \in Op
  BY TypeParts, OpOfType
<1>2. CASE /\ ledger' = [ledger EXCEPT ![OpOf(c)].terminal = terminal]
           /\ call' = [call EXCEPT ![c].at = "answer", ![c].terminal = terminal,
                                   ![c].sequence = sequence]
           /\ Leave(c)
  <2>1. LedgerType'
    BY <1>1, <1>2, WriteKeeps
  <2>2. RestType'
    BY <1>1, <1>2, RestKeeps
  <2>3. /\ call' \in [Call -> CallRecord]
        /\ call'[c].at = "answer"
        /\ \A b \in Call \ {c} : call'[b] = call[b]
    <3> DEFINE r == [call[c] EXCEPT !.at = "answer", !.terminal = terminal,
                                    !.sequence = sequence]
    <3>1. call[c] \in CallRecord /\ terminal \in TerminalSet
      BY <1>1, TerminalTypes DEF CallsType
    <3>2. r \in CallRecord /\ r.at = "answer"
      BY <3>1 DEF CallRecord, ProgramCounter
    <3>3. call' = [call EXCEPT ![c] = r]
      BY <1>2
    <3> QED
      BY <1>1, <3>2, <3>3 DEF CallsType
  <2>4. CallType(c)'
    BY <2>3 DEF CallType, InEngine, At, Granted, Prepared
  <2> QED
    BY <2>1, <2>2, <2>3, <2>4, StepTypes
<1>3. CASE /\ \E written \in {ledger[OpOf(c)].terminal, terminal} :
                ledger' = [ledger EXCEPT ![OpOf(c)].terminal = written]
           /\ Abort(c, Failure(c))
  <2>1. LedgerType'
    BY <1>1, <1>3, WriteKeeps
  <2> QED
    BY <1>3, <2>1, ToldTypes, AbortKeepsTypes
<1> QED
  BY <1>2, <1>3 DEF Finish

-----------------------------------------------------------------------------
(* The steps keep the types                                                *)

(* execute_input builds a request.                                         *)
LEMMA CliRequestType ==
  \A request \in Request : CliRequest(request) \in Request
<1> SUFFICES ASSUME NEW request \in Request PROVE CliRequest(request) \in Request
  OBVIOUS
<1> DEFINE asked == IF request.action = "set_value" /\ request.verification = "none"
                    THEN "value_hash" ELSE request.verification
<1>1. asked \in Verification
  BY DEF Request, Verification
<1>2. [request EXCEPT !.target = "element", !.verification = asked] \in Request
  <2> HIDE DEF asked
  <2> QED
    BY <1>1 DEF Request, Target
<1> QED
  BY <1>2 DEF CliRequest

(* A plugin, the command line or execute_batch begins a call.              *)
LEMMA BeginTypes ==
  ASSUME TypeInv, NEW c \in Call, Begin(c)
  PROVE  TypeInv'
<1>1. CallsType /\ RestType' /\ LedgerType' /\ setup' = setup
  BY TypeParts DEF Begin, RestType, LedgerType
<1>2. ASSUME NEW request \in Request, NEW pc \in {"gate", "done"}, NEW told \in Told,
             call' = [call EXCEPT ![c] = [NoCall EXCEPT !.tool = "execute",
                        !.request = request, !.at = pc, !.told = told]]
      PROVE  TypeInv'
  <2>1. /\ call'[c] \in CallRecord
        /\ call'[c].at = pc /\ call'[c].tool = "execute" /\ call'[c].request = request
    BY <1>1, <1>2, NoCallType DEF CallsType, CallRecord, ProgramCounter, Tool
  <2>2. call' \in [Call -> CallRecord] /\ \A b \in Call \ {c} : call'[b] = call[b]
    BY <1>1, <1>2, <2>1 DEF CallsType
  <2>3. CallType(c)'
    BY <2>1 DEF CallType, InEngine, At, Granted, Prepared
  <2> QED
    BY <1>1, <2>2, <2>3, StepTypes
<1>3. ASSUME NEW r \in setup.requests,
             LET request == IF setup.client = "cli" THEN CliRequest(r) ELSE r IN
             call' = [call EXCEPT ![c] = [NoCall EXCEPT
                        !.tool = "execute", !.request = request,
                        !.at = IF Proposes(setup.client, request) THEN "gate" ELSE "done",
                        !.told = IF Proposes(setup.client, request) THEN Silence
                                 ELSE Refusal("invalid_request")]]
      PROVE  TypeInv'
  <2> DEFINE request == IF setup.client = "cli" THEN CliRequest(r) ELSE r
             pc == IF Proposes(setup.client, request) THEN "gate" ELSE "done"
             told == IF Proposes(setup.client, request) THEN Silence
                     ELSE Refusal("invalid_request")
  <2>1. request \in Request
    BY SetupTypes, CliRequestType
  <2>2. pc \in {"gate", "done"} /\ told \in Told
    BY SilenceType, ToldTypes
  <2>3. call' = [call EXCEPT ![c] = [NoCall EXCEPT !.tool = "execute",
                    !.request = request, !.at = pc, !.told = told]]
    BY <1>3
  <2> HIDE DEF request, pc, told
  <2> QED
    BY <1>2, <2>1, <2>2, <2>3
<1>4. CASE call' = [call EXCEPT ![c].tool = "status", ![c].at = "lock"]
  <2> DEFINE r == [call[c] EXCEPT !.tool = "status", !.at = "lock"]
  <2>a. r \in CallRecord /\ r.at = "lock" /\ r.tool = "status"
    BY <1>1 DEF CallsType, CallRecord, ProgramCounter, Tool
  <2>b. call' = [call EXCEPT ![c] = r]
    BY <1>4
  <2>1. /\ call' \in [Call -> CallRecord] /\ \A b \in Call \ {c} : call'[b] = call[b]
        /\ call'[c].at = "lock" /\ call'[c].tool = "status"
    BY <1>1, <2>a, <2>b DEF CallsType
  <2>2. CallType(c)'
    BY <2>1 DEF CallType, InEngine, At, Granted, Prepared
  <2> QED
    BY <1>1, <2>1, <2>2, StepTypes
<1>5. ASSUME NEW failed \in BOOLEAN,
             call' = [call EXCEPT ![c].tool = "capabilities", ![c].at = "done",
                                  ![c].told = ShownFacts(failed)]
      PROVE  TypeInv'
  <2> DEFINE r == [call[c] EXCEPT !.tool = "capabilities", !.at = "done",
                                  !.told = ShownFacts(failed)]
  <2>a. r \in CallRecord /\ r.at = "done" /\ r.tool = "capabilities"
    BY <1>1, ToldTypes DEF CallsType, CallRecord, ProgramCounter, Tool
  <2>b. call' = [call EXCEPT ![c] = r]
    BY <1>5
  <2>1. /\ call' \in [Call -> CallRecord] /\ \A b \in Call \ {c} : call'[b] = call[b]
        /\ call'[c].at = "done" /\ call'[c].tool = "capabilities"
    BY <1>1, <2>a, <2>b DEF CallsType
  <2>2. CallType(c)'
    BY <2>1 DEF CallType, InEngine, At, Granted, Prepared
  <2> QED
    BY <1>1, <2>1, <2>2, StepTypes
<1> QED
  BY <1>3, <1>4, <1>5 DEF Begin

(* A step of a call that only goes to another label.                       *)
LEMMA GotoKeepsTypes ==
  ASSUME TypeInv, NEW c \in Call, NEW pc \in ProgramCounter, Goto(c, pc),
         setup' = setup, RestType', LedgerType',
         InEngine(c), pc \in Granted \union {"gate"} => call[c].tool = "execute",
         pc \in Prepared => Usable(c), pc \notin {"finish", "finish_effect"}
  PROVE  TypeInv'
<1>1. CallsType
  BY TypeParts
<1>2. /\ call' \in [Call -> CallRecord] /\ \A b \in Call \ {c} : call'[b] = call[b]
      /\ call'[c].at = pc /\ call'[c].tool = call[c].tool
      /\ call'[c].request = call[c].request
  BY <1>1, GotoTypes
<1>3. Usable(c)' <=> Usable(c)
  BY <1>2 DEF Usable, ActionFacts
<1>4. CallType(c)'
  BY <1>1, <1>2, <1>3 DEF CallsType, CallType, InEngine, At
<1> QED
  BY <1>2, <1>4, StepTypes

(* The sequence numbers of a report.                                       *)
LEMMA SequenceTypes ==
  <<>> \in Sequences /\ <<2>> \in Sequences /\ <<0, 2>> \in Sequences /\ <<0, 1, 2>> \in Sequences
BY DEF Sequences

(* A call whose answer is ready.                                           *)
LEMMA ReadyTypes ==
  ASSUME CallsType, NEW c \in Call, NEW terminal \in TerminalSet, NEW sequence \in Sequences,
         call' = [call EXCEPT ![c].at = "answer", ![c].terminal = terminal,
                              ![c].sequence = sequence]
  PROVE  /\ call' \in [Call -> CallRecord]
         /\ call'[c].at = "answer" /\ call'[c].tool = call[c].tool
         /\ call'[c].request = call[c].request /\ call'[c].terminal = terminal
         /\ call'[c].sequence = sequence /\ call'[c].told = call[c].told
         /\ \A b \in Call \ {c} : call'[b] = call[b]
<1> DEFINE r == [call[c] EXCEPT !.at = "answer", !.terminal = terminal,
                                !.sequence = sequence]
<1>1. call[c] \in CallRecord /\ call' = [call EXCEPT ![c] = r]
  BY DEF CallsType
<1>2. /\ r \in CallRecord /\ r.at = "answer"
      /\ r.tool = call[c].tool /\ r.request = call[c].request
      /\ r.terminal = terminal /\ r.sequence = sequence /\ r.told = call[c].told
  BY <1>1 DEF CallRecord, ProgramCounter
<1> QED
  BY <1>1, <1>2 DEF CallsType

(* A terminal that is in the ledger becomes the answer.                    *)
LEMMA ReplayKeepsTypes ==
  ASSUME TypeInv, NEW c \in Call, NEW terminal \in TerminalSet, Replay(c, terminal),
         UNCHANGED <<setup, passed, desk, changes, effect>>
  PROVE  TypeInv'
<1>1. CallsType /\ RestType' /\ LedgerType'
  BY TypeParts, RestKeeps DEF Replay, LedgerType
<1> DEFINE sequence == IF terminal = NoTerminal THEN <<>> ELSE <<2>>
<1>2. /\ call' \in [Call -> CallRecord] /\ call'[c].at = "answer"
      /\ \A b \in Call \ {c} : call'[b] = call[b]
  <2>1. sequence \in Sequences
    BY SequenceTypes
  <2>2. call' = [call EXCEPT ![c].at = "answer", ![c].terminal = terminal,
                             ![c].sequence = sequence]
    BY DEF Replay
  <2> HIDE DEF sequence
  <2> QED
    BY <1>1, <2>1, <2>2, ReadyTypes
<1>3. CallType(c)'
  BY <1>2 DEF CallType, InEngine, At, Granted, Prepared
<1> QED
  BY <1>1, <1>2, <1>3, StepTypes DEF Replay

(* claim writes its line, or fails with or without it.                     *)
LEMMA ClaimTypes ==
  ASSUME TypeInv, NEW c \in Call, At(c) = "read", call[c].tool = "execute",
         ledger[OpOf(c)] = NoEntry, Claim(c),
         UNCHANGED <<setup, passed, desk, changes, effect>>
  PROVE  TypeInv'
<1> DEFINE entry == [NoEntry EXCEPT !.hash = call[c].request,
                                    !.claim = ClaimOf(call[c].request, setup.platform,
                                                      setup.isolation)]
<1>1. CallsType /\ LedgerType /\ RestType /\ OpOf(c) \in Op /\ call[c].request \in Request
  BY TypeParts, OpOfType DEF CallsType, CallType, InEngine
<1>2. ClaimOf(call[c].request, setup.platform, setup.isolation) \in Claims
  BY <1>1, SetupTypes, ReceiptTypes
<1>3. entry \in Entry /\ EntryType(entry)
  BY <1>1, <1>2, TerminalTypes DEF NoEntry, Entry, EntryType, Claims, ClaimSet
<1> HIDE DEF entry
<1>4. CASE ledger' = [ledger EXCEPT ![OpOf(c)] = entry] /\ Goto(c, "prepare")
           /\ UNCHANGED holder
  <2>1. LedgerType'
    BY <1>1, <1>3, <1>4, LedgerKeeps
  <2>2. RestType'
    BY <1>1, <1>4, RestKeeps
  <2> QED
    BY <1>4, <2>1, <2>2, GotoKeepsTypes DEF ProgramCounter, InEngine, Prepared
<1>5. ASSUME NEW written \in {ledger[OpOf(c)], entry},
             ledger' = [ledger EXCEPT ![OpOf(c)] = written], Abort(c, Failure(c))
      PROVE  TypeInv'
  <2>1. written \in Entry /\ EntryType(written)
    BY <1>1, <1>3 DEF LedgerType
  <2>2. LedgerType'
    BY <1>1, <1>5, <2>1, LedgerKeeps
  <2> QED
    BY <1>5, <2>2, ToldTypes, AbortKeepsTypes
<1> QED
  BY <1>4, <1>5 DEF Claim, entry

(* What execute and status find in the ledger.                             *)
LEMMA ReadTypes ==
  ASSUME TypeInv, NEW c \in Call, Read(c)
  PROVE  TypeInv'
<1> DEFINE entry == ledger[OpOf(c)]
           execute == call[c].tool = "execute"
<1>1. CallsType /\ LedgerType /\ RestType /\ OpOf(c) \in Op
      /\ UNCHANGED <<setup, passed, desk, changes, effect>> /\ At(c) = "read"
  BY TypeParts, OpOfType DEF Read
<1>2. entry \in Entry /\ EntryType(entry)
  BY <1>1 DEF LedgerType
<1>3. CASE Abort(c, Failure(c)) /\ UNCHANGED ledger
  BY <1>1, <1>3, ToldTypes, AbortKeepsTypes DEF LedgerType
<1>4. CASE execute /\ entry = NoEntry /\ Claim(c)
  BY <1>1, <1>4, ClaimTypes
<1>5. CASE Replay(c, entry.terminal)
  <2>1. entry.terminal \in TerminalSet
    BY <1>2 DEF Entry
  <2> QED
    BY <1>1, <1>5, <2>1, ReplayKeepsTypes
<1>6. CASE Replay(c, NoTerminal)
  BY <1>1, <1>6, TerminalTypes, ReplayKeepsTypes
<1>7. CASE /\ entry # NoEntry /\ entry.terminal = NoTerminal
           /\ execute => entry.hash = call[c].request
           /\ Finish(c, IF execute
                        THEN RecoveredUnknown(call[c].request, setup.platform, entry.claim)
                        ELSE InterruptedAck(entry.claim), <<2>>)
  <2> DEFINE terminal == IF execute
                         THEN RecoveredUnknown(call[c].request, setup.platform, entry.claim)
                         ELSE InterruptedAck(entry.claim)
  <2>1. entry.hash \in Request /\ entry.claim \in Claims
    BY <1>2, <1>7 DEF EntryType, Entry, NoEntry
  <2>2. terminal \in Terminals
    BY <1>7, <2>1, SetupTypes, RecoveredTypes
  <2> HIDE DEF terminal
  <2>3. Finish(c, terminal, <<2>>)
    BY <1>7 DEF terminal
  <2> QED
    BY <1>1, <1>7, <2>2, <2>3, SequenceTypes, FinishKeepsTypes
<1> QED
  BY <1>3, <1>4, <1>5, <1>6, <1>7 DEF Read

(* A plugin judges the answer, or the command line prints it.              *)
LEMMA AcceptTypes ==
  ASSUME TypeInv, NEW c \in Call, Accept(c)
  PROVE  TypeInv'
<1> DEFINE told == IF IsPlugin THEN Judge(c) ELSE Show(c)
<1>1. told \in Told
  BY ToldTypes
<1>2. RestType' /\ LedgerType'
  BY TypeParts DEF Accept, RestType, LedgerType
<1> HIDE DEF told
<1>3. Answer(c, told) /\ setup' = setup
  BY DEF Accept, told
<1> QED
  BY <1>1, <1>2, <1>3, AnswerKeepsTypes

(* A plugin's timer fires.                                                 *)
LEMMA GiveUpTypes ==
  ASSUME TypeInv, NEW c \in Call, GiveUp(c)
  PROVE  TypeInv'
<1> DEFINE told == Error(c, "host_executor_unavailable")
<1>1. told \in Told /\ CallsType /\ RestType /\ LedgerType
  BY ToldTypes, TypeParts
<1>2. RestType' /\ LedgerType'
  BY <1>1, RestKeeps DEF GiveUp, LedgerType
<1>3. CASE Answer(c, told)
  BY <1>1, <1>2, <1>3, AnswerKeepsTypes DEF GiveUp
<1>4. CASE call' = [call EXCEPT ![c].told = told]
  <2> DEFINE r == [call[c] EXCEPT !.told = told]
  <2>1. /\ r \in CallRecord /\ r.at = call[c].at /\ r.tool = call[c].tool
        /\ r.request = call[c].request /\ r.terminal = call[c].terminal
    <3> HIDE DEF told
    <3> QED
      BY <1>1 DEF CallsType, CallRecord
  <2>2. call' = [call EXCEPT ![c] = r]
    BY <1>4
  <2>3. /\ call' \in [Call -> CallRecord] /\ call'[c] = r
        /\ \A b \in Call \ {c} : call'[b] = call[b]
    BY <1>1, <2>1, <2>2 DEF CallsType
  <2>4. Usable(c)' <=> Usable(c)
    BY <2>1, <2>3 DEF GiveUp, Usable, ActionFacts
  <2>5. CallType(c)'
    BY <1>1, <2>1, <2>3, <2>4 DEF CallsType, CallType, InEngine, At
  <2> QED
    BY <1>2, <2>3, <2>5, StepTypes DEF GiveUp
<1> QED
  BY <1>3, <1>4 DEF GiveUp

(* The process of the engine is killed.                                    *)
LEMMA CrashTypes ==
  ASSUME TypeInv, NEW c \in Call, Crash(c)
  PROVE  TypeInv'
<1> DEFINE told == IF IsPlugin THEN Failure(c) ELSE Silence
<1>1. told \in Told
  BY ToldTypes, SilenceType
<1>2. LedgerType'
  BY TypeParts DEF Crash, LedgerType
<1> HIDE DEF told
<1>3. Abort(c, told) /\ UNCHANGED <<setup, passed, desk, changes, effect>>
  BY DEF Crash, told
<1> QED
  BY <1>1, <1>2, <1>3, AbortKeepsTypes

(* validate_request and the verifier.                                      *)
LEMMA GateTypes ==
  ASSUME TypeInv, NEW c \in Call, Gate(c)
  PROVE  TypeInv'
<1>1. RestType /\ LedgerType' /\ UNCHANGED <<setup, passed, desk, changes, effect>>
  BY TypeParts DEF Gate, LedgerType
<1>2. CASE Goto(c, "lock") /\ UNCHANGED holder
  <2>1. RestType'
    BY <1>1, <1>2, RestKeeps
  <2> QED
    BY <1>1, <1>2, <2>1, GotoKeepsTypes DEF Gate, ProgramCounter, InEngine, Granted, Prepared
<1>3. CASE Abort(c, Failure(c))
  BY <1>1, <1>3, ToldTypes, AbortKeepsTypes
<1> QED
  BY <1>2, <1>3 DEF Gate

(* acquire_ledger_lock.                                                    *)
LEMMA LockTypes ==
  ASSUME TypeInv, NEW c \in Call, Lock(c)
  PROVE  TypeInv'
<1>1. RestType /\ LedgerType' /\ UNCHANGED <<setup, passed, desk, changes, effect>>
  BY TypeParts DEF Lock, LedgerType
<1>2. CASE holder' = c /\ Goto(c, "read")
  <2>1. RestType'
    BY <1>1, <1>2, RestKeeps
  <2> QED
    BY <1>1, <1>2, <2>1, GotoKeepsTypes DEF Lock, ProgramCounter, InEngine, Granted, Prepared
<1>3. CASE Abort(c, Failure(c))
  BY <1>1, <1>3, ToldTypes, AbortKeepsTypes
<1> QED
  BY <1>2, <1>3 DEF Lock

(* FinishEarly, for every terminal that execute makes without an effect.   *)
LEMMA FinishEarlyTypes ==
  ASSUME TypeInv, NEW c \in Call, NEW kind \in Kind, NEW code \in Code,
         FinishEarly(c, kind, code),
         UNCHANGED <<setup, passed, desk, changes, effect>>
  PROVE  TypeInv'
BY EarlyTypes, SequenceTypes, FinishKeepsTypes DEF FinishEarly

(* The desktop can be looked at.                                           *)
LEMMA DeskTypes == TypeInv => desk.view \in View /\ desk.context \in Nat
BY DEF TypeInv, TypeOK, Desk

(* execute from the claim to its first observation.                        *)
LEMMA PrepareTypes ==
  ASSUME TypeInv, NEW c \in Call, Prepare(c)
  PROVE  TypeInv'
<1>1. CallsType /\ RestType /\ LedgerType
      /\ UNCHANGED <<setup, passed, desk, changes, effect>> /\ At(c) = "prepare"
  BY TypeParts DEF Prepare
<1>2. CASE \E kind \in Kind, code \in Code : FinishEarly(c, kind, code)
  BY <1>1, <1>2, FinishEarlyTypes
<1>3. CASE /\ Usable(c)
           /\ call' = [call EXCEPT ![c].at = "context", ![c].before = desk.view]
           /\ UNCHANGED <<ledger, holder>>
  <2> DEFINE r == [call[c] EXCEPT !.at = "context", !.before = desk.view]
  <2>1. /\ r \in CallRecord /\ r.at = "context" /\ r.tool = call[c].tool
        /\ r.request = call[c].request
    BY <1>1, DeskTypes DEF CallsType, CallRecord, ProgramCounter
  <2>2. call' = [call EXCEPT ![c] = r]
    BY <1>3
  <2>3. /\ call' \in [Call -> CallRecord] /\ call'[c] = r
        /\ \A b \in Call \ {c} : call'[b] = call[b]
    BY <1>1, <2>1, <2>2 DEF CallsType
  <2>4. Usable(c)'
    BY <1>1, <1>3, <2>1, <2>3 DEF Usable, ActionFacts
  <2>5. CallType(c)'
    BY <1>1, <2>1, <2>3, <2>4 DEF CallsType, CallType, InEngine, At, Granted, Prepared
  <2>6. RestType' /\ LedgerType'
    BY <1>1, <1>3, RestKeeps DEF LedgerType
  <2> QED
    BY <1>1, <2>3, <2>5, <2>6, StepTypes
<1> QED
  BY <1>2, <1>3 DEF Prepare, Kind, Code, NoEffectKind

(* context_before.                                                         *)
LEMMA SampleBeforeTypes ==
  ASSUME TypeInv, NEW c \in Call, SampleBefore(c)
  PROVE  TypeInv'
<1>1. CallsType /\ RestType /\ LedgerType
      /\ UNCHANGED <<setup, passed, desk, changes, effect>> /\ At(c) = "context"
  BY TypeParts DEF SampleBefore
<1>2. CASE \E kind \in Kind, code \in Code : FinishEarly(c, kind, code)
  BY <1>1, <1>2, FinishEarlyTypes
<1>3. CASE /\ call' = [call EXCEPT ![c].at = "dispatch",
                         ![c].sample = IF Guarded(c) THEN desk.context ELSE 0]
           /\ UNCHANGED <<ledger, holder>>
  <2> DEFINE sample == IF Guarded(c) THEN desk.context ELSE 0
             r == [call[c] EXCEPT !.at = "dispatch", !.sample = sample]
  <2>1. sample \in Nat
    BY DeskTypes
  <2>2. /\ r \in CallRecord /\ r.at = "dispatch" /\ r.tool = call[c].tool
        /\ r.request = call[c].request
    <3> HIDE DEF sample
    <3> QED
      BY <1>1, <2>1 DEF CallsType, CallRecord, ProgramCounter
  <2>3. call' = [call EXCEPT ![c] = r]
    BY <1>3
  <2>4. /\ call' \in [Call -> CallRecord] /\ call'[c] = r
        /\ \A b \in Call \ {c} : call'[b] = call[b]
    BY <1>1, <2>2, <2>3 DEF CallsType
  <2>5. Usable(c)'
    BY <1>1, <2>2, <2>4 DEF CallsType, CallType, At, Prepared, Usable, ActionFacts
  <2>6. CallType(c)'
    BY <1>1, <2>2, <2>4, <2>5 DEF CallsType, CallType, InEngine, At, Granted, Prepared
  <2>7. RestType' /\ LedgerType'
    BY <1>1, <1>3, RestKeeps DEF LedgerType
  <2> QED
    BY <1>1, <2>4, <2>6, <2>7, StepTypes
<1> QED
  BY <1>2, <1>3 DEF SampleBefore, Kind, Code, NoEffectKind

(* Notice changes what was held only.                                      *)
LEMMA NoticeKeeps ==
  ASSUME NEW deeds \in [Op -> Deed], NEW d
  PROVE  /\ Notice(deeds, d) \in [Op -> Deed]
         /\ \A o \in Op : /\ Notice(deeds, d)[o].flying = deeds[o].flying
                          /\ Notice(deeds, d)[o].landed = deeds[o].landed
                          /\ Notice(deeds, d)[o].late = deeds[o].late
<1>1. ASSUME NEW o \in Op, NEW held \in BOOLEAN
      PROVE  LET r == [deeds[o] EXCEPT !.held = held] IN
             /\ r \in Deed /\ r.flying = deeds[o].flying /\ r.landed = deeds[o].landed
             /\ r.late = deeds[o].late
  BY DEF Deed
<1>2. ASSUME NEW o \in Op
      PROVE  (deeds[o].held \/ ((deeds[o].flying \/ deeds[o].landed) /\ Holds(d))) \in BOOLEAN
  OBVIOUS
<1>3. ASSUME NEW o \in Op
      PROVE  /\ Notice(deeds, d)[o] \in Deed
             /\ Notice(deeds, d)[o].flying = deeds[o].flying
             /\ Notice(deeds, d)[o].landed = deeds[o].landed
             /\ Notice(deeds, d)[o].late = deeds[o].late
  <2> DEFINE held == deeds[o].held \/ ((deeds[o].flying \/ deeds[o].landed) /\ Holds(d))
  <2>1. Notice(deeds, d)[o] = [deeds[o] EXCEPT !.held = held]
    BY DEF Notice
  <2>2. held \in BOOLEAN
    BY <1>2
  <2> HIDE DEF held
  <2> QED
    BY <1>1, <2>1, <2>2
<1> QED
  BY <1>3 DEF Notice

(* Executor::dispatch is called.                                           *)
LEMMA DispatchTypes ==
  ASSUME TypeInv, NEW c \in Call, Dispatch(c)
  PROVE  TypeInv'
<1>1. CallsType /\ RestType /\ LedgerType' /\ OpOf(c) \in Op
  BY TypeParts, OpOfType DEF Dispatch, LedgerType
<1>2. [effect EXCEPT ![OpOf(c)].flying = TRUE] \in [Op -> Deed]
  BY <1>1 DEF RestType, Deed
<1>3. RestType'
  BY <1>1, <1>2, NoticeKeeps DEF Dispatch, RestType
<1> QED
  BY <1>1, <1>3, GotoKeepsTypes DEF Dispatch, CallsType, CallType, ProgramCounter, InEngine,
     Granted, Prepared, At

(* A call that goes on to another label with a terminal.                   *)
Carries(c, pc, terminal) == call' = [call EXCEPT ![c].at = pc, ![c].terminal = terminal]

(* A call that carries its terminal to the ledger.                         *)
LEMMA WithTerminal ==
  ASSUME CallsType, NEW c \in Call, NEW pc \in ProgramCounter, NEW terminal \in TerminalSet,
         Carries(c, pc, terminal)
  PROVE  /\ call' \in [Call -> CallRecord]
         /\ call'[c].at = pc /\ call'[c].tool = call[c].tool
         /\ call'[c].request = call[c].request /\ call'[c].terminal = terminal
         /\ call'[c].told = call[c].told
         /\ \A b \in Call \ {c} : call'[b] = call[b]
<1> DEFINE r == [call[c] EXCEPT !.at = pc, !.terminal = terminal]
<1>1. call[c] \in CallRecord /\ call' = [call EXCEPT ![c] = r]
  BY DEF CallsType, Carries
<1>2. /\ r \in CallRecord /\ r.at = pc
      /\ r.tool = call[c].tool /\ r.request = call[c].request
      /\ r.terminal = terminal /\ r.told = call[c].told
  BY <1>1 DEF CallRecord
<1> QED
  BY <1>1, <1>2 DEF CallsType

(* So its types stay, when what it carries is a terminal.                  *)
LEMMA WithTerminalKeepsTypes ==
  ASSUME TypeInv, NEW c \in Call, NEW pc \in ProgramCounter, NEW terminal \in Terminals,
         pc \in {"finish", "finish_effect"},
         Carries(c, pc, terminal),
         At(c) \in Prepared, setup' = setup, RestType', LedgerType'
  PROVE  TypeInv'
<1>1. CallsType /\ terminal \in TerminalSet
  BY TypeParts, TerminalTypes
<1>2. /\ call' \in [Call -> CallRecord]
      /\ call'[c].at = pc /\ call'[c].tool = call[c].tool
      /\ call'[c].request = call[c].request /\ call'[c].terminal = terminal
      /\ \A b \in Call \ {c} : call'[b] = call[b]
  BY <1>1, WithTerminal
<1>3. CallType(c)'
  BY <1>1, <1>2 DEF CallsType, CallType, InEngine, At, Granted, Prepared
<1> QED
  BY <1>2, <1>3, StepTypes

(* Executor::dispatch returns, in one of its three ways.                   *)
LEMMA ReturnTypes ==
  ASSUME TypeInv, NEW c \in Call, Return(c)
  PROVE  TypeInv'
<1>1. CallsType /\ RestType /\ LedgerType' /\ OpOf(c) \in Op /\ At(c) = "executing"
      /\ UNCHANGED <<setup, passed, desk, changes, ledger, holder>>
  BY TypeParts, OpOfType DEF Return, LedgerType
<1>2. CASE /\ UNCHANGED effect
           /\ \E pc \in {"uncertain", "returned"} : Goto(c, pc)
  <2>1. RestType'
    BY <1>1, <1>2 DEF RestType
  <2>2. PICK pc \in {"uncertain", "returned"} : Goto(c, pc)
    BY <1>2
  <2> QED
    BY <1>1, <2>1, <2>2, GotoKeepsTypes DEF CallsType, CallType, ProgramCounter, InEngine,
       Granted, Prepared, At
<1>3. CASE /\ effect' = [effect EXCEPT ![OpOf(c)].flying = FALSE]
           /\ call' = [call EXCEPT ![c].at = "finish",
                ![c].terminal = IF Expired THEN Early("expired_before_effect", "none")
                                ELSE Early("rejected", "dispatch_failed")]
  <2>1. RestType'
    BY <1>1, <1>3 DEF RestType, Deed
  <2> DEFINE terminal == IF Expired THEN Early("expired_before_effect", "none")
                         ELSE Early("rejected", "dispatch_failed")
  <2>2. terminal \in Terminals
    BY EarlyTypes DEF Kind, Code, NoEffectKind
  <2> HIDE DEF terminal
  <2>3. Carries(c, "finish", terminal)
    BY <1>3 DEF terminal, Carries
  <2> QED
    BY <1>1, <2>1, <2>2, <2>3, WithTerminalKeepsTypes DEF Prepared, ProgramCounter
<1> QED
  BY <1>2, <1>3 DEF Return

(* context_preservation gives a ContextPreservation.                       *)
LEMMA PreservationTypes ==
  ASSUME NEW c
  PROVE  Preservation(c) \subseteq Context
BY DEF Preservation, Context

(* An unknown effect gets its receipt.                                     *)
LEMMA DoubtTypes ==
  ASSUME TypeInv, NEW c \in Call, Doubt(c)
  PROVE  TypeInv'
<1>1. CallsType /\ RestType' /\ LedgerType' /\ At(c) = "uncertain" /\ setup' = setup
  BY TypeParts DEF Doubt, LedgerType, RestType
<1>2. call[c].request \in Request
  BY <1>1 DEF CallsType, CallType, InEngine, Granted, Prepared, At
<1>3. PICK context \in Preservation(c) :
        call' = [call EXCEPT ![c].at = "finish_effect",
                   ![c].terminal = Unknown([EmptyReceipt(call[c].request, setup.platform,
                                                         setup.isolation)
                                            EXCEPT !.context = context])]
  BY DEF Doubt
<1>4. EmptyReceipt(call[c].request, setup.platform, setup.isolation) \in Receipt
      /\ context \in Context
  BY <1>2, SetupTypes, ReceiptTypes, PreservationTypes
<1> DEFINE receipt == [EmptyReceipt(call[c].request, setup.platform, setup.isolation)
                         EXCEPT !.context = context]
<1>5. receipt \in Receipt
  BY <1>4 DEF Receipt
<1>6. Unknown(receipt) \in Terminals
  BY <1>5, UnknownTypes
<1>7. Carries(c, "finish_effect", Unknown(receipt))
  BY <1>3 DEF Carries
<1> QED
  BY <1>1, <1>6, <1>7, WithTerminalKeepsTypes DEF Prepared, ProgramCounter

(* context_preservation after the effect.                                  *)
LEMMA SampleAfterTypes ==
  ASSUME TypeInv, NEW c \in Call, SampleAfter(c)
  PROVE  TypeInv'
<1>1. CallsType /\ RestType' /\ LedgerType' /\ At(c) = "returned" /\ setup' = setup
  BY TypeParts DEF SampleAfter, LedgerType, RestType
<1>2. PICK context \in Context :
        call' = [call EXCEPT ![c].at = "after", ![c].context = context]
  BY PreservationTypes DEF SampleAfter
<1> DEFINE r == [call[c] EXCEPT !.at = "after", !.context = context]
<1>3. /\ r \in CallRecord /\ r.at = "after" /\ r.tool = call[c].tool
      /\ r.request = call[c].request
  BY <1>1 DEF CallsType, CallRecord, ProgramCounter
<1>4. call' = [call EXCEPT ![c] = r]
  BY <1>2
<1>5. /\ call' \in [Call -> CallRecord] /\ call'[c] = r
      /\ \A b \in Call \ {c} : call'[b] = call[b]
  BY <1>1, <1>3, <1>4 DEF CallsType
<1>6. Usable(c)'
  BY <1>1, <1>3, <1>5 DEF CallsType, CallType, At, Prepared, Usable, ActionFacts
<1>7. CallType(c)'
  BY <1>1, <1>3, <1>5, <1>6 DEF CallsType, CallType, InEngine, At, Granted, Prepared
<1> QED
  BY <1>1, <1>5, <1>7, StepTypes

(* verify gives an Effect.                                                 *)
LEMMA VerifyTypes ==
  \A request, before, after : Verify(request, before, after) \in {"verified", "executed_unverified"}
BY DEF Verify

(* The receipt of a dispatch that returned Ok.                             *)
LEMMA ConcludeTypes ==
  ASSUME TypeInv, NEW c \in Call, Conclude(c)
  PROVE  TypeInv'
<1>1. CallsType /\ RestType' /\ LedgerType' /\ At(c) = "after" /\ setup' = setup
  BY TypeParts DEF Conclude, LedgerType, RestType
<1>2. call[c].request \in Request /\ Usable(c) /\ call[c].context \in Context \union {"none"}
  BY <1>1 DEF CallsType, CallType, InEngine, Granted, Prepared, At, CallRecord
<1> DEFINE route == (CHOOSE f \in ActionFacts(c) : TRUE).route
<1>3. route \in Route
  <2>1. PICK f \in ActionFacts(c) : f = CHOOSE g \in ActionFacts(c) : TRUE
    BY <1>2 DEF Usable
  <2>2. f \in Facts(setup.platform, setup.permitted)
    BY <2>1 DEF ActionFacts, StrictFacts
  <2> QED
    BY <2>1, <2>2, SetupTypes, FactTypes
<1> HIDE DEF route
<1>4. ASSUME NEW after, NEW kind \in Kind, NEW seen \in Effect
      PROVE  Terminal(kind, "none", [action |-> call[c].request.action, route |-> route,
                       isolation |-> setup.isolation, mode |-> call[c].request.mode,
                       context |-> call[c].context, effect |-> seen]) \in Terminals
  <2>1. call[c].request.action \in Action /\ call[c].request.mode \in Mode
    BY <1>2 DEF Request
  <2>2. [action |-> call[c].request.action, route |-> route,
         isolation |-> setup.isolation, mode |-> call[c].request.mode,
         context |-> call[c].context, effect |-> seen] \in Receipt
    BY <1>2, <1>3, <2>1, SetupTypes DEF Receipt
  <2> QED
    BY <2>2 DEF Terminal, Terminals, Code
<1>5. PICK after \in {desk.view, NoView} :
        LET request == call[c].request
            doubtful == Expired \/ call[c].context \in {"changed", "unavailable"}
            seen == IF doubtful THEN "unknown" ELSE Verify(request, call[c].before, after)
            success == seen # "unknown" /\ (request.verification = "none" \/ seen = "verified")
        IN Carries(c, "finish_effect",
             Terminal(IF success THEN "succeeded" ELSE "outcome_unknown", "none",
                      [action |-> request.action, route |-> route,
                       isolation |-> setup.isolation, mode |-> request.mode,
                       context |-> call[c].context, effect |-> seen]))
  BY DEF Conclude, Carries, route
<1> DEFINE seen == IF Expired \/ call[c].context \in {"changed", "unavailable"} THEN "unknown"
                   ELSE Verify(call[c].request, call[c].before, after)
           success == seen # "unknown"
                      /\ (call[c].request.verification = "none" \/ seen = "verified")
           kind == IF success THEN "succeeded" ELSE "outcome_unknown"
           terminal == Terminal(kind, "none",
                         [action |-> call[c].request.action, route |-> route,
                          isolation |-> setup.isolation, mode |-> call[c].request.mode,
                          context |-> call[c].context, effect |-> seen])
<1>6. seen \in Effect /\ kind \in Kind
  BY VerifyTypes DEF Effect, Kind
<1>7. terminal \in Terminals
  <2> HIDE DEF seen, kind
  <2> QED
    BY <1>4, <1>6
<1>8. Carries(c, "finish_effect", terminal)
  BY <1>5
<1> HIDE DEF terminal
<1> QED
  BY <1>1, <1>7, <1>8, WithTerminalKeepsTypes DEF Prepared, ProgramCounter

(* finish, for a dispatch without an effect.                               *)
LEMMA FinishNoEffectTypes ==
  ASSUME TypeInv, NEW c \in Call, FinishNoEffect(c)
  PROVE  TypeInv'
<1>1. call[c].terminal \in Terminals
  BY DEF TypeInv, CallType, FinishNoEffect
<1> QED
  BY <1>1, SequenceTypes, FinishKeepsTypes DEF FinishNoEffect

(* finish_after_effect.                                                    *)
LEMMA FinishEffectTypes ==
  ASSUME TypeInv, NEW c \in Call, FinishEffect(c)
  PROVE  TypeInv'
<1> DEFINE told == call[c].terminal
           weaker == PersistenceUnknown(told)
<1>1. CallsType /\ LedgerType /\ RestType /\ OpOf(c) \in Op
      /\ UNCHANGED <<setup, passed, desk, changes, effect>> /\ Leave(c)
  BY TypeParts, OpOfType DEF FinishEffect
<1>2. told \in Terminals /\ weaker \in Terminals
  BY UnknownTypes DEF TypeInv, CallType, FinishEffect
<1>3. PICK written \in {ledger[OpOf(c)].terminal, told, weaker}, out \in {told, weaker} :
        /\ ledger' = [ledger EXCEPT ![OpOf(c)].terminal = written]
        /\ call' = [call EXCEPT ![c].at = "answer", ![c].terminal = out,
                                ![c].sequence = <<0, 1, 2>>]
  BY DEF FinishEffect
<1>4. LedgerType'
  BY <1>1, <1>2, <1>3, WriteKeeps
<1>5. RestType'
  BY <1>1, RestKeeps
<1>6. out \in TerminalSet
  BY <1>2, TerminalTypes
<1>7. /\ call' \in [Call -> CallRecord] /\ call'[c].at = "answer"
      /\ \A b \in Call \ {c} : call'[b] = call[b]
  BY <1>1, <1>3, <1>6, SequenceTypes, ReadyTypes
<1>8. CallType(c)'
  BY <1>7 DEF CallType, InEngine, At, Granted, Prepared
<1> QED
  BY <1>1, <1>4, <1>5, <1>7, <1>8, StepTypes

(* Steps of the desktop and of the clock.                                  *)
LEMMA QuietTypes ==
  ASSUME TypeInv, UNCHANGED <<setup, ledger, holder, call>>, RestType'
  PROVE  TypeInv'
<1>1. \A c \in Call : Usable(c)' <=> Usable(c)
  BY DEF Usable, ActionFacts
<1>2. CallsType' /\ LedgerType'
  BY <1>1, TypeParts DEF CallsType, CallType, InEngine, At, LedgerType
<1> QED
  BY <1>2, TypeParts, PTL

(* What was dispatched happens.                                            *)
LEMMA LandTypes ==
  ASSUME TypeInv, NEW o \in Op, Land(o)
  PROVE  TypeInv'
<1>1. RestType /\ UNCHANGED <<setup, passed, changes, ledger, holder, call>>
  BY TypeParts DEF Land
<1>2. PICK disturbed \in BOOLEAN, value \in {"wanted", desk.view.value} :
        LET d == [view |-> [desk.view EXCEPT !.value = value],
                  context |-> desk.context + IF disturbed THEN 1 ELSE 0] IN
        /\ desk' = d
        /\ effect' = Notice([effect EXCEPT ![o] =
                              [flying |-> FALSE, landed |-> TRUE, late |-> passed # {},
                               disturbed |-> disturbed, held |-> effect[o].held]], d)
  BY DEF Land
<1>3. desk' \in Desk
  <2>1. desk.view \in View /\ desk.context \in Nat
    BY DeskTypes
  <2>2. [desk.view EXCEPT !.value = value] \in View
    BY <2>1 DEF View
  <2>3. (desk.context + IF disturbed THEN 1 ELSE 0) \in Nat
    BY <2>1
  <2> QED
    BY <1>2, <2>2, <2>3 DEF Desk
<1>4. [effect EXCEPT ![o] = [flying |-> FALSE, landed |-> TRUE, late |-> passed # {},
                             disturbed |-> disturbed, held |-> effect[o].held]]
        \in [Op -> Deed]
  <2>1. effect \in [Op -> Deed] /\ (passed # {}) \in BOOLEAN
    BY <1>1 DEF RestType
  <2>2. effect[o].held \in BOOLEAN
    BY <2>1 DEF Deed
  <2>3. [flying |-> FALSE, landed |-> TRUE, late |-> passed # {},
         disturbed |-> disturbed, held |-> effect[o].held] \in Deed
    BY <2>1, <2>2 DEF Deed
  <2> QED
    BY <2>1, <2>3
<1>5. effect' \in [Op -> Deed]
  BY <1>2, <1>4, NoticeKeeps
<1>6. RestType'
  BY <1>1, <1>3, <1>5 DEF RestType
<1> QED
  BY <1>1, <1>6, QuietTypes

(* The desktop changes by itself.                                          *)
LEMMA ChangeTypes ==
  ASSUME TypeInv, Change
  PROVE  TypeInv'
<1>1. RestType /\ UNCHANGED <<setup, passed, ledger, holder, call>>
  BY TypeParts DEF Change
<1>2. PICK d \in Changed : desk' = d /\ effect' = Notice(effect, d)
  BY DEF Change
<1>3. d \in Desk
  <2>1. desk \in Desk /\ desk.view \in View /\ desk.context \in Nat
    BY DeskTypes, <1>1 DEF RestType
  <2>2. \A view \in View : [desk EXCEPT !.view = view] \in Desk
    BY <2>1 DEF Desk
  <2>3. [desk EXCEPT !.context = @ + 1] \in Desk
    BY <2>1 DEF Desk
  <2>4. [desk.view EXCEPT !.geometry = 3 - @] \in View
    BY <2>1 DEF View
  <2>5. [desk.view EXCEPT !.value = IF @ = "old" THEN "wanted" ELSE "old"] \in View
    BY <2>1 DEF View
  <2>6. [desk.view EXCEPT !.face = "other", !.value = "wanted"] \in View
    BY <2>1 DEF View
  <2> QED
    BY <2>2, <2>3, <2>4, <2>5, <2>6 DEF Changed
<1>4. effect' \in [Op -> Deed]
  BY <1>1, <1>2, NoticeKeeps DEF RestType
<1>5. changes' \in 0..setup.changes
  BY <1>1, SetupTypes DEF Change, RestType
<1>6. RestType'
  BY <1>1, <1>2, <1>3, <1>4, <1>5 DEF RestType
<1> QED
  BY <1>1, <1>6, QuietTypes

(* The deadline, or the expiry of the grant, passes.                       *)
LEMMA TickTypes ==
  ASSUME TypeInv, Tick
  PROVE  TypeInv'
<1>1. RestType'
  BY TypeParts DEF Tick, RestType
<1> QED
  BY <1>1, QuietTypes DEF Tick

(* Nobody has called yet, and the ledger is empty or has an old claim.     *)
LEMMA InitTypes == Init => TypeInv
<1> SUFFICES ASSUME Init PROVE TypeInv
  OBVIOUS
<1>1. setup \in Setups /\ setup \in Setup
  BY BridgeAssumption DEF Init
<1>2. NoDeed \in Deed /\ \A landed \in BOOLEAN : [NoDeed EXCEPT !.landed = landed] \in Deed
  BY DEF NoDeed, Deed
<1>3. /\ NoEntry \in Entry /\ EntryType(NoEntry)
      /\ \A r \in Request :
           LET entry == [NoEntry EXCEPT !.hash = r, !.claim = LegacyClaim] IN
           entry \in Entry /\ EntryType(entry)
  BY TerminalTypes DEF NoEntry, Entry, EntryType, LegacyClaim, NoClaim, Claims, ClaimSet,
     Action, Route, Isolation, Mode
<1>4. LedgerType /\ effect \in [Op -> Deed]
  <2>1. CASE setup.legacy
    <3>1. PICK r \in setup.requests, landed \in BOOLEAN :
            /\ ledger = [o \in Op |-> IF o = 1 THEN [NoEntry EXCEPT !.hash = r,
                                                                   !.claim = LegacyClaim]
                                      ELSE NoEntry]
            /\ effect = [o \in Op |-> IF o = 1 THEN [NoDeed EXCEPT !.landed = landed]
                                      ELSE NoDeed]
      BY <2>1 DEF Init
    <3>2. r \in Request
      BY <1>1 DEF Setup
    <3> QED
      BY <1>2, <1>3, <3>1, <3>2 DEF LedgerType
  <2>2. CASE ~setup.legacy
    BY <1>2, <1>3, <2>2 DEF Init, LedgerType
  <2> QED
    BY <2>1, <2>2
<1>5. CallsType
  BY NoCallType DEF Init, CallsType, CallType, NoCall, InEngine, At, Granted, Prepared
<1>6. RestType
  <2>1. desk \in Desk
    BY DEF Init, Desk, View
  <2>a. setup.changes \in Nat
    BY <1>1 DEF Setup
  <2>b. changes = 0
    BY DEF Init
  <2>2. changes \in 0..setup.changes
    BY <2>a, <2>b
  <2> QED
    BY <1>1, <1>4, <2>1, <2>2 DEF Init, RestType
<1> QED
  BY <1>4, <1>5, <1>6, TypeParts

(* Every step keeps the types.                                             *)
LEMMA NextTypes == TypeInv /\ [Next]_vars => TypeInv'
<1> SUFFICES ASSUME TypeInv, [Next]_vars PROVE TypeInv'
  OBVIOUS
<1>1. ASSUME NEW c \in Call, Begin(c) \/ Accept(c) \/ GiveUp(c) PROVE TypeInv'
  BY <1>1, BeginTypes, AcceptTypes, GiveUpTypes
<1>2. ASSUME NEW c \in Call, Engine(c) PROVE TypeInv'
  BY <1>2, CrashTypes, GateTypes, LockTypes, ReadTypes, PrepareTypes, SampleBeforeTypes,
     DispatchTypes, ReturnTypes, DoubtTypes, SampleAfterTypes, ConcludeTypes,
     FinishNoEffectTypes, FinishEffectTypes DEF Engine
<1>3. ASSUME UNCHANGED vars PROVE TypeInv'
  <2>1. RestType' /\ UNCHANGED <<setup, ledger, holder, call>>
    BY <1>3, TypeParts DEF vars, RestType
  <2> QED
    BY <2>1, QuietTypes
<1> QED
  BY <1>1, <1>2, <1>3, LandTypes, ChangeTypes, TickTypes DEF Next

(* Every record that passes between the model, the bridge, the engine and  *)
(* the ledger has the fields that its reader expects, whoever calls and on *)
(* whatever machine.                                                       *)
THEOREM BridgeTypeCorrect == Spec => []TypeOK
<1>1. TypeInv => TypeOK
  BY DEF TypeInv
<1> QED
  BY <1>1, InitTypes, NextTypes, PTL DEF Spec

-----------------------------------------------------------------------------
(* What a call keeps                                                       *)

(* A step of call c after its beginning: it works for the same request,    *)
(* and while a killed process stays killed it has no answer before its end. *)
Moves(c) ==
  /\ \A b \in Call \ {c} : call'[b] = call[b]
  /\ call'[c].tool = call[c].tool /\ call'[c].request = call[c].request
  /\ call'[c].at # "idle"
  /\ InEngine(c)' => InEngine(c)
  /\ call'[c].told = call[c].told \/ call'[c].at = "done" \/ ~Reaches

(* A call that ends.                                                       *)
LEMMA AnswerMoves ==
  ASSUME CallsType, NEW c \in Call, NEW told \in Told, Answer(c, told)
  PROVE  Moves(c)
BY AnswerTypes DEF Moves, InEngine, At

(* A call of the engine that goes to another label.                        *)
LEMMA GotoMoves ==
  ASSUME CallsType, NEW c \in Call, NEW pc \in ProgramCounter \ {"idle"}, Goto(c, pc),
         InEngine(c)
  PROVE  Moves(c)
BY GotoTypes DEF Moves

(* A call of the engine that carries its terminal to the ledger.           *)
LEMMA CarryMoves ==
  ASSUME CallsType, NEW c \in Call, NEW pc \in ProgramCounter \ {"idle"},
         NEW terminal \in TerminalSet, Carries(c, pc, terminal), InEngine(c)
  PROVE  Moves(c)
BY WithTerminal DEF Moves

(* A call that is ready to be answered.                                    *)
LEMMA ReadyMoves ==
  ASSUME CallsType, NEW c \in Call, NEW terminal \in TerminalSet, NEW sequence \in Sequences,
         call' = [call EXCEPT ![c].at = "answer", ![c].terminal = terminal,
                              ![c].sequence = sequence]
  PROVE  Moves(c)
<1>1. call'[c].at = "answer"
  BY ReadyTypes
<1>2. ~InEngine(c)'
  BY <1>1 DEF InEngine, At
<1> QED
  BY <1>1, <1>2, ReadyTypes DEF Moves

(* finish makes the answer, or ends the process.                           *)
LEMMA FinishMoves ==
  ASSUME TypeInv, NEW c \in Call, NEW terminal \in Terminals, NEW sequence \in Sequences,
         Finish(c, terminal, sequence)
  PROVE  Moves(c)
<1>1. CallsType /\ terminal \in TerminalSet /\ Failure(c) \in Told
  BY TypeParts, TerminalTypes, ToldTypes
<1> QED
  BY <1>1, ReadyMoves, AnswerMoves DEF Finish, Abort

(* Every step of execute and status is one of these moves.                 *)
LEMMA EngineMoves ==
  ASSUME TypeInv, NEW c \in Call, Engine(c) \/ Accept(c) \/ GiveUp(c)
  PROVE  Moves(c)
<1>1. CallsType /\ LedgerType /\ OpOf(c) \in Op /\ Failure(c) \in Told
  BY TypeParts, ToldTypes, OpOfType
<1>2. CASE Crash(c)
  BY <1>1, <1>2, SilenceType, AnswerMoves DEF Crash, Abort
<1>3. CASE Gate(c)
  BY <1>1, <1>3, GotoMoves, AnswerMoves DEF Gate, Abort, ProgramCounter, InEngine
<1>4. CASE Lock(c)
  BY <1>1, <1>4, GotoMoves, AnswerMoves DEF Lock, Abort, ProgramCounter, InEngine
<1>5. CASE Read(c)
  <2>1. At(c) = "read" /\ InEngine(c)
    BY <1>5 DEF Read, InEngine
  <2>2. CASE Abort(c, Failure(c))
    BY <1>1, <2>2, AnswerMoves DEF Abort
  <2>3. CASE Claim(c)
    BY <1>1, <2>1, <2>3, GotoMoves, AnswerMoves DEF Claim, Abort, ProgramCounter
  <2>4. ASSUME NEW terminal \in TerminalSet, Replay(c, terminal) PROVE Moves(c)
    <3> DEFINE sequence == IF terminal = NoTerminal THEN <<>> ELSE <<2>>
    <3>1. sequence \in Sequences
      BY SequenceTypes
    <3>2. call' = [call EXCEPT ![c].at = "answer", ![c].terminal = terminal,
                               ![c].sequence = sequence]
      BY <2>4 DEF Replay
    <3> HIDE DEF sequence
    <3> QED
      BY <1>1, <3>1, <3>2, ReadyMoves
  <2>5. ledger[OpOf(c)].terminal \in TerminalSet /\ NoTerminal \in TerminalSet
    BY <1>1, TerminalTypes DEF LedgerType, Entry
  <2> DEFINE entry == ledger[OpOf(c)]
             terminal == IF call[c].tool = "execute"
                         THEN RecoveredUnknown(call[c].request, setup.platform, entry.claim)
                         ELSE InterruptedAck(entry.claim)
  <2>6. CASE /\ entry # NoEntry /\ entry.terminal = NoTerminal
             /\ (call[c].tool = "execute") => entry.hash = call[c].request
             /\ Finish(c, terminal, <<2>>)
    <3>1. entry \in Entry /\ EntryType(entry)
      BY <1>1 DEF LedgerType
    <3>2. entry.hash \in Request /\ entry.claim \in Claims
      BY <2>6, <3>1 DEF EntryType, Entry, NoEntry
    <3>3. terminal \in Terminals
      BY <2>6, <3>2, SetupTypes, RecoveredTypes
    <3> HIDE DEF terminal
    <3> QED
      BY <2>6, <3>3, SequenceTypes, FinishMoves
  <2> QED
    BY <1>5, <2>2, <2>3, <2>4, <2>5, <2>6 DEF Read
<1>6. CASE Prepare(c) \/ SampleBefore(c)
  <2>1. ASSUME NEW kind \in Kind, NEW code \in Code, FinishEarly(c, kind, code)
        PROVE  Moves(c)
    BY <2>1, EarlyTypes, SequenceTypes, FinishMoves DEF FinishEarly
  <2>2. CASE call' = [call EXCEPT ![c].at = "context", ![c].before = desk.view]
    BY <1>1, <1>6, <2>2 DEF CallsType, CallRecord, Moves, Prepare, SampleBefore, InEngine, At
  <2>3. CASE call' = [call EXCEPT ![c].at = "dispatch",
                        ![c].sample = IF Guarded(c) THEN desk.context ELSE 0]
    BY <1>1, <1>6, <2>3 DEF CallsType, CallRecord, Moves, Prepare, SampleBefore, InEngine, At
  <2> QED
    BY <1>6, <2>1, <2>2, <2>3 DEF Prepare, SampleBefore, Kind, Code, NoEffectKind
<1>7. CASE Dispatch(c)
  BY <1>1, <1>7, GotoMoves DEF Dispatch, ProgramCounter, InEngine
<1>8. CASE Return(c)
  <2>1. InEngine(c)
    BY <1>8 DEF Return, InEngine
  <2>2. Early("expired_before_effect", "none") \in TerminalSet
        /\ Early("rejected", "dispatch_failed") \in TerminalSet
    BY EarlyTypes, TerminalTypes DEF Kind, Code, NoEffectKind
  <2> DEFINE terminal == IF Expired THEN Early("expired_before_effect", "none")
                         ELSE Early("rejected", "dispatch_failed")
  <2>3. CASE call' = [call EXCEPT ![c].at = "finish", ![c].terminal = terminal]
    <3>1. terminal \in TerminalSet
      BY <2>2
    <3>2. Carries(c, "finish", terminal)
      BY <2>3 DEF Carries
    <3> HIDE DEF terminal
    <3> QED
      BY <1>1, <2>1, <3>1, <3>2, CarryMoves DEF ProgramCounter
  <2>4. ASSUME NEW pc \in {"uncertain", "returned"}, Goto(c, pc) PROVE Moves(c)
    BY <1>1, <2>1, <2>4, GotoMoves DEF ProgramCounter
  <2> QED
    BY <1>8, <2>3, <2>4 DEF Return
<1>9. CASE Doubt(c) \/ SampleAfter(c) \/ Conclude(c)
  <2>1. InEngine(c)
    BY <1>9 DEF Doubt, SampleAfter, Conclude, InEngine
  <2>2. ASSUME NEW pc \in {"finish_effect"}, NEW terminal,
               call' = [call EXCEPT ![c].at = pc, ![c].terminal = terminal]
        PROVE  Moves(c)
    BY <1>1, <2>1, <2>2 DEF CallsType, CallRecord, Moves
  <2>3. ASSUME NEW context, call' = [call EXCEPT ![c].at = "after", ![c].context = context]
        PROVE  Moves(c)
    BY <1>1, <2>1, <2>3 DEF CallsType, CallRecord, Moves
  <2> QED
    BY <1>9, <2>2, <2>3 DEF Doubt, SampleAfter, Conclude
<1>10. CASE FinishNoEffect(c)
  <2>1. call[c].terminal \in Terminals
    BY <1>10 DEF TypeInv, CallType, FinishNoEffect
  <2> QED
    BY <1>10, <2>1, SequenceTypes, FinishMoves DEF FinishNoEffect
<1>11. CASE FinishEffect(c)
  <2>1. call[c].terminal \in Terminals
    BY <1>11 DEF TypeInv, CallType, FinishEffect
  <2>2. \A out \in {call[c].terminal, PersistenceUnknown(call[c].terminal)} : out \in TerminalSet
    BY <2>1, UnknownTypes, TerminalTypes
  <2> QED
    BY <1>1, <1>11, <2>2, SequenceTypes, ReadyMoves DEF FinishEffect
<1>12. CASE Accept(c)
  BY <1>1, <1>12, ToldTypes, AnswerMoves DEF Accept
<1>13. CASE GiveUp(c)
  <2>1. CASE Reaches
    BY <1>1, <1>13, <2>1, ToldTypes, AnswerMoves DEF GiveUp
  <2>2. CASE ~Reaches
    BY <1>1, <1>13, <2>2 DEF GiveUp, CallsType, CallRecord, Moves, InEngine, At
  <2> QED
    BY <2>1, <2>2
<1> QED
  BY <1>2, <1>3, <1>4, <1>5, <1>6, <1>7, <1>8, <1>9, <1>10, <1>11, <1>12, <1>13 DEF Engine

-----------------------------------------------------------------------------
(* Requests and answers                                                    *)

(* A call that has not begun has no answer, and while killing reaches the  *)
(* engine neither has one whose engine still runs.                         *)
Waits(c) == (At(c) = "idle" \/ (Reaches /\ InEngine(c))) => call[c].told = Silence

(* The engine of a plugin works for a request that validate_request takes. *)
Forwards(c) ==
  (IsPlugin /\ call[c].tool = "execute" /\ InEngine(c)) => Validates(call[c].request)

AwaitInv == \A c \in Call : Waits(c) /\ Forwards(c)

(* A move of a call keeps what is said about its request and answer.       *)
LEMMA AwaitMoves ==
  ASSUME AwaitInv, NEW c \in Call, Moves(c), setup' = setup
  PROVE  AwaitInv'
<1>1. ASSUME NEW b \in Call PROVE Waits(b)' /\ Forwards(b)'
  <2>1. CASE b = c
    BY <2>1 DEF AwaitInv, Waits, Forwards, Moves, InEngine, At, Reaches, IsPlugin
  <2>2. CASE b # c
    BY <2>2 DEF AwaitInv, Waits, Forwards, Moves, InEngine, At, Reaches, IsPlugin
  <2> QED
    BY <2>1, <2>2
<1> QED
  BY <1>1 DEF AwaitInv

(* So does its beginning: _valid_proposal and validRequest let nothing     *)
(* pass that validate_request refuses.                                     *)
LEMMA AwaitBegins ==
  ASSUME TypeInv, AwaitInv, NEW c \in Call, Begin(c)
  PROVE  AwaitInv'
<1>1. CallsType /\ setup' = setup /\ At(c) = "idle" /\ call[c].told = Silence
  BY TypeParts DEF Begin, AwaitInv, Waits
<1>2. ASSUME NEW b \in Call, b # c, call'[b] = call[b] PROVE Waits(b)' /\ Forwards(b)'
  BY <1>1, <1>2 DEF AwaitInv, Waits, Forwards, InEngine, At, Reaches, IsPlugin
<1>3. ASSUME NEW r \in setup.requests,
             LET request == IF setup.client = "cli" THEN CliRequest(r) ELSE r IN
             call' = [call EXCEPT ![c] = [NoCall EXCEPT
                        !.tool = "execute", !.request = request,
                        !.at = IF Proposes(setup.client, request) THEN "gate" ELSE "done",
                        !.told = IF Proposes(setup.client, request) THEN Silence
                                 ELSE Refusal("invalid_request")]]
      PROVE  AwaitInv'
  <2> DEFINE request == IF setup.client = "cli" THEN CliRequest(r) ELSE r
             forwarded == Proposes(setup.client, request)
             pc == IF forwarded THEN "gate" ELSE "done"
             told == IF forwarded THEN Silence ELSE Refusal("invalid_request")
  <2>1. forwarded /\ setup.client \in Plugin => Validates(request)
    BY ProposalIsValid
  <2>2. \/ forwarded /\ told = Silence /\ pc = "gate"
        \/ ~forwarded /\ pc = "done"
    OBVIOUS
  <2>3. call' = [call EXCEPT ![c] = [NoCall EXCEPT !.tool = "execute",
                    !.request = request, !.at = pc, !.told = told]]
    BY <1>3
  <2> HIDE DEF request, pc, told, forwarded
  <2>4. /\ call'[c].at = pc /\ call'[c].request = request /\ call'[c].told = told
        /\ \A b \in Call \ {c} : call'[b] = call[b]
    BY <1>1, <2>3, NoCallType DEF CallsType, CallRecord
  <2>5. Waits(c)' /\ Forwards(c)'
    BY <1>1, <2>1, <2>2, <2>4 DEF Waits, Forwards, InEngine, At, IsPlugin
  <2> QED
    BY <1>2, <2>4, <2>5 DEF AwaitInv
<1>4. CASE call' = [call EXCEPT ![c].tool = "status", ![c].at = "lock"]
  <2>1. /\ call'[c].at = "lock" /\ call'[c].tool = "status"
        /\ call'[c].told = call[c].told
        /\ \A b \in Call \ {c} : call'[b] = call[b]
    BY <1>1, <1>4 DEF CallsType, CallRecord
  <2>2. Waits(c)' /\ Forwards(c)'
    BY <1>1, <2>1 DEF Waits, Forwards
  <2> QED
    BY <1>2, <2>1, <2>2 DEF AwaitInv
<1>5. ASSUME NEW failed \in BOOLEAN,
             call' = [call EXCEPT ![c].tool = "capabilities", ![c].at = "done",
                                  ![c].told = ShownFacts(failed)]
      PROVE  AwaitInv'
  <2>1. call'[c].at = "done" /\ \A b \in Call \ {c} : call'[b] = call[b]
    BY <1>1, <1>5 DEF CallsType, CallRecord
  <2>2. Waits(c)' /\ Forwards(c)'
    BY <2>1 DEF Waits, Forwards, InEngine, At
  <2> QED
    BY <1>2, <2>1, <2>2 DEF AwaitInv
<1> QED
  BY <1>3, <1>4, <1>5 DEF Begin

(* The machine and its caller stay the same.                               *)
LEMMA StepsKeepSetup == [Next]_vars => setup' = setup
BY DEF Next, vars, Begin, Accept, GiveUp, Engine, Crash, Gate, Lock, Read, Prepare,
   SampleBefore, Dispatch, Return, Doubt, SampleAfter, Conclude, FinishNoEffect,
   FinishEffect, Land, Change, Tick

(* Every step of the system keeps it.                                      *)
LEMMA AwaitKept == TypeInv /\ AwaitInv /\ [Next]_vars => AwaitInv'
<1> SUFFICES ASSUME TypeInv, AwaitInv, [Next]_vars PROVE AwaitInv'
  OBVIOUS
<1>1. ASSUME NEW c \in Call, Engine(c) \/ Accept(c) \/ GiveUp(c) PROVE AwaitInv'
  BY <1>1, EngineMoves, AwaitMoves, StepsKeepSetup
<1>2. CASE UNCHANGED call
  BY <1>2, StepsKeepSetup DEF AwaitInv, Waits, Forwards, InEngine, At, Reaches, IsPlugin
<1>3. (\E o \in Op : Land(o)) \/ Change \/ Tick \/ UNCHANGED vars => UNCHANGED call
  BY DEF Land, Change, Tick, vars
<1> QED
  BY <1>1, <1>2, <1>3, AwaitBegins DEF Next

(* It holds before the first call.                                         *)
LEMMA AwaitInit == Init => AwaitInv
<1> SUFFICES ASSUME Init, NEW c \in Call PROVE Waits(c) /\ Forwards(c)
  BY DEF AwaitInv
<1>1. call[c] = NoCall
  BY DEF Init
<1> QED
  BY <1>1 DEF Waits, Forwards, NoCall, InEngine, At

(* Whatever a plugin forwards to the engine, the engine validates: the     *)
(* host is never asked to approve a request that is refused for its form.  *)
THEOREM ForwardedAreValid == Spec => []ForwardedIsValid
<1>1. AwaitInv => ForwardedIsValid
  BY DEF AwaitInv, Forwards, ForwardedIsValid, IsPlugin
<1> QED
  BY <1>1, InitTypes, NextTypes, AwaitInit, AwaitKept, PTL DEF Spec

(* Only Dispatch begins an effect.                                         *)
LEMMA OnlyDispatch ==
  ASSUME TypeInv, [Next]_vars, NEW o \in Op, ~effect[o].flying, effect'[o].flying
  PROVE  \E c \in Call : Dispatch(c) /\ OpOf(c) = o
<1>1. effect \in [Op -> Deed]
  BY DEF TypeInv, TypeOK
<1>2. ASSUME NEW c \in Call, Begin(c) \/ Accept(c) \/ GiveUp(c) PROVE FALSE
  BY <1>2 DEF Begin, Accept, GiveUp
<1>3. ASSUME NEW c \in Call, Crash(c) \/ Gate(c) \/ Lock(c) \/ Read(c) \/ Prepare(c)
                             \/ SampleBefore(c) \/ Doubt(c) \/ SampleAfter(c) \/ Conclude(c)
                             \/ FinishNoEffect(c) \/ FinishEffect(c)
      PROVE FALSE
  BY <1>3 DEF Crash, Gate, Lock, Read, Prepare, SampleBefore, Doubt, SampleAfter, Conclude,
     FinishNoEffect, FinishEffect
<1>4. ASSUME NEW c \in Call, Return(c) PROVE FALSE
  BY <1>1, <1>4, OpOfType DEF Return, Deed
<1>5. ASSUME NEW c \in Call, Dispatch(c) PROVE OpOf(c) = o
  <2>1. OpOf(c) \in Op /\ [effect EXCEPT ![OpOf(c)].flying = TRUE] \in [Op -> Deed]
    BY <1>1, OpOfType DEF Deed
  <2>2. effect'[o].flying = [effect EXCEPT ![OpOf(c)].flying = TRUE][o].flying
    BY <1>5, <2>1, NoticeKeeps DEF Dispatch
  <2> QED
    BY <1>1, <2>1, <2>2
<1>6. ASSUME NEW p \in Op, Land(p) PROVE FALSE
  <2>1. PICK disturbed \in BOOLEAN, d \in {desk'} :
          effect' = Notice([effect EXCEPT ![p] =
                             [flying |-> FALSE, landed |-> TRUE, late |-> passed # {},
                              disturbed |-> disturbed, held |-> effect[p].held]], d)
    BY <1>6 DEF Land
  <2> DEFINE deeds == [effect EXCEPT ![p] =
                        [flying |-> FALSE, landed |-> TRUE, late |-> passed # {},
                         disturbed |-> disturbed, held |-> effect[p].held]]
  <2>2. effect[p].held \in BOOLEAN /\ (passed # {}) \in BOOLEAN
    BY <1>1 DEF Deed
  <2>3. [flying |-> FALSE, landed |-> TRUE, late |-> passed # {},
         disturbed |-> disturbed, held |-> effect[p].held] \in Deed
    BY <2>2 DEF Deed
  <2>4. deeds \in [Op -> Deed]
    BY <1>1, <2>3
  <2>5. effect'[o].flying = deeds[o].flying
    BY <2>1, <2>4, NoticeKeeps
  <2>6. ~deeds[o].flying
    BY <1>1
  <2> QED
    BY <2>5, <2>6
<1>7. ASSUME Change PROVE FALSE
  BY <1>1, <1>7, NoticeKeeps DEF Change
<1> QED
  BY <1>2, <1>3, <1>4, <1>5, <1>6, <1>7 DEF Next, Engine, vars, Tick

(* No action is begun for a tool call that has already been answered, as   *)
(* long as killing the bridge's process group reaches the engine: what the *)
(* model was told as failed cannot still begin.                            *)
THEOREM DispatchesAreAwaited == Spec => DispatchIsAwaited
<1> DEFINE Awaited ==
      Reaches => \A o \in Op :
        (~effect[o].flying /\ effect'[o].flying)
          => \E c \in Call : OpOf(c) = o /\ call[c].told.kind = "none"
                             /\ call[c].at = "dispatch"
<1>1. TypeInv /\ AwaitInv /\ [Next]_vars => [Awaited]_vars
  <2> SUFFICES ASSUME TypeInv, AwaitInv, [Next]_vars, Reaches,
                      NEW o \in Op, ~effect[o].flying, effect'[o].flying
               PROVE  \E c \in Call : OpOf(c) = o /\ call[c].told.kind = "none"
                                      /\ call[c].at = "dispatch"
    OBVIOUS
  <2>1. PICK c \in Call : Dispatch(c) /\ OpOf(c) = o
    BY OnlyDispatch
  <2>2. call[c].told = Silence /\ At(c) = "dispatch"
    BY <2>1 DEF Dispatch, AwaitInv, Waits, InEngine
  <2> QED
    BY <2>1, <2>2 DEF Silence, At
<1> QED
  BY <1>1, InitTypes, NextTypes, AwaitInit, AwaitKept, PTL DEF Spec, DispatchIsAwaited

=============================================================================
