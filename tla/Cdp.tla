--------------------------------- MODULE Cdp ---------------------------------
(***************************************************************************)
(* The browser backend (src/src/cdp.rs): TungsteniteChannel, which sends   *)
(* one command at a time over a WebSocket and waits for the answer, and    *)
(* CdpExecutor, which observes a page, reads a target and dispatches       *)
(* invoke, set_value and scroll.                                           *)
(*                                                                         *)
(* Several threads share one executor.  Every call is a fixed sequence of  *)
(* commands, each sent under the mutex of the channel.  The browser obeys  *)
(* the commands in order, at any time, also after the thread that sent one *)
(* has stopped waiting; meanwhile the page changes as it likes.  A browser *)
(* that exits obeys nothing any more.  A cancelled token, a passed         *)
(* deadline, a failed verify_process and a request that was not sent all   *)
(* end a call before its next command (Refuse).                            *)
(***************************************************************************)
EXTENDS Naturals, Sequences, FiniteSets

CONSTANTS
  Thread,      \* threads that share the executor
  Ops,         \* operations they call
  MaxCalls,    \* bound on the calls
  MaxChanges   \* bound on the changes of the page

(* The commands of each operation, named for what is done with the answer: *)
(* "document" remembers the document of the root frame, "frame" compares   *)
(* it; "probe", "effect" and "readback" run a fixed function on the object *)
(* that "resolve" found in the isolated world of the observation.          *)
Gathering == <<"info", "document", "world", "layout", "dom", "ax", "frame">>
Probing == <<"frame", "resolve", "probe", "layout", "ax">>
Invoking == <<"frame", "resolve", "probe", "layout", "frame", "ax", "effect">>
Editing == Invoking \o <<"readback">>
Scrolling == <<"frame", "resolve", "probe", "box", "box", "viewport", "hit",
               "layout", "frame", "ax", "probe", "effect">>

Program ==
  [observe |-> Gathering, read |-> Probing, invoke |-> Invoking,
   set_value |-> Editing, scroll |-> Scrolling]

ASSUME CdpAssumption ==
  /\ Ops \subseteq DOMAIN Program
  /\ MaxCalls \in Nat
  /\ MaxChanges \in Nat

Command == UNION {{Program[o][i] : i \in DOMAIN Program[o]} : o \in DOMAIN Program}
OnObject == {"resolve", "probe", "effect", "readback"}
Effecting == {"invoke", "set_value", "scroll"}
Outcome == {"ok", "none", "unknown"}  \* "none": known to have had no effect
Free == 0                              \* nobody holds the channel

VARIABLES
  page,        \* document, role (fingerprint), view (geometry), actionable?
  wire,        \* commands on their way to the browser
  inbox,       \* answers not yet read
  nextId,      \* id of the last command
  channel,     \* the call that holds the channel, or Free
  generation,  \* counter of observations
  latest,      \* the stored observation
  returned,    \* observations given to the caller
  call,        \* what each thread is doing
  calls,       \* number of calls so far
  changes,     \* number of changes of the page so far
  effects,     \* effects that happened: of which call, in which document
  answers      \* what the calls that had an effect to report reported

browserVars == <<page, changes>>
channelVars == <<nextId, channel>>
observationVars == <<generation, latest, returned>>
vars == <<browserVars, wire, inbox, channelVars, observationVars, call, calls,
          effects, answers>>

(* An observation: its generation, the document and the isolated world     *)
(* (named by the document it was made in), the role and the view, and the  *)
(* documents these came from.                                              *)
Nothing == [gen |-> 0, doc |-> 0, world |-> 0, role |-> 0, view |-> 0, docs |-> {}]

Idle == [op |-> "idle", num |-> 0, at |-> 1, waiting |-> FALSE,
         named |-> Nothing, got |-> Nothing]

Commands(t) == Program[call[t].op]
Current(t) == Commands(t)[call[t].at]
Active(t) == call[t].op # "idle"
Past(t) == call[t].at > Len(Commands(t))

Level == 0..MaxChanges
ObservationType ==
  [gen : 0..MaxCalls, doc : Level \union {MaxChanges + 1},
   world : Level \union {MaxChanges + 1}, role : Level, view : Level,
   docs : SUBSET (1..MaxChanges + 1)]

TypeOK ==
  /\ page \in [doc : 1..MaxChanges + 1, role : Level, view : Level, ready : BOOLEAN]
  /\ \A i \in DOMAIN wire :
       wire[i] \in [id : Nat, num : 1..MaxCalls, cmd : Command, world : Nat]
  /\ \A i \in DOMAIN inbox :
       /\ inbox[i].id \in 1..nextId
       /\ inbox[i].kind \in Command \union {"error", "done", "refused", "odd"}
  /\ nextId \in Nat
  /\ channel \in {Free} \union {call[t].num : t \in Thread}
  /\ generation \in 0..MaxCalls
  /\ latest \in ObservationType
  /\ returned \subseteq ObservationType
  /\ \A t \in Thread :
       /\ call[t].op \in Ops \union {"idle"}
       /\ call[t].num \in 0..calls
       /\ call[t].waiting <=> (channel # Free /\ channel = call[t].num)
       /\ Active(t) => call[t].at \in 1..Len(Commands(t)) + 1
  /\ calls \in 0..MaxCalls
  /\ changes \in 0..MaxChanges
  /\ effects \in Seq([num : 1..MaxCalls, doc : Nat])
  /\ answers \subseteq [num : 1..MaxCalls, op : Effecting, named : ObservationType,
                        outcome : Outcome]

Init ==
  /\ page = [doc |-> 1, role |-> 0, view |-> 0, ready |-> TRUE]
  /\ wire = <<>>
  /\ inbox = <<>>
  /\ nextId = 0
  /\ channel = Free
  /\ generation = 0
  /\ latest = Nothing
  /\ returned = {}
  /\ call = [t \in Thread |-> Idle]
  /\ calls = 0
  /\ changes = 0
  /\ effects = <<>>
  /\ answers = {}

-----------------------------------------------------------------------------
(* The browser                                                             *)

(* The page navigates, its target gets another role or name, its geometry  *)
(* changes, or the target becomes or stops being actionable.               *)
Change ==
  /\ changes < MaxChanges
  /\ changes' = changes + 1
  /\ \/ page' = [page EXCEPT !.doc = @ + 1]
     \/ page' = [page EXCEPT !.role = @ + 1]
     \/ page' = [page EXCEPT !.view = @ + 1]
     \/ page' = [page EXCEPT !.ready = ~@]
  /\ UNCHANGED <<wire, inbox, channelVars, observationVars, call, calls, effects, answers>>

Reply(m, kind) == inbox' = Append(inbox, [id |-> m.id, kind |-> kind, page |-> page])

Lands(m) == effects' = Append(effects, [num |-> m.num, doc |-> page.doc])

(* An object dies with its document.  The effect functions test            *)
(* eligibility and act in one step; their answer can be an exception or    *)
(* a scroll to an unintended offset, with or without an effect.            *)
Obey ==
  /\ wire # <<>>
  /\ LET m == Head(wire) IN
       IF m.cmd \in OnObject /\ m.world # page.doc
       THEN Reply(m, "error") /\ UNCHANGED effects
       ELSE IF m.cmd # "effect"
       THEN Reply(m, m.cmd) /\ UNCHANGED effects
       ELSE \/ page.ready /\ Reply(m, "done") /\ Lands(m)
            \/ page.ready /\ Reply(m, "odd") /\ (Lands(m) \/ UNCHANGED effects)
            \/ ~page.ready /\ Reply(m, "refused") /\ UNCHANGED effects
  /\ wire' = Tail(wire)
  /\ UNCHANGED <<browserVars, channelVars, observationVars, call, calls, answers>>

-----------------------------------------------------------------------------
(* Calls                                                                   *)

(* A call ends.  Only the outcome of an effecting call matters.            *)
End(t, outcome) ==
  /\ call' = [call EXCEPT ![t] = Idle]
  /\ answers' = IF call[t].op \notin Effecting THEN answers
                ELSE answers \union {[num |-> call[t].num, op |-> call[t].op,
                                      named |-> call[t].named, outcome |-> outcome]}

Advance(t, got) ==
  IF call[t].op # "observe" /\ call[t].at = Len(Commands(t))
  THEN End(t, "ok")
  ELSE /\ call' = [call EXCEPT ![t].at = @ + 1, ![t].waiting = FALSE, ![t].got = got]
       /\ UNCHANGED answers

Begin(t, op, named, got) ==
  /\ ~Active(t)
  /\ op \in Ops
  /\ calls < MaxCalls
  /\ calls' = calls + 1
  /\ call' = [call EXCEPT ![t] = [op |-> op, num |-> calls + 1, at |-> 1,
                                  waiting |-> FALSE, named |-> named, got |-> got]]
  /\ UNCHANGED <<browserVars, wire, inbox, channelVars, observationVars, effects, answers>>

Observe(t) == Begin(t, "observe", Nothing, Nothing)

(* Mutant of Stored: elements keep their ids from one observation to the   *)
(* next.                                                                   *)
SameElement(named) == latest # Nothing

(* An element id is a hash of its observation's id, so only an element of  *)
(* the stored observation is found.                                        *)
Stored(named) == latest # Nothing /\ latest.gen = named.gen

(* The identity of the target is copied from the stored observation; the   *)
(* observation may be replaced while the call goes on.                     *)
OnTarget(t, op, named) ==
  /\ op # "observe"
  /\ Stored(named)
  /\ Begin(t, op, named, latest)

(* When a call can take its next step alone: the channel is free for the   *)
(* next command, the answer to one may fail to come, or there are no more. *)
MaySend(t) == Active(t) /\ ~Past(t) /\ ~call[t].waiting /\ channel = Free
MayNumber(t) == Active(t) /\ Past(t) /\ call[t].got.gen = 0
MayStore(t) == Active(t) /\ Past(t) /\ call[t].got.gen > 0

(* Mutant of MayGiveUp: the socket has no read timeout.                    *)
AfterAnswer(t) == call[t].waiting /\ inbox # <<>>

MayGiveUp(t) == call[t].waiting

(* A new command; at most one is waited for, because the channel is held.  *)
Send(t) ==
  /\ MaySend(t)
  /\ channel' = call[t].num
  /\ nextId' = nextId + 1
  /\ wire' = Append(wire, [id |-> nextId', num |-> call[t].num, cmd |-> Current(t),
                           world |-> call[t].got.world])
  /\ call' = [call EXCEPT ![t].waiting = TRUE]
  /\ UNCHANGED <<browserVars, inbox, observationVars, calls, effects, answers>>

(* The call ends before its next command is sent.                          *)
Refuse(t) ==
  /\ Active(t) /\ ~Past(t) /\ ~call[t].waiting
  /\ End(t, IF Current(t) = "readback" THEN "unknown" ELSE "none")
  /\ UNCHANGED <<browserVars, wire, inbox, channelVars, observationVars, calls, effects>>

(* Mutant of AfterSend: an effect that was not confirmed did not happen.   *)
AssumeNothing(t) == IF Current(t) = "readback" THEN "unknown" ELSE "none"

(* What is reported once a command was sent and its answer is missing,     *)
(* unusable, or past the cancellation or deadline boundary.                *)
AfterSend(t) == IF Current(t) \in {"effect", "readback"} THEN "unknown" ELSE "none"

Mine(r) == r.id = nextId /\ r.kind # "error"

Usable(t, r) == r.kind = IF Current(t) = "effect" THEN "done" ELSE Current(t)

(* Mutant of Compares: the document is only read once.                     *)
TrustDocument(t, p) ==
  CASE Current(t) = "layout" -> call[t].op = "observe" \/ p.view = call[t].got.view
    [] Current(t) = "ax" -> \/ call[t].op = "observe"
                            \/ p.role = call[t].got.role /\ (p.ready \/ call[t].op = "read")
    [] Current(t) \in {"probe", "box", "hit"} -> p.ready \/ call[t].op = "read"
    [] OTHER -> TRUE

(* Whether what the browser answered is what the call expects.             *)
Compares(t, p) ==
  CASE Current(t) = "frame" -> p.doc = call[t].got.doc
    [] Current(t) = "layout" -> call[t].op = "observe" \/ p.view = call[t].got.view
    [] Current(t) = "ax" -> \/ call[t].op = "observe"
                            \/ p.role = call[t].got.role /\ (p.ready \/ call[t].op = "read")
    [] Current(t) \in {"probe", "box", "hit"} -> p.ready \/ call[t].op = "read"
    [] OTHER -> TRUE

(* What an observation takes from the answer.                              *)
Gathered(t, p) ==
  LET g == call[t].got
  IN IF call[t].op # "observe" THEN g
     ELSE CASE Current(t) = "document" -> [g EXCEPT !.doc = p.doc]
            [] Current(t) = "world" -> [g EXCEPT !.world = p.doc]
            [] Current(t) = "layout" -> [g EXCEPT !.view = p.view, !.docs = @ \union {p.doc}]
            [] Current(t) = "ax" -> [g EXCEPT !.role = p.role, !.docs = @ \union {p.doc}]
            [] OTHER -> g

(* The thread reads the next message.  One that does not have the id of    *)
(* its command, or is an error, ends the call; whatever ends the call, the *)
(* channel is free again, and a late answer stays behind for the next one. *)
Read(t) ==
  /\ call[t].waiting
  /\ inbox # <<>>
  /\ LET r == Head(inbox) IN
       \/ /\ Mine(r) /\ Usable(t, r) /\ Compares(t, r.page)
          /\ Advance(t, Gathered(t, r.page))
       \/ /\ Mine(r) /\ (r.kind = "refused" \/ ~Compares(t, r.page))
          /\ End(t, "none")
       \/ End(t, AfterSend(t))
  /\ inbox' = Tail(inbox)
  /\ channel' = Free
  /\ UNCHANGED <<browserVars, wire, nextId, observationVars, calls, effects>>

(* Mutant of GiveUp: a thread that gives up keeps the channel.             *)
KeepChannel(t) ==
  /\ call[t].waiting
  /\ End(t, AfterSend(t))
  /\ UNCHANGED <<browserVars, wire, inbox, channelVars, observationVars, calls, effects>>

(* A timeout, a closed connection, too many events, a message that is too  *)
(* long or no text.                                                        *)
GiveUp(t) ==
  /\ MayGiveUp(t)
  /\ End(t, AfterSend(t))
  /\ channel' = Free
  /\ UNCHANGED <<browserVars, wire, inbox, nextId, observationVars, calls, effects>>

(* The observation gets the next generation, and is stored in a later step *)
(* in which another one may have been stored.                              *)
Number(t) ==
  /\ MayNumber(t)
  /\ generation' = generation + 1
  /\ call' = [call EXCEPT ![t].got.gen = generation']
  /\ UNCHANGED <<browserVars, wire, inbox, channelVars, latest, returned, calls,
                 effects, answers>>

Store(t) ==
  /\ MayStore(t)
  /\ latest' = call[t].got
  /\ returned' = returned \union {latest'}
  /\ End(t, "ok")
  /\ UNCHANGED <<browserVars, wire, inbox, channelVars, generation, calls, effects>>

ThreadStep(t) ==
  \/ Send(t) \/ Refuse(t) \/ Read(t) \/ GiveUp(t) \/ Number(t) \/ Store(t)

Next ==
  \/ Change
  \/ Obey
  \/ \E t \in Thread :
       \/ Observe(t)
       \/ \E op \in Ops, named \in returned : OnTarget(t, op, named)
       \/ ThreadStep(t)

Spec == Init /\ [][Next]_vars

-----------------------------------------------------------------------------
(* Properties                                                              *)

EffectsOf(n) == {i \in DOMAIN effects : effects[i].num = n}
EffectsOnTheWay(n) == {i \in DOMAIN wire : wire[i].num = n /\ wire[i].cmd = "effect"}

(* A call that reported that it had no effect had none and will have none, *)
(* a call that reported success had its effect exactly once, and no call   *)
(* has two: EffectKnowledge and DispatchReceipt tell the truth however     *)
(* late the browser obeys and answers.                                     *)
TruthfulOutcomes ==
  /\ \A a \in answers :
       /\ a.outcome = "none" => EffectsOf(a.num) = {} /\ EffectsOnTheWay(a.num) = {}
       /\ a.outcome = "ok" => EffectsOf(a.num) # {}
  /\ \A n \in 1..calls : Cardinality(EffectsOf(n)) + Cardinality(EffectsOnTheWay(n)) <= 1

(* An effect happens only in the document of the observation that the      *)
(* caller took the target from, whatever navigates or is observed between  *)
(* the checks of a dispatch, and even if it happens after the call ended.  *)
EffectInNamedDocument ==
  \A i \in DOMAIN effects :
    /\ \A a \in answers : a.num = effects[i].num => a.named.doc = effects[i].doc
    /\ \A t \in Thread : call[t].num = effects[i].num => call[t].named.doc = effects[i].doc

(* An observation never mixes two documents: the isolated world, the       *)
(* geometry and the accessibility tree are those of its document, although *)
(* they are fetched one after the other while the page may navigate.       *)
OneDocument ==
  \A o \in returned : o.docs = {o.doc} /\ o.world = o.doc

(* Whether a call can take a step that needs neither the browser nor a     *)
(* cancelled token: Send, GiveUp, Number and Store can be taken whenever   *)
(* these conditions hold, what else they say is what they change.          *)
GoesOnAlone(t) == MaySend(t) \/ MayGiveUp(t) \/ MayNumber(t) \/ MayStore(t)

(* No call depends on the browser, on cancellation or on another caller to *)
(* go on: it can take its next step, or it waits for the channel and the   *)
(* holder can, be it only by the read timeout of TungsteniteChannel.       *)
NobodyIsStuck ==
  \A t \in Thread : Active(t) =>
    GoesOnAlone(t) \/ \E s \in Thread : call[s].waiting /\ GoesOnAlone(s)

(* The steps a call has left: to send each command and to hear of it, to   *)
(* number and to store an observation, to end.                             *)
StepsLeft(t) ==
  IF ~Active(t) THEN 0
  ELSE 1 + 2 * (Len(Commands(t)) + 1 - call[t].at)
         + (IF call[t].waiting THEN 0 ELSE 1) + (IF call[t].got.gen = 0 THEN 1 ELSE 0)

(* Every step of a call brings it nearer to its end, whatever the browser  *)
(* answers and the other threads do: no command is repeated, so a call     *)
(* takes finitely many steps, and with NobodyIsStuck it returns under fair *)
(* scheduling.                                                             *)
StepsCount ==
  [][\A t \in Thread :
       Active(t) /\ call'[t] # call[t] => StepsLeft(t)' \in 0..StepsLeft(t) - 1]_vars

(* What the engine is promised of every dispatch, as ExecutorContract says *)
(* it: one answer for a call, no effect after an answer of no effect, and  *)
(* success only after the effect, however late the browser obeys.          *)
Contract == INSTANCE ExecutorContract WITH
  Call <- 1..MaxCalls,
  touched <- {effects[i].num : i \in DOMAIN effects},
  told <- {<<a.num, a.outcome>> : a \in answers}

KeepsContract == Contract!Spec

=============================================================================
