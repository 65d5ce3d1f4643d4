--------------------------- MODULE AccessibilityProofs ---------------------------
(***************************************************************************)
(* Proofs about Accessibility, for any threads, operations and number of   *)
(* calls, changes and restarts, and whatever its versions look like: all   *)
(* of them can look alike.  What a call has passed of its program says what*)
(* it has seen since it began, and since it took a fingerprint (LookInv),  *)
(* what it asked for and what happened belong to the steps behind it       *)
(* (RequestInv), and what it answers follows from both (AnswerInv).        *)
(***************************************************************************)
EXTENDS Accessibility, FiniteSetTheorems, TLAPS

-----------------------------------------------------------------------------
(* The programs                                                            *)

(* What a call compares and learns.                                        *)
Seeing == {"see_display", "see_window", "see_place", "see_face", "again"}
Place == {"display", "process", "window"}

(* A step comes before another; it comes behind the second look at the     *)
(* element and before another.                                             *)
Before(p, i, s) == \E j \in 1..i - 1 : p[j] = s
Between(p, i, s) == \E j \in 1..i - 1 : p[j] = s /\ Before(p, j, "again")

(* Calls that act on the target they are given, that observe, and that     *)
(* make an observation of their own to find what has the focus.            *)
Acting(b, op) == op # "observe" /\ (op = "keys" => b = "ax")
Borrowing(b, op) == op = "keys" /\ b # "ax"

(* Whoever acts has compared everything.                                   *)
ActingStep(b, op, p, i) ==
  /\ p[i] \notin Seeing \union {"persist", "keep", "focus", "named"}
  /\ p[i] \in Effecting =>
       Before(p, i, "display") /\ Before(p, i, "window") /\ Before(p, i, "place")
         /\ Before(p, i, "face")
  /\ p[i] = "page" => b = "ax" /\ op = "scroll"
  /\ p[i] = "focused" => op = "keys"

(* Keys are sent after the comparison with an observation of the call.     *)
BorrowingStep(p, i) ==
  /\ p[i] \in Effecting => Before(p, i, "named") /\ p[i] # "page"
  /\ p[i] = "named" => Before(p, i, "persist")

(* An observation is complete when it is stored, and not touched after.    *)
ObservingStep(b, p, i) ==
  /\ p[i] \in Seeing \union {"lock", "display", "window", "persist", "keep"}
  /\ p[i] = "display" => Before(p, i, "see_display")
  /\ p[i] \in {"window", "see_place", "see_face", "again"} => Before(p, i, "see_window")
  /\ p[i] \in {"see_display", "see_window"} => ~Before(p, i, "see_face")
  /\ p[i] = "again" \/ Before(p, i, "again") => Before(p, i, "see_face")
  /\ p[i] \in Seeing => ~Between(p, i, "display") /\ ~Between(p, i, "window")
                          /\ ~Before(p, i, "persist")
  /\ p[i] = "keep" => Before(p, i, "persist")
  /\ i = Len(p) =>
       /\ p[i] \in {"persist", "keep"}
       /\ b # "ax" => /\ Between(p, i, "display") /\ Between(p, i, "window")
                      /\ Before(p, i, "see_face")

ProgramStep(b, op, p, i) ==
  /\ p[i] = "lock" => i < Len(p)
  /\ Acting(b, op) => ActingStep(b, op, p, i)
  /\ Borrowing(b, op) => BorrowingStep(p, i)
  /\ op = "observe" => ObservingStep(b, p, i)

(* The programs of each backend, step by step.                             *)
LEMMA AtspiPrograms ==
  /\ Program["atspi"]["observe"] =
       <<"lock", "see_display", "see_window", "display", "window", "see_place", "see_face",
         "again", "display", "window", "persist", "keep">>
  /\ Program["atspi"]["read"] =
       <<"lock", "load", "display", "window", "place", "face", "face">>
  /\ Program["atspi"]["invoke"] =
       <<"lock", "load", "display", "window", "place", "face", "face", "allowed", "actions",
         "place", "actions", "perform">>
  /\ Program["atspi"]["set_value"] =
       <<"lock", "load", "display", "window", "place", "face", "face", "allowed", "place",
         "perform">>
  /\ Program["atspi"]["keys"] =
       <<"lock", "focus", "see_display", "see_window", "display", "window", "see_place",
         "see_face", "again", "display", "window", "persist", "keep", "focus", "named",
         "perform">>
  /\ DOMAIN Program["atspi"] = {"observe", "read", "invoke", "set_value", "keys"}
BY SMT DEF Program, Atspi, GatheringAtspi, Reading, FindingAtspi, Recorded, FocusedAtspi

LEMMA UiaPrograms ==
  /\ Program["uia"]["observe"] =
       <<"see_display", "see_window", "display", "window", "see_place", "see_face", "again",
         "display", "window", "persist">>
  /\ Program["uia"]["read"] =
       <<"load", "display", "window", "place", "face", "face", "face">>
  /\ Program["uia"]["invoke"] =
       <<"load", "display", "window", "place", "face", "face", "allowed", "face",
         "perform">>
  /\ Program["uia"]["set_value"] =
       <<"load", "display", "window", "place", "face", "face", "allowed", "ready", "face",
         "perform">>
  /\ Program["uia"]["keys"] =
       <<"see_display", "see_window", "display", "window", "see_place", "see_face", "again",
         "display", "window", "persist", "focus", "named", "perform">>
  /\ DOMAIN Program["uia"] = {"observe", "read", "invoke", "set_value", "keys"}
BY SMT DEF Program, Uia, GatheringUia, Reading, FindingUia, Recorded, FocusedUia

LEMMA AxPrograms ==
  /\ Program["ax"]["observe"] =
       <<"see_display", "see_window", "see_place", "see_face", "again", "persist">>
  /\ Program["ax"]["read"] =
       <<"load", "display", "window", "place", "glance", "face">>
  /\ Program["ax"]["invoke"] =
       <<"load", "display", "window", "place", "glance", "face", "allowed", "face", "face",
         "ready", "ready", "perform">>
  /\ Program["ax"]["set_value"] =
       <<"load", "display", "window", "place", "glance", "face", "allowed", "face", "face",
         "ready", "ready", "perform">>
  /\ Program["ax"]["select_text"] =
       <<"load", "display", "window", "place", "glance", "face", "allowed", "face", "face",
         "ready", "ready", "perform", "readback">>
  /\ Program["ax"]["scroll"] =
       <<"load", "display", "window", "place", "glance", "face", "allowed", "face", "face",
         "ready", "page", "page">>
  /\ Program["ax"]["keys"] =
       <<"load", "display", "window", "place", "glance", "face", "allowed", "face", "face",
         "ready", "focused", "perform">>
  /\ DOMAIN Program["ax"] =
       {"observe", "read", "invoke", "set_value", "select_text", "scroll", "keys"}
BY SMT DEF Program, Ax, GatheringAx, Reading, FindingAx, Recorded, ActingAx

(* What comes before a step, backend by backend.                           *)
LEMMA AtspiSteps ==
  ASSUME NEW op \in DOMAIN Program["atspi"], NEW p, p = Program["atspi"][op]
  PROVE  /\ Len(p) \in Nat \ {0} /\ DOMAIN p = 1..Len(p)
         /\ \A i \in 1..Len(p) : ProgramStep("atspi", op, p, i)
<1>1. CASE op = "observe"
  BY <1>1, AtspiPrograms
  DEF ProgramStep, Acting, Borrowing, ObservingStep, Between, Seeing, Before, Effecting
<1>2. CASE op = "read"
  BY <1>2, AtspiPrograms
  DEF ProgramStep, Acting, Borrowing, ActingStep, Seeing, Before, Effecting
<1>3. CASE op = "invoke"
  BY <1>3, AtspiPrograms
  DEF ProgramStep, Acting, Borrowing, ActingStep, Seeing, Before, Effecting
<1>4. CASE op = "set_value"
  BY <1>4, AtspiPrograms
  DEF ProgramStep, Acting, Borrowing, ActingStep, Seeing, Before, Effecting
<1>5. CASE op = "keys"
  BY <1>5, AtspiPrograms
  DEF ProgramStep, Acting, Borrowing, BorrowingStep, Before, Effecting
<1> QED
  BY <1>1, <1>2, <1>3, <1>4, <1>5, AtspiPrograms

LEMMA UiaSteps ==
  ASSUME NEW op \in DOMAIN Program["uia"], NEW p, p = Program["uia"][op]
  PROVE  /\ Len(p) \in Nat \ {0} /\ DOMAIN p = 1..Len(p)
         /\ \A i \in 1..Len(p) : ProgramStep("uia", op, p, i)
<1>1. CASE op = "observe"
  BY <1>1, UiaPrograms
  DEF ProgramStep, Acting, Borrowing, ObservingStep, Between, Seeing, Before, Effecting
<1>2. CASE op = "read"
  BY <1>2, UiaPrograms
  DEF ProgramStep, Acting, Borrowing, ActingStep, Seeing, Before, Effecting
<1>3. CASE op = "invoke"
  BY <1>3, UiaPrograms
  DEF ProgramStep, Acting, Borrowing, ActingStep, Seeing, Before, Effecting
<1>4. CASE op = "set_value"
  BY <1>4, UiaPrograms
  DEF ProgramStep, Acting, Borrowing, ActingStep, Seeing, Before, Effecting
<1>5. CASE op = "keys"
  BY <1>5, UiaPrograms
  DEF ProgramStep, Acting, Borrowing, BorrowingStep, Before, Effecting
<1> QED
  BY <1>1, <1>2, <1>3, <1>4, <1>5, UiaPrograms

LEMMA AxSteps ==
  ASSUME NEW op \in DOMAIN Program["ax"], NEW p, p = Program["ax"][op]
  PROVE  /\ Len(p) \in Nat \ {0} /\ DOMAIN p = 1..Len(p)
         /\ \A i \in 1..Len(p) : ProgramStep("ax", op, p, i)
<1>1. CASE op = "observe"
  BY <1>1, AxPrograms
  DEF ProgramStep, Acting, Borrowing, ObservingStep, Between, Seeing, Before, Effecting
<1>2. CASE op = "read"
  BY <1>2, AxPrograms
  DEF ProgramStep, Acting, Borrowing, ActingStep, Seeing, Before, Effecting
<1>3. CASE op = "invoke"
  BY <1>3, AxPrograms
  DEF ProgramStep, Acting, Borrowing, ActingStep, Seeing, Before, Effecting
<1>4. CASE op = "set_value"
  BY <1>4, AxPrograms
  DEF ProgramStep, Acting, Borrowing, ActingStep, Seeing, Before, Effecting
<1>5. CASE op = "select_text"
  BY <1>5, AxPrograms
  DEF ProgramStep, Acting, Borrowing, ActingStep, Seeing, Before, Effecting
<1>6. CASE op = "scroll"
  BY <1>6, AxPrograms
  DEF ProgramStep, Acting, Borrowing, ActingStep, Seeing, Before, Effecting
<1>7. CASE op = "keys"
  BY <1>7, AxPrograms
  DEF ProgramStep, Acting, Borrowing, ActingStep, Seeing, Before, Effecting
<1> QED
  BY <1>1, <1>2, <1>3, <1>4, <1>5, <1>6, <1>7, AxPrograms

(* What comes before a step, in whatever program.                          *)
LEMMA ProgramSteps ==
  ASSUME NEW b \in Backend, NEW op \in DOMAIN Program[b], NEW p, p = Program[b][op]
  PROVE  /\ Len(p) \in Nat \ {0} /\ DOMAIN p = 1..Len(p)
         /\ \A i \in 1..Len(p) : ProgramStep(b, op, p, i)
<1>1. CASE b = "atspi"
  BY <1>1, AtspiSteps
<1>2. CASE b = "uia"
  BY <1>2, UiaSteps
<1>3. CASE b = "ax"
  BY <1>3, AxSteps
<1> QED
  BY <1>1, <1>2, <1>3 DEF Backend

(* A call with an operation is not idle.                                   *)
LEMMA OperationIsNoIdle ==
  ASSUME NEW b \in Backend
  PROVE  "idle" \notin DOMAIN Program[b]
<1>1. CASE b = "atspi"
  BY <1>1, AtspiPrograms
<1>2. CASE b = "uia"
  BY <1>2, UiaPrograms
<1>3. CASE b = "ax"
  BY <1>3, AxPrograms
<1> QED
  BY <1>1, <1>2, <1>3 DEF Backend

-----------------------------------------------------------------------------
(* The invariant                                                           *)

(* A call has taken a step; it has taken one behind the second look.       *)
Passed(t, s) == Before(Steps(t), call[t].at, s)
Confirmed(t, s) == Between(Steps(t), call[t].at, s)

(* What the call is for.                                                   *)
Observes(t) == call[t].op = "observe"
Borrows(t) == Borrowing(backend, call[t].op)
Acts(t) == Acting(backend, call[t].op)

(* The records of requests and calls.                                      *)
Operation == UNION {DOMAIN Program[b] : b \in Backend}
MessageType == [num : Nat, at : Nat, named : ObservationType, began : DesktopType]
CallType ==
  [op : Operation \union {"idle"}, num : Nat, at : Nat, named : ObservationType,
   got : ObservationType, began : DesktopType, reply : {"none", "awaited", "done", "odd"}]

(* The types of requests and calls, too; an aspect has not changed more often*)
(* than there were changes.                                                *)
TypeInv ==
  /\ TypeOK
  /\ \A a \in Aspect : desktop[a] <= changes
  /\ wire \union effects \subseteq MessageType
  /\ call \in [Thread -> CallType]
  /\ \A t \in Thread : IF Active(t) THEN <<backend, call[t].op>> \in Offered ELSE call[t] = Idle
  /\ \A a \in answers : <<backend, a.op>> \in Offered

(* A number belongs to one call, which has not answered yet.               *)
NumberInv ==
  /\ \A t \in Thread : Active(t) => call[t].num > 0
  /\ \A t, u \in Thread : (Active(t) /\ Active(u) /\ call[t].num = call[u].num) => t = u
  /\ \A t \in Thread, a \in answers : Active(t) => a.num # call[t].num

(* Nothing was seen that was not there yet.                                *)
Older(d, e) == \A a \in Aspect : d[a] <= e[a]
Past(o) == Older(o.saw, desktop) /\ Older(o.sampled, desktop)

(* What calls were given and what they saw is of the past.                 *)
SourceInv ==
  /\ returned \subseteq stored
  /\ \A o \in returned : Past(o) /\ o.id <= calls
  /\ \A t \in Thread : Active(t) =>
       /\ Past(call[t].got) /\ Older(call[t].began, desktop)
       /\ call[t].named.id < call[t].num
       /\ IF Observes(t) THEN call[t].named = Nothing
          ELSE call[t].named \in returned /\ call[t].named # Nothing

(* A call that acts on the target it was given: its copy is the same, and what*)
(* it has compared has looked like that since it began.                    *)
ActInv(t) ==
  LET named == call[t].named
      got == call[t].got
      same(a) == Shown(a, named.saw[a], call[t].began[a], desktop[a]) IN
  /\ \A a \in Aspect : got.saw[a] = named.saw[a]
  /\ got.saw.ready = named.saw.ready /\ got.stable = named.stable
  /\ Passed(t, "display") => same("display")
  /\ Passed(t, "window") => same("process") /\ same("window")
  /\ Passed(t, "place") => same("place")
  /\ Passed(t, "face") => same("face") /\ (backend # "ax" => same("actions"))

(* A call that compares an observation of its own with another one: they   *)
(* differ, so that the call ends there.                                    *)
BorrowInv(t) ==
  /\ Passed(t, "persist") => call[t].got.id = call[t].num
  /\ ~Passed(t, "named")

(* A call that observes: the first looks are older than the fingerprint, and*)
(* what was looked at again has looked the same since it was taken.        *)
ObserveInv(t) ==
  LET got == call[t].got
      still(a) == Shown(a, got.saw[a], got.sampled[a], desktop[a]) IN
  /\ Passed(t, "see_display") => call[t].began.display <= got.saw.display
  /\ Passed(t, "see_window") =>
       call[t].began.process <= got.saw.process /\ call[t].began.window <= got.saw.window
  /\ Passed(t, "see_face") => \A a \in Place : got.saw[a] <= got.sampled[a]
  /\ Confirmed(t, "display") => still("display")
  /\ Confirmed(t, "window") => still("process") /\ still("window")
  /\ Passed(t, "persist") => got \in stored /\ got.id = call[t].num

(* What a call knows.                                                      *)
LookInv ==
  \A t \in Thread : Active(t) =>
    /\ Acts(t) => ActInv(t)
    /\ Borrows(t) => BorrowInv(t)
    /\ Observes(t) => ObserveInv(t)

(* The request of a step, and the steps that request.                      *)
Request(t, i) ==
  [num |-> call[t].num, at |-> i, named |-> call[t].named, began |-> call[t].began]
Effects(t) == Performing(backend, call[t].op)

(* Requests of a call come from steps behind it or the one that is awaited,*)
(* and those behind it were obeyed.                                        *)
RequestInv ==
  /\ wire \intersect effects = {}
  /\ \A t \in Thread : Active(t) =>
       /\ Waiting(t) => call[t].at \in Effects(t)
       /\ \A m \in wire \union effects : m.num = call[t].num =>
            /\ m.at \in Effects(t) /\ m = Request(t, m.at)
            /\ m.at < call[t].at \/ (m.at = call[t].at /\ Waiting(t))
       /\ \A i \in Effects(t) :
            (i < call[t].at \/ (i = call[t].at /\ call[t].reply = "done")) =>
              Request(t, i) \in effects

(* The effects of a call are those of its program.                         *)
Told(a, named, began) ==
  Of(effects, a.num) = {[num |-> a.num, at |-> i, named |-> named, began |-> began] :
                          i \in Performing(backend, a.op)}

(* Where the first page of a scroll is not reported as no effect, and where no*)
(* observation is compared with a later one.                               *)
ScrollsElsewhere == <<"ax", "scroll">> \notin Offered
KeysOfAx == \A o \in Offered : o[2] = "keys" => o[1] = "ax"

(* What the answers say.                                                   *)
AnswerInv ==
  /\ \A a \in answers :
       /\ a.outcome = "ok" =>
            /\ Of(wire, a.num) = {}
            /\ \E m \in MessageType : Told(a, m.named, m.began)
       /\ (a.outcome = "none" /\ ScrollsElsewhere) => Of(wire \union effects, a.num) = {}
  /\ KeysOfAx => RefusedWithReason

(* The inductive invariant.                                                *)
AccessInv ==
  /\ TypeInv /\ NumberInv /\ SourceInv /\ LookInv
  /\ RequestInv /\ AnswerInv

(* What is true of a step: of the effects it requests and the observations *)
(* it returns.                                                             *)
Noticed ==
  \A m \in wire' \ wire :
    \A a \in Aspect \ (IF backend = "ax" THEN {"actions"} ELSE {}) :
      Shown(a, m.named.saw[a], m.began[a], desktop[a])
Frame(o) ==
  backend # "ax" => \A a \in {"display", "process", "window"} :
    /\ o.saw[a] <= o.sampled[a]
    /\ Shown(a, o.saw[a], o.sampled[a], desktop[a])
Framed == \A o \in returned' \ returned : Frame(o)
Keeps == AccessInv' /\ Noticed /\ Framed

(* Versions only go up.                                                    *)
Forward ==
  \A a \in Aspect : desktop[a] \in Nat /\ desktop'[a] \in Nat /\ desktop[a] <= desktop'[a]

(* What has been there was there later, too.                               *)
LEMMA ShownLater ==
  ASSUME NEW a, NEW v, NEW from, NEW to \in Int, NEW end \in Int, to <= end,
         Shown(a, v, from, to)
  PROVE  Shown(a, v, from, end)
<1>1. PICK w \in from..to : Alike(a, w, v)
  BY DEF Shown
<1>2. w \in from..end
  BY <1>1
<1> QED
  BY <1>1, <1>2 DEF Shown

(* What looks so now has looked so since any time before.                  *)
LEMMA ShownNow ==
  ASSUME NEW a, NEW v, NEW from \in Int, NEW now \in Int, from <= now, Alike(a, now, v)
  PROVE  Shown(a, v, from, now)
BY DEF Shown

LEMMA StillForward ==
  ASSUME TypeInv, desktop' = desktop
  PROVE  Forward
BY AccessibilityAssumption DEF Forward, TypeInv, TypeOK, DesktopType, Version, Aspect

-----------------------------------------------------------------------------
(* Calls that take a step or end                                           *)

(* What a call needs to be able to take a step.                            *)
LEMMA StepTypes ==
  ASSUME TypeInv, NEW t \in Thread, Active(t), NEW n, n = Len(Steps(t))
  PROVE  /\ call[t].op \in DOMAIN Program[backend] /\ backend \in Backend
         /\ n \in Nat /\ call[t].at \in 1..n /\ DOMAIN Steps(t) = 1..n
         /\ \A i \in 1..n : ProgramStep(backend, call[t].op, Steps(t), i)
         /\ call[t] \in CallType /\ Effects(t) = {i \in 1..n : Steps(t)[i] \in Effecting}
<1>1. call[t].op \in DOMAIN Program[backend] /\ backend \in Backend
  BY AccessibilityAssumption DEF TypeInv, TypeOK
<1>2. call[t].at \in DOMAIN Steps(t)
  BY DEF TypeInv, TypeOK
<1> QED
  BY <1>1, <1>2, ProgramSteps DEF Steps, TypeInv, Effects, Performing

(* What is there at the beginning.                                         *)
LEMMA IdleType ==
  /\ Undisturbed \in DesktopType /\ Nothing \in ObservationType
  /\ Idle \in CallType /\ Idle.num = 0 /\ Idle.op = "idle" /\ Idle.reply = "none"
<1>1. Undisturbed \in DesktopType
  BY AccessibilityAssumption DEF Undisturbed, DesktopType, Version
<1>2. Nothing \in ObservationType
  BY <1>1, AccessibilityAssumption DEF Nothing, ObservationType
<1> QED
  BY <1>1, <1>2 DEF Idle, CallType

(* A call takes a step, having learnt got.                                 *)
Moves(t, got) ==
  /\ Active(t) /\ call[t].at < Len(Steps(t))
  /\ call' = [call EXCEPT ![t] = [call[t] EXCEPT !.at = @ + 1, !.got = got, !.reply = "none"]]
  /\ lock' \in {lock, call[t].num}
  /\ UNCHANGED <<desktopVars, effectVars, returned, calls, answers>>

(* A call ends; what it observed may be returned.                          *)
Ends(t, outcome, why, got) ==
  /\ Active(t)
  /\ End(t, outcome, why)
  /\ returned' = returned \union (IF Observes(t) /\ outcome = "ok" THEN {got} ELSE {})
  /\ UNCHANGED <<desktopVars, effectVars, calls>>

(* The record of a call after a step.                                      *)
LEMMA MovedType ==
  ASSUME NEW c \in CallType, NEW got \in ObservationType
  PROVE  [c EXCEPT !.at = @ + 1, !.got = got, !.reply = "none"] \in CallType
<1> DEFINE d == [c EXCEPT !.at = @ + 1]
           e == [d EXCEPT !.got = got]
<1>1. d \in CallType
  BY DEF CallType
<1> HIDE DEF d
<1>2. e \in CallType
  BY <1>1 DEF CallType
<1> HIDE DEF e
<1>3. [e EXCEPT !.reply = "none"] \in CallType
  BY <1>2 DEF CallType
<1>4. [c EXCEPT !.at = @ + 1, !.got = got, !.reply = "none"] = [e EXCEPT !.reply = "none"]
  BY DEF d, e, CallType
<1> QED
  BY <1>3, <1>4

(* Steps keep the types ...                                                *)
LEMMA MoveTypes ==
  ASSUME TypeInv, NEW t \in Thread, NEW got \in ObservationType, Moves(t, got),
         stored' \union {latest'} \subseteq ObservationType
  PROVE  TypeInv'
<1>0. PICK n : n = Len(Steps(t))
  OBVIOUS
<1>1. /\ call[t] \in CallType /\ call[t].at \in Nat /\ call[t].at + 1 \in DOMAIN Steps(t)
  BY <1>0, StepTypes DEF Moves
<1>2. call' \in [Thread -> CallType]
  <2>1. [call[t] EXCEPT !.at = @ + 1, !.got = got, !.reply = "none"] \in CallType
    BY <1>1, MovedType
  <2> QED
    BY <2>1 DEF Moves, TypeInv
<1>3. /\ call'[t] = [call[t] EXCEPT !.at = @ + 1, !.got = got, !.reply = "none"]
      /\ \A u \in Thread \ {t} : call'[u] = call[u]
  BY DEF Moves, TypeInv
<1>4. /\ call'[t].op = call[t].op /\ call'[t].at = call[t].at + 1 /\ call'[t].num = call[t].num
      /\ call'[t].named = call[t].named /\ call'[t].got = got /\ call'[t].reply = "none"
  BY <1>1, <1>3 DEF CallType
<1>5. \A u \in Thread :
        /\ (Active(u)' <=> Active(u)) /\ call'[u].num = call[u].num
        /\ call'[u].op = call[u].op
  BY <1>3, <1>4 DEF Active
<1>6. \A u \in Thread : call'[u].num \in 0..calls'
                        /\ (Active(u)' => call'[u].at \in DOMAIN Steps(u)')
                        /\ {call'[u].named, call'[u].got} \subseteq ObservationType
                        /\ call'[u].reply \in {"none", "awaited", "done", "odd"}
  BY <1>1, <1>3, <1>4, <1>5 DEF TypeInv, TypeOK, Moves, Steps, desktopVars
<1>7. lock' \in {Free} \union {call'[u].num : u \in {v \in Thread : Active(v)'}}
  BY <1>5 DEF TypeInv, TypeOK, Moves
<1>8. TypeOK'
  BY <1>6, <1>7 DEF TypeInv, TypeOK, Moves, desktopVars, effectVars
<1> QED
  BY <1>2, <1>3, <1>4, <1>5, <1>8 DEF TypeInv, Moves, desktopVars, effectVars

(* ... and so do calls that end, whose number nobody else has.             *)
LEMMA EndTypes ==
  ASSUME TypeInv, NumberInv, NEW t \in Thread, NEW outcome \in Outcome, NEW why,
         NEW got \in ObservationType, Ends(t, outcome, why, got),
         stored' \union {latest'} \subseteq ObservationType
  PROVE  TypeInv' /\ NumberInv'
<1>1. /\ call' \in [Thread -> CallType] /\ call'[t] = Idle
      /\ \A u \in Thread \ {t} : call'[u] = call[u]
  BY IdleType DEF TypeInv, Ends, End
<1>2. ~Active(t)' /\ \A u \in Thread \ {t} : Active(u)' <=> Active(u)
  BY <1>1, IdleType DEF Active
<1>3. /\ \A u \in Thread : /\ call'[u].num \in 0..calls'
                           /\ Active(u)' => call'[u].at \in DOMAIN Steps(u)'
                           /\ {call'[u].named, call'[u].got} \subseteq ObservationType
                           /\ call'[u].reply \in {"none", "awaited", "done", "odd"}
  <2>1. call'[t].named \in ObservationType /\ call'[t].got \in ObservationType
    BY <1>1 DEF CallType
  <2>2. calls' \in Nat /\ call'[t].num = 0 /\ call'[t].reply = "none"
    BY <1>1, IdleType DEF TypeInv, TypeOK, Ends
  <2> QED
    BY <1>1, <1>2, <2>1, <2>2 DEF TypeInv, TypeOK, Ends, Steps, desktopVars
<1>4. lock' \in {Free} \union {call'[u].num : u \in {v \in Thread : Active(v)'}}
  BY <1>1, <1>2 DEF TypeInv, TypeOK, Ends, End, Unlocked
<1>5. /\ \A a \in answers' :
           a.num \in 1..calls /\ a.outcome \in Outcome /\ <<backend, a.op>> \in Offered
      /\ \A a \in answers' : a \in answers \/ a.num = call[t].num
  <2>1. call[t].num \in 1..calls /\ <<backend, call[t].op>> \in Offered
    BY DEF TypeInv, TypeOK, NumberInv, Ends
  <2> QED
    BY <2>1 DEF TypeInv, TypeOK, Ends, End
<1>6. TypeOK'
  BY <1>3, <1>4, <1>5 DEF TypeInv, TypeOK, Ends, desktopVars, effectVars
<1>7. TypeInv'
  BY <1>1, <1>2, <1>5, <1>6 DEF TypeInv, Ends, desktopVars, effectVars
<1>8. NumberInv'
  BY <1>1, <1>2, <1>5 DEF NumberInv, Ends
<1> QED
  BY <1>7, <1>8

(* The record of a call that takes a step, and of the others.              *)
LEMMA Moved ==
  ASSUME TypeInv, NEW t \in Thread, NEW got, Moves(t, got)
  PROVE  /\ call'[t].op = call[t].op /\ call'[t].num = call[t].num
         /\ call'[t].named = call[t].named /\ call'[t].began = call[t].began
         /\ call'[t].at = call[t].at + 1 /\ call'[t].got = got /\ call'[t].reply = "none"
         /\ Active(t)' /\ Active(t) /\ (Observes(t)' <=> Observes(t))
         /\ (Borrows(t)' <=> Borrows(t)) /\ (Acts(t)' <=> Acts(t))
         /\ \A u \in Thread \ {t} : call'[u] = call[u]
         /\ backend' = backend /\ desktop' = desktop
<1>1. /\ call'[t] = [call[t] EXCEPT !.at = @ + 1, !.got = got, !.reply = "none"]
      /\ \A u \in Thread \ {t} : call'[u] = call[u]
      /\ backend' = backend /\ desktop' = desktop /\ call[t] \in CallType
  BY DEF Moves, TypeInv, desktopVars
<1>2. /\ call'[t].op = call[t].op /\ call'[t].num = call[t].num
      /\ call'[t].named = call[t].named /\ call'[t].began = call[t].began
      /\ call'[t].at = call[t].at + 1 /\ call'[t].got = got /\ call'[t].reply = "none"
  BY <1>1 DEF CallType
<1> QED
  BY <1>1, <1>2 DEF Active, Observes, Borrows, Acts, Moves

(* The program is the same, and one more step is behind the call.          *)
LEMMA PassedMoves ==
  ASSUME TypeInv, NEW t \in Thread, NEW got, Moves(t, got)
  PROVE  /\ Steps(t)' = Steps(t)
         /\ \A s : Passed(t, s)' <=> (Passed(t, s) \/ Current(t) = s)
         /\ \A s : Confirmed(t, s)' <=> (Confirmed(t, s) \/ (Current(t) = s /\ Passed(t, "again")))
<1>1. Steps(t)' = Steps(t)
  BY Moved DEF Steps
<1>2. PICK n : n = Len(Steps(t))
  OBVIOUS
<1>3. n \in Nat /\ call[t].at \in 1..n /\ call'[t].at = call[t].at + 1
  BY <1>2, Moved, StepTypes
<1>4. PICK i \in Nat : i = call[t].at /\ i > 0 /\ call'[t].at = i + 1
  BY <1>3
<1>5. PICK p : p = Steps(t) /\ p = Steps(t)'
  BY <1>1
<1>6. \A s : Before(p, i + 1, s) <=> (Before(p, i, s) \/ p[i] = s)
  <2>1. 1..i + 1 - 1 = 1..i - 1 \union {i}
    BY <1>4
  <2> QED
    BY <2>1 DEF Before
<1>7. \A s : Between(p, i + 1, s) <=> (Between(p, i, s) \/ (p[i] = s /\ Before(p, i, "again")))
  <2>1. 1..i + 1 - 1 = 1..i - 1 \union {i}
    BY <1>4
  <2> QED
    BY <2>1 DEF Between
<1>8. \A s : /\ Passed(t, s)' <=> Before(p, i + 1, s)
             /\ Passed(t, s) <=> Before(p, i, s)
             /\ Confirmed(t, s)' <=> Between(p, i + 1, s)
             /\ Confirmed(t, s) <=> Between(p, i, s)
             /\ Current(t) = p[i]
  BY <1>4, <1>5 DEF Passed, Confirmed, Current, Before, Between
<1> QED
  BY <1>1, <1>6, <1>7, <1>8

(* Numbers do not change.                                                  *)
LEMMA MoveNumbers ==
  ASSUME TypeInv, NumberInv, NEW t \in Thread, NEW got, Moves(t, got)
  PROVE  NumberInv'
<1>1. \A u \in Thread : (Active(u)' <=> Active(u)) /\ call'[u].num = call[u].num
  BY Moved DEF Active
<1> QED
  BY <1>1 DEF NumberInv, Moves

(* What is learnt is of the past, like what was known.                     *)
LEMMA MoveSources ==
  ASSUME TypeInv, SourceInv, NEW t \in Thread, NEW got, Moves(t, got), Past(got),
         stored \subseteq stored'
  PROVE  SourceInv'
<1>1. desktop' = desktop /\ calls' = calls /\ returned' = returned
  BY DEF Moves, desktopVars
<1>2. \A o : Past(o)' <=> Past(o)
  BY <1>1 DEF Past
<1>3. \A u \in Thread \ {t} : /\ call'[u] = call[u] /\ (Active(u)' <=> Active(u))
                              /\ (Observes(u)' <=> Observes(u))
  BY Moved DEF Active, Observes
<1>4. ASSUME NEW u \in Thread, Active(u)'
      PROVE  /\ Older(call'[u].got.saw, desktop') /\ Older(call'[u].got.sampled, desktop')
             /\ Older(call'[u].began, desktop')
             /\ call'[u].named.id < call'[u].num
             /\ IF Observes(u)' THEN call'[u].named = Nothing
                ELSE call'[u].named \in returned' /\ call'[u].named # Nothing
  <2>1. CASE u = t
    BY <1>1, <2>1, Moved DEF SourceInv, Past
  <2>2. CASE u # t
    BY <1>1, <1>3, <1>4, <2>2 DEF SourceInv, Past
  <2> QED
    BY <2>1, <2>2
<1> QED
  BY <1>1, <1>2, <1>4 DEF SourceInv, Past

(* A call leaves an effecting step only when its request was obeyed.       *)
LEMMA MoveRequests ==
  ASSUME TypeInv, NumberInv, RequestInv, NEW t \in Thread, NEW got, Moves(t, got),
         Current(t) \in Effecting => call[t].reply = "done"
  PROVE  RequestInv'
<1>1. UNCHANGED <<wire, effects>>
  BY DEF Moves, effectVars
<1>2. \A u \in Thread : /\ Effects(u)' = Effects(u) /\ (Active(u)' <=> Active(u))
                        /\ call'[u].num = call[u].num
                        /\ \A i : Request(u, i)' = Request(u, i)
  BY Moved DEF Effects, Active, Request
<1>3. PICK n : n = Len(Steps(t))
  OBVIOUS
<1>4. /\ n \in Nat /\ call[t].at \in 1..n /\ Effects(t) = {i \in 1..n : Steps(t)[i] \in Effecting}
      /\ call'[t].at = call[t].at + 1
  BY <1>3, Moved, StepTypes
<1>5. Waiting(t)' = FALSE
  BY Moved DEF Waiting
<1>6. call[t].at \in Effects(t) => call[t].reply = "done"
  BY <1>4 DEF Current
<1>7. \A m \in wire \union effects : m.num = call[t].num =>
         m.at \in Effects(t) /\ m = Request(t, m.at) /\ m.at < call'[t].at
  BY <1>4, Moved DEF RequestInv
<1>8. \A i \in Effects(t) : i < call'[t].at => Request(t, i) \in effects
  BY <1>4, <1>6, Moved DEF RequestInv
<1>9. ASSUME NEW u \in Thread \ {t}
      PROVE  call'[u] = call[u] /\ (Waiting(u)' <=> Waiting(u))
  BY Moved DEF Waiting
<1>10. ASSUME NEW u \in Thread, Active(u)'
       PROVE  /\ Waiting(u)' => call'[u].at \in Effects(u)'
              /\ \A m \in wire' \union effects' : m.num = call'[u].num =>
                   /\ m.at \in Effects(u)' /\ m = Request(u, m.at)'
                   /\ m.at < call'[u].at \/ (m.at = call'[u].at /\ Waiting(u)')
              /\ \A i \in Effects(u)' :
                   (i < call'[u].at \/ (i = call'[u].at /\ call'[u].reply = "done")) =>
                     Request(u, i)' \in effects'
  <2>1. CASE u = t
    BY <1>1, <1>2, <1>5, <1>7, <1>8, <2>1, Moved
  <2>2. CASE u # t
    BY <1>1, <1>2, <1>9, <1>10, <2>2 DEF RequestInv
  <2> QED
    BY <2>1, <2>2
<1> QED
  BY <1>1, <1>10 DEF RequestInv

(* A call whose record stays has passed what it had passed.                *)
LEMMA StaysPassed ==
  ASSUME NEW u \in Thread, call'[u] = call[u], backend' = backend
  PROVE  /\ \A s : (Passed(u, s)' <=> Passed(u, s)) /\ (Confirmed(u, s)' <=> Confirmed(u, s))
         /\ (Active(u)' <=> Active(u)) /\ (Observes(u)' <=> Observes(u))
         /\ (Borrows(u)' <=> Borrows(u)) /\ (Acts(u)' <=> Acts(u))
<1>1. Steps(u)' = Steps(u) /\ call'[u].at = call[u].at
  BY DEF Steps
<1>2. \A s : Passed(u, s)' <=> Passed(u, s)
  BY <1>1 DEF Passed, Before
<1>3. \A s : Confirmed(u, s)' <=> Confirmed(u, s)
  BY <1>1 DEF Confirmed, Between, Before
<1> QED
  BY <1>2, <1>3 DEF Active, Observes, Borrows, Acts

(* What a call knows does not depend on the other calls.                   *)
LEMMA StaysLooked ==
  ASSUME NEW u \in Thread, call'[u] = call[u], backend' = backend, stored \subseteq stored',
         LookInv, Active(u)', Forward
  PROVE  /\ Acts(u)' => ActInv(u)'
         /\ Borrows(u)' => BorrowInv(u)'
         /\ Observes(u)' => ObserveInv(u)'
<1>1. \A a \in Aspect : \A v, from :
        Shown(a, v, from, desktop[a]) => Shown(a, v, from, desktop'[a])
  BY ShownLater DEF Forward
<1>2. Aspect = {"display", "process", "window", "place", "face", "actions"}
  BY DEF Aspect
<1>3. Acts(u)' => ActInv(u)'
  BY <1>1, <1>2, StaysPassed DEF LookInv, ActInv
<1>4. Borrows(u)' => BorrowInv(u)'
  BY StaysPassed DEF LookInv, BorrowInv
<1>5. Observes(u)' => ObserveInv(u)'
  BY <1>1, <1>2, StaysPassed DEF LookInv, ObserveInv
<1> QED
  BY <1>3, <1>4, <1>5

(* A step keeps the invariant if it keeps what the call knows.             *)
LEMMA MoveInv ==
  ASSUME AccessInv, NEW t \in Thread, NEW got \in ObservationType, Moves(t, got), Past(got),
         stored' \union {latest'} \subseteq ObservationType, stored \subseteq stored',
         Current(t) \in Effecting => call[t].reply = "done",
         Acts(t) => ActInv(t)', Borrows(t) => BorrowInv(t)', Observes(t) => ObserveInv(t)'
  PROVE  Keeps
<1>1. TypeInv' /\ NumberInv' /\ SourceInv' /\ RequestInv'
  BY MoveTypes, MoveNumbers, MoveSources, MoveRequests DEF AccessInv
<1>2. LookInv'
  <2>1. ASSUME NEW u \in Thread, Active(u)'
        PROVE  /\ Acts(u)' => ActInv(u)'
               /\ Borrows(u)' => BorrowInv(u)'
               /\ Observes(u)' => ObserveInv(u)'
    <3>1. CASE u = t
      BY <3>1, Moved DEF AccessInv
    <3>2. CASE u # t
      <4>1. call'[u] = call[u] /\ backend' = backend /\ Forward
        BY <3>2, Moved, StillForward DEF AccessInv, Moves, desktopVars
      <4> QED
        BY <2>1, <4>1, StaysLooked DEF AccessInv
    <3> QED
      BY <3>1, <3>2
  <2> QED
    BY <2>1 DEF LookInv
<1>3. UNCHANGED <<wire, effects, returned, answers, backend>>
  BY DEF Moves, desktopVars, effectVars
<1>4. AnswerInv'
  BY <1>3 DEF AccessInv, AnswerInv, Told, Of, RefusedWithReason
<1>5. Noticed /\ Framed
  BY <1>3 DEF Noticed, Framed
<1> QED
  BY <1>1, <1>2, <1>4, <1>5 DEF AccessInv, Keeps

(* A call that acts compares what it was given with the desktop.           *)
LEMMA ActMoves ==
  ASSUME AccessInv, NEW t \in Thread, NEW got, Moves(t, got), Acts(t),
         \A a \in Aspect : got.saw[a] = call[t].got.saw[a],
         got.saw.ready = call[t].got.saw.ready, got.stable = call[t].got.stable,
         Current(t) \in {"display", "window", "place", "face"} => Holds(t)
  PROVE  ActInv(t)'
<1>1. PICK c \in CallType : c = call[t]
  BY DEF AccessInv, TypeInv
<1>2. /\ \A a \in Aspect : c.got.saw[a] = c.named.saw[a]
      /\ c.got.saw.ready = c.named.saw.ready /\ c.got.stable = c.named.stable
  BY <1>1, Moved DEF AccessInv, LookInv, ActInv
<1> DEFINE same(a) == Shown(a, c.named.saw[a], c.began[a], desktop[a])
<1>3. \A a \in Aspect : c.began[a] <= desktop[a] /\ c.began[a] \in Nat /\ desktop[a] \in Nat
  BY <1>1, Moved, AccessibilityAssumption
  DEF AccessInv, SourceInv, Older, TypeInv, TypeOK, CallType, DesktopType, Version, Aspect
<1>4. \A a \in Aspect : Alike(a, desktop[a], c.got.saw[a]) => same(a)
  BY <1>2, <1>3, ShownNow
<1>5. /\ backend' = backend /\ desktop' = desktop
      /\ {"display", "window", "place", "face", "actions", "process"} = Aspect
  BY Moved DEF Aspect, AccessInv, Moves, desktopVars
<1> HIDE DEF same
<1>6. Current(t) = "display" => same("display")
  BY <1>1, <1>4, <1>5 DEF Holds, Same
<1>7. Current(t) = "window" => same("process") /\ same("window")
  BY <1>1, <1>4, <1>5 DEF Holds, Same
<1>8. Current(t) = "place" => same("place")
  BY <1>1, <1>4, <1>5 DEF Holds, InPlace, Same
<1>9. Current(t) = "face" => same("face") /\ (backend # "ax" => same("actions"))
  BY <1>1, <1>4, <1>5 DEF Holds, Recognised, Same
<1>10. ActInv(t)
  BY Moved DEF AccessInv, LookInv
<1>11. /\ call'[t].began = c.began /\ call'[t].named = c.named /\ call'[t].got = got
       /\ \A x : Passed(t, x)' <=> (Passed(t, x) \/ Current(t) = x)
  BY <1>1, Moved, PassedMoves DEF AccessInv
<1>12. /\ Passed(t, "display")' => same("display")
       /\ Passed(t, "window")' => same("process") /\ same("window")
       /\ Passed(t, "place")' => same("place")
       /\ Passed(t, "face")' => same("face") /\ (backend # "ax" => same("actions"))
  BY <1>1, <1>6, <1>7, <1>8, <1>9, <1>10, <1>11 DEF ActInv, same
<1> QED
  BY <1>1, <1>2, <1>5, <1>11, <1>12 DEF ActInv, same

(* A call with an observation of its own, whose number is its own, does not*)
(* get past the comparison with an earlier one.                            *)
LEMMA BorrowMoves ==
  ASSUME AccessInv, NEW t \in Thread, NEW got, Moves(t, got), Borrows(t),
         IF Current(t) = "persist" THEN got.id = call[t].num ELSE got.id = call[t].got.id,
         Current(t) = "named" => Holds(t)
  PROVE  BorrowInv(t)'
<1>1. PICK n : n = Len(Steps(t))
  OBVIOUS
<1>2. BorrowingStep(Steps(t), call[t].at)
  BY <1>1, Moved, StepTypes DEF AccessInv, ProgramStep, Borrows
<1>3. /\ Current(t) = "named" => Passed(t, "persist")
      /\ Passed(t, "persist") => call[t].got.id = call[t].num
      /\ ~Passed(t, "named")
  BY <1>2, Moved DEF BorrowingStep, Passed, Current, AccessInv, LookInv, BorrowInv
<1>4. call[t].named.id < call[t].num /\ call[t].named.id \in Nat /\ call[t].num \in Nat
  BY Moved DEF AccessInv, SourceInv, TypeInv, CallType, ObservationType
<1>5. Current(t) # "named"
  BY <1>3, <1>4 DEF Holds, Named
<1> QED
  BY <1>3, <1>5, Moved, PassedMoves DEF BorrowInv, AccessInv

(* What a look changes of an observation.                                  *)
LEMMA SeenFields ==
  ASSUME TypeInv, NEW t \in Thread, NEW g, g = call[t].got, NEW seen, seen = Seen(t)
  PROVE  /\ seen \in ObservationType /\ seen.id = g.id
         /\ seen.saw.display = IF Current(t) = "see_display" THEN desktop.display ELSE g.saw.display
         /\ seen.saw.window = IF Current(t) = "see_window" THEN desktop.window ELSE g.saw.window
         /\ seen.saw.process = IF Current(t) = "see_window" THEN desktop.process ELSE g.saw.process
         /\ seen.saw.place = IF Current(t) = "see_place" THEN desktop.place ELSE g.saw.place
         /\ \/ seen.saw.face = g.saw.face /\ seen.saw.actions = g.saw.actions
               /\ seen.saw.ready = g.saw.ready /\ seen.sampled = g.sampled
            \/ seen.saw.face = desktop.face /\ seen.saw.actions = desktop.actions
               /\ seen.saw.ready = desktop.ready /\ seen.sampled = desktop
               /\ Current(t) \in {"see_face", "again"}
         /\ Current(t) = "see_face" => seen.sampled = desktop
         /\ Current(t) # "again" => seen.stable = g.stable
<1>1. g \in ObservationType /\ desktop \in DesktopType
  BY DEF TypeInv, TypeOK, CallType
<1>2. PICK s : s = Current(t)
  OBVIOUS
<1> USE <1>1, <1>2
<1> DEFINE face == [g EXCEPT !.saw.face = desktop.face, !.saw.actions = desktop.actions,
                             !.saw.ready = desktop.ready, !.sampled = desktop]
<1>3. /\ face \in ObservationType /\ face.id = g.id /\ face.stable = g.stable
      /\ face.sampled = desktop /\ face.saw.display = g.saw.display
      /\ face.saw.window = g.saw.window /\ face.saw.process = g.saw.process
      /\ face.saw.place = g.saw.place /\ face.saw.face = desktop.face
      /\ face.saw.actions = desktop.actions /\ face.saw.ready = desktop.ready
  BY DEF ObservationType, DesktopType
<1>4. CASE s = "see_display"
  <2>1. seen = [g EXCEPT !.saw.display = desktop.display]
    BY <1>4 DEF Seen
  <2> QED
    BY <1>4, <2>1 DEF ObservationType, DesktopType
<1>5. CASE s = "see_window"
  <2>1. seen = [g EXCEPT !.saw.window = desktop.window, !.saw.process = desktop.process]
    BY <1>5 DEF Seen
  <2> DEFINE saw == [g.saw EXCEPT !.window = desktop.window, !.process = desktop.process]
  <2>2. seen = [g EXCEPT !.saw = saw]
    BY <2>1 DEF ObservationType
  <2>3. /\ saw \in DesktopType /\ saw.window = desktop.window /\ saw.process = desktop.process
        /\ saw.display = g.saw.display /\ saw.place = g.saw.place /\ saw.face = g.saw.face
        /\ saw.actions = g.saw.actions /\ saw.ready = g.saw.ready
    BY DEF ObservationType, DesktopType
  <2> HIDE DEF saw
  <2> QED
    BY <1>5, <2>2, <2>3 DEF ObservationType
<1>6. CASE s = "see_place"
  <2>1. seen = [g EXCEPT !.saw.place = desktop.place]
    BY <1>6 DEF Seen
  <2> QED
    BY <1>6, <2>1 DEF ObservationType, DesktopType
<1>7. CASE s = "see_face"
  <2>1. seen = face
    BY <1>7 DEF Seen
  <2> HIDE DEF face
  <2> QED
    BY <1>3, <1>7, <2>1
<1>8. CASE s = "again"
  <2>1. PICK same \in BOOLEAN :
          seen = [(IF backend = "atspi" THEN face ELSE g) EXCEPT !.stable = same]
    <3>1. PICK same \in BOOLEAN : same <=> (/\ Alike("face", desktop.face, g.saw.face)
                                            /\ desktop.ready = g.saw.ready
                                            /\ Alike("actions", desktop.actions, g.saw.actions))
      OBVIOUS
    <3> QED
      BY <1>8, <3>1 DEF Seen
  <2> HIDE DEF face
  <2>2. CASE backend = "atspi"
    <3>1. seen = [face EXCEPT !.stable = same]
      BY <2>1, <2>2
    <3>2. /\ seen \in ObservationType /\ seen.id = face.id /\ seen.saw = face.saw
          /\ seen.sampled = face.sampled
      BY <1>3, <3>1 DEF ObservationType
    <3> QED
      BY <1>3, <1>8, <3>2
  <2>3. CASE backend # "atspi"
    <3>1. seen = [g EXCEPT !.stable = same]
      BY <2>1, <2>3
    <3>2. /\ seen \in ObservationType /\ seen.id = g.id /\ seen.saw = g.saw
          /\ seen.sampled = g.sampled
      BY <3>1 DEF ObservationType
    <3> QED
      BY <1>8, <3>2
  <2> QED
    BY <2>2, <2>3
<1>9. CASE s = "glance"
  <2>1. seen = [g EXCEPT !.saw.focus = desktop.focus]
    BY <1>9 DEF Seen
  <2> QED
    BY <1>9, <2>1 DEF ObservationType, DesktopType
<1>10. CASE s \notin Seeing \union {"glance"}
  <2>1. seen = g
    BY <1>10 DEF Seen, Seeing
  <2> QED
    BY <1>10, <2>1 DEF Seeing
<1> QED
  BY <1>4, <1>5, <1>6, <1>7, <1>8, <1>9, <1>10 DEF Seeing

(* A look adds the desktop of now, which is not newer than now.            *)
LEMMA SeenIsPast ==
  ASSUME TypeInv, SourceInv, NEW t \in Thread, Active(t), NEW seen, seen = Seen(t)
  PROVE  Past(seen)
<1>1. PICK g \in ObservationType : g = call[t].got /\ Past(g)
  BY DEF TypeInv, CallType, SourceInv
<1>2. \A a \in Aspect : desktop[a] \in Nat
  BY AccessibilityAssumption DEF TypeInv, TypeOK, DesktopType, Version, Aspect
<1>3. \A a \in Aspect : seen.saw[a] \in {g.saw[a], desktop[a]}
  BY <1>1, SeenFields DEF Aspect
<1>4. seen.sampled \in {g.sampled, desktop}
  BY <1>1, SeenFields
<1> QED
  BY <1>1, <1>2, <1>3, <1>4 DEF Past, Older

(* A call that observes: what it saw before the fingerprint of the element *)
(* is no newer, and what it saw again looks the same.                      *)
LEMMA ObserveMoves ==
  ASSUME AccessInv, NEW t \in Thread, NEW got, Moves(t, got), Observes(t), stored \subseteq stored',
         IF Current(t) = "persist"
         THEN got = [call[t].got EXCEPT !.id = call[t].num] /\ got \in stored'
         ELSE got = IF Current(t) \in Seeing THEN Seen(t) ELSE call[t].got,
         Current(t) \in {"display", "window"} => Holds(t)
  PROVE  ObserveInv(t)'
<1>1. PICK c, g, s :
        c \in CallType /\ g \in ObservationType /\ c = call[t] /\ g = call[t].got /\ s = Current(t)
  BY DEF AccessInv, TypeInv, CallType
<1>2. PICK n : n = Len(Steps(t))
  OBVIOUS
<1>3. ObservingStep(backend, Steps(t), call[t].at)
  BY <1>2, Moved, StepTypes DEF AccessInv, ProgramStep, Observes
<1>4. /\ s \in Seeing \union {"lock", "display", "window", "persist", "keep"}
      /\ s = "display" => Passed(t, "see_display")
      /\ s \in {"window", "see_place", "see_face", "again"} => Passed(t, "see_window")
      /\ s \in {"see_display", "see_window"} => ~Passed(t, "see_face")
      /\ s = "again" \/ Passed(t, "again") => Passed(t, "see_face")
      /\ s \in Seeing => ~Confirmed(t, "display") /\ ~Confirmed(t, "window")
                           /\ ~Passed(t, "persist")
  BY <1>1, <1>3 DEF ObservingStep, Passed, Confirmed, Current
<1>5. ObserveInv(t) /\ Past(g) /\ Older(c.began, desktop)
  BY <1>1, Moved DEF AccessInv, LookInv, SourceInv
<1>6. Place \subseteq Aspect /\ {"display", "process", "window"} = Place
  BY DEF Place, Aspect
<1>7. \A a \in Aspect : /\ g.saw[a] \in Nat /\ g.sampled[a] \in Nat /\ desktop[a] \in Nat
                        /\ c.began[a] \in Nat
                        /\ g.saw[a] <= desktop[a] /\ g.sampled[a] <= desktop[a]
                        /\ c.began[a] <= desktop[a]
  BY <1>1, <1>5, AccessibilityAssumption
  DEF AccessInv, TypeInv, TypeOK, CallType, ObservationType, DesktopType, Version, Aspect,
      Past, Older
<1>9. /\ got.saw.display = IF s = "see_display" THEN desktop.display ELSE g.saw.display
      /\ got.saw.window = IF s = "see_window" THEN desktop.window ELSE g.saw.window
      /\ got.saw.process = IF s = "see_window" THEN desktop.process ELSE g.saw.process
      /\ got.sampled \in {g.sampled, desktop}
      /\ s \notin {"see_face", "again"} => got.sampled = g.sampled
      /\ s = "see_face" => got.sampled = desktop
  <2>1. CASE s \in Seeing
    BY <1>1, <2>1, SeenFields DEF Seeing, AccessInv
  <2>2. CASE s = "persist"
    BY <1>1, <2>2 DEF ObservationType
  <2>3. CASE s \in {"lock", "display", "window", "keep"}
    BY <1>1, <2>3 DEF Seeing
  <2> QED
    BY <1>4, <2>1, <2>2, <2>3
<1>10. /\ \A x : Passed(t, x)' <=> (Passed(t, x) \/ s = x)
       /\ \A x : Confirmed(t, x)' <=> (Confirmed(t, x) \/ (s = x /\ Passed(t, "again")))
       /\ call'[t].began = c.began /\ call'[t].got = got /\ call'[t].num = c.num
  BY <1>1, Moved, PassedMoves DEF AccessInv
<1> DEFINE still(o, a) == Shown(a, o.saw[a], o.sampled[a], desktop[a])
<1>11. /\ s = "display" => still(g, "display")
       /\ s = "window" => still(g, "process") /\ still(g, "window")
  <2>1. \A a \in Place : Alike(a, desktop[a], g.saw[a]) => still(g, a)
    BY <1>6, <1>7, ShownNow
  <2> HIDE DEF still
  <2> QED
    BY <1>1, <1>6, <2>1 DEF Holds, Same
<1>12. Passed(t, "see_display")' => c.began.display <= got.saw.display
  BY <1>1, <1>5, <1>6, <1>7, <1>9, <1>10 DEF ObserveInv
<1>13. Passed(t, "see_window")' =>
         c.began.process <= got.saw.process /\ c.began.window <= got.saw.window
  BY <1>1, <1>5, <1>6, <1>7, <1>9, <1>10 DEF ObserveInv
<1>14. Passed(t, "see_face") => \A a \in Place : g.saw[a] <= g.sampled[a]
  BY <1>1, <1>5 DEF ObserveInv
<1>15. Passed(t, "see_face")' => \A a \in Place : got.saw[a] <= got.sampled[a]
  BY <1>4, <1>6, <1>7, <1>9, <1>10, <1>14
<1>16. s \in {"display", "window"} \/ Confirmed(t, "display") \/ Confirmed(t, "window") =>
         \A a \in Place : got.saw[a] = g.saw[a] /\ got.sampled[a] = g.sampled[a]
  BY <1>4, <1>6, <1>9 DEF Seeing
<1>17. /\ Confirmed(t, "display")' => still(got, "display")
       /\ Confirmed(t, "window")' => still(got, "process") /\ still(got, "window")
  <2>1. /\ Confirmed(t, "display")' => still(g, "display")
        /\ Confirmed(t, "window")' => still(g, "process") /\ still(g, "window")
    BY <1>1, <1>5, <1>10, <1>11 DEF ObserveInv
  <2> QED
    BY <1>6, <1>10, <1>16, <2>1
<1>18. Passed(t, "persist")' => got \in stored' /\ got.id = c.num
  <2>1. CASE s = "persist"
    BY <1>1, <2>1 DEF ObservationType
  <2>2. CASE s # "persist" /\ Passed(t, "persist")
    BY <1>1, <1>4, <1>5, <2>2 DEF ObserveInv
  <2> QED
    BY <1>10, <2>1, <2>2
<1>19. desktop' = desktop
  BY DEF Moves, desktopVars
<1> QED
  BY <1>10, <1>12, <1>13, <1>15, <1>17, <1>18, <1>19 DEF ObserveInv

(* A call that ends leaves the requests of the others as they are.         *)
LEMMA EndRequests ==
  ASSUME TypeInv, NumberInv, RequestInv, NEW t \in Thread, Active(t),
         call' = [call EXCEPT ![t] = Idle], UNCHANGED <<wire, effects, backend>>
  PROVE  RequestInv'
<1>1. ASSUME NEW u \in Thread, Active(u)'
      PROVE  /\ Waiting(u)' => call'[u].at \in Effects(u)'
             /\ \A m \in wire' \union effects' : m.num = call'[u].num =>
                  /\ m.at \in Effects(u)' /\ m = Request(u, m.at)'
                  /\ m.at < call'[u].at \/ (m.at = call'[u].at /\ Waiting(u)')
             /\ \A i \in Effects(u)' :
                  (i < call'[u].at \/ (i = call'[u].at /\ call'[u].reply = "done")) =>
                    Request(u, i)' \in effects'
  <2>1. u # t /\ call'[u] = call[u] /\ Active(u)
    BY <1>1, IdleType DEF TypeInv, Active
  <2>2. /\ Effects(u)' = Effects(u) /\ (Waiting(u)' <=> Waiting(u))
        /\ \A i : Request(u, i)' = Request(u, i)
    BY <2>1 DEF Effects, Waiting, Request
  <2> QED
    BY <2>1, <2>2 DEF RequestInv
<1> QED
  BY <1>1 DEF RequestInv

(* What an answer says of its call and no other.                           *)
Answered(a) ==
  /\ a.outcome = "ok" => Of(wire, a.num) = {} /\ \E m \in MessageType : Told(a, m.named, m.began)
  /\ (a.outcome = "none" /\ ScrollsElsewhere) => Of(wire \union effects, a.num) = {}

(* What the last step must know for an answer to be true.                  *)
LEMMA EndAnswers ==
  ASSUME AccessInv, NEW t \in Thread, Active(t), NEW outcome \in Outcome, NEW why,
         End(t, outcome, why), UNCHANGED <<wire, effects, backend>>,
         outcome = "ok" => \A i \in Effects(t) : Request(t, i) \in effects,
         (outcome = "none" /\ ScrollsElsewhere) => Of(wire \union effects, call[t].num) = {},
         (why = "stale" /\ KeysOfAx) => Reason(t)
  PROVE  AnswerInv'
<1> DEFINE new == [num |-> call[t].num, op |-> call[t].op, outcome |-> outcome,
                   why |-> why, reason |-> Reason(t)]
<1>1. answers' \subseteq answers \union {new}
  BY DEF End
<1>2. new.num = call[t].num /\ new.op = call[t].op /\ new.outcome = outcome /\ new.why = why
  OBVIOUS
<1>3. KeysOfAx /\ new.why = "stale" => new.reason
  OBVIOUS
<1> HIDE DEF new
<1>4. Answered(new)
  <2>1. ASSUME outcome = "ok"
        PROVE  Of(wire, call[t].num) = {} /\ \E m \in MessageType : Told(new, m.named, m.began)
    <3>1. PICK m \in MessageType : m.named = call[t].named /\ m.began = call[t].began
      <4>1. Request(t, 0) \in MessageType
        BY DEF AccessInv, TypeInv, CallType, MessageType, Request
      <4>2. Request(t, 0).named = call[t].named /\ Request(t, 0).began = call[t].began
        BY DEF Request
      <4> QED
        BY <4>1, <4>2
    <3>2. \A r \in wire \union effects : r.num = call[t].num =>
            r.at \in Effects(t) /\ r = Request(t, r.at)
      BY DEF AccessInv, RequestInv
    <3>3. Of(wire, call[t].num) = {}
      BY <2>1, <3>2 DEF Of, AccessInv, RequestInv
    <3>4. Of(effects, call[t].num) = {Request(t, i) : i \in Effects(t)}
      <4>1. \A i \in Effects(t) : Request(t, i) \in effects /\ Request(t, i).num = call[t].num
        BY <2>1 DEF Request
      <4> QED
        BY <3>2, <4>1 DEF Of
    <3>5. Told(new, m.named, m.began)
      BY <1>2, <3>1, <3>4 DEF Told, Request, Effects
    <3> QED
      BY <3>3, <3>5
  <2> QED
    BY <1>2, <2>1 DEF Answered
<1>5. \A a \in answers : Answered(a)
  BY DEF AccessInv, AnswerInv, Answered
<1>6. \A a : Answered(a)' <=> Answered(a)
  BY DEF Answered, Of, Told
<1>7. KeysOfAx => \A a \in answers' : a.why = "stale" => a.reason
  BY <1>1, <1>3 DEF AccessInv, AnswerInv, RefusedWithReason
<1>8. \A a \in answers' : Answered(a)'
  BY <1>1, <1>4, <1>5, <1>6
<1> QED
  BY <1>7, <1>8 DEF AnswerInv, Answered, RefusedWithReason

(* A call that ends keeps the invariant.                                   *)
LEMMA EndInv ==
  ASSUME AccessInv, NEW t \in Thread, NEW outcome \in Outcome, NEW why,
         NEW got \in ObservationType, Ends(t, outcome, why, got),
         stored' \union {latest'} \subseteq ObservationType, stored \subseteq stored',
         (Observes(t) /\ outcome = "ok") =>
           got \in stored' /\ Past(got) /\ got.id <= calls /\ Frame(got),
         outcome = "ok" => \A i \in Effects(t) : Request(t, i) \in effects,
         (outcome = "none" /\ ScrollsElsewhere) => Of(wire \union effects, call[t].num) = {},
         (why = "stale" /\ KeysOfAx) => Reason(t)
  PROVE  Keeps
<1>1. /\ UNCHANGED <<backend, desktop, wire, effects, calls>> /\ Active(t)
      /\ call' = [call EXCEPT ![t] = Idle] /\ End(t, outcome, why)
      /\ returned' = returned \union (IF Observes(t) /\ outcome = "ok" THEN {got} ELSE {})
  BY DEF Ends, desktopVars, effectVars, End
<1>2. TypeInv' /\ NumberInv'
  BY EndTypes DEF AccessInv
<1>3. RequestInv' /\ AnswerInv'
  BY <1>1, EndRequests, EndAnswers DEF AccessInv
<1>4. \A u \in Thread : Active(u)' => u # t /\ call'[u] = call[u] /\ Active(u)
  BY <1>1, IdleType DEF AccessInv, TypeInv, Active
<1>5. SourceInv'
  <2>1. \A o \in returned' : Past(o) /\ o.id <= calls /\ o \in stored'
    BY <1>1 DEF AccessInv, SourceInv
  <2>2. \A o : Past(o)' <=> Past(o)
    BY <1>1 DEF Past
  <2>3. ASSUME NEW u \in Thread, Active(u)'
        PROVE  /\ Older(call'[u].got.saw, desktop') /\ Older(call'[u].got.sampled, desktop')
               /\ Older(call'[u].began, desktop')
               /\ call'[u].named.id < call'[u].num
               /\ IF Observes(u)' THEN call'[u].named = Nothing
                  ELSE call'[u].named \in returned' /\ call'[u].named # Nothing
    <3>1. call'[u] = call[u] /\ Active(u)
      BY <1>4, <2>3
    <3> QED
      BY <1>1, <3>1 DEF AccessInv, SourceInv, Past, Observes
  <2> QED
    BY <1>1, <2>1, <2>2, <2>3 DEF SourceInv, Past
<1>6. LookInv'
  <2>1. ASSUME NEW u \in Thread, Active(u)'
        PROVE  /\ Acts(u)' => ActInv(u)'
               /\ Borrows(u)' => BorrowInv(u)'
               /\ Observes(u)' => ObserveInv(u)'
    BY <1>1, <1>4, <2>1, StaysLooked, StillForward DEF AccessInv
  <2> QED
    BY <2>1 DEF LookInv
<1>7. Noticed
  BY <1>1 DEF Noticed
<1>8. Framed
  BY <1>1 DEF Framed
<1> QED
  BY <1>2, <1>3, <1>5, <1>6, <1>7, <1>8 DEF AccessInv, Keeps

(* A refused call has a reason: where nothing changed, every check finds   *)
(* what it looks for.                                                      *)
LEMMA RefusalHasReason ==
  ASSUME AccessInv, KeysOfAx, NEW t \in Thread, Active(t), Current(t) \notin Local, ~Reason(t)
  PROVE  Holds(t)
<1>1. PICK n : n = Len(Steps(t))
  OBVIOUS
<1>2. /\ ProgramStep(backend, call[t].op, Steps(t), call[t].at)
      /\ <<backend, call[t].op>> \in Offered
      /\ backend \in Backend
  BY <1>1, StepTypes DEF AccessInv, TypeInv
<1>3. PICK s : s = Current(t) /\ s \notin Local
  OBVIOUS
<1>4. ~Borrows(t) /\ (Acts(t) <=> ~Observes(t))
  BY <1>2 DEF KeysOfAx, Borrows, Borrowing, Acts, Acting, Observes
<1>5. /\ desktop = call[t].began
      /\ call[t].named # Nothing =>
           \A a \in Aspect : Alike(a, desktop[a], call[t].named.saw[a])
      /\ call[t].named.saw.ready = desktop.ready /\ desktop.ready /\ call[t].named.stable
      /\ call[t].op = "keys" => desktop.focus /\ call[t].got.saw.focus
  BY DEF Reason, Changed
<1>6. CASE Acts(t)
  <2>1. /\ s \notin Seeing \union {"persist", "keep", "focus", "named"}
        /\ s = "focused" => call[t].op = "keys"
    BY <1>2, <1>3, <1>6 DEF ProgramStep, Acts, ActingStep, Current
  <2>2. ActInv(t) /\ call[t].named \in stored /\ call[t].named # Nothing
    BY <1>4, <1>6 DEF AccessInv, LookInv, SourceInv
  <2>3. /\ \A a \in Aspect : Alike(a, desktop[a], call[t].got.saw[a])
        /\ call[t].got.saw.ready = desktop.ready /\ call[t].got.stable
    BY <1>5, <2>2 DEF ActInv
  <2>4. /\ Same(t, {"display"}) /\ Same(t, {"process", "window"}) /\ Same(t, {"place"})
        /\ Same(t, {"face"}) /\ Same(t, {"actions"}) /\ Alive(t)
    BY <2>3 DEF Same, Alive, Aspect
  <2>5. Found(t) /\ Stable(t) /\ InPlace(t) /\ Recognised(t) /\ Takes(t) /\ Allowed(t)
    BY <1>5, <2>2, <2>3, <2>4 DEF Found, Stable, InPlace, Recognised, Takes, Allowed
  <2> QED
    BY <1>3, <1>5, <2>1, <2>4, <2>5 DEF Holds, Seeing
<1>7. CASE Observes(t)
  <2>1. ObservingStep(backend, Steps(t), call[t].at)
    BY <1>2, <1>7 DEF ProgramStep, Observes
  <2>2. /\ s \in Seeing \union {"display", "window"}
        /\ s = "display" => Passed(t, "see_display")
        /\ s \in {"window", "see_place", "see_face", "again"} => Passed(t, "see_window")
    BY <1>3, <2>1 DEF ObservingStep, Passed, Current, Local
  <2>3. ObserveInv(t) /\ Older(call[t].got.saw, desktop)
    BY <1>7 DEF AccessInv, LookInv, SourceInv, Past
  <2>4. /\ desktop \in DesktopType /\ call[t].got.saw \in DesktopType
    BY DEF AccessInv, TypeInv, TypeOK, CallType, ObservationType
  <2>5. /\ Passed(t, "see_display") => desktop.display = call[t].got.saw.display
        /\ Passed(t, "see_window") => /\ desktop.window = call[t].got.saw.window
                                      /\ desktop.process = call[t].got.saw.process
    BY <1>5, <2>3, <2>4, AccessibilityAssumption
    DEF ObserveInv, Older, Aspect, DesktopType, Version
  <2> QED
    BY <1>3, <2>2, <2>5 DEF Holds, Same, Alike, Alive, Seeing
<1> QED
  BY <1>4, <1>6, <1>7

(* A call that has asked for nothing has no effect.                        *)
LEMMA NothingAsked ==
  ASSUME AccessInv, NEW t \in Thread, Active(t), ~Waiting(t), SoFar(t) = "none"
  PROVE  Of(wire \union effects, call[t].num) = {}
<1>1. \A i \in Effects(t) : ~(i < call[t].at)
  BY DEF SoFar, Effects
<1>2. \A m \in wire \union effects : m.num = call[t].num =>
        m.at \in Effects(t) /\ m.at < call[t].at
  BY DEF AccessInv, RequestInv
<1> QED
  BY <1>1, <1>2 DEF Of

(* The report of a call that is interrupted is an outcome.                 *)
LEMMA SoFarType == \A t : SoFar(t) \in Outcome
BY DEF SoFar, Outcome

(* A call that is refused, fails or gives up before it asks for an effect. *)
LEMMA StopInv ==
  ASSUME AccessInv, NEW t \in Thread, Active(t), ~Waiting(t), NEW why,
         End(t, SoFar(t), why), why = "stale" => ~Holds(t) /\ Current(t) \notin Local,
         UNCHANGED <<desktopVars, effectVars, stored, latest, returned, calls>>
  PROVE  Keeps
<1>1. PICK outcome \in {"none", "unknown"} : outcome = SoFar(t)
  BY DEF SoFar
<1>2. outcome \in Outcome /\ outcome # "ok"
  BY <1>1 DEF Outcome
<1>3. Ends(t, outcome, why, Nothing)
  BY <1>1, <1>2 DEF Ends
<1>4. outcome = "none" => Of(wire \union effects, call[t].num) = {}
  BY <1>1, NothingAsked
<1>5. (why = "stale" /\ KeysOfAx) => Reason(t)
  BY RefusalHasReason
<1>6. Nothing \in ObservationType /\ stored' \union {latest'} \subseteq ObservationType
  BY IdleType DEF AccessInv, TypeInv, TypeOK
<1> QED
  BY <1>2, <1>3, <1>4, <1>5, <1>6, EndInv

(* A call that ends after it asked for an effect says that it is unknown,  *)
(* unless it scrolls by pages.                                             *)
LEMMA FailInv ==
  ASSUME AccessInv, NEW t \in Thread, Waiting(t), NEW outcome \in {"unknown", Failed(t)},
         End(t, outcome, "other"),
         UNCHANGED <<desktopVars, effectVars, stored, latest, returned, calls>>
  PROVE  Keeps
<1>1. Active(t)
  BY IdleType DEF AccessInv, TypeInv, Waiting
<1>2. outcome \in Outcome /\ outcome # "ok"
  BY DEF Failed, SoFar, Outcome
<1>3. ScrollsElsewhere => outcome = "unknown"
  <2>1. PICK n : n = Len(Steps(t))
    OBVIOUS
  <2>2. /\ ProgramStep(backend, call[t].op, Steps(t), call[t].at)
        /\ <<backend, call[t].op>> \in Offered /\ call[t].at \in Effects(t)
        /\ Current(t) \in Effecting
    BY <1>1, <2>1, StepTypes DEF AccessInv, TypeInv, RequestInv, Current
  <2>3. Current(t) = "page" => backend = "ax" /\ call[t].op = "scroll"
    BY <2>2
    DEF ProgramStep, Acting, ActingStep, Borrowing, BorrowingStep, ObservingStep, Current,
        Effecting, Seeing
  <2> QED
    BY <2>2, <2>3 DEF Failed, ScrollsElsewhere
<1>4. Ends(t, outcome, "other", Nothing)
  BY <1>1, <1>2 DEF Ends
<1>5. Nothing \in ObservationType /\ stored' \union {latest'} \subseteq ObservationType
  BY IdleType DEF AccessInv, TypeInv, TypeOK
<1> QED
  BY <1>2, <1>3, <1>4, <1>5, EndInv

-----------------------------------------------------------------------------
(* The actions                                                             *)

(* What a call learns in a step.                                           *)
Learns(t, got) ==
  /\ got \in ObservationType /\ Past(got)
  /\ IF Current(t) = "persist"
     THEN got = [call[t].got EXCEPT !.id = call[t].num] /\ got \in stored'
     ELSE got = IF Current(t) \in Seeing \union {"glance"} THEN Seen(t) ELSE call[t].got
  /\ Current(t) \in {"display", "window", "place", "face", "named"} => Holds(t)
  /\ Current(t) \in Effecting => call[t].reply = "done"

(* A step that learns keeps the invariant.                                 *)
LEMMA LearnInv ==
  ASSUME AccessInv, NEW t \in Thread, NEW got, Moves(t, got), Learns(t, got),
         stored' \union {latest'} \subseteq ObservationType, stored \subseteq stored'
  PROVE  Keeps
<1>1. PICK n : n = Len(Steps(t))
  OBVIOUS
<1>2. ProgramStep(backend, call[t].op, Steps(t), call[t].at)
  BY <1>1, Moved, StepTypes DEF AccessInv
<1>3. Acts(t) => ActInv(t)'
  <2>1. SUFFICES ASSUME Acts(t) PROVE ActInv(t)'
    OBVIOUS
  <2>2. Current(t) \notin Seeing \union {"persist"}
    BY <1>2, <2>1 DEF ProgramStep, Acts, ActingStep, Current
  <2>3. /\ \A a \in Aspect : got.saw[a] = call[t].got.saw[a]
        /\ got.saw.ready = call[t].got.saw.ready /\ got.stable = call[t].got.stable
    <3>1. CASE Current(t) = "glance"
      <4>1. got = Seen(t)
        BY <3>1 DEF Learns
      <4> QED
        BY <2>2, <4>1, SeenFields DEF AccessInv, Aspect, Seeing
    <3>2. CASE Current(t) # "glance"
      BY <2>2, <3>2 DEF Learns
    <3> QED
      BY <3>1, <3>2
  <2> QED
    BY <2>1, <2>3, ActMoves DEF Learns
<1>4. Borrows(t) => BorrowInv(t)'
  <2>1. SUFFICES ASSUME Borrows(t) PROVE BorrowInv(t)'
    OBVIOUS
  <2>2. IF Current(t) = "persist" THEN got.id = call[t].num ELSE got.id = call[t].got.id
    <3>1. CASE Current(t) = "persist"
      <4>1. PICK g \in ObservationType : g = call[t].got
        BY DEF AccessInv, TypeInv, CallType
      <4> QED
        BY <3>1, <4>1 DEF Learns, ObservationType
    <3>2. CASE Current(t) \in Seeing \union {"glance"}
      <4>1. Current(t) # "persist" /\ got = Seen(t)
        BY <3>2 DEF Learns, Seeing
      <4> QED
        BY <4>1, SeenFields DEF AccessInv
    <3>3. CASE Current(t) \notin Seeing \union {"glance", "persist"}
      BY <3>3 DEF Learns
    <3> QED
      BY <3>1, <3>2, <3>3
  <2> QED
    BY <2>1, <2>2, BorrowMoves DEF Learns
<1>5. Observes(t) => ObserveInv(t)'
  <2>1. SUFFICES ASSUME Observes(t) PROVE ObserveInv(t)'
    OBVIOUS
  <2>2. Current(t) # "glance"
    BY <1>2, <2>1 DEF ProgramStep, Observes, ObservingStep, Current, Seeing
  <2> QED
    BY <2>1, <2>2, ObserveMoves DEF Learns
<1> QED
  BY <1>3, <1>4, <1>5, MoveInv DEF Learns

(* A call that goes on, or ends well behind its last step.                 *)
LEMMA AdvanceInv ==
  ASSUME AccessInv, NEW t \in Thread, Active(t), NEW got, Learns(t, got), Advance(t, got),
         UNCHANGED <<desktopVars, effectVars, calls>>,
         stored' \union {latest'} \subseteq ObservationType, stored \subseteq stored'
  PROVE  Keeps
<1>1. PICK n : n = Len(Steps(t))
  OBVIOUS
<1>2. /\ ProgramStep(backend, call[t].op, Steps(t), call[t].at)
      /\ n \in Nat /\ call[t].at \in 1..n /\ call[t].num \in 1..calls
      /\ Effects(t) = {i \in 1..n : Steps(t)[i] \in Effecting}
  BY <1>1, StepTypes DEF AccessInv, TypeInv, TypeOK, NumberInv
<1>3. CASE call[t].at < n
  <2>1. /\ call' = [call EXCEPT ![t].at = @ + 1, ![t].got = got, ![t].reply = "none"]
        /\ UNCHANGED <<lock, answers, returned>>
    BY <1>1, <1>2, <1>3 DEF Advance
  <2>2. call' = [call EXCEPT ![t] = [call[t] EXCEPT !.at = @ + 1, !.got = got, !.reply = "none"]]
    BY <2>1 DEF AccessInv, TypeInv, CallType
  <2>3. Moves(t, got)
    BY <1>1, <1>3, <2>1, <2>2 DEF Moves
  <2> QED
    BY <2>3, LearnInv
<1>4. CASE call[t].at = n
  <2>1. /\ End(t, "ok", "done")
        /\ returned' = returned \union (IF Observes(t) THEN {got} ELSE {})
    BY <1>1, <1>4 DEF Advance, Observes
  <2>2. "ok" \in Outcome /\ Ends(t, "ok", "done", got)
    BY <2>1 DEF Ends, Outcome
  <2>3. ASSUME Observes(t)
        PROVE  got \in stored' /\ Past(got) /\ got.id <= calls /\ Frame(got)
    <3>1. ObservingStep(backend, Steps(t), n)
      BY <1>2, <1>4, <2>3 DEF ProgramStep, Observes
    <3>2. /\ Current(t) \in {"persist", "keep"}
          /\ Current(t) = "keep" => Passed(t, "persist")
          /\ backend # "ax" => /\ Confirmed(t, "display") /\ Confirmed(t, "window")
                               /\ Passed(t, "see_face")
      BY <1>1, <1>4, <3>1 DEF ObservingStep, Passed, Confirmed, Current
    <3>3. PICK g \in ObservationType : g = call[t].got
      BY DEF AccessInv, TypeInv, CallType
    <3>4. ObserveInv(t)
      BY <2>3 DEF AccessInv, LookInv
    <3>5. Frame(g)
      BY <3>2, <3>3, <3>4 DEF ObserveInv, Place, Frame
    <3>6. /\ got \in stored' /\ got.id = call[t].num
          /\ got.sampled = g.sampled /\ got.saw = g.saw
      <4>1. CASE Current(t) = "persist"
        BY <3>3, <4>1 DEF Learns, ObservationType
      <4>2. CASE Current(t) = "keep"
        BY <3>2, <3>3, <3>4, <4>2 DEF Learns, ObserveInv, Seeing
      <4> QED
        BY <3>2, <4>1, <4>2
    <3> QED
      BY <1>2, <3>5, <3>6 DEF Learns, Frame
  <2>4. \A i \in Effects(t) : Request(t, i) \in effects
    <3>1. \A i \in Effects(t) : i < call[t].at \/ (i = call[t].at /\ call[t].reply = "done")
      BY <1>2, <1>4 DEF Learns, Current
    <3> QED
      BY <3>1 DEF AccessInv, RequestInv
  <2> QED
    BY <2>2, <2>3, <2>4, EndInv DEF Learns
<1> QED
  BY <1>1, <1>2, <1>3, <1>4

(* One lemma for each action.                                              *)
LEMMA LookKeeps ==
  ASSUME AccessInv, NEW t \in Thread, Look(t)
  PROVE  Keeps
<1>1. /\ Active(t) /\ ~Waiting(t) /\ Current(t) \notin Local
      /\ UNCHANGED <<desktopVars, effectVars, stored, latest, calls>>
  BY DEF Look
<1>2. stored' \union {latest'} \subseteq ObservationType
  BY <1>1 DEF AccessInv, TypeInv, TypeOK
<1>3. CASE Holds(t)
  <2>1. PICK seen : seen = Seen(t) /\ Advance(t, seen)
    BY <1>3 DEF Look
  <2>2. seen \in ObservationType /\ Past(seen)
    BY <1>1, <2>1, SeenFields, SeenIsPast DEF AccessInv
  <2>3. Current(t) \notin Seeing \union {"glance"} => seen = call[t].got
    BY <2>1 DEF Seen, Seeing
  <2>4. Current(t) # "persist" /\ Current(t) \notin Effecting
    BY <1>1 DEF Local
  <2>5. Learns(t, seen)
    BY <1>3, <2>1, <2>2, <2>3, <2>4 DEF Learns
  <2> QED
    BY <1>1, <1>2, <2>1, <2>5, AdvanceInv
<1>4. CASE ~Holds(t)
  BY <1>1, <1>4, StopInv DEF Look
<1> QED
  BY <1>3, <1>4

LEMMA RefuseKeeps ==
  ASSUME AccessInv, NEW t \in Thread, Refuse(t)
  PROVE  Keeps
BY StopInv DEF Refuse, observationVars

LEMMA LockKeeps ==
  ASSUME AccessInv, NEW t \in Thread, Lock(t)
  PROVE  Keeps
<1>1. PICK n : n = Len(Steps(t))
  OBVIOUS
<1>2. Active(t) /\ ~Waiting(t) /\ Current(t) = "lock"
  BY DEF Lock, At
<1>3. /\ ProgramStep(backend, call[t].op, Steps(t), call[t].at)
      /\ n \in Nat /\ call[t].at \in 1..n
  BY <1>1, <1>2, StepTypes DEF AccessInv
<1>4. PICK got \in ObservationType : got = call[t].got /\ Past(got)
  BY <1>2 DEF AccessInv, TypeInv, CallType, SourceInv
<1>5. Moves(t, got)
  <2>1. call[t].at < n
    BY <1>1, <1>2, <1>3 DEF ProgramStep, Current
  <2>2. [call[t] EXCEPT !.at = @ + 1]
          = [call[t] EXCEPT !.at = @ + 1, !.got = got, !.reply = "none"]
    BY <1>2, <1>4 DEF Waiting, AccessInv, TypeInv, CallType
  <2>3. call' = [call EXCEPT ![t] = [call[t] EXCEPT !.at = @ + 1]]
    BY DEF Lock, AccessInv, TypeInv
  <2> QED
    BY <1>1, <1>2, <2>1, <2>2, <2>3 DEF Moves, Lock, observationVars
<1>6. Learns(t, got)
  BY <1>2, <1>4 DEF Learns, Seeing, Effecting
<1> QED
  BY <1>5, <1>6, LearnInv DEF Lock, observationVars, AccessInv, TypeInv, TypeOK

LEMMA PersistKeeps ==
  ASSUME AccessInv, NEW t \in Thread, Persist(t)
  PROVE  Keeps
<1>1. Active(t) /\ Current(t) = "persist"
  BY DEF Persist, At
<1>2. PICK g, made :
        /\ g \in ObservationType /\ g = call[t].got /\ Past(g)
        /\ made = [call[t].got EXCEPT !.id = call[t].num]
  BY <1>1 DEF AccessInv, TypeInv, CallType, SourceInv
<1>3. /\ stored' = stored \union {made} /\ Advance(t, made)
      /\ UNCHANGED <<desktopVars, effectVars, latest, calls>>
  BY <1>2 DEF Persist
<1>4. made \in ObservationType /\ Past(made)
  <2>1. call[t].num \in 0..MaxCalls
    BY AccessibilityAssumption DEF AccessInv, TypeInv, TypeOK
  <2>2. made \in ObservationType /\ made.saw = g.saw /\ made.sampled = g.sampled
    BY <1>2, <2>1 DEF ObservationType
  <2> QED
    BY <1>2, <2>2 DEF Past
<1>5. Learns(t, made)
  BY <1>1, <1>2, <1>3, <1>4 DEF Learns, Effecting
<1>6. stored' \union {latest'} \subseteq ObservationType /\ stored \subseteq stored'
  BY <1>3, <1>4 DEF AccessInv, TypeInv, TypeOK
<1> QED
  BY <1>1, <1>3, <1>5, <1>6, AdvanceInv

LEMMA KeepKeeps ==
  ASSUME AccessInv, NEW t \in Thread, Keep(t)
  PROVE  Keeps
<1>1. Active(t) /\ Current(t) = "keep"
  BY DEF Keep, At
<1>2. PICK got \in ObservationType : got = call[t].got /\ Past(got)
  BY <1>1 DEF AccessInv, TypeInv, CallType, SourceInv
<1>3. /\ latest' = got /\ Advance(t, got) /\ UNCHANGED <<desktopVars, effectVars, stored, calls>>
  BY <1>2 DEF Keep
<1>4. Learns(t, got)
  BY <1>1, <1>2 DEF Learns, Seeing, Effecting
<1>5. stored' \union {latest'} \subseteq ObservationType
  BY <1>2, <1>3 DEF AccessInv, TypeInv, TypeOK
<1> QED
  BY <1>1, <1>3, <1>4, <1>5, AdvanceInv

LEMMA HearKeeps ==
  ASSUME AccessInv, NEW t \in Thread, Hear(t)
  PROVE  Keeps
<1>1. /\ Waiting(t) /\ UNCHANGED <<desktopVars, effectVars, stored, latest, calls>>
  BY DEF Hear, Waiting
<1>2. Active(t) /\ Current(t) \in Effecting
  <2>1. Active(t)
    BY <1>1, IdleType DEF AccessInv, TypeInv, Waiting
  <2>2. PICK n : n = Len(Steps(t))
    OBVIOUS
  <2> QED
    BY <1>1, <2>1, <2>2, StepTypes DEF AccessInv, RequestInv, Current
<1>3. CASE call[t].reply = "done" /\ Advance(t, call[t].got)
  <2>1. PICK got \in ObservationType : got = call[t].got /\ Past(got)
    BY <1>2 DEF AccessInv, TypeInv, CallType, SourceInv
  <2>2. Learns(t, got)
    BY <1>2, <1>3, <2>1 DEF Learns, Seeing, Effecting
  <2>3. stored' \union {latest'} \subseteq ObservationType
    BY <1>1 DEF AccessInv, TypeInv, TypeOK
  <2> QED
    BY <1>1, <1>2, <1>3, <2>1, <2>2, <2>3, AdvanceInv
<1>4. CASE \E outcome \in {"unknown", Failed(t)} :
             End(t, outcome, "other") /\ UNCHANGED returned
  BY <1>1, <1>4, FailInv
<1> QED
  BY <1>3, <1>4 DEF Hear

LEMMA GiveUpKeeps ==
  ASSUME AccessInv, NEW t \in Thread, GiveUp(t)
  PROVE  Keeps
BY FailInv DEF GiveUp, Waiting, observationVars

(* A step that changes of the calls only what they heard, and requests.    *)
Hears ==
  /\ call' \in [Thread -> CallType]
  /\ \A u \in Thread :
       /\ call'[u].op = call[u].op /\ call'[u].num = call[u].num /\ call'[u].at = call[u].at
       /\ call'[u].named = call[u].named /\ call'[u].got = call[u].got
       /\ call'[u].began = call[u].began
       /\ ~Active(u) => call'[u] = call[u]
  /\ UNCHANGED <<desktopVars, observationVars, lock, calls, answers>>

(* The operation of such a call, its effects and requests are the same.    *)
LEMMA HearsSame ==
  ASSUME Hears, NEW u \in Thread
  PROVE  /\ \A s : (Passed(u, s)' <=> Passed(u, s)) /\ (Confirmed(u, s)' <=> Confirmed(u, s))
         /\ (Active(u)' <=> Active(u)) /\ (Observes(u)' <=> Observes(u))
         /\ (Borrows(u)' <=> Borrows(u)) /\ (Acts(u)' <=> Acts(u))
         /\ Effects(u)' = Effects(u) /\ Steps(u)' = Steps(u)
         /\ \A i : Request(u, i)' = Request(u, i)
<1>1. Steps(u)' = Steps(u) /\ call'[u].at = call[u].at /\ backend' = backend
  BY DEF Steps, Hears, desktopVars
<1>2. \A s : Passed(u, s)' <=> Passed(u, s)
  BY <1>1 DEF Passed, Before
<1>3. \A s : Confirmed(u, s)' <=> Confirmed(u, s)
  BY <1>1 DEF Confirmed, Between, Before
<1> QED
  BY <1>1, <1>2, <1>3 DEF Hears, Active, Observes, Borrows, Acts, Effects, Request

(* It knows what it knew.                                                  *)
LEMMA HearsKeeps ==
  ASSUME AccessInv, Hears, wire' \union effects' \subseteq MessageType,
         \A m \in wire' \union effects' : m.num \in 1..calls
  PROVE  TypeInv' /\ NumberInv' /\ SourceInv' /\ LookInv' /\ Framed
<1> USE DEF Hears, desktopVars, observationVars
<1>1. TypeInv'
  <2>1. /\ \A u \in Thread : /\ call'[u].num \in 0..calls'
                             /\ Active(u)' => call'[u].at \in DOMAIN Steps(u)'
                             /\ {call'[u].named, call'[u].got} \subseteq ObservationType
                             /\ call'[u].reply \in {"none", "awaited", "done", "odd"}
    BY HearsSame DEF AccessInv, TypeInv, TypeOK, CallType
  <2>2. lock' \in {Free} \union {call'[u].num : u \in {v \in Thread : Active(v)'}}
    BY HearsSame DEF AccessInv, TypeInv, TypeOK
  <2>3. \A m \in wire' \union effects' : m.num \in 1..calls' /\ m.began \in DesktopType
    BY DEF MessageType
  <2>4. TypeOK'
    BY <2>1, <2>2, <2>3 DEF AccessInv, TypeInv, TypeOK
  <2> QED
    BY <2>4, HearsSame DEF AccessInv, TypeInv
<1>2. NumberInv'
  BY HearsSame DEF AccessInv, NumberInv
<1>3. SourceInv'
  BY HearsSame DEF AccessInv, SourceInv, Past
<1>4. LookInv'
  <2>1. ASSUME NEW u \in Thread, Active(u)'
        PROVE  /\ Acts(u)' => ActInv(u)'
               /\ Borrows(u)' => BorrowInv(u)'
               /\ Observes(u)' => ObserveInv(u)'
    <3>1. Acts(u)' => ActInv(u)'
      BY <2>1, HearsSame DEF AccessInv, LookInv, ActInv
    <3>2. Borrows(u)' => BorrowInv(u)'
      BY <2>1, HearsSame DEF AccessInv, LookInv, BorrowInv
    <3>3. Observes(u)' => ObserveInv(u)'
      BY <2>1, HearsSame DEF AccessInv, LookInv, ObserveInv
    <3> QED
      BY <3>1, <3>2, <3>3
  <2> QED
    BY <2>1 DEF LookInv
<1>5. Framed
  BY DEF Framed
<1> QED
  BY <1>1, <1>2, <1>3, <1>4, <1>5

LEMMA PerformKeeps ==
  ASSUME AccessInv, NEW t \in Thread, Perform(t)
  PROVE  Keeps
<1>1. PICK i, r : i = call[t].at /\ r = Request(t, i)
  OBVIOUS
<1>2. /\ Active(t) /\ ~Waiting(t) /\ Current(t) \in Effecting
      /\ wire' = wire \union {r} /\ effects' = effects
      /\ call' = [call EXCEPT ![t].reply = "awaited"]
      /\ UNCHANGED <<desktopVars, observationVars, lock, calls, answers>>
  BY <1>1 DEF Perform, At, Request
<1>3. PICK n : n = Len(Steps(t))
  OBVIOUS
<1>4. /\ ProgramStep(backend, call[t].op, Steps(t), i) /\ i \in Effects(t) /\ i \in Nat
      /\ call[t] \in CallType /\ call[t].num \in 1..calls /\ backend \in Backend
  BY <1>1, <1>2, <1>3, StepTypes DEF AccessInv, TypeInv, TypeOK, NumberInv, Current
<1>5. r \in MessageType /\ r.num = call[t].num /\ r.at = i
      /\ r.named = call[t].named /\ r.began = call[t].began
  BY <1>1, <1>4 DEF Request, MessageType, CallType
<1>6. Hears
  <2>1. [call[t] EXCEPT !.reply = "awaited"] \in CallType
    BY <1>4 DEF CallType
  <2>2. /\ call' = [call EXCEPT ![t] = [call[t] EXCEPT !.reply = "awaited"]]
        /\ call' \in [Thread -> CallType]
    BY <1>2, <2>1 DEF AccessInv, TypeInv
  <2> QED
    BY <1>2, <1>4, <2>2 DEF Hears, AccessInv, TypeInv, CallType
<1>7. call'[t].reply = "awaited" /\ \A u \in Thread \ {t} : call'[u] = call[u]
  BY <1>2, <1>4 DEF AccessInv, TypeInv, CallType
<1>8. TypeInv' /\ NumberInv' /\ SourceInv' /\ LookInv' /\ Framed
  <2>1. wire' \union effects' \subseteq MessageType
    BY <1>2, <1>5 DEF AccessInv, TypeInv
  <2>2. \A m \in wire' \union effects' : m.num \in 1..calls
    BY <1>2, <1>4, <1>5 DEF AccessInv, TypeInv, TypeOK
  <2> QED
    BY <1>6, <2>1, <2>2, HearsKeeps
<1>9. RequestInv'
  <2>1. r \notin effects
    BY <1>1, <1>2, <1>4, <1>5 DEF AccessInv, RequestInv
  <2>2. ASSUME NEW u \in Thread, Active(u)'
        PROVE  /\ Waiting(u)' => call'[u].at \in Effects(u)'
               /\ \A m \in wire' \union effects' : m.num = call'[u].num =>
                    /\ m.at \in Effects(u)' /\ m = Request(u, m.at)'
                    /\ m.at < call'[u].at \/ (m.at = call'[u].at /\ Waiting(u)')
               /\ \A j \in Effects(u)' :
                    (j < call'[u].at \/ (j = call'[u].at /\ call'[u].reply = "done")) =>
                      Request(u, j)' \in effects'
    <3>1. Active(u) /\ Effects(u)' = Effects(u) /\ \A j : Request(u, j)' = Request(u, j)
      BY <1>6, <2>2, HearsSame
    <3>2. CASE u = t
      <4>1. Waiting(t)' /\ call'[t].at = i /\ call'[t].num = call[t].num
        BY <1>1, <1>6, <1>7 DEF Waiting, Hears
      <4>2. \A m \in wire \union effects : m.num = call[t].num =>
              m.at \in Effects(t) /\ m = Request(t, m.at) /\ m.at < i
        BY <1>1, <1>2 DEF AccessInv, RequestInv
      <4>3. \A j \in Effects(t) : j < i => Request(t, j) \in effects
        BY <1>1, <1>2 DEF AccessInv, RequestInv
      <4> QED
        BY <1>1, <1>2, <1>4, <1>5, <1>7, <3>1, <3>2, <4>1, <4>2, <4>3
    <3>3. CASE u # t
      <4>1. call'[u] = call[u] /\ (Waiting(u)' <=> Waiting(u)) /\ call[u].num # r.num
        BY <1>2, <1>5, <1>7, <3>1, <3>3 DEF Waiting, AccessInv, NumberInv
      <4> QED
        BY <1>2, <3>1, <4>1 DEF AccessInv, RequestInv
    <3> QED
      BY <3>2, <3>3
  <2>3. wire' \intersect effects' = {}
    BY <1>2, <2>1 DEF AccessInv, RequestInv
  <2> QED
    BY <2>2, <2>3 DEF RequestInv
<1>10. AnswerInv'
  <2>1. \A a \in answers : a.num # r.num
    BY <1>2, <1>5 DEF AccessInv, NumberInv
  <2>2. \A a \in answers : Answered(a) => Answered(a)'
    <3>1. \A a \in answers : /\ Of(wire, a.num)' = Of(wire, a.num)
                             /\ Of(wire \union effects, a.num)' = Of(wire \union effects, a.num)
      BY <1>2, <2>1 DEF Of
    <3>2. \A a, x, y : Told(a, x, y)' <=> Told(a, x, y)
      BY <1>2 DEF Told, Of, desktopVars
    <3> QED
      BY <3>1, <3>2 DEF Answered
  <2> QED
    BY <1>2, <2>2 DEF AccessInv, AnswerInv, Answered, RefusedWithReason
<1>11. Noticed
  <2>1. Acts(t)
    <3>1. ~Observes(t)
      BY <1>1, <1>2, <1>4 DEF ProgramStep, Observes, ObservingStep, Current, Seeing, Effecting
    <3>2. ~Borrows(t)
      BY <1>1, <1>2, <1>4
      DEF ProgramStep, Borrows, BorrowingStep, Current, Passed, AccessInv, LookInv, BorrowInv
    <3> QED
      BY <3>1, <3>2 DEF Acts, Acting, Observes, Borrows, Borrowing
  <2>2. Passed(t, "display") /\ Passed(t, "window") /\ Passed(t, "place") /\ Passed(t, "face")
    BY <1>1, <1>2, <1>4, <2>1 DEF ProgramStep, Acts, ActingStep, Current, Passed
  <2>3. ActInv(t)
    BY <1>2, <2>1 DEF AccessInv, LookInv
  <2>4. \A a \in Aspect \ (IF backend = "ax" THEN {"actions"} ELSE {}) :
          Shown(a, r.named.saw[a], r.began[a], desktop[a])
    BY <1>5, <2>2, <2>3 DEF ActInv, Aspect
  <2> QED
    BY <1>2, <2>4 DEF Noticed
<1> QED
  BY <1>8, <1>9, <1>10, <1>11 DEF AccessInv, Keeps

LEMMA ObeyKeeps ==
  ASSUME AccessInv, NEW m \in wire, Obey(m)
  PROVE  Keeps
<1>1. PICK kind \in {"done", "odd"} :
        /\ Reply(m, kind)
        /\ wire' = wire \ {m}
        /\ effects' = effects \/ effects' = effects \union {m}
        /\ kind = "done" => m \in effects'
        /\ UNCHANGED <<desktopVars, observationVars, lock, calls, answers>>
  BY DEF Obey
<1>2. m.num \in 1..calls /\ m \in MessageType /\ calls \in Nat
  BY DEF AccessInv, TypeInv, TypeOK
<1>3. \A u \in Thread :
        \/ call'[u] = call[u]
        \/ /\ call[u].num = m.num /\ call[u].at = m.at /\ call[u].reply = "awaited"
           /\ call'[u] = [call[u] EXCEPT !.reply = kind]
  BY <1>1 DEF Reply
<1>4. Hears
  <2>1. \A c \in CallType : [c EXCEPT !.reply = kind] \in CallType
    BY DEF CallType
  <2>2. call' \in [Thread -> CallType]
    BY <1>1, <2>1 DEF Reply, AccessInv, TypeInv
  <2>3. \A u \in Thread : ~Active(u) => call[u].reply # "awaited"
    BY IdleType DEF AccessInv, TypeInv
  <2> QED
    BY <1>1, <1>3, <2>2, <2>3 DEF Hears, AccessInv, TypeInv, CallType
<1>5. TypeInv' /\ NumberInv' /\ SourceInv' /\ LookInv' /\ Framed
  <2>1. wire' \union effects' \subseteq wire \union effects
    BY <1>1
  <2> QED
    BY <1>4, <2>1, HearsKeeps DEF AccessInv, TypeInv, TypeOK
<1>6. RequestInv'
  <2>1. ASSUME NEW u \in Thread, Active(u)'
        PROVE  /\ Waiting(u)' => call'[u].at \in Effects(u)'
               /\ \A r \in wire' \union effects' : r.num = call'[u].num =>
                    /\ r.at \in Effects(u)' /\ r = Request(u, r.at)'
                    /\ r.at < call'[u].at \/ (r.at = call'[u].at /\ Waiting(u)')
               /\ \A j \in Effects(u)' :
                    (j < call'[u].at \/ (j = call'[u].at /\ call'[u].reply = "done")) =>
                      Request(u, j)' \in effects'
    <3>1. /\ Active(u) /\ Effects(u)' = Effects(u) /\ \A j : Request(u, j)' = Request(u, j)
          /\ call'[u].num = call[u].num /\ call'[u].at = call[u].at
      BY <1>4, <2>1, HearsSame DEF Hears
    <3>2. Waiting(u)' <=> Waiting(u)
      BY <1>3 DEF Waiting, AccessInv, TypeInv, CallType
    <3>3. wire' \union effects' \subseteq wire \union effects /\ effects \subseteq effects'
      BY <1>1
    <3>4. \A r \in wire \union effects : r.num = call[u].num =>
            /\ r.at \in Effects(u) /\ r = Request(u, r.at)
            /\ r.at < call[u].at \/ (r.at = call[u].at /\ Waiting(u))
      BY <3>1 DEF AccessInv, RequestInv
    <3>5. /\ Waiting(u) => call[u].at \in Effects(u)
          /\ \A j \in Effects(u) : (j < call[u].at \/ (j = call[u].at /\ call[u].reply = "done")) =>
                                     Request(u, j) \in effects
      BY <3>1 DEF AccessInv, RequestInv
    <3>6. call'[u].reply = "done" => call[u].reply = "done" \/ Request(u, call[u].at) \in effects'
      <4>1. CASE call'[u] = call[u]
        BY <4>1
      <4>2. CASE /\ call[u].num = m.num /\ call[u].at = m.at
                 /\ call'[u] = [call[u] EXCEPT !.reply = kind]
        <5>1. call'[u].reply = kind
          BY <4>2 DEF AccessInv, TypeInv, CallType
        <5>2. m = Request(u, call[u].at)
          BY <3>4, <4>2
        <5> QED
          BY <1>1, <5>1, <5>2
      <4> QED
        BY <1>3, <4>1, <4>2
    <3> QED
      BY <3>1, <3>2, <3>3, <3>4, <3>5, <3>6
  <2>2. wire' \intersect effects' = {}
    BY <1>1 DEF AccessInv, RequestInv
  <2> QED
    BY <2>1, <2>2 DEF RequestInv
<1>7. AnswerInv'
  <2>1. ASSUME NEW a \in answers PROVE Answered(a)'
    <3>1. Answered(a)
      BY DEF AccessInv, AnswerInv, Answered
    <3>2. ASSUME a.outcome = "ok"
          PROVE  Of(wire, a.num)' = {} /\ \E x \in MessageType : Told(a, x.named, x.began)'
      <4>1. Of(wire, a.num) = {} /\ \E x \in MessageType : Told(a, x.named, x.began)
        BY <3>1, <3>2 DEF Answered
      <4>2. m.num # a.num
        BY <4>1 DEF Of
      <4>3. Of(effects, a.num)' = Of(effects, a.num) /\ Of(wire, a.num)' = {}
        BY <1>1, <4>1, <4>2 DEF Of
      <4>4. \A x, y : Told(a, x, y)' <=> Told(a, x, y)
        BY <1>1, <4>3 DEF Told, desktopVars
      <4> QED
        BY <4>1, <4>3, <4>4
    <3>3. Of(wire \union effects, a.num)' \subseteq Of(wire \union effects, a.num)
      BY <1>1 DEF Of
    <3> QED
      BY <3>1, <3>2, <3>3 DEF Answered
  <2> QED
    BY <1>1, <2>1 DEF AccessInv, AnswerInv, Answered, RefusedWithReason
<1>8. Noticed
  BY <1>1 DEF Noticed
<1> QED
  BY <1>5, <1>6, <1>7, <1>8 DEF AccessInv, Keeps

(* The desktop moves forward, aspect by aspect.                            *)
LEMMA VersionsGrow ==
  ASSUME AccessInv, Change
  PROVE  /\ desktop' \in DesktopType /\ changes' = changes + 1 /\ changes' \in 0..MaxChanges
         /\ \A a \in Aspect : desktop[a] <= desktop'[a] /\ desktop'[a] <= changes'
<1>1. /\ desktop \in DesktopType /\ changes' = changes + 1 /\ changes' \in 0..MaxChanges
      /\ changes \in Nat /\ changes < MaxChanges /\ MaxChanges \in Nat
      /\ \A a \in Aspect : desktop[a] <= changes /\ desktop[a] \in Nat
  BY AccessibilityAssumption
  DEF Change, Count, AccessInv, TypeInv, TypeOK, DesktopType, Version, Aspect
<1>2. CASE \E a \in Aspect : desktop' = [desktop EXCEPT ![a] = @ + 1]
  <2>1. PICK a \in Aspect : desktop' = [desktop EXCEPT ![a] = @ + 1]
    BY <1>2
  <2>2. desktop[a] + 1 \in Version /\ desktop[a] + 1 <= changes'
    BY <1>1 DEF Version
  <2>3. desktop' \in DesktopType
    BY <1>1, <2>1, <2>2 DEF DesktopType, Aspect
  <2>4. \A b \in Aspect : desktop'[b] = IF b = a THEN desktop[b] + 1 ELSE desktop[b]
    BY <1>1, <2>1 DEF DesktopType, Aspect
  <2> QED
    BY <1>1, <2>2, <2>3, <2>4
<1>3. CASE desktop' = [desktop EXCEPT !.ready = ~@] \/ desktop' = [desktop EXCEPT !.focus = ~@]
  <2>1. desktop' \in DesktopType /\ \A b \in Aspect : desktop'[b] = desktop[b]
    BY <1>1, <1>3 DEF DesktopType, Aspect
  <2> QED
    BY <1>1, <2>1
<1> QED
  BY <1>1, <1>2, <1>3 DEF Change

LEMMA ChangeKeeps ==
  ASSUME AccessInv, Change
  PROVE  Keeps
<1>1. /\ UNCHANGED <<backend, effectVars, observationVars, lock, call, calls, answers>>
      /\ desktop' \in DesktopType /\ changes' \in 0..MaxChanges
      /\ \A a \in Aspect : desktop[a] <= desktop'[a] /\ desktop'[a] <= changes'
  BY VersionsGrow DEF Change
<1> USE <1>1 DEF effectVars, observationVars
<1>2. TypeInv'
  BY DEF AccessInv, TypeInv, TypeOK, Active, Steps
<1>3. NumberInv'
  BY DEF AccessInv, NumberInv, Active
<1>4. SourceInv'
  <2>1. \A a \in Aspect : desktop[a] \in Nat /\ desktop'[a] \in Nat
    BY AccessibilityAssumption
    DEF AccessInv, TypeInv, TypeOK, DesktopType, Version, Aspect
  <2>2. \A d \in DesktopType : Older(d, desktop) => Older(d, desktop')
    BY <2>1, AccessibilityAssumption DEF Older, DesktopType, Version, Aspect
  <2>3. \A o \in ObservationType : Past(o) => Past(o)'
    BY <2>2 DEF Past, ObservationType
  <2>4. \A u \in Thread : call[u].got \in ObservationType /\ call[u].began \in DesktopType
    BY DEF AccessInv, TypeInv, CallType
  <2>5. returned \subseteq ObservationType
    BY DEF AccessInv, TypeInv, TypeOK
  <2>6. \A u \in Thread : (Active(u)' <=> Active(u)) /\ (Observes(u)' <=> Observes(u))
    BY DEF Active, Observes
  <2>7. \A u \in Thread : Active(u) =>
          /\ Older(call[u].got.saw, desktop') /\ Older(call[u].got.sampled, desktop')
          /\ Older(call[u].began, desktop')
    BY <2>2, <2>4 DEF AccessInv, SourceInv, Past, ObservationType
  <2> QED
    BY <2>3, <2>5, <2>6, <2>7 DEF AccessInv, SourceInv, Past
<1>5. LookInv'
  <2>1. Forward
    BY AccessibilityAssumption DEF Forward, AccessInv, TypeInv, TypeOK, DesktopType, Version, Aspect
  <2> QED
    BY <2>1, StaysLooked DEF AccessInv, LookInv, Active
<1>6. RequestInv'
  <2>1. \A u \in Thread : /\ (Active(u)' <=> Active(u)) /\ Effects(u)' = Effects(u)
                          /\ (Waiting(u)' <=> Waiting(u)) /\ \A i : Request(u, i)' = Request(u, i)
    BY DEF Active, Effects, Waiting, Request
  <2> QED
    BY <2>1 DEF AccessInv, RequestInv
<1>7. AnswerInv' /\ Noticed /\ Framed
  BY DEF AccessInv, AnswerInv, Told, Of, RefusedWithReason, Noticed, Framed
<1> QED
  BY <1>2, <1>3, <1>4, <1>5, <1>6, <1>7 DEF AccessInv, Keeps

LEMMA RestartKeeps ==
  ASSUME AccessInv, Restart
  PROVE  Keeps
<1>1. /\ UNCHANGED <<backend, desktop, effectVars, stored, returned, calls, answers>>
      /\ latest' = Nothing /\ lock' = Free /\ call' = [t \in Thread |-> Idle]
      /\ changes' = changes + 1 /\ changes' \in 0..MaxChanges
  BY AccessibilityAssumption DEF Restart, Count, AccessInv, TypeInv, TypeOK
<1> USE <1>1 DEF effectVars
<1>2. /\ call' \in [Thread -> CallType]
      /\ \A u \in Thread : call'[u] = Idle /\ ~Active(u)'
  BY IdleType DEF Active
<1>3. TypeInv'
  <2>1. \A u \in Thread : /\ call'[u].num \in 0..calls'
                          /\ {call'[u].named, call'[u].got} \subseteq ObservationType
                          /\ call'[u].reply \in {"none", "awaited", "done", "odd"}
    BY <1>2, IdleType DEF CallType, AccessInv, TypeInv, TypeOK
  <2>2. \A a \in Aspect : desktop[a] <= changes'
    BY AccessibilityAssumption
    DEF AccessInv, TypeInv, TypeOK, DesktopType, Version, Aspect
  <2>3. TypeOK'
    BY <1>2, <2>1, IdleType DEF AccessInv, TypeInv, TypeOK
  <2> QED
    BY <1>2, <2>2, <2>3 DEF AccessInv, TypeInv
<1>4. NumberInv' /\ LookInv'
  BY <1>2 DEF NumberInv, LookInv
<1>5. SourceInv'
  BY <1>2 DEF AccessInv, SourceInv, Past
<1>6. RequestInv'
  BY <1>2 DEF AccessInv, RequestInv
<1>7. AnswerInv' /\ Noticed /\ Framed
  BY DEF AccessInv, AnswerInv, Told, Of, RefusedWithReason, Noticed, Framed
<1> QED
  BY <1>3, <1>4, <1>5, <1>6, <1>7 DEF AccessInv, Keeps

(* A call that begins has a number of its own and has passed no step.      *)
LEMMA BeginCall ==
  ASSUME AccessInv, NEW t \in Thread, NEW op, NEW named \in returned \union {Nothing},
         Begin(t, op, named)
  PROVE  /\ backend \in Backend /\ op \in DOMAIN Program[backend] /\ op # "idle"
         /\ <<backend, op>> \in Offered /\ ~Active(t) /\ named \in ObservationType
         /\ calls' = calls + 1 /\ calls \in Nat /\ calls' \in 0..MaxCalls
         /\ call' \in [Thread -> CallType]
         /\ \A u \in Thread \ {t} : call'[u] = call[u]
         /\ call'[t].op = op /\ call'[t].num = calls' /\ call'[t].at = 1
         /\ call'[t].named = named /\ call'[t].got = named /\ call'[t].began = desktop
         /\ call'[t].reply = "none"
<1>1. /\ backend \in Backend /\ <<backend, op>> \in Offered /\ ~Active(t)
      /\ calls \in 0..MaxCalls /\ calls < MaxCalls /\ calls' = calls + 1
      /\ desktop \in DesktopType /\ call \in [Thread -> CallType]
      /\ call' = [call EXCEPT ![t] = [Idle EXCEPT !.op = op, !.num = calls', !.named = named,
                                                  !.got = named, !.began = desktop]]
  BY DEF Begin, AccessInv, TypeInv, TypeOK
<1>2. op \in DOMAIN Program[backend] /\ op # "idle"
  BY <1>1, AccessibilityAssumption, OperationIsNoIdle
<1>3. named \in ObservationType
  BY IdleType DEF AccessInv, TypeInv, TypeOK
<1>4. calls \in Nat /\ calls' \in 0..MaxCalls /\ calls' \in Nat
  BY <1>1, AccessibilityAssumption
<1>5. op \in Operation
  BY <1>1, <1>2 DEF Operation
<1> DEFINE new == [op |-> op, num |-> calls', at |-> 1, named |-> named, got |-> named,
                   began |-> desktop, reply |-> "none"]
<1>6. call' = [call EXCEPT ![t] = new]
  <2>1. PICK num : num = calls'
    OBVIOUS
  <2>2. PICK a : a = [Idle EXCEPT !.op = op]
    OBVIOUS
  <2>3. a = [op |-> op, num |-> 0, at |-> 1, named |-> Nothing, got |-> Nothing,
             began |-> Undisturbed, reply |-> "none"]
    BY <2>2 DEF Idle
  <2>4. PICK b : b = [a EXCEPT !.num = num]
    OBVIOUS
  <2>5. b = [op |-> op, num |-> num, at |-> 1, named |-> Nothing, got |-> Nothing,
             began |-> Undisturbed, reply |-> "none"]
    BY <2>3, <2>4
  <2>6. PICK c : c = [b EXCEPT !.named = named]
    OBVIOUS
  <2>7. c = [op |-> op, num |-> num, at |-> 1, named |-> named, got |-> Nothing,
             began |-> Undisturbed, reply |-> "none"]
    BY <2>5, <2>6
  <2>8. PICK d : d = [c EXCEPT !.got = named]
    OBVIOUS
  <2>9. d = [op |-> op, num |-> num, at |-> 1, named |-> named, got |-> named,
             began |-> Undisturbed, reply |-> "none"]
    BY <2>7, <2>8
  <2>10. [d EXCEPT !.began = desktop] = new
    BY <2>1, <2>9
  <2> HIDE DEF new
  <2>11. call' = [call EXCEPT ![t] = [d EXCEPT !.began = desktop]]
    BY <1>1, <2>1, <2>2, <2>4, <2>6, <2>8
  <2> QED
    BY <2>10, <2>11
<1>7. new \in CallType
  BY <1>1, <1>3, <1>4, <1>5 DEF CallType
<1>8. call'[t] = new /\ \A u \in Thread \ {t} : call'[u] = call[u]
  BY <1>1, <1>6
<1>9. call' \in [Thread -> CallType]
  BY <1>1, <1>6, <1>7
<1>10. /\ call'[t].op = op /\ call'[t].num = calls' /\ call'[t].at = 1
       /\ call'[t].named = named /\ call'[t].got = named /\ call'[t].began = desktop
       /\ call'[t].reply = "none"
  BY <1>8
<1> HIDE DEF new
<1> QED
  BY <1>1, <1>2, <1>3, <1>4, <1>8, <1>9, <1>10

LEMMA BeginKeeps ==
  ASSUME AccessInv, NEW t \in Thread, NEW op, NEW named \in returned \union {Nothing},
         Begin(t, op, named)
  PROVE  Keeps
<1>1. /\ UNCHANGED <<backend, desktop, changes, wire, effects, stored, latest, returned,
                     lock, answers>>
      /\ (op = "observe") <=> (named = Nothing)
  BY DEF Begin, desktopVars, effectVars, observationVars
<1>2. /\ backend \in Backend /\ op \in DOMAIN Program[backend] /\ op # "idle"
      /\ <<backend, op>> \in Offered /\ ~Active(t) /\ named \in ObservationType
      /\ calls' = calls + 1 /\ calls \in Nat /\ calls' \in 0..MaxCalls
      /\ call' \in [Thread -> CallType]
      /\ \A u \in Thread \ {t} : call'[u] = call[u]
      /\ call'[t].op = op /\ call'[t].num = calls' /\ call'[t].at = 1
      /\ call'[t].named = named /\ call'[t].got = named /\ call'[t].began = desktop
      /\ call'[t].reply = "none"
  BY BeginCall
<1>3. Active(t)' /\ \A u \in Thread \ {t} : Active(u)' <=> Active(u)
  BY <1>2 DEF Active
<1>4. \A u \in Thread : call[u].num \in 0..calls
  BY DEF AccessInv, TypeInv, TypeOK
<1>5. \A m \in wire \union effects : m.num \in 1..calls
  BY DEF AccessInv, TypeInv, TypeOK
<1>6. \A a \in answers : a.num \in 1..calls
  BY DEF AccessInv, TypeInv, TypeOK
<1>7. \A x : ~Passed(t, x)' /\ ~Confirmed(t, x)'
  BY <1>2 DEF Passed, Confirmed, Before, Between
<1>8. TypeInv'
  <2>1. Steps(t)' = Program[backend][op] /\ 1 \in DOMAIN Steps(t)'
    BY <1>1, <1>2, ProgramSteps DEF Steps
  <2>2. \A u \in Thread : /\ call'[u].num \in 0..calls'
                          /\ Active(u)' => call'[u].at \in DOMAIN Steps(u)'
                          /\ {call'[u].named, call'[u].got} \subseteq ObservationType
                          /\ call'[u].reply \in {"none", "awaited", "done", "odd"}
    <3>1. call'[t].num \in 0..calls'
      BY <1>2
    <3>2. ASSUME NEW u \in Thread \ {t}
          PROVE  /\ call'[u].num \in 0..calls'
                 /\ Active(u)' => call'[u].at \in DOMAIN Steps(u)'
                 /\ {call'[u].named, call'[u].got} \subseteq ObservationType
                 /\ call'[u].reply \in {"none", "awaited", "done", "odd"}
      BY <1>1, <1>2, <1>3, <1>4 DEF AccessInv, TypeInv, TypeOK, Steps
    <3> QED
      BY <1>2, <2>1, <3>1, <3>2
  <2>3. lock' \in {Free} \union {call'[u].num : u \in {v \in Thread : Active(v)'}}
    BY <1>1, <1>2, <1>3 DEF AccessInv, TypeInv, TypeOK
  <2>4. /\ \A m \in wire' \union effects' : m.num \in 1..calls' /\ m.began \in DesktopType
        /\ \A a \in answers' : a.num \in 1..calls' /\ a.outcome \in Outcome
    BY <1>1, <1>2, <1>5, <1>6 DEF AccessInv, TypeInv, TypeOK
  <2>5. TypeOK'
    BY <1>1, <1>2, <2>2, <2>3, <2>4 DEF AccessInv, TypeInv, TypeOK
  <2> QED
    BY <1>1, <1>2, <1>3, <2>5 DEF AccessInv, TypeInv
<1>9. NumberInv'
  BY <1>1, <1>2, <1>3, <1>4, <1>6 DEF AccessInv, NumberInv
<1>10. SourceInv'
  <2>1. \A o : Past(o)' <=> Past(o)
    BY <1>1 DEF Past
  <2>2. \A o \in returned : Past(o) /\ o.id <= calls' /\ o.id \in Nat
    BY <1>2 DEF AccessInv, SourceInv, TypeInv, TypeOK, ObservationType
  <2>3. Past(named) /\ named.id <= calls
    <3>1. CASE named \in returned
      BY <3>1 DEF AccessInv, SourceInv
    <3>2. CASE named = Nothing
      <4>1. \A a \in Aspect : desktop[a] \in Nat /\ Undisturbed[a] = 0
        BY AccessibilityAssumption
        DEF AccessInv, TypeInv, TypeOK, DesktopType, Version, Aspect, Undisturbed
      <4> QED
        BY <1>2, <3>2, <4>1 DEF Nothing, Past, Older
    <3> QED
      BY <3>1, <3>2
  <2>4. /\ Past(call'[t].got) /\ Older(call'[t].began, desktop)
        /\ call'[t].named.id < call'[t].num
        /\ IF Observes(t)' THEN call'[t].named = Nothing
           ELSE call'[t].named \in returned /\ call'[t].named # Nothing
    <3>1. \A a \in Aspect : desktop[a] <= desktop[a]
      BY AccessibilityAssumption
      DEF AccessInv, TypeInv, TypeOK, DesktopType, Version, Aspect
    <3>2. named.id < calls'
      BY <1>2, <2>3 DEF ObservationType
    <3>3. Observes(t)' <=> op = "observe"
      BY <1>2 DEF Observes
    <3> QED
      BY <1>1, <1>2, <2>3, <3>1, <3>2, <3>3 DEF Past, Older
  <2>5. ASSUME NEW u \in Thread \ {t}, Active(u)'
        PROVE  /\ Past(call'[u].got) /\ Older(call'[u].began, desktop)
               /\ call'[u].named.id < call'[u].num
               /\ IF Observes(u)' THEN call'[u].named = Nothing
                  ELSE call'[u].named \in returned /\ call'[u].named # Nothing
    BY <1>2, <1>3, <2>5 DEF AccessInv, SourceInv, Observes
  <2> QED
    BY <1>1, <2>1, <2>2, <2>4, <2>5 DEF AccessInv, SourceInv, Past, Older
<1>11. LookInv'
  <2>1. ActInv(t)'
    BY <1>2, <1>7 DEF ActInv
  <2>2. BorrowInv(t)' \/ ~Borrows(t)'
    BY <1>2, <1>7 DEF BorrowInv
  <2>3. ObserveInv(t)'
    BY <1>7 DEF ObserveInv
  <2>4. ASSUME NEW u \in Thread \ {t}, Active(u)'
        PROVE  /\ Acts(u)' => ActInv(u)'
               /\ Borrows(u)' => BorrowInv(u)'
               /\ Observes(u)' => ObserveInv(u)'
    BY <1>1, <1>2, <1>3, <2>4, StaysLooked, StillForward DEF AccessInv
  <2> QED
    BY <2>1, <2>2, <2>3, <2>4 DEF LookInv
<1>12. RequestInv'
  <2>1. ~Waiting(t)'
    BY <1>2 DEF Waiting
  <2>2. \A m \in wire' \union effects' : m.num # call'[t].num
    BY <1>1, <1>2, <1>5
  <2>3. \A i \in Effects(t)' : ~(i < call'[t].at \/ (i = call'[t].at /\ call'[t].reply = "done"))
    <3>1. Effects(t)' \subseteq DOMAIN Program[backend][op]
      BY <1>1, <1>2 DEF Effects, Performing
    <3>2. \A i \in Effects(t)' : i \in Nat /\ i >= 1
      BY <1>2, <3>1, ProgramSteps
    <3> QED
      BY <1>2, <3>2
  <2>4. ASSUME NEW u \in Thread \ {t}, Active(u)'
        PROVE  /\ Waiting(u)' => call'[u].at \in Effects(u)'
               /\ \A m \in wire' \union effects' : m.num = call'[u].num =>
                    /\ m.at \in Effects(u)' /\ m = Request(u, m.at)'
                    /\ m.at < call'[u].at \/ (m.at = call'[u].at /\ Waiting(u)')
               /\ \A i \in Effects(u)' :
                    (i < call'[u].at \/ (i = call'[u].at /\ call'[u].reply = "done")) =>
                      Request(u, i)' \in effects'
    <3>1. call'[u] = call[u] /\ Active(u)
      BY <1>2, <1>3, <2>4
    <3>2. Effects(u)' = Effects(u) /\ (Waiting(u)' <=> Waiting(u))
          /\ \A i : Request(u, i)' = Request(u, i)
      BY <1>1, <3>1 DEF Effects, Waiting, Request
    <3> QED
      BY <1>1, <3>1, <3>2 DEF AccessInv, RequestInv
  <2>5. wire' \intersect effects' = {}
    BY <1>1 DEF AccessInv, RequestInv
  <2> QED
    BY <2>1, <2>2, <2>3, <2>4, <2>5 DEF RequestInv
<1>13. AnswerInv' /\ Noticed /\ Framed
  BY <1>1 DEF AccessInv, AnswerInv, Told, Of, RefusedWithReason, Noticed, Framed
<1> QED
  BY <1>8, <1>9, <1>10, <1>11, <1>12, <1>13 DEF AccessInv, Keeps

(* The invariant holds at first, and in every step.                        *)
LEMMA InitInv == Init => AccessInv
<1> SUFFICES ASSUME Init PROVE AccessInv
  OBVIOUS
<1>1. \A t \in Thread : call[t] = Idle /\ ~Active(t)
  BY IdleType DEF Init, Active
<1>2. call \in [Thread -> CallType]
  BY IdleType DEF Init
<1>3. /\ MaxCalls \in Nat /\ MaxChanges \in Nat /\ backend \in Backend
      /\ desktop = Undisturbed /\ changes = 0 /\ wire = {} /\ effects = {} /\ stored = {}
      /\ latest = Nothing /\ lock = Free /\ returned = {} /\ calls = 0 /\ answers = {}
  BY AccessibilityAssumption DEF Init
<1>4. TypeInv
  <2>1. \A t \in Thread : /\ call[t].num \in 0..calls
                          /\ {call[t].named, call[t].got} \subseteq ObservationType
                          /\ call[t].reply \in {"none", "awaited", "done", "odd"}
    BY <1>1, <1>2, <1>3, IdleType DEF CallType
  <2>2. \A a \in Aspect : desktop[a] <= changes
    BY <1>3 DEF Aspect, Undisturbed
  <2>3. TypeOK
    BY <1>1, <1>3, <2>1, IdleType DEF TypeOK
  <2> QED
    BY <1>1, <1>2, <1>3, <2>2, <2>3 DEF TypeInv
<1>5. NumberInv /\ LookInv /\ RequestInv /\ SourceInv
  BY <1>1, <1>3 DEF NumberInv, LookInv, RequestInv, SourceInv
<1>6. AnswerInv
  BY <1>3 DEF AnswerInv, RefusedWithReason
<1> QED
  BY <1>4, <1>5, <1>6 DEF AccessInv

LEMMA NextKeeps == AccessInv /\ [Next]_vars => Keeps
<1> SUFFICES ASSUME AccessInv, [Next]_vars PROVE Keeps
  OBVIOUS
<1>1. CASE Change
  BY <1>1, ChangeKeeps
<1>2. CASE Restart
  BY <1>2, RestartKeeps
<1>3. ASSUME NEW m \in wire, Obey(m) PROVE Keeps
  BY <1>3, ObeyKeeps
<1>4. ASSUME NEW t \in Thread, NEW o \in Offered, NEW named \in returned \union {Nothing},
             Begin(t, o[2], named)
      PROVE  Keeps
  BY <1>4, BeginKeeps
<1>5. ASSUME NEW t \in Thread, ThreadStep(t) PROVE Keeps
  BY <1>5, LockKeeps, LookKeeps, RefuseKeeps, PersistKeeps, KeepKeeps, PerformKeeps, HearKeeps,
     GiveUpKeeps
  DEF ThreadStep
<1>6. CASE UNCHANGED vars
  <2> USE <1>6 DEF vars, desktopVars, effectVars, observationVars
  <2>1. TypeInv' /\ NumberInv' /\ SourceInv'
    BY DEF AccessInv, TypeInv, TypeOK, NumberInv, SourceInv, Past, Active, Steps, Observes
  <2>2. LookInv'
    <3>1. \A u \in Thread : call'[u] = call[u] /\ (Active(u)' <=> Active(u))
      BY DEF Active
    <3> QED
      BY <3>1, StaysLooked, StillForward DEF AccessInv, LookInv
  <2>3. RequestInv'
    BY DEF AccessInv, RequestInv, Active, Waiting, Effects, Request
  <2>4. AnswerInv' /\ Noticed /\ Framed
    BY DEF AccessInv, AnswerInv, Told, Of, RefusedWithReason, Noticed, Framed
  <2> QED
    BY <2>1, <2>2, <2>3, <2>4 DEF AccessInv, Keeps
<1> QED
  BY <1>1, <1>2, <1>3, <1>4, <1>5, <1>6 DEF Next

LEMMA SpecInv == Spec => []AccessInv
<1>1. AccessInv /\ [Next]_vars => AccessInv'
  BY NextKeeps DEF Keeps
<1> QED
  BY <1>1, InitInv, PTL DEF Spec

-----------------------------------------------------------------------------
(* Theorems                                                                *)

(* The types of the calls, their observations and requests; the lock of the*)
(* AT-SPI backend belongs to a call that goes on, also after refusals,     *)
(* timeouts and restarts (with_atspi, dispatch_semantic).                  *)
THEOREM AccessTypes == Spec => []TypeOK
<1>1. AccessInv => TypeOK
  BY DEF AccessInv, TypeInv
<1> QED
  BY <1>1, SpecInv, PTL

(* When an effect is requested its element has looked, since the call began,*)
(* as the caller saw it, in process, window, place and fingerprint, and so *)
(* have the displays: resolve and revalidate of each backend compare enough,*)
(* however the desktop changes between their looks, back and forth.        *)
THEOREM StaleTargetsAreNoticed == Spec => StaleIsNoticed
<1>1. AccessInv /\ [Next]_vars => Noticed
  BY NextKeeps DEF Keeps
<1>2. AccessInv /\ [Next]_vars => [Noticed]_vars
  BY <1>1
<1>3. Spec => [][Noticed]_vars
  BY <1>2, SpecInv, PTL DEF Spec
<1> QED
  BY <1>3 DEF StaleIsNoticed, Noticed

(* The displays, process and window of an observation of AT-SPI or UIA     *)
(* looked as it says before and after the fingerprint of its element was   *)
(* taken (snapshot_window of both looks at them again behind the tree).    *)
THEOREM ObservationsAreFramed == Spec => SameBeforeAndAfter
<1>1. AccessInv /\ [Next]_vars => Framed
  BY NextKeeps DEF Keeps
<1>2. AccessInv /\ [Next]_vars => [Framed]_vars
  BY <1>1
<1>3. Spec => [][Framed]_vars
  BY <1>2, SpecInv, PTL DEF Spec
<1> QED
  BY <1>3 DEF SameBeforeAndAfter, Framed, Frame

(* What never looks as before again, as a process that is known by its id  *)
(* and start time (process_generation), is in an observation what it was   *)
(* when the fingerprint was taken.                                         *)
THEOREM WhatNeverReturnsIsOfOneMoment ==
  ASSUME NEW a \in {"display", "process", "window"},
         \A v, w \in Version : Alike(a, v, w) => v = w
  PROVE  Spec => [][\A o \in returned' \ returned :
                      backend # "ax" => o.saw[a] = o.sampled[a]]_vars
<1>1. ASSUME AccessInv, [Next]_vars, NEW o \in returned' \ returned, backend # "ax"
      PROVE  o.saw[a] = o.sampled[a]
  <2>1. Keeps
    BY <1>1, NextKeeps
  <2>2. /\ o.saw[a] \in Version /\ o.sampled[a] \in Version /\ desktop[a] \in Version
        /\ Version \subseteq Nat
    <3>1. o \in ObservationType /\ desktop \in DesktopType
      BY <1>1, <2>1 DEF Keeps, AccessInv, TypeInv, TypeOK
    <3>2. \A d \in DesktopType : d[a] \in Version
      BY DEF DesktopType
    <3> QED
      BY <3>1, <3>2 DEF ObservationType, Version
  <2>3. o.saw[a] <= o.sampled[a] /\ Shown(a, o.saw[a], o.sampled[a], desktop[a])
    BY <1>1, <2>1 DEF Keeps, Framed, Frame
  <2>4. PICK w \in o.sampled[a]..desktop[a] : Alike(a, w, o.saw[a])
    BY <2>3 DEF Shown
  <2>5. w \in Version
    BY <2>2, <2>4, AccessibilityAssumption DEF Version
  <2>6. w = o.saw[a]
    BY <2>2, <2>4, <2>5
  <2>7. \A x, y \in Nat : x <= y /\ x \in y..desktop[a] => x = y
    OBVIOUS
  <2> QED
    BY <2>2, <2>3, <2>4, <2>6, <2>7
<1>2. AccessInv /\ [Next]_vars =>
        [\A o \in returned' \ returned : backend # "ax" => o.saw[a] = o.sampled[a]]_vars
  BY <1>1
<1> QED
  BY <1>2, SpecInv, PTL DEF Spec

(* As many requests as steps they come from.                               *)
LEMMA ToldCount ==
  ASSUME TypeInv, NEW a \in answers, NEW named, NEW began, Told(a, named, began)
  PROVE  Cardinality(Of(effects, a.num)) = Cardinality(Performing(backend, a.op))
<1> DEFINE from == Performing(backend, a.op)
           to == Of(effects, a.num)
           request(i) == [num |-> a.num, at |-> i, named |-> named, began |-> began]
           f == [i \in from |-> request(i)]
<1>1. backend \in Backend /\ a.op \in DOMAIN Program[backend]
  BY AccessibilityAssumption DEF TypeInv, TypeOK
<1>2. PICK n : n \in Nat /\ DOMAIN Program[backend][a.op] = 1..n
  BY <1>1, ProgramSteps
<1>3. from \subseteq 1..n
  BY <1>2 DEF Performing
<1>4. IsFiniteSet(1..n)
  BY <1>2, FS_Interval
<1>5. IsFiniteSet(from)
  BY <1>3, <1>4, FS_Subset
<1>6. to = {request(i) : i \in from}
  BY DEF Told
<1>7. f \in Bijection(from, to)
  <2>1. \A i, j \in from : request(i) = request(j) => i = j
    <3>1. \A i : request(i).at = i
      OBVIOUS
    <3> HIDE DEF request
    <3> QED
      BY <3>1
  <2> HIDE DEF request, from, to
  <2>2. f \in Injection(from, to)
    BY <1>6, <2>1 DEF Injection, IsInjective
  <2>3. f \in Surjection(from, to)
    BY <1>6 DEF Surjection
  <2> QED
    BY <2>2, <2>3 DEF Bijection
<1> HIDE DEF from, to, f
<1>8. ExistsBijection(from, to)
  BY <1>7 DEF ExistsBijection
<1>9. Cardinality(to) = Cardinality(from)
  BY <1>5, <1>8, FS_Bijection
<1> QED
  BY <1>9 DEF from, to

(* What dispatch_semantic tells the engine of its effects is true, however *)
(* late the provider obeys and whatever it answers, for all but the scroll *)
(* of AX (mac_semantic_scroll), whose first page is reported as no effect. *)
THEOREM AnswersAreTruthful ==
  ASSUME ScrollsElsewhere
  PROVE  Spec => []TruthfulOutcomes
<1>1. AccessInv => TruthfulOutcomes
  BY ToldCount DEF AccessInv, AnswerInv, RequestInv, TruthfulOutcomes
<1> QED
  BY <1>1, SpecInv, PTL

(* A call is refused only where the desktop changed or the target could not be*)
(* acted on, also after a restart or another observation. Left out are the keys*)
(* of AT-SPI and UIA, which compare two observations (AccessibilityKeys.cfg).*)
THEOREM RefusalsHaveReasons ==
  ASSUME KeysOfAx
  PROVE  Spec => []RefusedWithReason
<1>1. AccessInv => RefusedWithReason
  BY DEF AccessInv, AnswerInv
<1> QED
  BY <1>1, SpecInv, PTL

-----------------------------------------------------------------------------
(* The contract                                                            *)

(* What the contract sees of effects and answers.                          *)
HadEffect == {m.num : m \in effects}
Learnt == {<<a.num, a.outcome>> : a \in answers}

(* An effect of a call that was not told that it had none is a step of the *)
(* contract.                                                               *)
LEMMA ContractTouch ==
  ASSUME NEW n \in 1..MaxCalls, HadEffect' = HadEffect \union {n},
         <<n, "none">> \notin Learnt, Learnt' = Learnt
  PROVE  Contract!Next
<1>1. Contract!Touch(n)
  BY DEF Contract!Touch, HadEffect, Learnt
<1> QED
  BY <1>1 DEF Contract!Next

(* So is the first answer of a call, if it is true.                        *)
LEMMA ContractTell ==
  ASSUME NEW n \in 1..MaxCalls, NEW o \in Outcome, Learnt' = Learnt \union {<<n, o>>},
         \A y \in Outcome : <<n, y>> \notin Learnt, HadEffect' = HadEffect,
         o = "none" => n \notin HadEffect, o = "ok" => n \in HadEffect
  PROVE  Contract!Next
<1>1. Contract!Tell(n, o)
  BY DEF Contract!Tell, Contract!Knowledge, HadEffect, Learnt, Outcome
<1>2. o \in Contract!Knowledge
  BY DEF Contract!Knowledge, Outcome
<1> QED
  BY <1>1, <1>2 DEF Contract!Next

(* A call that ends tells the engine once, and the truth.                  *)
LEMMA EndTells ==
  ASSUME AccessInv, AccessInv', ScrollsElsewhere, NEW t \in Thread, Active(t),
         NEW outcome \in Outcome, NEW why, End(t, outcome, why),
         outcome = "ok" => why # "stale", UNCHANGED <<effects, backend>>
  PROVE  Contract!Next \/ UNCHANGED <<HadEffect, Learnt>>
<1>1. HadEffect' = HadEffect
  BY DEF HadEffect
<1>2. CASE UNCHANGED answers
  BY <1>1, <1>2 DEF Learnt
<1>3. CASE ~UNCHANGED answers
  <2>1. PICK n, op : n = call[t].num /\ op = call[t].op
    OBVIOUS
  <2>2. PICK a : a = [num |-> n, op |-> op, outcome |-> outcome, why |-> why,
                      reason |-> Reason(t)]
    OBVIOUS
  <2>3. a.num = n /\ a.op = op /\ a.outcome = outcome
    BY <2>2
  <2>4. /\ answers' = answers \union {a}
        /\ outcome = "ok" => Performing(backend, op) # {}
    BY <1>3, <2>1, <2>2 DEF End
  <2>5. n \in 1..MaxCalls
    BY <2>1, AccessibilityAssumption DEF AccessInv, TypeInv, TypeOK, NumberInv
  <2>6. Learnt' = Learnt \union {<<n, outcome>>}
    BY <2>3, <2>4 DEF Learnt
  <2>7. \A y \in Outcome : <<n, y>> \notin Learnt
    BY <2>1 DEF AccessInv, NumberInv, Learnt
  <2>8. outcome = "none" => n \notin HadEffect
    <3>. SUFFICES ASSUME outcome = "none", NEW m \in effects, m.num = n PROVE FALSE
      BY DEF HadEffect
    <3>1. Of(wire \union effects, n)' = {}
      BY <2>3, <2>4 DEF AccessInv, AnswerInv
    <3> QED
      BY <3>1 DEF Of
  <2>9. outcome = "ok" => n \in HadEffect
    <3>. SUFFICES ASSUME outcome = "ok" PROVE n \in HadEffect
      OBVIOUS
    <3>1. PICK m \in MessageType : Told(a, m.named, m.began)'
      BY <2>3, <2>4 DEF AccessInv, AnswerInv
    <3>2. PICK i : i \in Performing(backend, op)
      BY <2>4
    <3>3. PICK r : r = [num |-> n, at |-> i, named |-> m.named, began |-> m.began]
      OBVIOUS
    <3>4. r \in effects /\ r.num = n
      BY <2>3, <3>1, <3>2, <3>3 DEF Told, Of
    <3> QED
      BY <3>4 DEF HadEffect
  <2> QED
    BY <1>1, <2>5, <2>6, <2>7, <2>8, <2>9, ContractTell
<1> QED
  BY <1>2, <1>3

(* A provider obeys a call that was not told that it had no effect.        *)
LEMMA ObeyTouches ==
  ASSUME AccessInv, ScrollsElsewhere, NEW m \in wire, Obey(m)
  PROVE  Contract!Next \/ UNCHANGED <<HadEffect, Learnt>>
<1>1. Learnt' = Learnt /\ (effects' = effects \/ effects' = effects \union {m})
  BY DEF Obey, Learnt
<1>2. CASE effects' = effects
  BY <1>1, <1>2 DEF HadEffect
<1>3. CASE effects' = effects \union {m}
  <2>1. PICK n : n = m.num
    OBVIOUS
  <2>2. n \in 1..MaxCalls
    BY <2>1, AccessibilityAssumption DEF AccessInv, TypeInv, TypeOK
  <2>3. HadEffect' = HadEffect \union {n}
    BY <1>3, <2>1 DEF HadEffect
  <2>4. <<n, "none">> \notin Learnt
    BY <2>1 DEF AccessInv, AnswerInv, Of, Learnt
  <2> QED
    BY <1>1, <2>2, <2>3, <2>4, ContractTouch
<1> QED
  BY <1>1, <1>2, <1>3

(* Every step of the backends is one of the contract or none.              *)
LEMMA ContractStep ==
  ASSUME AccessInv, AccessInv', ScrollsElsewhere, [Next]_vars
  PROVE  [Contract!Next]_(Contract!vars)
<1> SUFFICES Contract!Next \/ UNCHANGED <<HadEffect, Learnt>>
  BY DEF Contract!vars, HadEffect, Learnt
<1>1. ASSUME UNCHANGED <<effects, answers>>
      PROVE  UNCHANGED <<HadEffect, Learnt>>
  BY <1>1 DEF HadEffect, Learnt
<1>2. ASSUME NEW t \in Thread, Active(t), NEW outcome \in Outcome, NEW why,
             End(t, outcome, why), outcome = "ok" => why # "stale",
             UNCHANGED <<effects, backend>>
      PROVE  Contract!Next \/ UNCHANGED <<HadEffect, Learnt>>
  BY <1>2, EndTells
<1>3. ASSUME NEW t \in Thread, Active(t), NEW got, Advance(t, got),
             UNCHANGED <<effects, backend>>
      PROVE  Contract!Next \/ UNCHANGED <<HadEffect, Learnt>>
  <2>1. CASE UNCHANGED answers
    BY <1>1, <1>3, <2>1
  <2>2. CASE End(t, "ok", "done")
    BY <1>2, <1>3, <2>2 DEF Outcome
  <2> QED
    BY <1>3, <2>1, <2>2 DEF Advance
<1>4. CASE Change \/ Restart \/ UNCHANGED vars
  BY <1>1, <1>4 DEF Change, Restart, vars, effectVars
<1>5. ASSUME NEW m \in wire, Obey(m)
      PROVE  Contract!Next \/ UNCHANGED <<HadEffect, Learnt>>
  BY <1>5, ObeyTouches
<1>6. ASSUME NEW t \in Thread, NEW op, NEW named, Begin(t, op, named)
      PROVE  UNCHANGED <<HadEffect, Learnt>>
  BY <1>1, <1>6 DEF Begin, effectVars
<1>7. ASSUME NEW t \in Thread, ThreadStep(t)
      PROVE  Contract!Next \/ UNCHANGED <<HadEffect, Learnt>>
  <2>1. call[t].reply # "none" => Active(t)
    BY IdleType DEF AccessInv, TypeInv
  <2>2. CASE Lock(t) \/ Perform(t)
    BY <1>1, <2>2 DEF Lock, Perform, effectVars
  <2>3. CASE Look(t)
    <3>1. Active(t) /\ UNCHANGED <<effects, backend>>
      BY <2>3 DEF Look, effectVars, desktopVars
    <3>2. Advance(t, Seen(t)) \/ End(t, SoFar(t), "stale")
      BY <2>3 DEF Look
    <3>3. SoFar(t) \in Outcome /\ SoFar(t) # "ok"
      BY DEF SoFar, Outcome
    <3> QED
      BY <1>2, <1>3, <3>1, <3>2, <3>3
  <2>4. CASE Refuse(t)
    BY <1>2, <2>4, SoFarType DEF Refuse, effectVars, desktopVars
  <2>5. CASE Persist(t)
    BY <1>3, <2>5 DEF Persist, At, effectVars, desktopVars
  <2>6. CASE Keep(t)
    BY <1>3, <2>6 DEF Keep, At, effectVars, desktopVars
  <2>7. Failed(t) \in Outcome /\ "unknown" \in Outcome
    BY SoFarType DEF Failed, Outcome
  <2>8. CASE Hear(t)
    <3>1. Active(t) /\ UNCHANGED <<effects, backend>>
      BY <2>1, <2>8 DEF Hear, effectVars, desktopVars
    <3>2. \/ Advance(t, call[t].got)
          \/ \E outcome \in Outcome : End(t, outcome, "other")
      BY <2>7, <2>8 DEF Hear
    <3> QED
      BY <1>2, <1>3, <3>1, <3>2
  <2>9. CASE GiveUp(t)
    BY <1>2, <2>1, <2>7, <2>9 DEF GiveUp, effectVars, desktopVars
  <2> QED
    BY <1>7, <2>2, <2>3, <2>4, <2>5, <2>6, <2>8, <2>9 DEF ThreadStep
<1> QED
  BY <1>4, <1>5, <1>6, <1>7 DEF Next

(* dispatch_semantic keeps the contract of Executor::dispatch on every     *)
(* platform, for all but the scroll of AX: one answer for a call, no effect*)
(* after an answer of no effect, and success only after the effect.        *)
THEOREM ProvidersKeepContract ==
  ASSUME ScrollsElsewhere
  PROVE  Spec => KeepsContract
<1>1. Init => Contract!Init
  BY DEF Init, Contract!Init
<1>2. AccessInv /\ AccessInv' /\ [Next]_vars => [Contract!Next]_(Contract!vars)
  BY ContractStep
<1> QED
  BY <1>1, <1>2, SpecInv, PTL DEF Spec, KeepsContract, Contract!Spec

=============================================================================
