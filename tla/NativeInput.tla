----------------------------- MODULE NativeInput -----------------------------
(***************************************************************************)
(* NativeExecutor::dispatch for the actions that synthesise input          *)
(* (src/src/lib.rs, src/src/linux_input.rs): click, move, drag, scroll,    *)
(* press, type_text, hotkey and paste, on macOS, on Windows, and on Linux  *)
(* through X11 or through the desktop portal; and for those that run a     *)
(* command of macOS instead: screenshot, application, window, open and     *)
(* clipboard_write.                                                        *)
(*                                                                         *)
(* An action is a sequence of units, between which cancellation and the    *)
(* deadline are checked; a unit is a sequence of strokes; a stroke is a    *)
(* sequence of events, of which the rest is lost when one fails.  A        *)
(* failure ends the action, or is ignored and the next stroke is posted.   *)
(* While one call goes on the token may be cancelled or the deadline pass, *)
(* another process may change the policy on global input, and posting an   *)
(* event may fail.                                                         *)
(***************************************************************************)
EXTENDS Naturals, FiniteSets, SequencesExt

CONSTANTS
  Backends,   \* the backends looked at
  Faults,     \* "policy": the policy changes, "io": events fail to be posted
  MaxCount,   \* bound on clicks, presses, scroll steps and chunks of a text
  DragSteps,  \* stands for MAX_DRAG_STEPS
  MaxFlips    \* bound on the changes of the policy

ASSUME InputAssumption ==
  /\ Backends \subseteq {"mac", "windows", "x11", "portal"}
  /\ Faults \subseteq {"policy", "io"}
  /\ MaxCount \in Nat \ {0} /\ DragSteps \in Nat \ {0} /\ MaxFlips \in Nat

VARIABLES
  call,         \* the action, its parameters and the backend
  stage,        \* "idle", "checks", "unit", "events", "done"
  at,           \* the current unit
  rest,         \* strokes of it that are still to be posted
  allowed,      \* policy: global input is allowed
  flips,        \* number of changes of the policy so far
  interrupted,  \* cancelled, or past the deadline
  broken,       \* a drag that goes on only to release the button
  down,         \* keys and buttons held down
  posted,       \* number of events that reached the desktop
  late,         \* units of which an event was posted after the interruption
  lost,         \* events that were to be posted and were not
  refused,      \* some event was refused by the policy
  outcome       \* "ok", "none" (known to have had no effect) or "unknown"

environment == <<allowed, flips, interrupted>>
desktop == <<down, posted, late, lost, refused>>
vars == <<call, stage, at, rest, environment, broken, desktop, outcome>>

-----------------------------------------------------------------------------
(* Actions as units of strokes                                             *)

Down(k) == <<"down", k>>
Up(k) == <<"up", k>>
Tick(k) == <<"tick", k>>   \* a movement, a wheel event, a clipboard write
Stroke(k) == <<Down(k), Up(k)>>

Pointer == {"click", "move", "drag"}
Keyboard == {"press", "type_text", "hotkey", "paste"}
Input == Pointer \union Keyboard \union {"scroll"}

(* Keys pressed one after the other and released in the opposite order.    *)
Chord(b, m, k) ==
  CASE b = "mac" -> <<Stroke(k)>>   \* the modifier is a flag of the event
    [] b = "windows" -> <<<<Down(m)>>, Stroke(k), <<Up(m)>>>>
    [] OTHER -> <<<<Down(m), Down(k), Up(k), Up(m)>>>>

(* A chunk of a text: a plain and a shifted character.                     *)
Chunk(b) ==
  IF b = "x11"
  THEN <<<<Down("a"), Down("shift"), Down("b"), Up("shift")>>>>
  ELSE <<Stroke("a"), Stroke("b")>>

Clear(b) ==
  CASE b = "mac" -> <<Stroke("a"), Stroke("delete")>>
    [] b = "windows" -> <<<<Down("ctrl"), Down("a"), Up("a"), Up("ctrl")>>>>
    [] OTHER -> Append(Chord(b, "ctrl", "a"), Stroke("delete"))

Paste(b) ==
  <<<<Tick("clipboard")>>>>
    \o IF b = "windows" THEN <<<<Down("ctrl"), Down("v"), Up("v"), Up("ctrl")>>>>
       ELSE Chord(b, "ctrl", "v")

Click(b) ==
  CASE b = "x11" -> <<<<Tick("pointer"), Down("left"), Up("left")>>>>
    [] b = "windows" -> <<<<Tick("pointer")>>, Stroke("left")>>
    [] OTHER -> <<Stroke("left")>>

(* X11 presses the wheel button of the direction and releases the other.   *)
Scroll(b) == IF b = "x11" THEN <<<<Down("wheel"), Up("opposite wheel")>>>>
             ELSE <<<<Tick("wheel")>>>>

Times(n, unit) == [i \in 1..n |-> unit]

Units(c) ==
  CASE c.kind = "click" -> Times(c.count, Click(c.backend))
    [] c.kind = "move" -> <<<<<<Tick("pointer")>>>>>>
    [] c.kind = "drag" -> <<<<<<Down("left")>>>>>>
                            \o Times(DragSteps, <<<<Tick("pointer")>>>>)
                            \o <<<<<<Up("left")>>>>>>
    [] c.kind = "scroll" -> Times(c.count, Scroll(c.backend))
    [] c.kind = "command" -> <<<<<<Tick("command")>>>>>>
    [] c.kind = "press" -> Times(c.count, <<Stroke("a")>>)
    [] c.kind = "hotkey" -> <<Chord(c.backend, "ctrl", "a")>>
    [] c.kind = "paste" -> <<Paste(c.backend)>>
    [] c.kind = "type_text" -> (IF c.more THEN <<Clear(c.backend)>> ELSE <<>>)
                                 \o Times(c.count, Chunk(c.backend))
                                 \o IF c.more THEN <<<<Stroke("return")>>>> ELSE <<>>

LastUnit(c) == Len(Units(c))
Release(c) == IF c.kind = "drag" THEN {LastUnit(c)} ELSE {}

(* Mutant of Checked: cancellation and deadline are checked only before    *)
(* the first unit.                                                         *)
CheckedOnce(c, i) == i = 1 /\ c.kind \notin {"hotkey", "paste"}

(* The units that are preceded by a check of cancellation and deadline.    *)
Checked(c, i) ==
  /\ c.kind \notin {"hotkey", "paste"}
  /\ ~(c.kind = "type_text" /\ c.more /\ i = 1)
  /\ i \notin Release(c)

(* The events whose failure ends the action; that of the others is ignored.*)
Strict(c, e) ==
  \/ c.backend \in {"x11", "portal"}
  \/ c.kind \in Pointer
  \/ c.kind = "scroll" /\ c.backend = "mac"
  \/ e \in {Tick("clipboard"), Tick("command")}

Calls ==
  {c \in [backend : Backends, kind : Input \union {"command"},
          count : 1..MaxCount, more : BOOLEAN, aimed : BOOLEAN, verified : BOOLEAN] :
     /\ c.count = 1 \/ c.kind \in {"click", "scroll", "press", "type_text"}
     /\ c.more => c.kind = "type_text"   \* clear and press_return
     /\ c.aimed => c.backend = "mac" /\ c.kind \in Input \ Pointer  \* MacDeliveryPidGuard
     /\ c.verified => c.kind \in Pointer \* VerificationPolicy other than None
     /\ c.kind = "drag" => c.backend = "mac"}

-----------------------------------------------------------------------------
Event == {<<t, k>> : t \in {"down", "up", "tick"},
                     k \in {"a", "b", "v", "ctrl", "shift", "delete", "return", "left",
                            "wheel", "opposite wheel", "pointer", "clipboard", "command"}}

TypeOK ==
  /\ stage \in {"idle", "checks", "unit", "events", "done"}
  /\ stage # "idle" => call \in Calls
  /\ at \in 1..MaxCount + DragSteps + 2
  /\ stage \in {"unit", "events"} => at \in 1..LastUnit(call)
  /\ rest \in Seq(Seq(Event))
  /\ (stage = "events") <=> (rest # <<>>)
  /\ allowed \in BOOLEAN /\ interrupted \in BOOLEAN /\ broken \in BOOLEAN
  /\ flips \in 0..MaxFlips
  /\ down \subseteq {e[2] : e \in Event}
  /\ posted \in Nat
  /\ late \subseteq 1..MaxCount + DragSteps + 2
  /\ lost \subseteq Event
  /\ refused \in BOOLEAN
  /\ outcome \in {"none", "ok", "unknown"}

Init ==
  /\ call \in Calls
  /\ stage = "idle"
  /\ at = 1
  /\ rest = <<>>
  /\ allowed \in BOOLEAN
  /\ flips = 0
  /\ interrupted = FALSE
  /\ broken = FALSE
  /\ down = {}
  /\ posted = 0
  /\ late = {}
  /\ lost = {}
  /\ refused = FALSE
  /\ outcome = "none"

(* Cancellation, or the deadline.                                          *)
Interrupt ==
  /\ ~interrupted
  /\ interrupted' = TRUE
  /\ UNCHANGED <<call, stage, at, rest, allowed, flips, broken, desktop, outcome>>

(* A process persists or removes the restriction.                          *)
PersistNoYolo ==
  /\ "policy" \in Faults
  /\ flips < MaxFlips
  /\ flips' = flips + 1
  /\ allowed' = ~allowed
  /\ UNCHANGED <<call, stage, at, rest, interrupted, broken, desktop, outcome>>

End(o) == stage' = "done" /\ outcome' = o

(* Cancellation and deadline are checked, then the action, the target and  *)
(* the capabilities; any of these ends the call.                           *)
Begin ==
  /\ stage = "idle"
  /\ call.kind \in Input
  /\ \/ ~interrupted /\ stage' = "checks" /\ UNCHANGED outcome
     \/ End("none")
  /\ UNCHANGED <<call, at, rest, environment, broken, desktop>>

(* dispatch_auxiliary asks neither for capabilities nor for the policy.    *)
BeginCommand ==
  /\ stage = "idle"
  /\ call.kind = "command"
  /\ IF ~interrupted /\ call.backend = "mac" THEN stage' = "unit" /\ UNCHANGED outcome
     ELSE End("none")
  /\ UNCHANGED <<call, at, rest, environment, broken, desktop>>

(* The policy, for input that is not aimed at a process.                   *)
CheckPolicy ==
  /\ stage = "checks"
  /\ IF allowed \/ call.aimed
     THEN stage' = "unit" /\ UNCHANGED outcome
     ELSE End("none")
  /\ UNCHANGED <<call, at, rest, environment, broken, desktop>>

StartUnit ==
  /\ stage = "unit"
  /\ Checked(call, at) => ~interrupted
  /\ stage' = "events"
  /\ rest' = Units(call)[at]
  /\ UNCHANGED <<call, at, environment, broken, desktop, outcome>>

(* Mutant of Stopped: a drag ends where it was interrupted.                *)
StopAtOnce ==
  /\ stage = "unit"
  /\ Checked(call, at)
  /\ interrupted
  /\ End(IF at = 1 THEN "none" ELSE "unknown")
  /\ UNCHANGED <<call, at, broken, rest, environment, desktop>>

(* Mutant of Stopped: an off-by-one in what counts as partial.             *)
StopAsUnstarted ==
  /\ stage = "unit"
  /\ Checked(call, at)
  /\ interrupted
  /\ IF call.kind = "drag" /\ at > 1
     THEN at' = LastUnit(call) /\ broken' = TRUE /\ UNCHANGED <<stage, outcome>>
     ELSE End(IF at <= 2 THEN "none" ELSE "unknown") /\ UNCHANGED <<at, broken>>
  /\ UNCHANGED <<call, rest, environment, desktop>>

(* An interruption between units; a drag still releases the button.        *)
Stopped ==
  /\ stage = "unit"
  /\ Checked(call, at)
  /\ interrupted
  /\ IF call.kind = "drag" /\ at > 1
     THEN at' = LastUnit(call) /\ broken' = TRUE /\ UNCHANGED <<stage, outcome>>
     ELSE End(IF at = 1 THEN "none" ELSE "unknown") /\ UNCHANGED <<at, broken>>
  /\ UNCHANGED <<call, rest, environment, desktop>>

(* The unit fails before its first event: the permission is gone, there is *)
(* no connection or session, or the key is not known.                      *)
UnitFails ==
  /\ stage = "unit"
  /\ "io" \in Faults
  /\ Checked(call, at) => ~interrupted
  /\ ~(call.backend = "windows" /\ call.kind \in {"type_text", "scroll"})
  /\ call.kind = "drag" => at = 1
  /\ End(IF call.kind = "drag" THEN "none" ELSE "unknown")
  /\ UNCHANGED <<call, at, rest, environment, broken, desktop>>

(* What is reported after the last unit.                                   *)
Finish ==
  IF broken \/ (call.kind \in Pointer /\ ~call.verified) \/ interrupted
  THEN "unknown" ELSE "ok"

(* Mutant of Continue: one unit too many.                                  *)
OneTooMany(strokes) ==
  /\ rest' = strokes
  /\ IF strokes # <<>> THEN UNCHANGED <<stage, at, outcome>>
     ELSE IF at <= LastUnit(call) THEN stage' = "unit" /\ at' = at + 1 /\ UNCHANGED outcome
     ELSE End(Finish) /\ UNCHANGED at

(* What comes after the current unit if strokes is what is left of it.     *)
Continue(strokes) ==
  /\ rest' = strokes
  /\ IF strokes # <<>> THEN UNCHANGED <<stage, at, outcome>>
     ELSE IF at < LastUnit(call) THEN stage' = "unit" /\ at' = at + 1 /\ UNCHANGED outcome
     ELSE End(Finish) /\ UNCHANGED at

Happens(e) ==
  /\ down' = CASE e[1] = "down" -> down \union {e[2]}
               [] e[1] = "up" -> down \ {e[2]}
               [] OTHER -> down
  /\ posted' = posted + 1
  /\ late' = IF interrupted THEN late \union {at} ELSE late

(* macOS asks the policy again for every event that is not aimed.          *)
Refusing ==
  /\ call.backend = "mac" /\ ~call.aimed /\ ~allowed
  /\ Head(Head(rest)) \notin {Tick("clipboard"), Tick("command")}

Post ==
  /\ stage = "events"
  /\ ~Refusing
  /\ Happens(Head(Head(rest)))
  /\ Continue(IF Len(Head(rest)) = 1 THEN Tail(rest)
              ELSE <<Tail(Head(rest))>> \o Tail(rest))
  /\ UNCHANGED <<call, environment, broken, lost, refused>>

(* An event is not posted: the rest of its stroke is lost.                 *)
Lose(uncertain) ==
  LET e == Head(Head(rest)) IN
    /\ lost' = lost \union Range(Head(rest))
    /\ IF ~Strict(call, e) THEN Continue(Tail(rest)) /\ UNCHANGED broken
       ELSE IF call.kind = "drag" /\ at \notin {1, LastUnit(call)}
       THEN /\ rest' = <<>> /\ at' = LastUnit(call) /\ stage' = "unit" /\ broken' = TRUE
            /\ UNCHANGED outcome
       ELSE /\ rest' = <<>> /\ UNCHANGED <<at, broken>>
            /\ End(IF call.kind = "drag" /\ at = 1 /\ ~uncertain THEN "none" ELSE "unknown")

Refuse ==
  /\ stage = "events"
  /\ Refusing
  /\ Lose(FALSE)
  /\ refused' = TRUE
  /\ UNCHANGED <<call, environment, down, posted, late>>

(* Over a connection the event may have been posted all the same, and a    *)
(* command that fails may have done its work.                              *)
Fail ==
  /\ stage = "events"
  /\ "io" \in Faults
  /\ ~Refusing
  /\ Lose(TRUE)
  /\ \/ UNCHANGED <<down, posted, late>>
     \/ /\ call.backend \in {"x11", "portal"} \/ call.kind = "command"
        /\ Happens(Head(Head(rest)))
  /\ UNCHANGED <<call, environment, refused>>

Next ==
  \/ Interrupt \/ PersistNoYolo
  \/ Begin \/ BeginCommand \/ CheckPolicy \/ StartUnit \/ Stopped \/ UnitFails
  \/ Post \/ Refuse \/ Fail

Spec == Init /\ [][Next]_vars

-----------------------------------------------------------------------------
(* Properties                                                              *)

Done == stage = "done"

(* The events of an action: the places of their units and strokes, and     *)
(* their own.                                                              *)
Places(c) ==
  UNION {UNION {{<<i, s, l>> : l \in 1..Len(Units(c)[i][s])}
                  : s \in 1..Len(Units(c)[i])} : i \in 1..LastUnit(c)}

(* A call that reports that it had no effect posted nothing, wherever it   *)
(* was interrupted, refused or failed: the engine lets its caller retry.   *)
(* A click, movement, drag or wheel of macOS, and any action on Linux,     *)
(* that reports success posted every one of its events, although each may  *)
(* be refused or fail in between.                                          *)
TruthfulOutcomes ==
  Done =>
    /\ outcome = "none" => posted = 0
    /\ (outcome = "ok" /\ \A e \in Event : Strict(call, e)) =>
         /\ lost = {}
         /\ posted = Cardinality(Places(call))

(* After an interruption at most one more unit reaches the desktop, and    *)
(* the release that ends a drag (README: checked between repeated or       *)
(* chunked operations).                                                    *)
StopsSoon == Cardinality(late \ Release(call)) <= 1

(* When a call has ended, no key or button stays down unless posting its   *)
(* release was tried in vain.  On X11 a text leaves its keys down, and     *)
(* scrolling releases another button than it pressed.                      *)
NothingStaysDown ==
  Done /\ ~(call.backend = "x11" /\ call.kind \in {"type_text", "scroll"}) =>
    \A k \in down : Up(k) \in lost

(* README.md:66: refusals by the policy are reported as no effect, never   *)
(* as an unknown outcome.                                                  *)
RefusalsHaveNoEffect == Done /\ refused /\ posted = 0 => outcome = "none"

(* What the engine is promised of its dispatch, as ExecutorContract says   *)
(* it: no effect when none is reported, and success only after the effect. *)
(* Where failures of events are ignored, a success says as little as       *)
(* "unknown".                                                              *)
Contract == INSTANCE ExecutorContract WITH
  Call <- {1},
  touched <- IF posted > 0 THEN {1} ELSE {},
  told <- IF ~Done THEN {}
          ELSE {<<1, IF \A e \in Event : Strict(call, e) \/ outcome # "ok"
                     THEN outcome ELSE "unknown">>}

KeepsContract == Contract!Spec

=============================================================================
