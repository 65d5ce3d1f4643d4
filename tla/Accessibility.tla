---------------------------- MODULE Accessibility ----------------------------
(***************************************************************************)
(* The accessibility backends of NativeExecutor: AT-SPI on Linux           *)
(* (src/src/linux_atspi.rs), UI Automation on Windows                      *)
(* (src/src/windows_uia.rs) and AX on macOS (src/src/lib.rs).              *)
(*                                                                         *)
(* A call observes the active window, or finds the target of an            *)
(* observation again and reads it or acts on it.  It is a fixed sequence   *)
(* of looks at the desktop, each a bounded call to a provider in another   *)
(* process, and the desktop changes between any two of them.  An           *)
(* observation is kept in a private file before it is returned; AT-SPI     *)
(* also keeps the last one in memory, behind the lock that NativeExecutor  *)
(* holds for the whole call.  An effect is a request to the provider, who  *)
(* may obey after the call has stopped waiting.                            *)
(*                                                                         *)
(* The desktop is the display geometry, the process and the window of one  *)
(* target element, its place in the tree, its fingerprint (face) and       *)
(* action list, whether it is visible, enabled and takes the action        *)
(* (ready) and whether it has the focus.  The first six, its aspects, are  *)
(* versions, numbered in the order in which they come.  The program cannot *)
(* see the numbers: it compares what versions look like (Alike), and an    *)
(* aspect that changes and changes back looks as before.                   *)
(***************************************************************************)
EXTENDS Naturals, Sequences, FiniteSets

CONSTANTS
  Thread,      \* threads that share one NativeExecutor
  Offered,     \* <<backend, operation>>: what the callers use
  Looks,       \* what the versions of each aspect look like
  MaxCalls,    \* bound on the calls
  MaxChanges,  \* bound on the changes of the desktop and restarts
  MaxEvents    \* bound on both together

Backend == {"atspi", "uia", "ax"}

(* The looks that an observation takes ("see_...") and compares.  AT-SPI    *)
(* and UIA look at the display and the window again when the tree was      *)
(* read, AX does not.                                                      *)
Reading == <<"see_place", "see_face", "again">>
GatheringAx == <<"see_display", "see_window">> \o Reading \o <<"persist">>
GatheringUia ==
  <<"see_display", "see_window", "display", "window">> \o Reading
    \o <<"display", "window", "persist">>

(* Mutant of GatheringAtspi: no second look at the display and the window. *)
GatheringOnce ==
  <<"see_display", "see_window", "display", "window">> \o Reading \o <<"persist", "keep">>

GatheringAtspi ==
  <<"see_display", "see_window", "display", "window">> \o Reading
    \o <<"display", "window", "persist", "keep">>

(* The looks that find the target of an observation again.  AX also        *)
(* remembers from the first look at the element whether it had the focus.  *)
Recorded == <<"load", "display">>
FindingAtspi == <<"lock">> \o Recorded \o <<"window", "place", "face", "face">>
FindingUia == Recorded \o <<"window", "place", "face", "face">>
FindingAx == Recorded \o <<"window", "place", "glance", "face">>
ActingAx == FindingAx \o <<"allowed", "face", "face", "ready">>

(* The focused target of AT-SPI and UIA, from an observation of its own.   *)
FocusedAtspi == <<"lock", "focus">> \o GatheringAtspi \o <<"focus">>
FocusedUia == GatheringUia \o <<"focus">>

(* The operations of every backend.  Keys are type_text, press, paste,     *)
(* hotkey and, without an action of its own, scroll.  The AX operation     *)
(* invoke is also perform_secondary_action.                                *)
Atspi ==
  [observe |-> <<"lock">> \o GatheringAtspi,
   read |-> FindingAtspi,
   invoke |-> FindingAtspi \o <<"allowed", "actions", "place", "actions", "perform">>,
   set_value |-> FindingAtspi \o <<"allowed", "place", "perform">>,
   keys |-> FocusedAtspi \o <<"named", "perform">>]
Uia ==
  [observe |-> GatheringUia,
   read |-> FindingUia \o <<"face">>,
   invoke |-> FindingUia \o <<"allowed", "face", "perform">>,
   set_value |-> FindingUia \o <<"allowed", "ready", "face", "perform">>,
   keys |-> FocusedUia \o <<"named", "perform">>]
Ax ==
  [observe |-> GatheringAx,
   read |-> FindingAx,
   invoke |-> ActingAx \o <<"ready", "perform">>,
   set_value |-> ActingAx \o <<"ready", "perform">>,
   select_text |-> ActingAx \o <<"ready", "perform", "readback">>,
   scroll |-> ActingAx \o <<"page", "page">>,
   keys |-> ActingAx \o <<"focused", "perform">>]
Program == [atspi |-> Atspi, uia |-> Uia, ax |-> Ax]

Version == 0..MaxChanges
Aspect == {"display", "process", "window", "place", "face", "actions"}

ASSUME AccessibilityAssumption ==
  /\ \A o \in Offered : o[1] \in Backend /\ o[2] \in DOMAIN Program[o[1]]
  /\ \A a \in Aspect : Version \subseteq DOMAIN Looks[a]
  /\ {MaxCalls, MaxChanges, MaxEvents} \subseteq Nat

Effecting == {"perform", "page"}
Outcome == {"ok", "none", "unknown"}  \* "none": known to have had no effect
Free == 0

VARIABLES
  backend,     \* the platform
  desktop,     \* what the looks see
  changes,     \* number of changes of the desktop and of restarts
  wire,        \* effects requested and not yet obeyed
  effects,     \* effects that happened
  stored,      \* observations in private files
  latest,      \* the observation AT-SPI keeps in memory
  lock,        \* the call that holds the lock of the AT-SPI backend, or Free
  returned,    \* observations given to the caller
  call,        \* what each thread is doing
  calls,       \* number of calls so far
  answers      \* how the calls ended

desktopVars == <<backend, desktop, changes>>
effectVars == <<wire, effects>>
observationVars == <<stored, latest, returned>>
vars == <<desktopVars, effectVars, observationVars, lock, call, calls, answers>>

DesktopType ==
  [display : Version, process : Version, window : Version, place : Version,
   face : Version, actions : Version, ready : BOOLEAN, focus : BOOLEAN]
Undisturbed ==
  [display |-> 0, process |-> 0, window |-> 0, place |-> 0, face |-> 0, actions |-> 0,
   ready |-> TRUE, focus |-> TRUE]

(* An observation (0: none): what its looks saw, whether two looks at the  *)
(* element agreed, and the desktop when its fingerprint was taken.         *)
Nothing == [id |-> 0, saw |-> Undisturbed, stable |-> TRUE, sampled |-> Undisturbed]
ObservationType ==
  [id : 0..MaxCalls, saw : DesktopType, stable : BOOLEAN, sampled : DesktopType]

Idle == [op |-> "idle", num |-> 0, at |-> 1, named |-> Nothing, got |-> Nothing,
         began |-> Undisturbed, reply |-> "none"]

(* Hashes, bounds and titles are compared by value.                        *)
Alike(a, v, w) == Looks[a][v] = Looks[a][w]

Active(t) == call[t].op # "idle"
Steps(t) == Program[backend][call[t].op]
Current(t) == Steps(t)[call[t].at]
Waiting(t) == call[t].reply # "none"
At(t, names) == Active(t) /\ ~Waiting(t) /\ Current(t) \in names

(* The lock of the AT-SPI backend belongs to a call that goes on: those    *)
(* that wait for it are not shut out by one that was refused, timed out or *)
(* was lost in a restart.                                                  *)
TypeOK ==
  /\ backend \in Backend
  /\ desktop \in DesktopType
  /\ changes \in 0..MaxChanges
  /\ \A m \in wire \union effects : m.num \in 1..calls /\ m.began \in DesktopType
  /\ stored \union returned \union {latest} \subseteq ObservationType
  /\ lock \in {Free} \union {call[t].num : t \in {u \in Thread : Active(u)}}
  /\ \A t \in Thread :
       /\ call[t].num \in 0..calls
       /\ Active(t) => call[t].at \in DOMAIN Steps(t)
       /\ {call[t].named, call[t].got} \subseteq ObservationType
       /\ call[t].reply \in {"none", "awaited", "done", "odd"}
  /\ calls \in 0..MaxCalls
  /\ \A a \in answers : a.num \in 1..calls /\ a.outcome \in Outcome

Init ==
  /\ backend \in {o[1] : o \in Offered}
  /\ desktop = Undisturbed
  /\ changes = 0
  /\ wire = {}
  /\ effects = {}
  /\ stored = {}
  /\ latest = Nothing
  /\ lock = Free
  /\ returned = {}
  /\ call = [t \in Thread |-> Idle]
  /\ calls = 0
  /\ answers = {}

-----------------------------------------------------------------------------
(* The desktop and its providers                                           *)

(* One more change of the desktop, or restart.                             *)
Count ==
  /\ changes < MaxChanges
  /\ calls + changes < MaxEvents
  /\ changes' = changes + 1

Change ==
  /\ Count
  /\ \/ \E a \in Aspect : desktop' = [desktop EXCEPT ![a] = @ + 1]
     \/ desktop' = [desktop EXCEPT !.ready = ~@]
     \/ desktop' = [desktop EXCEPT !.focus = ~@]
  /\ UNCHANGED <<backend, effectVars, observationVars, lock, call, calls, answers>>

(* The process of Praefectus ends and is started again: only the private   *)
(* files and what was sent to the providers remain.                        *)
Restart ==
  /\ Count
  /\ latest' = Nothing
  /\ lock' = Free
  /\ call' = [t \in Thread |-> Idle]
  /\ UNCHANGED <<backend, desktop, effectVars, stored, returned, calls, answers>>

Reply(m, kind) ==
  call' = [t \in Thread |->
             IF call[t].num = m.num /\ call[t].at = m.at /\ call[t].reply = "awaited"
             THEN [call[t] EXCEPT !.reply = kind] ELSE call[t]]

(* The provider obeys, if the element is still there and takes the action; *)
(* its answer can be an error or FALSE with or without an effect.          *)
Obey(m) ==
  /\ wire' = wire \ {m}
  /\ \/ /\ Alike("process", desktop.process, m.named.saw.process) /\ desktop.ready
        /\ effects' = effects \union {m}
        /\ Reply(m, "done") \/ Reply(m, "odd")
     \/ Reply(m, "odd") /\ UNCHANGED effects
  /\ UNCHANGED <<desktopVars, observationVars, lock, calls, answers>>

-----------------------------------------------------------------------------
(* Calls                                                                   *)

Changed(d) == \E a \in Aspect : ~Alike(a, desktop[a], d[a])

(* Why a check may rightly fail: the desktop changed since the target was  *)
(* observed or the call began, or the target could not be acted on.        *)
Reason(t) ==
  \/ desktop # call[t].began
  \/ call[t].named # Nothing /\ Changed(call[t].named.saw)
  \/ call[t].named.saw.ready # desktop.ready \/ ~desktop.ready
  \/ ~call[t].named.stable
  \/ call[t].op = "keys" /\ ~(desktop.focus /\ call[t].got.saw.focus)

(* Mutant of Unlocked: the lock is kept when the call ends.                *)
StillLocked(t) == lock' = lock

Unlocked(t) == lock' = IF lock = call[t].num THEN Free ELSE lock

(* The steps that have an effect.                                          *)
Performing(b, op) == {i \in DOMAIN Program[b][op] : Program[b][op][i] \in Effecting}

(* A call ends: refused by a check ("stale"), or otherwise.  Of a call     *)
(* without effect only the refusal matters.                                *)
End(t, outcome, why) ==
  /\ call' = [call EXCEPT ![t] = Idle]
  /\ Unlocked(t)
  /\ answers' = IF Performing(backend, call[t].op) = {} /\ why # "stale" THEN answers
                ELSE answers \union
                  {[num |-> call[t].num, op |-> call[t].op, outcome |-> outcome,
                    why |-> why, reason |-> Reason(t)]}

(* The next step, with what was learnt; the last one returns what was      *)
(* observed.                                                               *)
Advance(t, got) ==
  IF call[t].at = Len(Steps(t))
  THEN /\ End(t, "ok", "done")
       /\ returned' = returned \union (IF call[t].op = "observe" THEN {got} ELSE {})
  ELSE /\ call' = [call EXCEPT ![t].at = @ + 1, ![t].got = got, ![t].reply = "none"]
       /\ UNCHANGED <<lock, answers, returned>>

Begin(t, op, named) ==
  /\ ~Active(t)
  /\ <<backend, op>> \in Offered
  /\ (op = "observe") <=> (named = Nothing)
  /\ calls < MaxCalls /\ calls + changes < MaxEvents
  /\ calls' = calls + 1
  /\ call' = [call EXCEPT ![t] = [Idle EXCEPT !.op = op, !.num = calls', !.named = named,
                                              !.got = named, !.began = desktop]]
  /\ UNCHANGED <<desktopVars, effectVars, observationVars, lock, answers>>

Lock(t) ==
  /\ At(t, {"lock"})
  /\ lock = Free
  /\ lock' = call[t].num
  /\ call' = [call EXCEPT ![t].at = @ + 1]
  /\ UNCHANGED <<desktopVars, effectVars, observationVars, calls, answers>>

(* Mutant of Found: only the last observation is known.                    *)
OnlyLatest(t) == latest.id = call[t].named.id

(* AT-SPI takes the last observation from memory and any other, like UIA   *)
(* and AX, from its private file.                                          *)
Found(t) ==
  \/ backend = "atspi" /\ latest.id = call[t].named.id
  \/ call[t].named \in stored

(* What a look at the desktop adds to an observation.  The fingerprint is  *)
(* the one of the first look for UIA and AX, of the second for AT-SPI.     *)
Seen(t) ==
  LET g == call[t].got
      same == Alike("face", desktop.face, g.saw.face) /\ desktop.ready = g.saw.ready
              /\ Alike("actions", desktop.actions, g.saw.actions)
      face == [g EXCEPT !.saw.face = desktop.face, !.saw.actions = desktop.actions,
                        !.saw.ready = desktop.ready, !.sampled = desktop]
  IN CASE Current(t) = "see_display" -> [g EXCEPT !.saw.display = desktop.display]
       [] Current(t) = "see_window" -> [g EXCEPT !.saw.window = desktop.window,
                                                 !.saw.process = desktop.process]
       [] Current(t) = "see_place" -> [g EXCEPT !.saw.place = desktop.place]
       [] Current(t) = "see_face" -> face
       [] Current(t) = "again" ->
            [(IF backend = "atspi" THEN face ELSE g) EXCEPT !.stable = same]
       [] Current(t) = "glance" -> [g EXCEPT !.saw.focus = desktop.focus]
       [] OTHER -> g

Same(t, aspects) == \A a \in aspects : Alike(a, desktop[a], call[t].got.saw[a])
Alive(t) == Same(t, {"process"})

(* Mutant of InPlace: the ancestry of the target is not looked at again.   *)
AnyPlace(t) == Alive(t)

InPlace(t) == Alive(t) /\ Same(t, {"place"})

(* The fingerprint of AT-SPI and UIA covers the actions and the states; UIA *)
(* and AX want a visible and enabled element also for reading.             *)
Recognised(t) ==
  /\ Alive(t)
  /\ Same(t, {"face"})
  /\ backend # "ax" => Same(t, {"actions"}) /\ desktop.ready = call[t].got.saw.ready
  /\ backend # "atspi" => desktop.ready

(* The element takes the action: it is enabled and, for an invoke of       *)
(* AT-SPI, still has the actions that were observed.                       *)
Takes(t) ==
  Alive(t) /\ (IF Current(t) = "actions" THEN Same(t, {"actions"}) ELSE desktop.ready)

(* What the observation said of the target: enabled and, but for AT-SPI,   *)
(* the same at two looks.  UIA wants the latter also for reading.          *)
Stable(t) == backend = "uia" => call[t].got.stable
Allowed(t) == call[t].got.saw.ready /\ (backend = "atspi" \/ call[t].got.stable)

(* The focus is on the target, and in the same place at both looks.        *)
Focused(t) == desktop.focus

(* The focused target is compared with all of the target asked for, its    *)
(* observation included.                                                   *)
Named(t) == call[t].got.id = call[t].named.id

(* Whether a step finds what the call needs.                               *)
Holds(t) ==
  CASE Current(t) = "load" -> Found(t) /\ Stable(t)
    [] Current(t) = "display" -> Same(t, {"display"})
    [] Current(t) = "window" -> Same(t, {"process", "window"})
    [] Current(t) = "place" -> InPlace(t)
    [] Current(t) \in {"face", "glance"} -> Recognised(t)
    [] Current(t) \in {"actions", "ready"} -> Takes(t)
    [] Current(t) \in {"see_place", "see_face", "again"} -> Alive(t)
    [] Current(t) = "allowed" -> Allowed(t)
    [] Current(t) = "focus" -> Focused(t)
    [] Current(t) = "focused" -> call[t].got.saw.focus
    [] Current(t) = "named" -> Named(t)
    [] OTHER -> TRUE

Local == {"lock", "persist", "keep"} \union Effecting

(* What a call reports that ends before, or after, its first effect was    *)
(* requested.                                                              *)
SoFar(t) ==
  IF \E i \in Performing(backend, call[t].op) : i < call[t].at THEN "unknown" ELSE "none"

(* One look at the desktop, at the recorded observation or at what earlier *)
(* looks learnt.                                                           *)
Look(t) ==
  /\ Active(t) /\ ~Waiting(t) /\ Current(t) \notin Local
  /\ IF Holds(t) THEN Advance(t, Seen(t))
     ELSE End(t, SoFar(t), "stale") /\ UNCHANGED returned
  /\ UNCHANGED <<desktopVars, effectVars, stored, latest, calls>>

(* Cancellation, the deadline, the expiry of the observation, a provider   *)
(* or a file system that fails or is silent: the call ends.                *)
Refuse(t) ==
  /\ Active(t) /\ ~Waiting(t)
  /\ End(t, SoFar(t), "other")
  /\ UNCHANGED <<desktopVars, effectVars, observationVars, calls>>

(* The observation is complete, gets an id of its own (a hash of its       *)
(* generation, its time and the process) and is written to its file.       *)
Persist(t) ==
  /\ At(t, {"persist"})
  /\ LET made == [call[t].got EXCEPT !.id = call[t].num] IN
       /\ stored' = stored \union {made}
       /\ Advance(t, made)
  /\ UNCHANGED <<desktopVars, effectVars, latest, calls>>

Keep(t) ==
  /\ At(t, {"keep"})
  /\ latest' = call[t].got
  /\ Advance(t, call[t].got)
  /\ UNCHANGED <<desktopVars, effectVars, stored, calls>>

Perform(t) ==
  /\ At(t, Effecting)
  /\ wire' = wire \union {[num |-> call[t].num, at |-> call[t].at,
                           named |-> call[t].named, began |-> call[t].began]}
  /\ call' = [call EXCEPT ![t].reply = "awaited"]
  /\ UNCHANGED <<desktopVars, effects, observationVars, lock, calls, answers>>

(* Mutant of Failed: a failed or silent provider is taken to have done     *)
(* nothing.                                                                *)
NothingDone(t) == SoFar(t)

(* What a call reports whose effect was answered with an error or not at   *)
(* all.  The first page of an AX scroll is reported as no effect.          *)
Failed(t) == IF Current(t) = "page" THEN SoFar(t) ELSE "unknown"

(* The answer of the provider.  At the cancellation or deadline boundary   *)
(* the outcome is unknown after a success, too.                            *)
Hear(t) ==
  /\ call[t].reply \in {"done", "odd"}
  /\ \/ call[t].reply = "done" /\ Advance(t, call[t].got)
     \/ call[t].reply = "done" /\ End(t, "unknown", "other") /\ UNCHANGED returned
     \/ call[t].reply = "odd" /\ End(t, Failed(t), "other") /\ UNCHANGED returned
  /\ UNCHANGED <<desktopVars, effectVars, stored, latest, calls>>

(* The timeout of the call to the provider.                                *)
GiveUp(t) ==
  /\ call[t].reply = "awaited"
  /\ End(t, Failed(t), "other")
  /\ UNCHANGED <<desktopVars, effectVars, observationVars, calls>>

ThreadStep(t) ==
  Lock(t) \/ Look(t) \/ Refuse(t) \/ Persist(t) \/ Keep(t) \/ Perform(t) \/ Hear(t) \/ GiveUp(t)

Next ==
  \/ Change
  \/ Restart
  \/ \E m \in wire : Obey(m)
  \/ \E t \in Thread :
       \/ \E o \in Offered, named \in returned \union {Nothing} : Begin(t, o[2], named)
       \/ ThreadStep(t)

Spec == Init /\ [][Next]_vars

-----------------------------------------------------------------------------
(* Properties                                                              *)

Of(set, n) == {m \in set : m.num = n}

(* A call that reported no effect had none and will have none, a call that *)
(* reported success had all of its effects, and an effect is requested at  *)
(* most once: what dispatch_semantic tells the engine is true however late *)
(* the provider obeys and whatever it answers.                             *)
TruthfulOutcomes ==
  /\ \A a \in answers :
       /\ a.outcome = "none" => Of(wire \union effects, a.num) = {}
       /\ a.outcome = "ok" =>
            Cardinality(Of(effects, a.num)) = Cardinality(Performing(backend, a.op))
  /\ wire \intersect effects = {}

(* A version that looks like v was there at some moment between two others.*)
Shown(a, v, from, to) == \E w \in from..to : Alike(a, w, v)

(* What has changed when a call begins, and stays changed, is noticed: when*)
(* an effect is requested, the process, window and place of its element,   *)
(* the displays and the fingerprint have each looked as the caller saw them*)
(* since the call began.  (AX does not fingerprint the actions.)           *)
StaleIsNoticed ==
  [][\A m \in wire' \ wire :
       \A a \in Aspect \ (IF backend = "ax" THEN {"actions"} ELSE {}) :
         Shown(a, m.named.saw[a], m.began[a], desktop[a])]_vars

(* An observation that is returned is framed by two looks: its displays,   *)
(* process and window looked as it says both before and after the          *)
(* fingerprint of its element was taken.  So one of them that changed while*)
(* the observation was made has changed back.  AX looks only once.         *)
SameBeforeAndAfter ==
  [][\A o \in returned' \ returned :
       backend # "ax" => \A a \in {"display", "process", "window"} :
         /\ o.saw[a] <= o.sampled[a]
         /\ Shown(a, o.saw[a], o.sampled[a], desktop[a])]_vars

(* A check refuses a call only for a reason that the caller can see: the   *)
(* desktop changed, or the target could not be acted on.  An observation   *)
(* that was returned stays usable whatever is observed after it and        *)
(* whenever Praefectus is started again.                                   *)
RefusedWithReason == \A a \in answers : a.why = "stale" => a.reason

(* What the engine is promised of every dispatch, as ExecutorContract says *)
(* it: one answer for a call, no effect after an answer of no effect, and  *)
(* success only after the effects, however late the provider obeys.        *)
Contract == INSTANCE ExecutorContract WITH
  Call <- 1..MaxCalls,
  touched <- {m.num : m \in effects},
  told <- {<<a.num, a.outcome>> : a \in answers}

KeepsContract == Contract!Spec

=============================================================================
