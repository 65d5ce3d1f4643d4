----------------------------- MODULE PagesProofs ------------------------------
(***************************************************************************)
(* The browser backend keeps its promises, and what a reader finds in      *)
(* observations is what it named: the proofs, for every set of threads,    *)
(* every number of calls, changes of the page and observations, and all    *)
(* lists of elements.                                                      *)
(*                                                                         *)
(* For the backend two invariants are inductive, one on top of the other.  *)
(* PageInv says which call holds the channel and is waited for, that       *)
(* generations tell observations apart, and that what an observation       *)
(* gathers comes from ever newer documents.  EffectsInv says where the     *)
(* only effect command of a call is: not sent, on its way, landed, or      *)
(* dropped.  That calls go on and come to an end (CallsGoOn,               *)
(* StepsAreCounted) follows from the first, that the backend implements    *)
(* ExecutorContract (BrowserKeepsContract) from both.                      *)
(*                                                                         *)
(* ReaderInv is the invariant of the reader.  What its observations look   *)
(* like inside (OnlyForestsAreSearched) is about a recursive walk, and is  *)
(* proved from sets of elements that no walk leaves.                       *)
(***************************************************************************)
EXTENDS Pages, TLAPS, FiniteSetTheorems, SequenceTheorems, WellFoundedInduction

(* The commands of set_value, one after the other.                         *)
LEMMA EditingIs ==
  Editing = <<"frame", "resolve", "probe", "layout", "frame", "ax", "effect", "readback">>
<1>. DEFINE W == {"frame", "resolve", "probe", "layout", "ax", "effect", "readback"}
<1>. DEFINE e == <<"frame", "resolve", "probe", "layout", "frame", "ax", "effect", "readback">>
<1>1. /\ Invoking \in Seq(W) /\ Len(Invoking) = 7
      /\ <<"readback">> \in Seq(W) /\ Len(<<"readback">>) = 1
  BY DEF Invoking
<1>2. /\ Editing \in Seq(W)
      /\ Len(Editing) = 8
      /\ \A i \in 1..8 : Editing[i] = IF i <= 7 THEN Invoking[i] ELSE <<"readback">>[i - 7]
  <2>. DEFINE r == <<"readback">>
  <2>1. /\ Invoking \o r \in Seq(W)
        /\ Len(Invoking \o r) = Len(Invoking) + Len(r)
        /\ \A i \in 1..Len(Invoking) + Len(r) : (Invoking \o r)[i] =
             IF i <= Len(Invoking) THEN Invoking[i] ELSE r[i - Len(Invoking)]
    <3>. HIDE DEF r, W
    <3>. QED  BY <1>1, ConcatProperties DEF r
  <2>. QED  BY <1>1, <2>1 DEF Editing
<1>3. e \in Seq(W) /\ Len(e) = 8
  OBVIOUS
<1>4. \A i \in 1..7 : Editing[i] = e[i]
  BY <1>2 DEF Invoking
<1>5. Editing[8] = e[8]
  BY <1>2
<1>6. \A i \in 1..8 : Editing[i] = e[i]
  BY <1>4, <1>5
<1>. QED
  BY <1>2, <1>3, <1>6, SeqEqual

(* The program of every operation and its length.                          *)
LEMMA ProgramShapes ==
  /\ DOMAIN Program = {"observe", "read", "invoke", "set_value", "scroll"}
  /\ Program["observe"] = Gathering
  /\ Program["read"] = Probing
  /\ Program["invoke"] = Invoking
  /\ Program["set_value"] = Editing
  /\ Program["scroll"] = Scrolling
  /\ Len(Gathering) = 7 /\ Len(Probing) = 5 /\ Len(Invoking) = 7
  /\ Len(Editing) = 8 /\ Len(Scrolling) = 12
<1>1. /\ DOMAIN Program = {"observe", "read", "invoke", "set_value", "scroll"}
      /\ Program["observe"] = Gathering
      /\ Program["read"] = Probing
      /\ Program["invoke"] = Invoking
      /\ Program["set_value"] = Editing
      /\ Program["scroll"] = Scrolling
  BY DEF Program
<1>2. Len(Gathering) = 7 /\ Len(Probing) = 5 /\ Len(Invoking) = 7 /\ Len(Scrolling) = 12
  BY DEF Gathering, Probing, Invoking, Scrolling
<1>. QED
  BY <1>1, <1>2, EditingIs

(* Every program has at most one effect, last or before its read-back, and *)
(* only the effecting operations have one.                                 *)
LEMMA ProgramFacts ==
  ASSUME NEW o \in DOMAIN Program
  PROVE  /\ Len(Program[o]) \in Nat \ {0}
         /\ DOMAIN Program[o] = 1..Len(Program[o])
         /\ Program[o][1] \notin {"effect", "readback"}
         /\ o \in Effecting => Program[o][Len(Program[o])] \in {"effect", "readback"}
         /\ \A i \in 1..Len(Program[o]) :
              /\ Program[o][i] \in Command
              /\ Program[o][i] \in {"effect", "readback"} => o \in Effecting
              /\ Program[o][i] = "readback" => i = Len(Program[o])
              /\ i < Len(Program[o]) =>
                   (Program[o][i + 1] = "readback" <=> Program[o][i] = "effect")
<1>1. CASE o = "observe"
  BY <1>1, ProgramShapes DEF Command, Effecting, Gathering
<1>2. CASE o = "read"
  BY <1>2, ProgramShapes DEF Command, Effecting, Probing
<1>3. CASE o = "invoke"
  BY <1>3, ProgramShapes DEF Command, Effecting, Invoking
<1>4. CASE o = "set_value"
  BY <1>4, ProgramShapes, EditingIs DEF Command, Effecting
<1>5. CASE o = "scroll"
  BY <1>5, ProgramShapes DEF Command, Effecting, Scrolling
<1>. QED
  BY <1>1, <1>2, <1>3, <1>4, <1>5, ProgramShapes
-----------------------------------------------------------------------------
(* The inductive invariants                                                *)

Page == [doc : 1..MaxChanges + 1, role : Level, view : Level, ready : BOOLEAN]
WireCommand == [id : Nat, num : 1..MaxCalls, cmd : Command, world : Nat]
WireAnswer == [id : Nat, kind : Command \union {"error", "done", "refused", "odd"}, page : Page]
Effect == [num : 1..MaxCalls, doc : Nat]
Report == [num : 1..MaxCalls, op : Effecting, named : ObservationType, outcome : Outcome]
Call == [op : Ops \union {"idle"}, num : Nat, at : Nat, waiting : BOOLEAN,
         named : ObservationType, got : ObservationType]

(* The types of the variables, with sequences that are sequences and a     *)
(* page that has changed at most as often as counted.                      *)
Shapes ==
  /\ page \in Page
  /\ page.doc <= changes + 1 /\ page.role <= changes /\ page.view <= changes
  /\ wire \in Seq(WireCommand)
  /\ inbox \in Seq(WireAnswer)
  /\ nextId \in Nat
  /\ channel \in Nat
  /\ generation \in Nat
  /\ latest \in ObservationType
  /\ returned \subseteq ObservationType
  /\ call \in [Thread -> Call]
  /\ calls \in 0..MaxCalls
  /\ changes \in 0..MaxChanges
  /\ effects \in Seq(Effect)
  /\ answers \subseteq Report

(* Where a call is: an idle thread has forgotten everything, a call that   *)
(* goes on has a number, a position in its program, and waits exactly when *)
(* it holds the channel.                                                   *)
Placed(t) ==
  /\ ~Active(t) => call[t] = Idle
  /\ Active(t) => /\ call[t].num \in 1..calls
                  /\ call[t].at \in 1..Len(Commands(t)) + 1
                  /\ call[t].op # "observe" => call[t].at <= Len(Commands(t))
                  /\ call[t].waiting => call[t].at <= Len(Commands(t))
  /\ call[t].waiting <=> channel # Free /\ channel = call[t].num

(* Numbers tell calls apart, and no number belongs to a call to come.      *)
Numbered ==
  /\ \A s, t \in Thread : Active(s) /\ call[s].num = call[t].num => s = t
  /\ channel # Free => \E t \in Thread : call[t].num = channel
  /\ \A i \in 1..Len(wire) : wire[i].id <= nextId /\ wire[i].num <= calls
  /\ \A i \in 1..Len(inbox) : inbox[i].id \in 1..nextId
  /\ \A i \in 1..Len(effects) : effects[i].num <= calls
  /\ \A a \in answers : a.num <= calls /\ \A t \in Thread : call[t].num # a.num
  /\ \A i \in 1..Len(wire) : wire[i].id >= 1

CallsInv == Shapes /\ (\A t \in Thread : Placed(t)) /\ Numbered

-----------------------------------------------------------------------------
(* An observation is incomplete until it has its generation.               *)
Gathers(t) == call[t].op = "observe"
Unnumbered == {call[t].num : t \in {s \in Thread : Gathers(s) /\ call[s].got.gen = 0}}

(* Generations tell observations apart.                                    *)
Generations ==
  /\ Cardinality(Unnumbered) + generation <= calls
  /\ \A o \in returned : o.gen \in 1..generation
  /\ latest = Nothing \/ latest \in returned
  /\ \A o, p \in returned : o.gen = p.gen => o = p
  /\ \A t \in Thread : Gathers(t) =>
       /\ call[t].got.gen \in 0..generation
       /\ call[t].got.gen # 0 => \A o \in returned : o.gen # call[t].got.gen
       /\ call[t].got.gen # 0 => Past(t)
  /\ \A s, t \in Thread :
       Gathers(s) /\ Gathers(t) /\ call[s].got.gen # 0 /\ call[s].got.gen = call[t].got.gen
         => s = t

(* Everything the observation took comes from documents up to d.           *)
UpTo(got, d) == got.doc <= d /\ got.world <= d /\ \A e \in got.docs : e <= d

Whole(o) == o.docs = {o.doc} /\ o.world = o.doc

(* Documents only get newer, so what is fetched later is at least as new.  *)
Moment(t) ==
  Gathers(t) =>
    /\ UpTo(call[t].got, page.doc)
    /\ call[t].at > 3 => call[t].got.doc <= call[t].got.world
    /\ call[t].at > 4 => call[t].got.docs # {}
    /\ call[t].at <= 4 => call[t].got.docs = {}
    /\ \A e \in call[t].got.docs : call[t].got.doc <= e
    /\ Past(t) => Whole(call[t].got)

Newer(t) ==
  Gathers(t) /\ call[t].waiting =>
    \A i \in 1..Len(inbox) : inbox[i].id = nextId =>
      inbox[i].page.doc <= page.doc /\ UpTo(call[t].got, inbox[i].page.doc)

Moments ==
  /\ \A t \in Thread : Moment(t) /\ Newer(t)
  /\ \A o \in returned : Whole(o)

(* A call on a target uses the observation that its caller named.          *)
Targets ==
  \A t \in Thread : call[t].op \in Effecting \union {"read"} =>
    call[t].got = call[t].named /\ call[t].named \in returned

ObservationsInv == Generations /\ Moments /\ Targets

-----------------------------------------------------------------------------
OnTheWay(n, i) == i \in 1..Len(wire) /\ wire[i].num = n /\ wire[i].cmd = "effect"
Happened(n, i) == i \in 1..Len(effects) /\ effects[i].num = n

Untouched(n) == \A i \in Nat : ~OnTheWay(n, i) /\ ~Happened(n, i)

AtMostOneEffect(n) ==
  /\ \A i, j \in Nat : Happened(n, i) /\ Happened(n, j) => i = j
  /\ \A i, j \in Nat : OnTheWay(n, i) /\ OnTheWay(n, j) => i = j
  /\ \A i, j \in Nat : ~(Happened(n, i) /\ OnTheWay(n, j))

(* The effect command of the call was sent.                                *)
EffectSent(t) ==
  /\ Active(t) /\ ~Past(t)
  /\ Current(t) = "readback" \/ (Current(t) = "effect" /\ call[t].waiting)

Once == \A n \in Nat : AtMostOneEffect(n)

Unsent == \A t \in Thread : Active(t) /\ ~EffectSent(t) => Untouched(call[t].num)

ReadBack == \A t \in Thread :
  Active(t) /\ ~Past(t) /\ Current(t) = "readback" => \E i \in Nat : Happened(call[t].num, i)

Reported ==
  \A a \in answers :
    /\ a.outcome = "none" => Untouched(a.num)
    /\ a.outcome = "ok" => \E i \in Nat : Happened(a.num, i)

(* What an answer tells the call that waits for it.                        *)
Told(t, r) ==
  /\ r.kind \in {"done", "refused", "odd"} => Current(t) = "effect"
  /\ r.kind = "done" => \E j \in Nat : Happened(call[t].num, j)
  /\ r.kind = "refused" => Untouched(call[t].num)

(* What is waited for, on its way to the browser and back.                 *)
Asked(t, m) == m.num = call[t].num /\ m.cmd = Current(t)

Awaited ==
  \A t \in Thread : call[t].waiting =>
    /\ \A i \in 1..Len(wire) : wire[i].id = nextId => Asked(t, wire[i])
    /\ \A i \in 1..Len(inbox) : inbox[i].id = nextId => Told(t, inbox[i])

(* The document in which the effect may happen.                            *)
Meant(n, d) ==
  /\ \A t \in Thread : call[t].num = n => call[t].named.doc = d
  /\ \A a \in answers : a.num = n => a.named.doc = d

Documents ==
  /\ \A i \in 1..Len(wire) : wire[i].cmd = "effect" => Meant(wire[i].num, wire[i].world)
  /\ \A i \in 1..Len(effects) : Meant(effects[i].num, effects[i].doc)

EffectsInv == Once /\ Unsent /\ ReadBack /\ Reported /\ Awaited /\ Documents
-----------------------------------------------------------------------------
(* Calls                                                                   *)

(* An observation that took nothing and an idle thread have their types.   *)
LEMMA Blank == Nothing \in ObservationType /\ Idle \in Call
BY CdpAssumption DEF Nothing, Idle, ObservationType, Call, Level

(* The program of a call that goes on is one of those above.               *)
LEMMA ProgramOf ==
  ASSUME Shapes, NEW t \in Thread, Active(t)
  PROVE  call[t].op \in Ops /\ call[t].op \in DOMAIN Program
BY CdpAssumption DEF Shapes, Active, Call

(* One thread's record is replaced.                                        *)
LEMMA OneCall ==
  ASSUME call \in [Thread -> Call], NEW t \in Thread, NEW r \in Call,
         call' = [call EXCEPT ![t] = r]
  PROVE  /\ call' \in [Thread -> Call]
         /\ call'[t] = r
         /\ \A s \in Thread : s # t => call'[s] = call[s]
OBVIOUS

(* What a call leaves when it ends.                                        *)
LEMMA EndShape ==
  ASSUME Shapes, NEW t \in Thread, Placed(t), Active(t),
         NEW o \in Outcome, End(t, o)
  PROVE  /\ call' \in [Thread -> Call]
         /\ call'[t] = Idle
         /\ \A s \in Thread : s # t => call'[s] = call[s]
         /\ answers \subseteq answers'
         /\ answers' \subseteq Report
         /\ \A a \in answers' : a \in answers \/
              /\ call[t].op \in Effecting
              /\ a.num = call[t].num /\ a.op = call[t].op
              /\ a.named = call[t].named /\ a.outcome = o
<1>1. call' = [call EXCEPT ![t] = Idle]
  BY DEF End
<1>2. call \in [Thread -> Call] /\ answers \subseteq Report
  BY DEF Shapes
<1>3. /\ call' \in [Thread -> Call]
      /\ call'[t] = Idle
      /\ \A s \in Thread : s # t => call'[s] = call[s]
  BY <1>1, <1>2, Blank, OneCall
<1>4. CASE call[t].op \notin Effecting
  BY <1>2, <1>3, <1>4 DEF End
<1>5. CASE call[t].op \in Effecting
  <2>. DEFINE a == [num |-> call[t].num, op |-> call[t].op,
                    named |-> call[t].named, outcome |-> o]
  <2>1. answers' = answers \union {a}
    BY <1>5 DEF End
  <2>2. call[t] \in Call /\ call[t].num \in 1..MaxCalls
    BY <1>2, CdpAssumption DEF Placed, Shapes
  <2>3. a \in Report
    BY <1>5, <2>2 DEF Report, Call
  <2>4. a.num = call[t].num /\ a.op = call[t].op /\ a.named = call[t].named /\ a.outcome = o
    OBVIOUS
  <2>. HIDE DEF a
  <2>. QED
    BY <1>2, <1>3, <1>5, <2>1, <2>3, <2>4
<1>. QED
  BY <1>4, <1>5

(* The record of a call that goes on.                                      *)
LEMMA NextRecord ==
  ASSUME NEW c \in Call, NEW g \in ObservationType
  PROVE  \E r \in Call :
           /\ [c EXCEPT !.at = @ + 1, !.waiting = FALSE, !.got = g] = r
           /\ r.op = c.op /\ r.num = c.num /\ r.at = c.at + 1
           /\ r.waiting = FALSE /\ r.named = c.named /\ r.got = g
<1>. DEFINE moved == [c EXCEPT !.at = @ + 1]
            freed == [moved EXCEPT !.waiting = FALSE]
            r == [freed EXCEPT !.got = g]
<1>1. /\ moved \in Call /\ moved.at = c.at + 1
      /\ moved.op = c.op /\ moved.num = c.num /\ moved.named = c.named
  BY DEF Call
<1>2. [c EXCEPT !.at = @ + 1, !.waiting = FALSE, !.got = g] = r
  OBVIOUS
<1>. HIDE DEF moved
<1>3. /\ freed \in Call /\ freed.at = moved.at /\ freed.waiting = FALSE
      /\ freed.op = moved.op /\ freed.num = moved.num /\ freed.named = moved.named
  BY <1>1 DEF Call
<1>. HIDE DEF freed
<1>4. /\ r \in Call /\ r.at = freed.at /\ r.waiting = freed.waiting /\ r.got = g
      /\ r.op = freed.op /\ r.num = freed.num /\ r.named = freed.named
  BY <1>3 DEF Call
<1>. HIDE DEF r
<1>. QED
  BY <1>1, <1>2, <1>3, <1>4

(* How a call goes on.                                                     *)
LEMMA AdvanceShape ==
  ASSUME Shapes, NEW t \in Thread, Placed(t), Active(t), ~Past(t),
         NEW got \in ObservationType, Advance(t, got)
  PROVE  \/ /\ call[t].op # "observe" /\ call[t].at = Len(Commands(t))
            /\ End(t, "ok")
         \/ /\ ~(call[t].op # "observe" /\ call[t].at = Len(Commands(t)))
            /\ call' \in [Thread -> Call]
            /\ call'[t].op = call[t].op /\ call'[t].num = call[t].num
            /\ call'[t].at = call[t].at + 1 /\ call'[t].waiting = FALSE
            /\ call'[t].named = call[t].named /\ call'[t].got = got
            /\ \A s \in Thread : s # t => call'[s] = call[s]
            /\ answers' = answers
<1>1. CASE call[t].op # "observe" /\ call[t].at = Len(Commands(t))
  BY <1>1 DEF Advance
<1>2. CASE ~(call[t].op # "observe" /\ call[t].at = Len(Commands(t)))
  <2>1. call' = [call EXCEPT ![t].at = @ + 1, ![t].waiting = FALSE, ![t].got = got]
        /\ answers' = answers
    BY <1>2 DEF Advance
  <2>2. call \in [Thread -> Call]
    BY DEF Shapes
  <2>4. call[t] \in Call
    BY <2>2
  <2>5. PICK r \in Call :
          /\ [call[t] EXCEPT !.at = @ + 1, !.waiting = FALSE, !.got = got] = r
          /\ r.op = call[t].op /\ r.num = call[t].num /\ r.at = call[t].at + 1
          /\ r.waiting = FALSE /\ r.named = call[t].named /\ r.got = got
    BY <2>4, NextRecord
  <2>6. call' = [call EXCEPT ![t] = r]
    BY <2>1, <2>2, <2>5
  <2>. QED
    BY <1>2, <2>1, <2>2, <2>5, <2>6, OneCall
<1>. QED
  BY <1>1, <1>2

(* What is placed stays placed when a call ends and the channel, if it     *)
(* held it, is free again.                                                 *)
LEMMA Ended ==
  ASSUME CallsInv, NEW t \in Thread, Active(t),
         call'[t] = Idle, \A s \in Thread : s # t => call'[s] = call[s], calls' = calls,
         \/ channel' = channel /\ ~call[t].waiting
         \/ channel' = Free /\ call[t].waiting
  PROVE  /\ \A s \in Thread : Placed(s)'
         /\ \A s, u \in Thread : Active(s)' /\ call'[s].num = call'[u].num => s = u
         /\ channel' # Free => \E s \in Thread : call'[s].num = channel'
<1>. USE DEF CallsInv
<1>1. ~Active(t)' /\ call'[t].num = 0 /\ call'[t].waiting = FALSE
  BY DEF Active, Idle
<1>2. channel' \in {channel, Free} /\ channel \in Nat
  BY DEF Shapes
<1>3. ASSUME NEW s \in Thread, s # t
      PROVE  call[s].waiting <=> channel' # Free /\ channel' = call[s].num
  BY <1>3 DEF Placed, Numbered
<1>4. \A s \in Thread : Placed(s)'
  <2>. SUFFICES ASSUME NEW s \in Thread
                PROVE  Placed(s)'
    OBVIOUS
  <2>1. CASE s = t
    BY <1>1, <2>1 DEF Placed, Free
  <2>2. CASE s # t
    BY <1>3, <2>2 DEF Placed, Active, Commands
  <2>. QED
    BY <2>1, <2>2
<1>5. \A s, u \in Thread : Active(s)' /\ call'[s].num = call'[u].num => s = u
  BY <1>1 DEF Numbered, Placed, Active
<1>6. channel' # Free => \E s \in Thread : call'[s].num = channel'
  BY DEF Numbered, Placed, Free
<1>. QED
  BY <1>4, <1>5, <1>6

(* And when a call goes on.                                                *)
LEMMA Moved ==
  ASSUME CallsInv, NEW t \in Thread, Active(t),
         call'[t].op = call[t].op, call'[t].num = call[t].num,
         call'[t].at \in 1..Len(Commands(t)) + 1,
         call[t].op # "observe" => call'[t].at <= Len(Commands(t)),
         call'[t].waiting => call'[t].at <= Len(Commands(t)),
         call'[t].waiting \in BOOLEAN,
         \A s \in Thread : s # t => call'[s] = call[s], calls' = calls,
         \/ channel' = channel /\ call'[t].waiting = call[t].waiting
         \/ channel' = Free /\ call[t].waiting /\ ~call'[t].waiting
         \/ channel' = call[t].num /\ channel = Free /\ call'[t].waiting
  PROVE  /\ \A s \in Thread : Placed(s)'
         /\ \A s, u \in Thread : Active(s)' /\ call'[s].num = call'[u].num => s = u
         /\ channel' # Free => \E s \in Thread : call'[s].num = channel'
<1>. USE DEF CallsInv
<1>1. /\ Active(t)' /\ Commands(t)' = Commands(t) /\ call[t].num # 0
      /\ \A s \in Thread : s # t => call[s].num # call[t].num
  BY DEF Active, Commands, Placed, Numbered
<1>2. ASSUME NEW s \in Thread, s # t
      PROVE  call[s].waiting <=> channel' # Free /\ channel' = call[s].num
  BY <1>1, <1>2 DEF Placed, Numbered
<1>3. call'[t].waiting <=> channel' # Free /\ channel' = call'[t].num
  BY <1>1 DEF Placed, Free
<1>4. \A s \in Thread : Placed(s)'
  <2>. SUFFICES ASSUME NEW s \in Thread
                PROVE  Placed(s)'
    OBVIOUS
  <2>1. CASE s = t
    BY <1>1, <1>3, <2>1 DEF Placed
  <2>2. CASE s # t
    BY <1>2, <2>2 DEF Placed, Active, Commands
  <2>. QED
    BY <2>1, <2>2
<1>5. \A s, u \in Thread : Active(s)' /\ call'[s].num = call'[u].num => s = u
  BY <1>1 DEF Numbered, Active
<1>6. channel' # Free => \E s \in Thread : call'[s].num = channel'
  BY DEF Numbered, Placed, Free
<1>. QED
  BY <1>4, <1>5, <1>6
(* What an answer adds to an observation.                                  *)
LEMMA GatheredShape ==
  ASSUME NEW t \in Thread, call[t].got \in ObservationType, NEW p \in Page
  PROVE  /\ Gathered(t, p) \in ObservationType
         /\ Gathered(t, p).gen = call[t].got.gen
         /\ call[t].op # "observe" => Gathered(t, p) = call[t].got
         /\ call[t].op = "observe" =>
              /\ Gathered(t, p).doc =
                   IF Current(t) = "document" THEN p.doc ELSE call[t].got.doc
              /\ Gathered(t, p).world =
                   IF Current(t) = "world" THEN p.doc ELSE call[t].got.world
              /\ Gathered(t, p).docs =
                   IF Current(t) \in {"layout", "ax"} THEN call[t].got.docs \union {p.doc}
                   ELSE call[t].got.docs
<1>. DEFINE g == call[t].got
            seen == [g EXCEPT !.docs = @ \union {p.doc}]
<1>. HIDE DEF g
<1>1. g \in ObservationType /\ g = call[t].got
  BY DEF g
<1>2. /\ p.doc \in 1..MaxChanges + 1 /\ p.doc \in Level \union {MaxChanges + 1}
      /\ p.role \in Level /\ p.view \in Level
  BY CdpAssumption DEF Page, Level
<1>3. /\ seen \in ObservationType /\ seen.gen = g.gen /\ seen.doc = g.doc
      /\ seen.world = g.world /\ seen.docs = g.docs \union {p.doc}
  BY <1>1, <1>2 DEF ObservationType
<1>4. CASE call[t].op # "observe"
  BY <1>1, <1>4 DEF Gathered
<1>5. CASE call[t].op = "observe" /\ Current(t) = "document"
  <2>1. Gathered(t, p) = [g EXCEPT !.doc = p.doc]
    BY <1>1, <1>5 DEF Gathered
  <2>. QED
    BY <1>1, <1>2, <1>5, <2>1 DEF ObservationType
<1>6. CASE call[t].op = "observe" /\ Current(t) = "world"
  <2>1. Gathered(t, p) = [g EXCEPT !.world = p.doc]
    BY <1>1, <1>6 DEF Gathered
  <2>. QED
    BY <1>1, <1>2, <1>6, <2>1 DEF ObservationType
<1>7. CASE call[t].op = "observe" /\ Current(t) = "layout"
  <2>1. Gathered(t, p) = [seen EXCEPT !.view = p.view]
    BY <1>1, <1>7 DEF Gathered, ObservationType
  <2>. HIDE DEF seen
  <2>. QED
    BY <1>1, <1>2, <1>3, <1>7, <2>1 DEF ObservationType
<1>8. CASE call[t].op = "observe" /\ Current(t) = "ax"
  <2>1. Gathered(t, p) = [seen EXCEPT !.role = p.role]
    BY <1>1, <1>8 DEF Gathered, ObservationType
  <2>. HIDE DEF seen
  <2>. QED
    BY <1>1, <1>2, <1>3, <1>8, <2>1 DEF ObservationType
<1>9. CASE /\ call[t].op = "observe"
           /\ Current(t) \notin {"document", "world", "layout", "ax"}
  BY <1>1, <1>9 DEF Gathered
<1>. QED
  BY <1>4, <1>5, <1>6, <1>7, <1>8, <1>9

(* The head of a sequence and what is left of it.                          *)
LEMMA Taken ==
  ASSUME NEW S, NEW q \in Seq(S), q # <<>>
  PROVE  /\ Head(q) \in S /\ Head(q) = q[1] /\ 1 \in 1..Len(q)
         /\ Tail(q) \in Seq(S) /\ Len(Tail(q)) = Len(q) - 1
         /\ \A i \in 1..Len(Tail(q)) : i + 1 \in 1..Len(q) /\ Tail(q)[i] = q[i + 1]
<1>1. Len(q) \in Nat /\ Len(q) # 0
  BY EmptySeq
<1>. QED
  BY <1>1, HeadTailProperties

(* A sequence with one element more.                                       *)
LEMMA Appended ==
  ASSUME NEW S, NEW q \in Seq(S), NEW e \in S
  PROVE  /\ Append(q, e) \in Seq(S) /\ Len(Append(q, e)) = Len(q) + 1
         /\ \A i \in 1..Len(q) : Append(q, e)[i] = q[i]
         /\ Append(q, e)[Len(q) + 1] = e
         /\ Len(q) \in Nat
OBVIOUS

(* The elements of the queues and of the record of effects.                *)
LEMMA Elements ==
  ASSUME Shapes
  PROVE  /\ \A i \in 1..Len(wire) :
              /\ wire[i] \in WireCommand /\ wire[i].id \in Nat /\ wire[i].num \in Nat
              /\ wire[i].cmd \in Command /\ wire[i].world \in Nat
         /\ \A i \in 1..Len(inbox) :
              /\ inbox[i] \in WireAnswer /\ inbox[i].id \in Nat
              /\ inbox[i].page \in Page /\ inbox[i].page.doc \in Nat
         /\ \A i \in 1..Len(effects) :
              /\ effects[i] \in Effect /\ effects[i].num \in Nat /\ effects[i].doc \in Nat
         /\ Len(wire) \in Nat /\ Len(inbox) \in Nat /\ Len(effects) \in Nat
<1>1. /\ wire \in Seq(WireCommand) /\ inbox \in Seq(WireAnswer) /\ effects \in Seq(Effect)
  BY DEF Shapes
<1>2. /\ \A i \in 1..Len(wire) : wire[i] \in WireCommand
      /\ \A i \in 1..Len(inbox) : inbox[i] \in WireAnswer
      /\ \A i \in 1..Len(effects) : effects[i] \in Effect
      /\ Len(wire) \in Nat /\ Len(inbox) \in Nat /\ Len(effects) \in Nat
  BY <1>1
<1>3. \A m \in WireCommand : m.id \in Nat /\ m.num \in Nat /\ m.cmd \in Command /\ m.world \in Nat
  BY DEF WireCommand
<1>4. \A r \in WireAnswer : r.id \in Nat /\ r.page \in Page /\ r.page.doc \in Nat
  BY DEF WireAnswer, Page
<1>5. \A e \in Effect : e.num \in Nat /\ e.doc \in Nat
  BY DEF Effect
<1>. QED
  BY <1>2, <1>3, <1>4, <1>5

(* The page changes no call.                                               *)
LEMMA ChangeCalls ==
  ASSUME CallsInv, Change
  PROVE  CallsInv'
<1>. USE DEF CallsInv
<1>1. UNCHANGED <<wire, inbox, nextId, channel, generation, latest, returned, call, calls,
                  effects, answers>>
  BY DEF Change, channelVars, observationVars
<1>2. changes' = changes + 1 /\ changes < MaxChanges
  BY DEF Change
<1>3. \/ page' = [page EXCEPT !.doc = @ + 1]
      \/ page' = [page EXCEPT !.role = @ + 1]
      \/ page' = [page EXCEPT !.view = @ + 1]
      \/ page' = [page EXCEPT !.ready = ~@]
  BY DEF Change
<1>5. page' \in Page /\ changes' \in 0..MaxChanges
      /\ page'.doc <= changes' + 1 /\ page'.role <= changes' /\ page'.view <= changes'
  <2>1. /\ page \in Page /\ changes \in Nat /\ changes' \in 0..MaxChanges
        /\ page.doc <= changes' + 1 /\ page.role <= changes' /\ page.view <= changes'
        /\ page.doc + 1 \in 1..MaxChanges + 1 /\ page.doc + 1 <= changes' + 1
        /\ page.role + 1 \in Level /\ page.role + 1 <= changes'
        /\ page.view + 1 \in Level /\ page.view + 1 <= changes'
    BY <1>2, CdpAssumption DEF Shapes, Page, Level
  <2>. QED
    BY <1>3, <2>1 DEF Page
<1>4. Shapes'
  BY <1>1, <1>5 DEF Shapes
<1>. QED
  BY <1>1, <1>4 DEF Placed, Active, Commands, Numbered

(* A command that is obeyed leaves the wire, and its answer has its id.    *)
LEMMA ObeyCalls ==
  ASSUME CallsInv, Obey
  PROVE  CallsInv'
<1>. USE DEF CallsInv
<1>. DEFINE m == Head(wire)
<1>1. UNCHANGED <<page, changes, nextId, channel, generation, latest, returned, call, calls,
                  answers>>
  BY DEF Obey, browserVars, channelVars, observationVars
<1>2. /\ m \in WireCommand /\ m = wire[1] /\ 1 \in 1..Len(wire)
      /\ wire' \in Seq(WireCommand) /\ Len(wire') = Len(wire) - 1
      /\ \A i \in 1..Len(wire') : i + 1 \in 1..Len(wire) /\ wire'[i] = wire[i + 1]
  BY Taken DEF Obey, Shapes
<1>3. m.id \in 1..nextId /\ m.num \in 1..MaxCalls /\ m.num <= calls /\ m.cmd \in Command
  <2>1. m.id \in Nat /\ m.num \in 1..MaxCalls /\ m.cmd \in Command /\ nextId \in Nat
    BY <1>2 DEF Shapes, WireCommand
  <2>2. m.id >= 1 /\ m.id <= nextId /\ m.num <= calls
    BY <1>2 DEF Numbered
  <2>. QED
    BY <2>1, <2>2
<1>4. \E k \in Command \union {"error", "done", "refused", "odd"} : Reply(m, k)
  <2>1. \/ Reply(m, "error") \/ Reply(m, m.cmd) \/ Reply(m, "done") \/ Reply(m, "odd")
        \/ Reply(m, "refused")
    BY DEF Obey
  <2>. QED
    BY <1>3, <2>1
<1>5. inbox' \in Seq(WireAnswer) /\ \A i \in 1..Len(inbox') : inbox'[i].id \in 1..nextId
  <2>1. PICK k \in Command \union {"error", "done", "refused", "odd"} : Reply(m, k)
    BY <1>4
  <2>. DEFINE r == [id |-> m.id, kind |-> k, page |-> page]
  <2>2. r \in WireAnswer /\ r.id = m.id
    BY <1>3 DEF WireAnswer, Shapes
  <2>3. inbox' = Append(inbox, r)
    BY <2>1 DEF Reply
  <2>. HIDE DEF r, m
  <2>4. inbox \in Seq(WireAnswer)
    BY DEF Shapes
  <2>. QED
    BY <1>3, <2>2, <2>3, <2>4, Appended DEF Numbered
<1>6. effects' \in Seq(Effect) /\ \A i \in 1..Len(effects') : effects'[i].num <= calls
  <2>1. effects \in Seq(Effect)
    BY DEF Shapes
  <2>2. CASE effects' = effects
    BY <2>1, <2>2 DEF Numbered
  <2>3. CASE Lands(m)
    <3>. DEFINE e == [num |-> m.num, doc |-> page.doc]
    <3>1. e \in Effect /\ e.num = m.num
      BY <1>3, CdpAssumption DEF Effect, Shapes, Page
    <3>2. effects' = Append(effects, e)
      BY <2>3 DEF Lands
    <3>. HIDE DEF e, m
    <3>. QED
      BY <1>3, <2>1, <3>1, <3>2, Appended DEF Numbered
  <2>. QED
    BY <2>2, <2>3 DEF Obey
<1>. HIDE DEF m
<1>8. \A i \in 1..Len(wire') : wire'[i].id \in 1..nextId /\ wire'[i].num <= calls
  <2>1. \A i \in 1..Len(wire) : wire[i].id \in 1..nextId /\ wire[i].num <= calls
    BY Elements DEF Numbered, Shapes
  <2>. QED
    BY <1>2, <2>1
<1>7. Shapes'
  BY <1>1, <1>2, <1>5, <1>6 DEF Shapes
<1>. QED
  BY <1>1, <1>5, <1>6, <1>7, <1>8 DEF Placed, Active, Commands, Numbered
(* A call begins with the next number.                                     *)
LEMMA BeginShape ==
  ASSUME CallsInv, NEW t \in Thread, NEW op, NEW wanted \in ObservationType,
         NEW got \in ObservationType, Begin(t, op, wanted, got)
  PROVE  /\ ~Active(t) /\ op \in Ops /\ op # "idle" /\ calls' = calls + 1
         /\ calls' \in 1..MaxCalls
         /\ call' \in [Thread -> Call]
         /\ call'[t].op = op /\ call'[t].num = calls' /\ call'[t].at = 1
         /\ call'[t].waiting = FALSE /\ call'[t].named = wanted /\ call'[t].got = got
         /\ \A s \in Thread : s # t => call'[s] = call[s]
<1>. DEFINE r == [op |-> op, num |-> calls + 1, at |-> 1,
                  waiting |-> FALSE, named |-> wanted, got |-> got]
<1>1. /\ ~Active(t) /\ op \in Ops /\ op # "idle" /\ calls' = calls + 1
      /\ calls \in Nat /\ calls' \in 1..MaxCalls
  <2>1. ~Active(t) /\ op \in Ops /\ calls' = calls + 1 /\ calls < MaxCalls
    BY DEF Begin
  <2>2. op # "idle"
    BY <2>1, CdpAssumption, ProgramShapes
  <2>3. calls \in 0..MaxCalls
    BY DEF CallsInv, Shapes
  <2>. QED
    BY <2>1, <2>2, <2>3, CdpAssumption
<1>2. r \in Call /\ r.num = calls'
  BY <1>1 DEF Call
<1>3. call' = [call EXCEPT ![t] = r] /\ call \in [Thread -> Call]
  BY DEF Begin, CallsInv, Shapes
<1>4. /\ r.op = op /\ r.at = 1 /\ r.waiting = FALSE /\ r.named = wanted /\ r.got = got
  OBVIOUS
<1>. HIDE DEF r
<1>. QED
  BY <1>1, <1>2, <1>3, <1>4, OneCall

(* A new call has a number of its own and its first command before it.     *)
LEMMA BeginCalls ==
  ASSUME CallsInv, NEW t \in Thread, NEW op, NEW wanted \in ObservationType,
         NEW got \in ObservationType, Begin(t, op, wanted, got)
  PROVE  CallsInv'
<1>. USE DEF CallsInv
<1>1. /\ ~Active(t) /\ op \in Ops /\ op # "idle" /\ calls' = calls + 1
      /\ calls' \in 1..MaxCalls
      /\ call' \in [Thread -> Call]
      /\ call'[t].op = op /\ call'[t].num = calls' /\ call'[t].at = 1
      /\ call'[t].waiting = FALSE /\ call'[t].named = wanted /\ call'[t].got = got
      /\ \A s \in Thread : s # t => call'[s] = call[s]
  BY BeginShape
<1>2. UNCHANGED <<page, changes, wire, inbox, nextId, channel, generation, latest, returned,
                  effects, answers>>
  BY DEF Begin, browserVars, channelVars, observationVars
<1>3. call[t].num = 0 /\ call[t].waiting = FALSE /\ calls \in Nat
  BY <1>1 DEF Placed, Idle, Shapes
<1>4. \A s \in Thread : call[s].num \in 0..calls
  BY <1>3 DEF Placed, Idle
<1>5. channel \in 0..calls
  BY <1>3, <1>4 DEF Numbered, Free
<1>6. Shapes'
  BY <1>1, <1>2 DEF Shapes
<1>7. \A s \in Thread : Placed(s)'
  <2>. SUFFICES ASSUME NEW s \in Thread
                PROVE  Placed(s)'
    OBVIOUS
  <2>1. CASE s = t
    <3>1. op \in DOMAIN Program /\ Commands(t)' = Program[op]
      BY <1>1, CdpAssumption DEF Commands
    <3>2. Len(Program[op]) \in Nat \ {0}
      BY <3>1, ProgramFacts
    <3>. QED
      BY <1>1, <1>2, <1>3, <1>5, <2>1, <3>1, <3>2 DEF Placed, Active, Free
  <2>2. CASE s # t
    BY <1>1, <1>2, <1>3, <2>2 DEF Placed, Active, Commands
  <2>. QED
    BY <2>1, <2>2
<1>8. \A s, u \in Thread : Active(s)' /\ call'[s].num = call'[u].num => s = u
  BY <1>1, <1>3, <1>4 DEF Numbered, Active
<1>9. channel' # Free => \E s \in Thread : call'[s].num = channel'
  BY <1>1, <1>2, <1>3 DEF Numbered, Free
<1>10. \A a \in answers' : a.num <= calls' /\ \A s \in Thread : call'[s].num # a.num
  <2>1. \A a \in answers : a.num <= calls /\ a.num \in Nat
    BY DEF Numbered, Shapes, Report
  <2>. QED
    BY <1>1, <1>2, <1>3, <2>1 DEF Numbered
<1>11. /\ \A i \in 1..Len(wire) : wire[i].num <= calls'
       /\ \A i \in 1..Len(effects) : effects[i].num <= calls'
  <2>1. /\ \A i \in 1..Len(wire) : wire[i].num \in Nat
        /\ \A i \in 1..Len(effects) : effects[i].num \in Nat
    BY Elements
  <2>. QED
    BY <1>1, <1>3, <2>1 DEF Numbered
<1>. QED
  BY <1>2, <1>6, <1>7, <1>8, <1>9, <1>10, <1>11 DEF Numbered

(* The call that sends holds the channel, and its command is the last on   *)
(* the wire.                                                               *)
LEMMA SendCalls ==
  ASSUME CallsInv, NEW t \in Thread, Send(t)
  PROVE  /\ CallsInv'
         /\ call'[t].op = call[t].op /\ call'[t].num = call[t].num
         /\ call'[t].at = call[t].at /\ call'[t].waiting = TRUE
         /\ call'[t].named = call[t].named /\ call'[t].got = call[t].got
         /\ \A s \in Thread : s # t => call'[s] = call[s]
         /\ Len(wire') = Len(wire) + 1
         /\ \A i \in 1..Len(wire) : wire'[i] = wire[i]
         /\ wire'[Len(wire) + 1] = [id |-> nextId', num |-> call[t].num,
                                    cmd |-> Current(t), world |-> call[t].got.world]
<1>. USE DEF CallsInv
<1>1. /\ Active(t) /\ ~Past(t) /\ ~call[t].waiting /\ channel = Free
      /\ channel' = call[t].num /\ nextId' = nextId + 1
      /\ UNCHANGED <<page, changes, inbox, generation, latest, returned, calls, effects, answers>>
  BY DEF Send, MaySend, browserVars, observationVars
<1>2. call[t] \in Call /\ call \in [Thread -> Call] /\ wire \in Seq(WireCommand)
  BY DEF Shapes
<1>3. /\ call[t].num \in 1..calls /\ call[t].at \in 1..Len(Commands(t))
      /\ call[t].num \in 1..MaxCalls /\ Len(Commands(t)) \in Nat
  <2>1. Len(Commands(t)) \in Nat
    BY <1>1, ProgramOf, ProgramFacts DEF Commands
  <2>. QED
    BY <1>1, <2>1, CdpAssumption DEF Placed, Past, Shapes
<1>4. /\ call' \in [Thread -> Call]
      /\ call'[t].op = call[t].op /\ call'[t].num = call[t].num
      /\ call'[t].at = call[t].at /\ call'[t].waiting = TRUE
      /\ call'[t].named = call[t].named /\ call'[t].got = call[t].got
      /\ \A s \in Thread : s # t => call'[s] = call[s]
  <2>. DEFINE r == [call[t] EXCEPT !.waiting = TRUE]
  <2>1. /\ r \in Call /\ r.op = call[t].op /\ r.num = call[t].num /\ r.at = call[t].at
        /\ r.waiting = TRUE /\ r.named = call[t].named /\ r.got = call[t].got
    BY <1>2 DEF Call
  <2>2. call' = [call EXCEPT ![t] = r]
    BY DEF Send, MaySend
  <2>. HIDE DEF r
  <2>. QED
    BY <1>2, <2>1, <2>2, OneCall
<1>5. /\ \A s \in Thread : Placed(s)'
      /\ \A s, u \in Thread : Active(s)' /\ call'[s].num = call'[u].num => s = u
      /\ channel' # Free => \E s \in Thread : call'[s].num = channel'
  <2>1. /\ call'[t].at \in 1..Len(Commands(t)) + 1
        /\ call'[t].at <= Len(Commands(t))
    BY <1>3, <1>4
  <2>2. call'[t].waiting
    BY <1>4
  <2>3. call'[t].waiting \in BOOLEAN
    BY <1>4
  <2>. QED
    BY <1>1, <1>4, <2>1, <2>2, <2>3, Moved
<1>6. /\ Current(t) \in Command /\ call[t].got.world \in Nat
  <2>1. Current(t) \in Command
    BY <1>1, <1>3, ProgramOf, ProgramFacts DEF Commands, Current
  <2>2. call[t].got.world \in Nat
    BY <1>2, CdpAssumption DEF Call, ObservationType, Level
  <2>. QED
    BY <2>1, <2>2
<1>7. /\ wire' \in Seq(WireCommand)
      /\ Len(wire') = Len(wire) + 1 /\ Len(wire) \in Nat
      /\ \A i \in 1..Len(wire) : wire'[i] = wire[i]
      /\ wire'[Len(wire) + 1] = [id |-> nextId', num |-> call[t].num,
                                 cmd |-> Current(t), world |-> call[t].got.world]
  <2>. DEFINE m == [id |-> nextId', num |-> call[t].num, cmd |-> Current(t),
                    world |-> call[t].got.world]
  <2>1. m \in WireCommand
    BY <1>1, <1>3, <1>6 DEF WireCommand, Shapes
  <2>2. wire' = Append(wire, m)
    BY DEF Send, MaySend
  <2>. HIDE DEF m
  <2>3. /\ wire' \in Seq(WireCommand)
        /\ Len(wire') = Len(wire) + 1 /\ Len(wire) \in Nat
        /\ \A i \in 1..Len(wire) : wire'[i] = wire[i]
        /\ wire'[Len(wire) + 1] = m
    BY <1>2, <2>1, <2>2, Appended
  <2>. QED
    BY <2>3 DEF m
<1>8. Shapes'
  BY <1>1, <1>3, <1>4, <1>7 DEF Shapes
<1>9. \A i \in 1..Len(wire') :
        wire'[i].id <= nextId' /\ wire'[i].num <= calls /\ wire'[i].id >= 1
  <2>1. \A i \in 1..Len(wire) : wire[i].id \in Nat /\ wire[i].num \in Nat
    BY Elements
  <2>2. nextId \in Nat /\ call[t].num <= calls
    BY <1>3 DEF Shapes
  <2>3. \A i \in 1..Len(wire) : wire'[i].id <= nextId' /\ wire'[i].num <= calls /\ wire'[i].id >= 1
    BY <1>1, <1>7, <2>1, <2>2 DEF Numbered
  <2>4. LET m == wire'[Len(wire) + 1] IN m.id <= nextId' /\ m.num <= calls /\ m.id >= 1
    BY <1>1, <1>7, <2>2
  <2>. QED
    BY <1>7, <2>3, <2>4
<1>10. \A i \in 1..Len(inbox) : inbox[i].id \in 1..nextId'
  BY <1>1 DEF Numbered, Shapes
<1>11. \A a \in answers : \A s \in Thread : call'[s].num # a.num
  BY <1>4 DEF Numbered
<1>. QED
  BY <1>1, <1>4, <1>5, <1>7, <1>8, <1>9, <1>10, <1>11 DEF Numbered

(* What an ended call leaves to the numbers.                               *)
LEMMA EndNumbers ==
  ASSUME CallsInv, NEW t \in Thread, Active(t), NEW o \in Outcome, End(t, o),
         UNCHANGED <<calls, wire, nextId, effects>>,
         \A i \in 1..Len(inbox') : inbox'[i].id \in 1..nextId,
         \/ channel' = channel /\ ~call[t].waiting
         \/ channel' = Free /\ call[t].waiting
  PROVE  /\ \A s \in Thread : Placed(s)'
         /\ Numbered'
<1>. USE DEF CallsInv
<1>1. /\ call'[t] = Idle
      /\ \A s \in Thread : s # t => call'[s] = call[s]
      /\ \A a \in answers' : a \in answers \/ a.num = call[t].num
  BY EndShape
<1>2. /\ \A s \in Thread : Placed(s)'
      /\ \A s, u \in Thread : Active(s)' /\ call'[s].num = call'[u].num => s = u
      /\ channel' # Free => \E s \in Thread : call'[s].num = channel'
  BY <1>1, Ended
<1>3. call'[t].num = 0 /\ call[t].num \in 1..calls
  BY <1>1 DEF Idle, Placed
<1>4. ASSUME NEW a \in answers'
      PROVE  a.num <= calls /\ \A s \in Thread : call'[s].num # a.num
  <2>1. CASE a \in answers
    BY <1>1, <1>3, <2>1 DEF Numbered, Shapes, Report
  <2>2. CASE a.num = call[t].num
    BY <1>1, <1>3, <2>2 DEF Numbered
  <2>. QED
    BY <1>1, <2>1, <2>2
<1>. QED
  BY <1>2, <1>4 DEF Numbered
(* A refused call was not waiting, so the channel stays with its holder.   *)
LEMMA RefuseCalls ==
  ASSUME CallsInv, NEW t \in Thread, Refuse(t)
  PROVE  CallsInv'
<1>. USE DEF CallsInv
<1>. DEFINE o == IF Current(t) = "readback" THEN "unknown" ELSE "none"
<1>1. /\ Active(t) /\ ~Past(t) /\ ~call[t].waiting /\ End(t, o)
      /\ UNCHANGED <<page, changes, wire, inbox, nextId, channel, generation, latest,
                     returned, calls, effects>>
  BY DEF Refuse, browserVars, channelVars, observationVars
<1>2. o \in Outcome
  BY DEF Outcome
<1>. HIDE DEF o
<1>3. call' \in [Thread -> Call] /\ answers' \subseteq Report
  BY <1>1, <1>2, EndShape
<1>4. \A i \in 1..Len(inbox') : inbox'[i].id \in 1..nextId
  BY <1>1 DEF Numbered
<1>5. (\A s \in Thread : Placed(s)') /\ Numbered'
  BY <1>1, <1>2, <1>4, EndNumbers
<1>6. Shapes'
  BY <1>1, <1>3 DEF Shapes
<1>. QED
  BY <1>5, <1>6

(* A call that gives up frees the channel it held.                         *)
LEMMA GiveUpCalls ==
  ASSUME CallsInv, NEW t \in Thread, GiveUp(t)
  PROVE  CallsInv' /\ Active(t)
<1>. USE DEF CallsInv
<1>1. /\ call[t].waiting /\ End(t, AfterSend(t)) /\ channel' = Free
      /\ UNCHANGED <<page, changes, wire, inbox, nextId, generation, latest,
                     returned, calls, effects>>
  BY DEF GiveUp, MayGiveUp, browserVars, observationVars
<1>2. AfterSend(t) \in Outcome /\ Active(t)
  BY <1>1 DEF AfterSend, Outcome, Placed, Idle
<1>3. call' \in [Thread -> Call] /\ answers' \subseteq Report
  BY <1>1, <1>2, EndShape
<1>4. \A i \in 1..Len(inbox') : inbox'[i].id \in 1..nextId
  BY <1>1 DEF Numbered
<1>5. (\A s \in Thread : Placed(s)') /\ Numbered'
  BY <1>1, <1>2, <1>4, EndNumbers
<1>6. Shapes'
  BY <1>1, <1>3 DEF Shapes, Free
<1>. QED
  BY <1>2, <1>5, <1>6

(* What Read does: a call goes on, ends without effect, or ends as after a *)
(* command whose answer is missing.                                        *)
LEMMA ReadShape ==
  ASSUME CallsInv, NEW t \in Thread, Read(t)
  PROVE  /\ Active(t) /\ ~Past(t) /\ call[t].waiting /\ channel = call[t].num /\ channel' = Free
         /\ call[t].at \in 1..Len(Commands(t)) /\ Len(Commands(t)) \in Nat
         /\ inbox # <<>> /\ 1 \in 1..Len(inbox) /\ inbox[1].page \in Page
         /\ inbox' \in Seq(WireAnswer) /\ Len(inbox') = Len(inbox) - 1
         /\ \A i \in 1..Len(inbox') : i + 1 \in 1..Len(inbox) /\ inbox'[i] = inbox[i + 1]
         /\ UNCHANGED <<page, changes, wire, nextId, generation, latest, returned,
                        calls, effects>>
         /\ \/ /\ Mine(inbox[1]) /\ Usable(t, inbox[1]) /\ Compares(t, inbox[1].page)
               /\ Advance(t, Gathered(t, inbox[1].page))
               /\ Gathered(t, inbox[1].page) \in ObservationType
            \/ /\ Mine(inbox[1]) /\ (inbox[1].kind = "refused" \/ ~Compares(t, inbox[1].page))
               /\ End(t, "none")
            \/ End(t, AfterSend(t))
<1>. USE DEF CallsInv
<1>1. /\ call[t].waiting /\ inbox # <<>> /\ inbox' = Tail(inbox) /\ channel' = Free
      /\ UNCHANGED <<page, changes, wire, nextId, generation, latest, returned,
                     calls, effects>>
  BY DEF Read, browserVars, observationVars
<1>2. Active(t) /\ channel = call[t].num
  BY <1>1 DEF Placed, Idle
<1>3. call[t].at \in 1..Len(Commands(t)) /\ Len(Commands(t)) \in Nat /\ ~Past(t)
  <2>1. Len(Commands(t)) \in Nat
    BY <1>2, ProgramOf, ProgramFacts DEF Commands
  <2>. QED
    BY <1>1, <1>2, <2>1 DEF Placed, Past
<1>4. inbox \in Seq(WireAnswer)
  BY DEF Shapes
<1>5. /\ Head(inbox) = inbox[1] /\ 1 \in 1..Len(inbox)
      /\ inbox' \in Seq(WireAnswer) /\ Len(inbox') = Len(inbox) - 1
      /\ \A i \in 1..Len(inbox') : i + 1 \in 1..Len(inbox) /\ inbox'[i] = inbox[i + 1]
  BY <1>1, <1>4, Taken
<1>6. inbox[1].page \in Page
  BY <1>5, Elements
<1>7. call[t].got \in ObservationType
  BY DEF Shapes, Call
<1>8. Gathered(t, inbox[1].page) \in ObservationType
  BY <1>6, <1>7, GatheredShape
<1>9. \/ /\ Mine(inbox[1]) /\ Usable(t, inbox[1]) /\ Compares(t, inbox[1].page)
         /\ Advance(t, Gathered(t, inbox[1].page))
      \/ /\ Mine(inbox[1]) /\ (inbox[1].kind = "refused" \/ ~Compares(t, inbox[1].page))
         /\ End(t, "none")
      \/ End(t, AfterSend(t))
  BY <1>5 DEF Read
<1>. QED
  BY <1>1, <1>2, <1>3, <1>5, <1>6, <1>8, <1>9

(* A call that reads an answer frees the channel and goes on or ends.      *)
LEMMA ReadCalls ==
  ASSUME CallsInv, NEW t \in Thread, Read(t)
  PROVE  CallsInv'
<1>. USE DEF CallsInv
<1>1. /\ Active(t) /\ ~Past(t) /\ call[t].waiting /\ channel' = Free
      /\ call[t].at \in 1..Len(Commands(t)) /\ Len(Commands(t)) \in Nat
      /\ inbox' \in Seq(WireAnswer) /\ Len(inbox') = Len(inbox) - 1
      /\ \A i \in 1..Len(inbox') : i + 1 \in 1..Len(inbox) /\ inbox'[i] = inbox[i + 1]
      /\ UNCHANGED <<page, changes, wire, nextId, generation, latest, returned,
                     calls, effects>>
  BY ReadShape
<1>2. \/ \E o \in Outcome : End(t, o)
      \/ \E got \in ObservationType : Advance(t, got)
  <2>1. "none" \in Outcome /\ AfterSend(t) \in Outcome
    BY DEF AfterSend, Outcome
  <2>. QED
    BY <2>1, ReadShape
<1>3. \A i \in 1..Len(inbox') : inbox'[i].id \in 1..nextId
  BY <1>1 DEF Numbered
<1>4. ASSUME NEW o \in Outcome, End(t, o)
      PROVE  CallsInv'
  <2>1. call' \in [Thread -> Call] /\ answers' \subseteq Report
    BY <1>1, <1>4, EndShape
  <2>2. (\A s \in Thread : Placed(s)') /\ Numbered'
    BY <1>1, <1>3, <1>4, EndNumbers
  <2>3. Shapes'
    BY <1>1, <2>1 DEF Shapes, Free
  <2>. QED
    BY <2>2, <2>3
<1>5. ASSUME NEW got \in ObservationType, Advance(t, got)
      PROVE  CallsInv'
  <2>1. CASE End(t, "ok")
    BY <1>4, <2>1 DEF Outcome
  <2>2. CASE /\ ~(call[t].op # "observe" /\ call[t].at = Len(Commands(t)))
             /\ call' \in [Thread -> Call]
             /\ call'[t].op = call[t].op /\ call'[t].num = call[t].num
             /\ call'[t].at = call[t].at + 1 /\ call'[t].waiting = FALSE
             /\ call'[t].named = call[t].named /\ call'[t].got = got
             /\ \A s \in Thread : s # t => call'[s] = call[s]
             /\ answers' = answers
    <3>1. /\ call'[t].at \in 1..Len(Commands(t)) + 1
          /\ call[t].op # "observe" => call'[t].at <= Len(Commands(t))
      BY <1>1, <2>2
    <3>2. ~call'[t].waiting
      BY <2>2
    <3>3. call'[t].waiting \in BOOLEAN
      BY <2>2
    <3>4. /\ \A s \in Thread : Placed(s)'
          /\ \A s, u \in Thread : Active(s)' /\ call'[s].num = call'[u].num => s = u
          /\ channel' # Free => \E s \in Thread : call'[s].num = channel'
      BY <1>1, <2>2, <3>1, <3>2, <3>3, Moved
    <3>5. \A s \in Thread : call'[s].num = call[s].num
      BY <2>2
    <3>6. Numbered'
      BY <1>1, <1>3, <2>2, <3>4, <3>5 DEF Numbered
    <3>7. Shapes'
      BY <1>1, <2>2 DEF Shapes, Free
    <3>. QED
      BY <3>4, <3>6, <3>7
  <2>. QED
    BY <1>1, <1>5, <2>1, <2>2, AdvanceShape
<1>. QED
  BY <1>2, <1>4, <1>5

(* Numbering an observation changes nothing else of its call.              *)
LEMMA NumberShape ==
  ASSUME CallsInv, NEW t \in Thread, Number(t), generation < MaxCalls
  PROVE  /\ CallsInv'
         /\ Active(t) /\ Past(t) /\ call[t].got.gen = 0 /\ generation' = generation + 1
         /\ call'[t].op = call[t].op /\ call'[t].num = call[t].num
         /\ call'[t].at = call[t].at /\ call'[t].waiting = call[t].waiting
         /\ call'[t].named = call[t].named
         /\ call'[t].got = [call[t].got EXCEPT !.gen = generation']
         /\ \A s \in Thread : s # t => call'[s] = call[s]
         /\ UNCHANGED <<page, changes, wire, inbox, nextId, channel, latest, returned,
                        calls, effects, answers>>
<1>. USE DEF CallsInv
<1>1. /\ Active(t) /\ Past(t) /\ call[t].got.gen = 0 /\ generation' = generation + 1
      /\ UNCHANGED <<page, changes, wire, inbox, nextId, channel, latest, returned,
                     calls, effects, answers>>
  BY DEF Number, MayNumber, browserVars, channelVars
<1>2. call[t] \in Call /\ call \in [Thread -> Call] /\ generation' \in 0..MaxCalls
  BY <1>1, CdpAssumption DEF Shapes
<1>3. /\ call' \in [Thread -> Call]
      /\ call'[t].op = call[t].op /\ call'[t].num = call[t].num
      /\ call'[t].at = call[t].at /\ call'[t].waiting = call[t].waiting
      /\ call'[t].named = call[t].named
      /\ call'[t].got = [call[t].got EXCEPT !.gen = generation']
      /\ \A s \in Thread : s # t => call'[s] = call[s]
  <2>. DEFINE g == [call[t].got EXCEPT !.gen = generation']
              r == [call[t] EXCEPT !.got = g]
  <2>1. g \in ObservationType
    BY <1>2 DEF Call, ObservationType
  <2>2. call' = [call EXCEPT ![t] = r]
    BY <1>2 DEF Number, MayNumber
  <2>. HIDE DEF g
  <2>3. /\ r \in Call /\ r.op = call[t].op /\ r.num = call[t].num /\ r.at = call[t].at
        /\ r.waiting = call[t].waiting /\ r.named = call[t].named /\ r.got = g
    BY <1>2, <2>1 DEF Call
  <2>. HIDE DEF r
  <2>4. /\ call' \in [Thread -> Call] /\ call'[t] = r
        /\ \A s \in Thread : s # t => call'[s] = call[s]
    BY <1>2, <2>2, <2>3, OneCall
  <2>. QED
    BY <2>3, <2>4 DEF g
<1>4. Shapes'
  BY <1>1, <1>2, <1>3 DEF Shapes
<1>5. \A s \in Thread : /\ call'[s].op = call[s].op /\ call'[s].num = call[s].num
                        /\ call'[s].at = call[s].at /\ call'[s].waiting = call[s].waiting
  BY <1>3
<1>6. ~Active(t)' => FALSE
  BY <1>1, <1>5 DEF Active
<1>7. \A s \in Thread : Placed(s)'
  BY <1>1, <1>3, <1>5, <1>6 DEF Placed, Active, Commands
<1>8. Numbered'
  BY <1>1, <1>5 DEF Numbered, Active
<1>. QED
  BY <1>1, <1>3, <1>4, <1>7, <1>8

(* A stored observation ends its call, which was not waiting.              *)
LEMMA StoreCalls ==
  ASSUME CallsInv, NEW t \in Thread, Store(t)
  PROVE  CallsInv' /\ ~call[t].waiting
<1>. USE DEF CallsInv
<1>1. /\ Active(t) /\ Past(t) /\ latest' = call[t].got
      /\ returned' = returned \union {call[t].got} /\ End(t, "ok")
      /\ UNCHANGED <<page, changes, wire, inbox, nextId, channel, generation, calls, effects>>
  BY DEF Store, MayStore, browserVars, channelVars
<1>2. "ok" \in Outcome
  BY DEF Outcome
<1>3. call' \in [Thread -> Call] /\ answers' \subseteq Report
  BY <1>1, <1>2, EndShape
<1>4. \A i \in 1..Len(inbox') : inbox'[i].id \in 1..nextId
  BY <1>1 DEF Numbered
<1>5. ~call[t].waiting
  <2>1. Len(Commands(t)) \in Nat
    BY <1>1, ProgramOf, ProgramFacts DEF Commands
  <2>2. call[t].at > Len(Commands(t)) /\ call[t].at \in Nat
    BY <1>1, <2>1 DEF Past, Placed
  <2>. QED
    BY <1>1, <2>1, <2>2 DEF Placed
<1>6. (\A s \in Thread : Placed(s)') /\ Numbered'
  BY <1>1, <1>2, <1>4, <1>5, EndNumbers
<1>7. call[t].got \in ObservationType
  BY DEF Shapes, Call
<1>8. Shapes'
  BY <1>1, <1>3, <1>7 DEF Shapes
<1>. QED
  BY <1>5, <1>6, <1>8
-----------------------------------------------------------------------------
(* Observations                                                            *)

(* The calls without a generation are finitely many.                       *)
LEMMA FewUnnumbered ==
  ASSUME CallsInv
  PROVE  /\ IsFiniteSet(Unnumbered) /\ Unnumbered \subseteq 1..calls
         /\ Cardinality(Unnumbered) \in Nat
<1>1. calls \in Nat
  BY DEF CallsInv, Shapes
<1>2. Unnumbered \subseteq 1..calls
  BY DEF Unnumbered, CallsInv, Placed, Gathers, Active
<1>3. 0 \in Int /\ 1 \in Int /\ calls \in Int
  BY <1>1
<1>4. IsFiniteSet(1..calls)
  BY <1>3, FS_Interval
<1>5. IsFiniteSet(Unnumbered)
  BY <1>2, <1>4, FS_Subset
<1>. QED
  BY <1>2, <1>5, FS_CardinalityType

(* Generations stay when no observation is numbered, stored or begun.      *)
LEMMA GenerationsKeep ==
  ASSUME CallsInv, Generations, UNCHANGED <<calls, generation, latest, returned>>,
         \A s \in Thread : Gathers(s)' =>
           /\ Gathers(s)
           /\ call'[s].num = call[s].num /\ call'[s].got.gen = call[s].got.gen
           /\ Past(s) => Past(s)'
  PROVE  Generations'
<1>1. Unnumbered' \subseteq Unnumbered
  BY DEF Unnumbered, Gathers
<1>2. Cardinality(Unnumbered') <= Cardinality(Unnumbered) /\ Cardinality(Unnumbered') \in Nat
  BY <1>1, FewUnnumbered, FS_Subset, FS_CardinalityType
<1>3. Cardinality(Unnumbered') + generation <= calls
  BY <1>2, FewUnnumbered DEF Generations, CallsInv, Shapes
<1>. QED
  BY <1>3 DEF Generations

(* The moments of a call that does nothing.                                *)
LEMMA MomentStays ==
  ASSUME CallsInv, NEW t \in Thread, Moment(t),
         call'[t] = call[t], page'.doc \in Nat, page.doc <= page'.doc
  PROVE  Moment(t)'
<1>1. page.doc \in Nat /\ call[t].got \in ObservationType
  BY DEF CallsInv, Shapes, Page, Call
<1>2. /\ call[t].got.doc \in Nat /\ call[t].got.world \in Nat
      /\ \A e \in call[t].got.docs : e \in Nat
  BY <1>1, CdpAssumption DEF ObservationType, Level
<1>. QED
  BY <1>1, <1>2 DEF Moment, Gathers, Past, Commands, UpTo

(* The answers a call waits for are newer also after a step that answers   *)
(* nothing.                                                                *)
LEMMA NewerStays ==
  ASSUME CallsInv, NEW t \in Thread, Newer(t), nextId' = nextId,
         Gathers(t)' /\ call'[t].waiting => Gathers(t) /\ call[t].waiting,
         call'[t].got = call[t].got, page'.doc \in Nat, page.doc <= page'.doc,
         \A i \in 1..Len(inbox') : \E j \in 1..Len(inbox) : inbox'[i] = inbox[j]
  PROVE  Newer(t)'
<1>1. page.doc \in Nat
  BY DEF CallsInv, Shapes, Page
<1>2. \A i \in 1..Len(inbox) : inbox[i].page.doc \in Nat
  BY Elements DEF CallsInv
<1>. SUFFICES ASSUME Gathers(t), call[t].waiting, NEW i \in 1..Len(inbox'),
                     inbox'[i].id = nextId
              PROVE  /\ inbox'[i].page.doc <= page'.doc
                     /\ UpTo(call[t].got, inbox'[i].page.doc)
  BY DEF Newer, UpTo
<1>3. PICK j \in 1..Len(inbox) : inbox'[i] = inbox[j]
  OBVIOUS
<1>4. inbox[j].page.doc <= page.doc /\ UpTo(call[t].got, inbox[j].page.doc)
  BY <1>3 DEF Newer
<1>. QED
  BY <1>1, <1>2, <1>3, <1>4

(* A call that does not gather has no moments.                             *)
LEMMA NotGathering ==
  ASSUME NEW t \in Thread, ~Gathers(t)'
  PROVE  Moment(t)' /\ Newer(t)'
BY DEF Moment, Newer, Gathers

(* The page only moves to newer documents.                                 *)
LEMMA ChangeObservations ==
  ASSUME CallsInv, ObservationsInv, Change, CallsInv'
  PROVE  ObservationsInv'
<1>1. UNCHANGED <<wire, inbox, nextId, channel, generation, latest, returned, call, calls,
                  effects, answers>>
  BY DEF Change, channelVars, observationVars
<1>2. page.doc <= page'.doc /\ page'.doc \in Nat
  <2>1. page \in Page
    BY DEF CallsInv, Shapes
  <2>2. page.doc \in Nat
    BY <2>1 DEF Page
  <2>3. page'.doc \in {page.doc, page.doc + 1}
    BY <2>1, <2>2 DEF Change, Page
  <2>. QED
    BY <2>2, <2>3
<1>3. Generations'
  BY <1>1, GenerationsKeep DEF ObservationsInv, Gathers, Past, Commands
<1>4. \A t \in Thread : Moment(t)'
  BY <1>1, <1>2, MomentStays DEF ObservationsInv, Moments
<1>5. ASSUME NEW t \in Thread
      PROVE  Newer(t)'
  <2>1. Newer(t)
    BY DEF ObservationsInv, Moments
  <2>. QED
    BY <1>1, <1>2, <2>1, NewerStays DEF Gathers
<1>6. Targets'
  BY <1>1 DEF ObservationsInv, Targets
<1>7. \A o \in returned' : Whole(o)
  BY <1>1 DEF ObservationsInv, Moments
<1>. QED
  BY <1>3, <1>4, <1>5, <1>6, <1>7 DEF ObservationsInv, Moments, Whole

(* An answer is about the present document.                                *)
LEMMA ObeyObservations ==
  ASSUME CallsInv, ObservationsInv, Obey
  PROVE  ObservationsInv'
<1>1. UNCHANGED <<page, changes, nextId, channel, generation, latest, returned, call, calls,
                  answers>>
  BY DEF Obey, browserVars, channelVars, observationVars
<1>2. Generations'
  BY <1>1, GenerationsKeep DEF ObservationsInv, Gathers, Past, Commands
<1>3. page.doc \in Nat
  BY DEF CallsInv, Shapes, Page
<1>4. \A t \in Thread : Moment(t)'
  BY <1>1, <1>3, MomentStays DEF ObservationsInv, Moments
<1>5. \A i \in 1..Len(inbox') :
        \/ i \in 1..Len(inbox) /\ inbox'[i] = inbox[i]
        \/ inbox'[i].page = page
  <2>1. PICK k : Reply(Head(wire), k)
    BY DEF Obey
  <2>. DEFINE r == [id |-> Head(wire).id, kind |-> k, page |-> page]
  <2>2. inbox' = Append(inbox, r) /\ r.page = page
    BY <2>1 DEF Reply
  <2>3. inbox \in Seq(WireAnswer)
    BY DEF CallsInv, Shapes
  <2>. HIDE DEF r
  <2>. QED
    BY <2>2, <2>3
<1>6. ASSUME NEW t \in Thread
      PROVE  Newer(t)'
  <2>. SUFFICES ASSUME Gathers(t), call[t].waiting, NEW i \in 1..Len(inbox'),
                       inbox'[i].id = nextId
                PROVE  inbox'[i].page.doc <= page.doc /\ UpTo(call[t].got, inbox'[i].page.doc)
    BY <1>1 DEF Newer, Gathers, UpTo
  <2>1. CASE i \in 1..Len(inbox) /\ inbox'[i] = inbox[i]
    BY <2>1 DEF ObservationsInv, Moments, Newer
  <2>2. CASE inbox'[i].page = page
    BY <1>3, <2>2 DEF ObservationsInv, Moments, Moment
  <2>. QED
    BY <1>5, <2>1, <2>2
<1>7. Targets' /\ \A o \in returned' : Whole(o)
  BY <1>1 DEF ObservationsInv, Targets, Moments
<1>. QED
  BY <1>1, <1>2, <1>4, <1>6, <1>7 DEF ObservationsInv, Moments, Whole
(* Observations stay as they are when a call ends, or waits for a command  *)
(* that no message answers yet.                                            *)
LEMMA StepObservations ==
  ASSUME CallsInv, ObservationsInv, NEW t \in Thread,
         UNCHANGED <<page, generation, latest, returned, calls>>,
         \A s \in Thread : s # t => call'[s] = call[s],
         ~Gathers(t)' \/ /\ call'[t].op = call[t].op /\ call'[t].num = call[t].num
                         /\ call'[t].at = call[t].at /\ call'[t].got = call[t].got,
         call'[t].op \in Effecting \union {"read"} =>
           call'[t].op = call[t].op /\ call'[t].got = call[t].got
             /\ call'[t].named = call[t].named,
         \A s \in Thread : Newer(s)'
  PROVE  ObservationsInv'
<1>1. page.doc \in Nat
  BY DEF CallsInv, Shapes, Page
<1>2. Generations'
  <2>1. \A s \in Thread : Gathers(s)' =>
          /\ Gathers(s) /\ call'[s].op = call[s].op /\ call'[s].at = call[s].at
          /\ call'[s].num = call[s].num /\ call'[s].got.gen = call[s].got.gen
    BY DEF Gathers
  <2>2. \A s \in Thread : Gathers(s)' => (Past(s) => Past(s)')
    BY <2>1 DEF Past, Commands
  <2>. QED
    BY <2>1, <2>2, GenerationsKeep DEF ObservationsInv
<1>3. ASSUME NEW s \in Thread
      PROVE  Moment(s)'
  <2>1. Moment(s)
    BY DEF ObservationsInv, Moments
  <2>2. CASE s # t
    BY <1>1, <2>1, <2>2, MomentStays
  <2>3. CASE s = t
    BY <2>1, <2>3 DEF Moment, Gathers, Past, Commands, UpTo, Whole
  <2>. QED
    BY <2>2, <2>3
<1>4. Targets'
  BY DEF ObservationsInv, Targets
<1>5. \A o \in returned' : Whole(o)
  BY DEF ObservationsInv, Moments
<1>. QED
  BY <1>2, <1>3, <1>4, <1>5 DEF ObservationsInv, Moments, Whole

(* A call that ends takes its observation along.                           *)
LEMMA EndObservations ==
  ASSUME CallsInv, ObservationsInv, NEW t \in Thread, Active(t), NEW o \in Outcome, End(t, o),
         UNCHANGED <<page, generation, latest, returned, calls, nextId>>,
         \A i \in 1..Len(inbox') : \E j \in 1..Len(inbox) : inbox'[i] = inbox[j]
  PROVE  ObservationsInv'
<1>1. /\ call'[t] = Idle
      /\ \A s \in Thread : s # t => call'[s] = call[s]
  BY EndShape DEF CallsInv
<1>2. ~Gathers(t)' /\ call'[t].op \notin Effecting \union {"read"}
  BY <1>1 DEF Gathers, Idle, Effecting
<1>3. page.doc \in Nat
  BY DEF CallsInv, Shapes, Page
<1>4. ASSUME NEW s \in Thread
      PROVE  Newer(s)'
  <2>1. CASE s = t
    BY <1>2, <2>1, NotGathering
  <2>2. CASE s # t
    <3>1. Newer(s)
      BY DEF ObservationsInv, Moments
    <3>. QED
      BY <1>1, <1>3, <2>2, <3>1, NewerStays DEF Gathers
  <2>. QED
    BY <2>1, <2>2
<1>. QED
  BY <1>1, <1>2, <1>4, StepObservations

(* No answer to a new command exists yet.                                  *)
LEMMA SendObservations ==
  ASSUME CallsInv, ObservationsInv, NEW t \in Thread, Send(t)
  PROVE  ObservationsInv'
<1>1. /\ call'[t].op = call[t].op /\ call'[t].num = call[t].num
      /\ call'[t].at = call[t].at
      /\ call'[t].named = call[t].named /\ call'[t].got = call[t].got
      /\ \A s \in Thread : s # t => call'[s] = call[s]
  BY SendCalls
<1>2. /\ UNCHANGED <<page, inbox, generation, latest, returned, calls>>
      /\ nextId' = nextId + 1
  BY DEF Send, MaySend, browserVars, observationVars
<1>3. \A i \in 1..Len(inbox') : inbox'[i].id # nextId'
  BY <1>2 DEF CallsInv, Numbered, Shapes
<1>4. \A s \in Thread : Newer(s)'
  BY <1>3 DEF Newer
<1>. QED
  BY <1>1, <1>2, <1>4, StepObservations

(* Refusing a call keeps the other observations.                           *)
LEMMA RefuseObservations ==
  ASSUME CallsInv, ObservationsInv, NEW t \in Thread, Refuse(t)
  PROVE  ObservationsInv'
<1>1. /\ Active(t) /\ End(t, IF Current(t) = "readback" THEN "unknown" ELSE "none")
      /\ UNCHANGED <<page, inbox, nextId, generation, latest, returned, calls>>
  BY DEF Refuse, browserVars, channelVars, observationVars
<1>2. PICK o \in Outcome : End(t, o)
  BY <1>1 DEF Outcome
<1>. QED
  BY <1>1, <1>2, EndObservations

(* Giving up a call keeps the other observations.                          *)
LEMMA GiveUpObservations ==
  ASSUME CallsInv, ObservationsInv, NEW t \in Thread, GiveUp(t)
  PROVE  ObservationsInv'
<1>1. /\ End(t, AfterSend(t))
      /\ UNCHANGED <<page, inbox, nextId, generation, latest, returned, calls>>
  BY DEF GiveUp, MayGiveUp, browserVars, observationVars
<1>2. Active(t) /\ AfterSend(t) \in Outcome
  BY GiveUpCalls DEF AfterSend, Outcome
<1>. QED
  BY <1>1, <1>2, EndObservations

(* The commands of an observation.                                         *)
LEMMA GatheringIs ==
  ASSUME NEW t \in Thread, call[t].op = "observe"
  PROVE  /\ Len(Commands(t)) = 7
         /\ call[t].at = 1 => Current(t) = "info"
         /\ call[t].at = 2 => Current(t) = "document"
         /\ call[t].at = 3 => Current(t) = "world"
         /\ call[t].at = 4 => Current(t) = "layout"
         /\ call[t].at = 5 => Current(t) = "dom"
         /\ call[t].at = 6 => Current(t) = "ax"
         /\ call[t].at = 7 => Current(t) = "frame"
<1>1. Commands(t) = Gathering
  BY ProgramShapes DEF Commands
<1>2. Current(t) = Gathering[call[t].at]
  BY <1>1 DEF Current
<1>. QED
  BY <1>1, <1>2, ProgramShapes DEF Gathering

(* What is gathered next comes from no older document, and at the end from *)
(* the first one.                                                          *)
LEMMA GatherMoment ==
  ASSUME CallsInv, NEW t \in Thread, Moment(t), call[t].op = "observe",
         call[t].at \in 1..7, NEW p \in Page, p.doc <= page.doc,
         UpTo(call[t].got, p.doc), Compares(t, p), page' = page,
         call'[t].op = "observe", call'[t].at = call[t].at + 1,
         call'[t].got = Gathered(t, p)
  PROVE  Moment(t)'
<1>. DEFINE g == call[t].got
            h == Gathered(t, p)
<1>1. g \in ObservationType
  BY DEF CallsInv, Shapes, Call
<1>2. /\ h.doc = IF Current(t) = "document" THEN p.doc ELSE g.doc
      /\ h.world = IF Current(t) = "world" THEN p.doc ELSE g.world
      /\ h.docs = IF Current(t) \in {"layout", "ax"} THEN g.docs \union {p.doc} ELSE g.docs
  BY <1>1, GatheredShape
<1>3. /\ p.doc \in Nat /\ page.doc \in Nat /\ g.doc \in Nat /\ g.world \in Nat
      /\ \A e \in g.docs : e \in Nat
  <2>1. p.doc \in Nat /\ page.doc \in Nat
    BY DEF CallsInv, Shapes, Page
  <2>2. g.doc \in Nat /\ g.world \in Nat /\ \A e \in g.docs : e \in Nat
    BY <1>1, CdpAssumption DEF ObservationType, Level
  <2>. QED
    BY <2>1, <2>2
<1>4. /\ g.doc <= p.doc /\ g.world <= p.doc /\ \A e \in g.docs : e <= p.doc
      /\ call[t].at > 3 => g.doc <= g.world
      /\ call[t].at > 4 => g.docs # {}
      /\ call[t].at <= 4 => g.docs = {}
      /\ \A e \in g.docs : g.doc <= e
  BY DEF UpTo, Moment, Gathers
<1>5. Past(t)' <=> call[t].at = 7
  <2>1. Past(t)' <=> call'[t].at > 7
    BY ProgramShapes DEF Past, Commands
  <2>. QED
    BY <2>1
<1>6. Current(t) = "frame" => p.doc = g.doc
  BY DEF Compares
<1>. HIDE DEF g, h
<1>7. UpTo(h, page.doc)
  BY <1>2, <1>3, <1>4 DEF UpTo
<1>8. /\ call'[t].at > 3 => h.doc <= h.world
      /\ call'[t].at > 4 => h.docs # {}
      /\ call'[t].at <= 4 => h.docs = {}
      /\ \A e \in h.docs : h.doc <= e
      /\ call[t].at = 7 => h.docs = {h.doc} /\ h.world = h.doc
  <2>1. CASE call[t].at \in {1, 5}
    BY <1>2, <1>3, <1>4, <2>1, GatheringIs
  <2>2. CASE call[t].at = 2
    BY <1>2, <1>3, <1>4, <2>2, GatheringIs
  <2>3. CASE call[t].at = 3
    BY <1>2, <1>3, <1>4, <2>3, GatheringIs
  <2>4. CASE call[t].at = 4
    BY <1>2, <1>3, <1>4, <2>4, GatheringIs
  <2>5. CASE call[t].at = 6
    BY <1>2, <1>3, <1>4, <2>5, GatheringIs
  <2>6. CASE call[t].at = 7
    <3>1. h.doc = g.doc /\ h.world = g.world /\ h.docs = g.docs /\ p.doc = g.doc
      BY <1>2, <1>6, <2>6, GatheringIs
    <3>2. g.world = g.doc /\ g.docs # {} /\ \A e \in g.docs : e = g.doc
      BY <1>3, <1>4, <2>6, <3>1
    <3>. QED
      BY <1>3, <2>6, <3>1, <3>2
  <2>. QED
    BY <2>1, <2>2, <2>3, <2>4, <2>5, <2>6
<1>9. call'[t].got = h
  BY DEF h
<1>. QED
  BY <1>5, <1>7, <1>8, <1>9 DEF Moment, Gathers, UpTo, Whole
(* A call that reads takes from the answer what is at least as new.        *)
LEMMA ReadObservations ==
  ASSUME CallsInv, ObservationsInv, NEW t \in Thread, Read(t)
  PROVE  ObservationsInv'
<1>. DEFINE r == inbox[1]
<1>1. /\ Active(t) /\ ~Past(t) /\ call[t].waiting
      /\ call[t].at \in 1..Len(Commands(t))
      /\ inbox # <<>> /\ 1 \in 1..Len(inbox) /\ r.page \in Page
      /\ inbox' \in Seq(WireAnswer) /\ Len(inbox') = Len(inbox) - 1
      /\ \A i \in 1..Len(inbox') : i + 1 \in 1..Len(inbox) /\ inbox'[i] = inbox[i + 1]
      /\ UNCHANGED <<page, changes, wire, nextId, generation, latest, returned,
                     calls, effects>>
  BY ReadShape
<1>2. \/ \E o \in Outcome : End(t, o)
      \/ /\ Mine(r) /\ Compares(t, r.page) /\ Advance(t, Gathered(t, r.page))
         /\ Gathered(t, r.page) \in ObservationType
  <2>1. "none" \in Outcome /\ AfterSend(t) \in Outcome
    BY DEF AfterSend, Outcome
  <2>. QED
    BY <2>1, ReadShape
<1>. HIDE DEF r
<1>3. \A i \in 1..Len(inbox') : \E j \in 1..Len(inbox) : inbox'[i] = inbox[j]
  BY <1>1
<1>4. CASE \E o \in Outcome : End(t, o)
  BY <1>1, <1>3, <1>4, EndObservations
<1>5. CASE /\ Mine(r) /\ Compares(t, r.page) /\ Advance(t, Gathered(t, r.page))
           /\ Gathered(t, r.page) \in ObservationType
           /\ ~(\E o \in Outcome : End(t, o))
  <2>1. /\ ~(call[t].op # "observe" /\ call[t].at = Len(Commands(t)))
        /\ call' \in [Thread -> Call]
        /\ call'[t].op = call[t].op /\ call'[t].num = call[t].num
        /\ call'[t].at = call[t].at + 1 /\ call'[t].waiting = FALSE
        /\ call'[t].named = call[t].named /\ call'[t].got = Gathered(t, r.page)
        /\ \A s \in Thread : s # t => call'[s] = call[s]
        /\ answers' = answers
    <3>1. ~End(t, "ok")
      BY <1>5 DEF Outcome
    <3>. QED
      BY <1>1, <1>5, <3>1, AdvanceShape DEF CallsInv
  <2>2. page.doc \in Nat
    BY DEF CallsInv, Shapes, Page
  <2>3. call[t].got \in ObservationType
    BY DEF CallsInv, Shapes, Call
  <2>4. /\ Gathered(t, r.page).gen = call[t].got.gen
        /\ call[t].op # "observe" => Gathered(t, r.page) = call[t].got
    BY <1>1, <2>3, GatheredShape
  <2>5. ASSUME NEW s \in Thread
        PROVE  Newer(s)'
    <3>1. CASE s = t
      BY <2>1, <3>1 DEF Newer
    <3>2. CASE s # t
      <4>1. Newer(s)
        BY DEF ObservationsInv, Moments
      <4>. QED
        <5>1. call'[s] = call[s] /\ nextId' = nextId /\ page' = page
          BY <1>1, <2>1, <3>2
        <5>. QED
          BY <1>3, <2>2, <4>1, <5>1, NewerStays DEF Gathers
    <3>. QED
      BY <3>1, <3>2
  <2>6. CASE call[t].op # "observe"
    <3>1. ~Gathers(t)'
      BY <2>1, <2>6 DEF Gathers
    <3>. QED
      BY <1>1, <2>1, <2>4, <2>5, <2>6, <3>1, StepObservations
  <2>7. CASE call[t].op = "observe"
    <3>1. Moment(t) /\ Newer(t)
      BY DEF ObservationsInv, Moments
    <3>2. r.page.doc <= page.doc /\ UpTo(call[t].got, r.page.doc)
      <4>1. inbox[1].id = nextId
        BY <1>5 DEF Mine, r
      <4>. QED
        BY <1>1, <2>7, <3>1, <4>1 DEF Newer, Gathers, r
    <3>3. call[t].at \in 1..7
      BY <1>1, <2>7, GatheringIs
    <3>4. call'[t].op = "observe" /\ page' = page
      BY <1>1, <2>1, <2>7
    <3>5. Moment(t)'
      BY <1>1, <1>5, <2>1, <2>7, <3>1, <3>2, <3>3, <3>4, GatherMoment
    <3>6. \A s \in Thread : Moment(s)'
      <4>1. \A s \in Thread : Moment(s)
        BY DEF ObservationsInv, Moments
      <4>2. ASSUME NEW s \in Thread, s # t
            PROVE  Moment(s)'
        BY <1>1, <2>1, <2>2, <4>1, <4>2, MomentStays
      <4>. QED
        BY <3>5, <4>2
    <3>7. Generations'
      <4>1. \A s \in Thread : Gathers(s)' =>
              /\ Gathers(s)
              /\ call'[s].num = call[s].num /\ call'[s].got.gen = call[s].got.gen
              /\ Past(s) => Past(s)'
        <5>. TAKE s \in Thread
        <5>1. CASE s = t
          BY <1>1, <2>1, <2>4, <2>7, <5>1 DEF Gathers
        <5>2. CASE s # t
          BY <2>1, <5>2 DEF Gathers, Past, Commands
        <5>. QED
          BY <5>1, <5>2
      <4>. QED
        BY <1>1, <4>1, GenerationsKeep DEF ObservationsInv
    <3>8. Targets'
      <4>1. call'[t].op \notin Effecting \union {"read"}
        BY <2>1, <2>7 DEF Effecting
      <4>. QED
        BY <1>1, <2>1, <4>1 DEF ObservationsInv, Targets
    <3>9. \A o \in returned' : Whole(o)
      BY <1>1 DEF ObservationsInv, Moments
    <3>. QED
      BY <2>5, <3>6, <3>7, <3>8, <3>9 DEF ObservationsInv, Moments, Whole
  <2>. QED
    BY <2>6, <2>7
<1>. QED
  BY <1>2, <1>4, <1>5

(* A new call has no generation, or the one of a stored observation.       *)
Brings(op, wanted, got) ==
  \/ op = "observe" /\ got = Nothing
  \/ op # "observe" /\ got = wanted /\ wanted \in returned

(* Observations stay apart and whole when a call begins.                   *)
LEMMA BeginObservations ==
  ASSUME CallsInv, ObservationsInv, NEW t \in Thread, NEW op,
         NEW wanted \in ObservationType, NEW got \in ObservationType,
         Begin(t, op, wanted, got), Brings(op, wanted, got)
  PROVE  ObservationsInv'
<1>1. /\ ~Active(t) /\ op \in Ops /\ op # "idle" /\ calls' = calls + 1
      /\ call'[t].op = op /\ call'[t].num = calls' /\ call'[t].at = 1
      /\ call'[t].waiting = FALSE /\ call'[t].named = wanted /\ call'[t].got = got
      /\ \A s \in Thread : s # t => call'[s] = call[s]
  <2>1. /\ ~Active(t) /\ op \in Ops /\ op # "idle" /\ calls' = calls + 1
        /\ calls' \in 1..MaxCalls
        /\ call' \in [Thread -> Call]
        /\ call'[t].op = op /\ call'[t].num = calls' /\ call'[t].at = 1
        /\ call'[t].waiting = FALSE /\ call'[t].named = wanted /\ call'[t].got = got
        /\ \A s \in Thread : s # t => call'[s] = call[s]
    BY BeginShape
  <2>. QED
    BY <2>1
<1>0. \/ op = "observe" /\ got = Nothing
      \/ op # "observe" /\ got = wanted /\ wanted \in returned
  BY DEF Brings
<1>2. UNCHANGED <<page, changes, wire, inbox, nextId, channel, generation, latest, returned,
                  effects, answers>>
  BY DEF Begin, browserVars, channelVars, observationVars
<1>3. ~Gathers(t) /\ calls \in Nat /\ generation \in Nat /\ page.doc \in Nat
  BY <1>1 DEF Active, Gathers, CallsInv, Shapes, Page
<1>4. Nothing.gen = 0 /\ Nothing.doc = 0 /\ Nothing.world = 0 /\ Nothing.docs = {}
  BY DEF Nothing
<1>5. Cardinality(Unnumbered') + generation' <= calls'
  <2>1. Unnumbered' \subseteq Unnumbered \union {calls'}
    BY <1>1 DEF Unnumbered, Gathers
  <2>2. /\ IsFiniteSet(Unnumbered \union {calls'})
        /\ Cardinality(Unnumbered \union {calls'}) <= Cardinality(Unnumbered) + 1
        /\ Cardinality(Unnumbered \union {calls'}) \in Nat
        /\ Cardinality(Unnumbered) \in Nat
    <3>1. IsFiniteSet(Unnumbered) /\ Cardinality(Unnumbered) \in Nat
      BY FewUnnumbered
    <3>. HIDE DEF Unnumbered
    <3>2. /\ IsFiniteSet(Unnumbered \union {calls'})
          /\ Cardinality(Unnumbered \union {calls'}) = IF calls' \in Unnumbered
               THEN Cardinality(Unnumbered) ELSE Cardinality(Unnumbered) + 1
      BY <3>1, FS_AddElement
    <3>. QED
      BY <3>1, <3>2
  <2>3. /\ Cardinality(Unnumbered') <= Cardinality(Unnumbered \union {calls'})
        /\ Cardinality(Unnumbered') \in Nat
    BY <2>1, <2>2, FS_Subset, FS_CardinalityType
  <2>4. Cardinality(Unnumbered) + generation <= calls
    BY DEF ObservationsInv, Generations
  <2>. HIDE DEF Unnumbered
  <2>. QED
    BY <1>1, <1>2, <1>3, <2>2, <2>3, <2>4
<1>6. ASSUME NEW s \in Thread, Gathers(s)'
      PROVE  \/ s # t /\ Gathers(s) /\ call'[s] = call[s] /\ (Past(s)' <=> Past(s))
             \/ s = t /\ call'[s].got.gen = 0
  BY <1>0, <1>1, <1>4, <1>6 DEF Gathers, Past, Commands
<1>7. Generations'
  <2>1. /\ \A o \in returned' : o.gen \in 1..generation'
        /\ latest' = Nothing \/ latest' \in returned'
        /\ \A o, p \in returned' : o.gen = p.gen => o = p
    BY <1>2 DEF ObservationsInv, Generations
  <2>2. \A s \in Thread : Gathers(s)' =>
          /\ call'[s].got.gen \in 0..generation'
          /\ call'[s].got.gen # 0 => \A o \in returned' : o.gen # call'[s].got.gen
          /\ call'[s].got.gen # 0 => Past(s)'
    BY <1>2, <1>3, <1>6 DEF ObservationsInv, Generations
  <2>3. \A s, u \in Thread :
          Gathers(s)' /\ Gathers(u)' /\ call'[s].got.gen # 0
            /\ call'[s].got.gen = call'[u].got.gen => s = u
    BY <1>6 DEF ObservationsInv, Generations
  <2>. QED
    BY <1>5, <2>1, <2>2, <2>3 DEF Generations
<1>8. ASSUME NEW s \in Thread
      PROVE  Moment(s)' /\ Newer(s)'
  <2>1. Moment(s) /\ Newer(s)
    BY DEF ObservationsInv, Moments
  <2>2. CASE s # t
    <3>1. Moment(s)'
      BY <1>1, <1>2, <1>3, <2>1, <2>2, MomentStays
    <3>2. Newer(s)'
      BY <1>1, <1>2, <1>3, <2>1, <2>2, NewerStays DEF Gathers
    <3>. QED
      BY <3>1, <3>2
  <2>3. CASE s = t /\ op = "observe"
    <3>1. call'[t].got = Nothing
      BY <1>0, <1>1, <2>3
    <3>2. ~Past(t)'
      BY <1>1, <2>3, ProgramShapes DEF Past, Commands
    <3>. QED
      BY <1>1, <1>2, <1>3, <1>4, <2>3, <3>1, <3>2 DEF Moment, Newer, UpTo
  <2>4. CASE s = t /\ op # "observe"
    BY <1>1, <2>4, NotGathering DEF Gathers
  <2>. QED
    BY <2>2, <2>3, <2>4
<1>9. Targets'
  BY <1>0, <1>1, <1>2 DEF ObservationsInv, Targets, Effecting
<1>10. \A o \in returned' : Whole(o)
  BY <1>2 DEF ObservationsInv, Moments
<1>. QED
  BY <1>7, <1>8, <1>9, <1>10 DEF ObservationsInv, Moments, Whole

(* The stored observation with the generation the caller named is the one  *)
(* it named.                                                               *)
LEMMA OnTargetObservations ==
  ASSUME CallsInv, ObservationsInv, NEW t \in Thread, NEW op \in Ops, NEW wanted \in returned,
         OnTarget(t, op, wanted)
  PROVE  /\ CallsInv' /\ ObservationsInv' /\ latest = wanted
         /\ wanted \in ObservationType /\ Begin(t, op, wanted, wanted)
<1>1. op # "observe" /\ latest # Nothing /\ latest.gen = wanted.gen /\ Begin(t, op, wanted, latest)
  BY DEF OnTarget, Stored
<1>2. latest = wanted
  BY <1>1 DEF ObservationsInv, Generations
<1>3. wanted \in ObservationType
  BY DEF CallsInv, Shapes
<1>. QED
  BY <1>1, <1>2, <1>3, BeginCalls, BeginObservations DEF Brings
(* Only an observation has a step after its last command.                  *)
LEMMA PastGathers ==
  ASSUME CallsInv, NEW t \in Thread, Active(t), Past(t)
  PROVE  Gathers(t) /\ call[t].num \in Nat /\ ~call[t].waiting
<1>1. Len(Commands(t)) \in Nat
  BY ProgramOf, ProgramFacts DEF Commands, CallsInv
<1>2. call[t].at > Len(Commands(t)) /\ call[t].at \in Nat
  BY <1>1 DEF Past, Placed, CallsInv
<1>. QED
  BY <1>1, <1>2 DEF CallsInv, Placed, Gathers

(* There are as many generations as observations that have one.            *)
LEMMA NumberObservations ==
  ASSUME CallsInv, ObservationsInv, NEW t \in Thread, Number(t)
  PROVE  CallsInv' /\ ObservationsInv'
<1>1. Active(t) /\ Past(t) /\ call[t].got.gen = 0 /\ generation' = generation + 1
  BY DEF Number, MayNumber
<1>2. Gathers(t) /\ ~call[t].waiting
  BY <1>1, PastGathers
<1>3. /\ call[t].num \in Unnumbered
      /\ IsFiniteSet(Unnumbered) /\ Cardinality(Unnumbered) \in Nat
      /\ calls \in 0..MaxCalls /\ generation \in Nat
      /\ Cardinality(Unnumbered) + generation <= calls
  BY <1>1, <1>2, FewUnnumbered DEF Unnumbered, CallsInv, Shapes, ObservationsInv, Generations
<1>4. /\ IsFiniteSet(Unnumbered \ {call[t].num})
      /\ Cardinality(Unnumbered \ {call[t].num}) = Cardinality(Unnumbered) - 1
      /\ Cardinality(Unnumbered \ {call[t].num}) \in Nat
  <2>. DEFINE U == Unnumbered
              n == call[t].num
  <2>. HIDE DEF U, n
  <2>1. IsFiniteSet(U) /\ n \in U /\ Cardinality(U) \in Nat
    BY <1>3 DEF U, n
  <2>2. IsFiniteSet(U \ {n}) /\ Cardinality(U \ {n}) = Cardinality(U) - 1
    BY <2>1, FS_RemoveElement
  <2>3. Cardinality(U \ {n}) \in Nat
    BY <2>2, FS_CardinalityType
  <2>. QED
    BY <2>2, <2>3 DEF U, n
<1>5. generation < MaxCalls
  BY <1>3, <1>4, CdpAssumption
<1>6. /\ CallsInv'
      /\ call'[t].op = call[t].op /\ call'[t].num = call[t].num
      /\ call'[t].at = call[t].at /\ call'[t].waiting = call[t].waiting
      /\ call'[t].named = call[t].named
      /\ call'[t].got = [call[t].got EXCEPT !.gen = generation']
      /\ \A s \in Thread : s # t => call'[s] = call[s]
      /\ UNCHANGED <<page, changes, wire, inbox, nextId, channel, latest, returned,
                     calls, effects, answers>>
  BY <1>5, NumberShape
<1>7. /\ call'[t].got.gen = generation' /\ call'[t].got.doc = call[t].got.doc
      /\ call'[t].got.world = call[t].got.world /\ call'[t].got.docs = call[t].got.docs
  <2>1. call[t].got \in ObservationType
    BY DEF CallsInv, Shapes, Call
  <2>. QED
    BY <1>6, <2>1 DEF ObservationType
<1>8. /\ Gathers(t)' /\ (Past(t)' <=> Past(t))
      /\ \A s \in Thread : s # t => (Gathers(s)' <=> Gathers(s)) /\ (Past(s)' <=> Past(s))
  BY <1>2, <1>6 DEF Gathers, Past, Commands
<1>9. Cardinality(Unnumbered') + generation' <= calls'
  <2>1. Unnumbered' \subseteq Unnumbered \ {call[t].num}
    <3>. SUFFICES ASSUME NEW s \in Thread, Gathers(s)', call'[s].got.gen = 0
                  PROVE  call'[s].num \in Unnumbered \ {call[t].num}
      BY DEF Unnumbered, Gathers
    <3>1. s # t
      BY <1>1, <1>3, <1>7
    <3>2. call'[s] = call[s] /\ Gathers(s) /\ Active(s)
      BY <1>6, <1>8, <3>1 DEF Gathers, Active
    <3>3. call[s].num # call[t].num
      BY <3>1, <3>2 DEF CallsInv, Numbered
    <3>. QED
      BY <3>2, <3>3 DEF Unnumbered
  <2>2. /\ Cardinality(Unnumbered') <= Cardinality(Unnumbered \ {call[t].num})
        /\ Cardinality(Unnumbered') \in Nat
    BY <1>4, <2>1, FS_Subset, FS_CardinalityType
  <2>. HIDE DEF Unnumbered
  <2>. QED
    BY <1>1, <1>3, <1>4, <1>6, <2>2
<1>10. /\ \A s \in Thread : s # t /\ Gathers(s) => call[s].got.gen \in 0..generation
       /\ \A o \in returned : o.gen \in 1..generation
  BY DEF ObservationsInv, Generations
<1>15. /\ \A s \in Thread : s # t /\ Gathers(s) => call[s].got.gen # generation'
       /\ \A o \in returned : o.gen # generation'
       /\ generation' \in 0..generation' /\ generation' # 0
  BY <1>1, <1>3, <1>10
<1>11. Generations'
  <2>1. /\ \A o \in returned' : o.gen \in 1..generation'
        /\ latest' = Nothing \/ latest' \in returned'
        /\ \A o, p \in returned' : o.gen = p.gen => o = p
    BY <1>1, <1>3, <1>6 DEF ObservationsInv, Generations
  <2>2. ASSUME NEW s \in Thread, Gathers(s)'
        PROVE  /\ call'[s].got.gen \in 0..generation'
               /\ call'[s].got.gen # 0 => \A o \in returned' : o.gen # call'[s].got.gen
               /\ call'[s].got.gen # 0 => Past(s)'
    <3>1. CASE s = t
      BY <1>1, <1>6, <1>7, <1>8, <1>15, <3>1
    <3>2. CASE s # t
      BY <1>1, <1>3, <1>6, <1>8, <2>2, <3>2 DEF ObservationsInv, Generations
    <3>. QED
      BY <3>1, <3>2
  <2>3. \A s, u \in Thread :
          Gathers(s)' /\ Gathers(u)' /\ call'[s].got.gen # 0
            /\ call'[s].got.gen = call'[u].got.gen => s = u
    <3>. SUFFICES ASSUME NEW s \in Thread, NEW u \in Thread, Gathers(s)', Gathers(u)',
                         call'[s].got.gen # 0, call'[s].got.gen = call'[u].got.gen
                  PROVE  s = u
      OBVIOUS
    <3>1. CASE s = t \/ u = t
      BY <1>6, <1>7, <1>8, <1>15, <3>1
    <3>2. CASE s # t /\ u # t
      BY <1>6, <1>8, <3>2 DEF ObservationsInv, Generations
    <3>. QED
      BY <3>1, <3>2
  <2>. QED
    BY <1>9, <2>1, <2>2, <2>3 DEF Generations
<1>12. ASSUME NEW s \in Thread
       PROVE  Moment(s)' /\ Newer(s)'
  <2>1. Moment(s) /\ Newer(s)
    BY DEF ObservationsInv, Moments
  <2>2. page.doc \in Nat
    BY DEF CallsInv, Shapes, Page
  <2>3. CASE s # t
    <3>1. call'[s] = call[s] /\ page' = page /\ inbox' = inbox /\ nextId' = nextId
      BY <1>6, <2>3
    <3>2. Moment(s)'
      BY <2>1, <2>2, <3>1, MomentStays
    <3>3. Newer(s)'
      BY <2>1, <2>2, <3>1, NewerStays DEF Gathers
    <3>. QED
      BY <3>2, <3>3
  <2>4. CASE s = t
    BY <1>2, <1>6, <1>7, <1>8, <2>1, <2>4 DEF Moment, Newer, UpTo, Whole
  <2>. QED
    BY <2>3, <2>4
<1>13. Targets'
  BY <1>2, <1>6 DEF ObservationsInv, Targets, Gathers, Effecting
<1>14. \A o \in returned' : Whole(o)
  BY <1>6 DEF ObservationsInv, Moments
<1>. QED
  BY <1>6, <1>11, <1>12, <1>13, <1>14 DEF ObservationsInv, Moments, Whole

(* A whole observation with a generation of its own is stored.             *)
LEMMA StoreObservations ==
  ASSUME CallsInv, ObservationsInv, NEW t \in Thread, Store(t)
  PROVE  ObservationsInv'
<1>. DEFINE g == call[t].got
<1>1. /\ Active(t) /\ Past(t) /\ g.gen > 0 /\ latest' = g
      /\ returned' = returned \union {g} /\ End(t, "ok")
      /\ UNCHANGED <<page, changes, wire, inbox, nextId, channel, generation, calls, effects>>
  BY DEF Store, MayStore, browserVars, channelVars
<1>2. Gathers(t) /\ ~call[t].waiting
  BY <1>1, PastGathers
<1>3. g \in ObservationType /\ g.gen \in Nat
  BY DEF CallsInv, Shapes, Call, ObservationType
<1>. HIDE DEF g
<1>4. /\ call'[t] = Idle
      /\ \A s \in Thread : s # t => call'[s] = call[s]
  BY <1>1, EndShape DEF CallsInv, Outcome
<1>5. ~Gathers(t)' /\ call'[t].op \notin Effecting \union {"read"}
  BY <1>4 DEF Gathers, Idle, Effecting
<1>6. g.gen \in 0..generation /\ g.gen # 0 /\ (\A o \in returned : o.gen # g.gen) /\ Whole(g)
  BY <1>1, <1>2, <1>3 DEF g, ObservationsInv, Generations, Moments, Moment
<1>7. \A s \in Thread : Gathers(s)' =>
        s # t /\ Gathers(s) /\ call'[s] = call[s] /\ (Past(s)' <=> Past(s))
  BY <1>4, <1>5 DEF Gathers, Past, Commands
<1>8. Cardinality(Unnumbered') + generation' <= calls'
  <2>1. Unnumbered' \subseteq Unnumbered
    BY <1>7 DEF Unnumbered
  <2>2. Cardinality(Unnumbered') <= Cardinality(Unnumbered) /\ Cardinality(Unnumbered') \in Nat
    BY <2>1, FewUnnumbered, FS_Subset, FS_CardinalityType
  <2>. QED
    BY <1>1, <2>2, FewUnnumbered DEF ObservationsInv, Generations, CallsInv, Shapes
<1>9. Generations'
  <2>1. /\ \A o \in returned' : o.gen \in 1..generation'
        /\ latest' \in returned'
        /\ \A o, p \in returned' : o.gen = p.gen => o = p
    BY <1>1, <1>3, <1>6 DEF ObservationsInv, Generations, CallsInv, Shapes
  <2>2. ASSUME NEW s \in Thread, Gathers(s)'
        PROVE  /\ call'[s].got.gen \in 0..generation'
               /\ call'[s].got.gen # 0 => \A o \in returned' : o.gen # call'[s].got.gen
               /\ call'[s].got.gen # 0 => Past(s)'
    <3>1. s # t /\ Gathers(s) /\ call'[s] = call[s] /\ (Past(s)' <=> Past(s))
      BY <1>7, <2>2
    <3>2. call[s].got.gen # 0 => call[s].got.gen # g.gen
      BY <1>2, <3>1 DEF g, ObservationsInv, Generations
    <3>. QED
      BY <1>1, <3>1, <3>2 DEF ObservationsInv, Generations
  <2>3. \A s, u \in Thread :
          Gathers(s)' /\ Gathers(u)' /\ call'[s].got.gen # 0
            /\ call'[s].got.gen = call'[u].got.gen => s = u
    BY <1>7 DEF ObservationsInv, Generations
  <2>. QED
    BY <1>8, <2>1, <2>2, <2>3 DEF Generations
<1>10. ASSUME NEW s \in Thread
       PROVE  Moment(s)' /\ Newer(s)'
  <2>1. Moment(s) /\ Newer(s) /\ page.doc \in Nat
    BY DEF ObservationsInv, Moments, CallsInv, Shapes, Page
  <2>2. CASE s # t
    <3>1. call'[s] = call[s] /\ page' = page /\ inbox' = inbox /\ nextId' = nextId
      BY <1>1, <1>4, <2>2
    <3>2. Moment(s)'
      BY <2>1, <3>1, MomentStays
    <3>3. Newer(s)'
      BY <2>1, <3>1, NewerStays DEF Gathers
    <3>. QED
      BY <3>2, <3>3
  <2>3. CASE s = t
    BY <1>5, <2>3, NotGathering
  <2>. QED
    BY <2>2, <2>3
<1>11. Targets'
  BY <1>1, <1>4, <1>5 DEF ObservationsInv, Targets
<1>12. \A o \in returned' : Whole(o)
  BY <1>1, <1>6 DEF ObservationsInv, Moments
<1>. QED
  BY <1>9, <1>10, <1>11, <1>12 DEF ObservationsInv, Moments, Whole

-----------------------------------------------------------------------------
PageInv == CallsInv /\ ObservationsInv

(* Nothing was observed, and nothing is asked, at the start.               *)
LEMMA PageStart ==
  ASSUME Init
  PROVE  PageInv
<1>. USE DEF Init
<1>1. \A t \in Thread : call[t] = Idle /\ ~Active(t) /\ ~Gathers(t) /\ call[t].op = "idle"
                        /\ call[t].num = 0 /\ call[t].waiting = FALSE
  BY DEF Idle, Active, Gathers
<1>2. Shapes
  <2>1. page \in Page /\ page.doc = 1 /\ page.role = 0 /\ page.view = 0
    BY CdpAssumption DEF Page, Level
  <2>2. call \in [Thread -> Call]
    BY Blank
  <2>. QED
    BY <2>1, <2>2, CdpAssumption, Blank DEF Shapes, Free
<1>3. CallsInv
  BY <1>1, <1>2 DEF CallsInv, Placed, Numbered, Free
<1>4. Unnumbered = {}
  BY <1>1 DEF Unnumbered
<1>5. Generations
  BY <1>1, <1>4, FS_EmptySet DEF Generations
<1>. QED
  BY <1>1, <1>3, <1>5 DEF PageInv, ObservationsInv, Moments, Moment, Newer, Targets, Effecting

(* Every step keeps the calls in order and the observations whole.         *)
LEMMA PageStep ==
  ASSUME PageInv, [Next]_vars
  PROVE  PageInv'
<1>. USE DEF PageInv
<1>1. CASE Change
  BY <1>1, ChangeCalls, ChangeObservations
<1>2. CASE Obey
  BY <1>2, ObeyCalls, ObeyObservations
<1>3. ASSUME NEW t \in Thread, Observe(t)
      PROVE  PageInv'
  <2>1. Begin(t, "observe", Nothing, Nothing) /\ Nothing \in ObservationType
    BY <1>3, Blank DEF Observe
  <2>. QED
    BY <2>1, BeginCalls, BeginObservations DEF Brings
<1>4. ASSUME NEW t \in Thread, NEW op \in Ops, NEW wanted \in returned, OnTarget(t, op, wanted)
      PROVE  PageInv'
  BY <1>4, OnTargetObservations
<1>5. ASSUME NEW t \in Thread, ThreadStep(t)
      PROVE  PageInv'
  <2>1. CASE Send(t)
    BY <2>1, SendCalls, SendObservations
  <2>2. CASE Refuse(t)
    BY <2>2, RefuseCalls, RefuseObservations
  <2>3. CASE Read(t)
    BY <2>3, ReadCalls, ReadObservations
  <2>4. CASE GiveUp(t)
    BY <2>4, GiveUpCalls, GiveUpObservations
  <2>5. CASE Number(t)
    BY <2>5, NumberObservations
  <2>6. CASE Store(t)
    BY <2>6, StoreCalls, StoreObservations
  <2>. QED
    BY <1>5, <2>1, <2>2, <2>3, <2>4, <2>5, <2>6 DEF ThreadStep
<1>6. CASE UNCHANGED vars
  <2>1. UNCHANGED <<page, changes, wire, inbox, nextId, channel, generation, latest,
                    returned, call, calls, effects, answers>>
    BY <1>6 DEF vars, browserVars, channelVars, observationVars
  <2>2. CallsInv'
    BY <2>1 DEF CallsInv, Shapes, Placed, Numbered, Active, Commands
  <2>3. ObservationsInv'
    BY <2>1 DEF ObservationsInv, Generations, Unnumbered, Gathers, Past, Commands, Moments,
       Moment, Newer, UpTo, Whole, Targets
  <2>. QED
    BY <2>2, <2>3
<1>. QED
  BY <1>1, <1>2, <1>3, <1>4, <1>5, <1>6 DEF Next

(* Calls are in order and observations whole in every reachable state.     *)
LEMMA PageAlways == Spec => []PageInv
<1>1. Init => PageInv
  BY PageStart
<1>2. PageInv /\ [Next]_vars => PageInv'
  BY PageStep
<1>. QED
  BY <1>1, <1>2, PTL DEF Spec

(* An observation never mixes two documents, however the page navigates    *)
(* between the commands of TungsteniteChannel that gather it.              *)
THEOREM ObservationsAreOfOneDocument == Spec => []OneDocument
<1>1. PageInv => OneDocument
  BY DEF PageInv, ObservationsInv, Moments, Whole, OneDocument
<1>. QED
  BY <1>1, PageAlways, PTL

(* Who holds the channel waits for an answer and can give up; who does not *)
(* wait can send when nobody holds it, and who has sent everything has     *)
(* only its observation left to number and to store.  No call of           *)
(* CdpExecutor is ever stuck (TungsteniteChannel).                         *)
THEOREM CallsGoOn == Spec => []NobodyIsStuck
<1>1. PageInv => NobodyIsStuck
  <2>. SUFFICES ASSUME PageInv, NEW t \in Thread, Active(t)
                PROVE  GoesOnAlone(t) \/ \E s \in Thread : call[s].waiting /\ GoesOnAlone(s)
    BY DEF NobodyIsStuck
  <2>1. CallsInv /\ Shapes /\ Numbered
    BY DEF PageInv, CallsInv
  <2>2. CASE Past(t)
    <3>1. call[t].got.gen \in Nat
      BY <2>1, CdpAssumption DEF Shapes, Call, ObservationType
    <3>. QED
      BY <2>2, <3>1 DEF GoesOnAlone, MayNumber, MayStore
  <2>3. CASE call[t].waiting
    BY <2>3 DEF GoesOnAlone, MayGiveUp
  <2>4. CASE ~Past(t) /\ ~call[t].waiting /\ channel = Free
    BY <2>4 DEF GoesOnAlone, MaySend
  <2>5. CASE channel # Free
    <3>1. PICK s \in Thread : call[s].num = channel
      BY <2>1, <2>5 DEF Numbered
    <3>2. call[s].waiting
      BY <2>1, <2>5, <3>1 DEF CallsInv, Placed
    <3>. QED
      BY <3>2 DEF GoesOnAlone, MayGiveUp
  <2>. QED
    BY <2>2, <2>3, <2>4, <2>5
<1>. QED
  BY <1>1, PageAlways, PTL

(* The steps that a call has left, by where it is.                         *)
Sending(c) == IF c.waiting THEN 0 ELSE 1
Numbering(c) == IF c.got.gen = 0 THEN 1 ELSE 0

Left(n, at, w, g) == 1 + 2 * (n + 1 - at) + w + g

LEMMA LeftLess ==
  ASSUME NEW n \in Nat, NEW at \in Nat, NEW w \in 0..1, NEW g \in 0..1,
         NEW d \in 0..1, NEW v \in 0..1, NEW h \in 0..1, at + d <= n + 1,
         2 * d + w + g > v + h
  PROVE  Left(n, at + d, v, h) \in 0..Left(n, at, w, g) - 1
BY DEF Left

LEMMA StepsLeftIs ==
  ASSUME PageInv, NEW t \in Thread, Active(t)
  PROVE  /\ Len(Commands(t)) \in Nat /\ call[t].at \in Nat
         /\ call[t].at <= Len(Commands(t)) + 1
         /\ call[t].waiting => call[t].at <= Len(Commands(t))
         /\ Sending(call[t]) \in 0..1 /\ Numbering(call[t]) \in 0..1
         /\ StepsLeft(t) = Left(Len(Commands(t)), call[t].at, Sending(call[t]), Numbering(call[t]))
<1>1. Len(Commands(t)) \in Nat
  BY ProgramOf, ProgramFacts DEF PageInv, CallsInv, Commands
<1>2. /\ call[t].at \in Nat /\ call[t].at <= Len(Commands(t)) + 1
      /\ call[t].waiting => call[t].at <= Len(Commands(t))
  BY <1>1 DEF PageInv, CallsInv, Placed
<1>3. Sending(call[t]) \in 0..1 /\ Numbering(call[t]) \in 0..1
  BY DEF Sending, Numbering
<1>4. StepsLeft(t) = Left(Len(Commands(t)), call[t].at, Sending(call[t]), Numbering(call[t]))
  BY DEF StepsLeft, Left, Sending, Numbering
<1>. QED
  BY <1>1, <1>2, <1>3, <1>4

(* A call that ends has none left.                                         *)
LEMMA EndCounts ==
  ASSUME PageInv, NEW t \in Thread, Active(t), call'[t] = Idle
  PROVE  StepsLeft(t)' \in 0..StepsLeft(t) - 1
<1>1. StepsLeft(t)' = 0
  BY DEF StepsLeft, Active, Idle
<1>2. PICK n \in Nat, at \in Nat, w \in 0..1, g \in 0..1 :
        at <= n + 1 /\ StepsLeft(t) = Left(n, at, w, g)
  BY StepsLeftIs
<1>3. 0 \in 0..Left(n, at, w, g) - 1
  BY <1>2 DEF Left
<1>. QED
  BY <1>1, <1>2, <1>3

(* A call that sends, hears the answer, or is numbered has fewer left.     *)
LEMMA MoveCounts ==
  ASSUME PageInv, NEW t \in Thread, Active(t), call'[t].op = call[t].op,
         \/ /\ call'[t].at = call[t].at /\ ~call[t].waiting /\ call'[t].waiting
            /\ call'[t].got.gen = call[t].got.gen
         \/ /\ call'[t].at = call[t].at + 1 /\ call[t].waiting /\ ~call'[t].waiting
            /\ call'[t].got.gen = call[t].got.gen
         \/ /\ call'[t].at = call[t].at /\ (call'[t].waiting <=> call[t].waiting)
            /\ call[t].got.gen = 0 /\ call'[t].got.gen # 0
  PROVE  StepsLeft(t)' \in 0..StepsLeft(t) - 1
<1>1. PICK n \in Nat : n = Len(Commands(t))
  BY StepsLeftIs
<1>2. PICK at \in Nat : at = call[t].at /\ at <= n + 1 /\ (call[t].waiting => at <= n)
  BY <1>1, StepsLeftIs
<1>3. PICK w \in 0..1, g \in 0..1 : w = Sending(call[t]) /\ g = Numbering(call[t])
  BY StepsLeftIs
<1>4. StepsLeft(t) = Left(n, at, w, g)
  BY <1>1, <1>2, <1>3, StepsLeftIs
<1>5. PICK d \in 0..1, v \in 0..1, h \in 0..1 :
        /\ call'[t].at = at + d /\ v = Sending(call'[t]) /\ h = Numbering(call'[t])
        /\ at + d <= n + 1 /\ 2 * d + w + g > v + h
  <2>1. CASE /\ call'[t].at = call[t].at /\ ~call[t].waiting /\ call'[t].waiting
             /\ call'[t].got.gen = call[t].got.gen
    <3>1. w = 1 /\ 0 = Sending(call'[t]) /\ g = Numbering(call'[t]) /\ call'[t].at = at + 0
      BY <1>2, <1>3, <2>1 DEF Sending, Numbering
    <3>. QED
      BY <1>2, <3>1
  <2>2. CASE /\ call'[t].at = call[t].at + 1 /\ call[t].waiting /\ ~call'[t].waiting
             /\ call'[t].got.gen = call[t].got.gen
    <3>1. /\ w = 0 /\ 1 = Sending(call'[t]) /\ g = Numbering(call'[t])
          /\ call'[t].at = at + 1 /\ at + 1 <= n + 1
      BY <1>2, <1>3, <2>2 DEF Sending, Numbering
    <3>. QED
      BY <3>1
  <2>3. CASE /\ call'[t].at = call[t].at /\ (call'[t].waiting <=> call[t].waiting)
             /\ call[t].got.gen = 0 /\ call'[t].got.gen # 0
    <3>1. g = 1 /\ w = Sending(call'[t]) /\ 0 = Numbering(call'[t]) /\ call'[t].at = at + 0
      BY <1>2, <1>3, <2>3 DEF Sending, Numbering
    <3>. QED
      BY <1>2, <3>1
  <2>. QED
    BY <2>1, <2>2, <2>3
<1>6. StepsLeft(t)' = Left(n, at + d, v, h)
  BY <1>1, <1>5 DEF StepsLeft, Left, Active, Commands, Sending, Numbering
<1>7. Left(n, at + d, v, h) \in 0..Left(n, at, w, g) - 1
  BY <1>5, LeftLess
<1>. QED
  BY <1>4, <1>6, <1>7

(* Every step of a thread counts, and it is nobody else's.                 *)
LEMMA ThreadCounts ==
  ASSUME PageInv, NEW t \in Thread, ThreadStep(t)
  PROVE  /\ Active(t) /\ StepsLeft(t)' \in 0..StepsLeft(t) - 1
         /\ \A s \in Thread : s # t => call'[s] = call[s]
<1>. USE DEF PageInv, CallsInv
<1>1. call \in [Thread -> Call] /\ generation \in Nat
  BY DEF Shapes
<1>2. ASSUME Active(t), NEW o, End(t, o)
      PROVE  call'[t] = Idle /\ \A s \in Thread : s # t => call'[s] = call[s]
  BY <1>1, <1>2 DEF End
<1>3. CASE Send(t)
  BY <1>3, SendCalls, MoveCounts DEF Send, MaySend
<1>4. CASE Refuse(t)
  BY <1>2, <1>4, EndCounts DEF Refuse
<1>5. CASE GiveUp(t)
  <2>1. Active(t) /\ End(t, AfterSend(t))
    BY <1>5 DEF GiveUp, MayGiveUp, Placed, Idle
  <2>. QED
    BY <1>2, <2>1, EndCounts
<1>6. CASE Store(t)
  BY <1>2, <1>6, EndCounts DEF Store, MayStore
<1>7. CASE Number(t)
  <2>1. /\ Active(t) /\ call[t].got.gen = 0 /\ generation' = generation + 1
        /\ call' = [call EXCEPT ![t] = [call[t] EXCEPT !.got =
                       [call[t].got EXCEPT !.gen = generation']]]
    BY <1>7 DEF Number, MayNumber
  <2>2. call[t].got \in ObservationType /\ call[t] \in Call
    BY <1>1 DEF Call
  <2>3. /\ call'[t].op = call[t].op /\ call'[t].at = call[t].at
        /\ call'[t].waiting = call[t].waiting /\ call'[t].got.gen = generation'
        /\ \A s \in Thread : s # t => call'[s] = call[s]
    BY <1>1, <2>1, <2>2 DEF Call, ObservationType
  <2>. QED
    BY <1>1, <2>1, <2>3, MoveCounts
<1>8. CASE Read(t)
  <2>1. PICK g : g = Gathered(t, inbox[1].page)
    OBVIOUS
  <2>2. /\ Active(t) /\ ~Past(t) /\ call[t].waiting
        /\ \/ Advance(t, g) /\ g \in ObservationType
           \/ \E o : End(t, o)
    BY <1>8, <2>1, ReadShape
  <2>3. CASE \E o : End(t, o)
    BY <1>2, <2>2, <2>3, EndCounts
  <2>4. CASE Advance(t, g) /\ g \in ObservationType
    <3>1. g.gen = call[t].got.gen
      BY <1>1, <1>8, <2>1, ReadShape, GatheredShape DEF Call
    <3>2. \/ End(t, "ok")
          \/ /\ call'[t].op = call[t].op /\ call'[t].at = call[t].at + 1
             /\ call'[t].waiting = FALSE /\ call'[t].got = g
             /\ \A s \in Thread : s # t => call'[s] = call[s]
      BY <2>2, <2>4, AdvanceShape
    <3>3. CASE End(t, "ok")
      BY <1>2, <2>2, <3>3, EndCounts
    <3>. QED
      BY <2>2, <3>1, <3>2, <3>3, MoveCounts
  <2>. QED
    BY <2>2, <2>3, <2>4
<1>. QED
  BY <1>3, <1>4, <1>5, <1>6, <1>7, <1>8 DEF ThreadStep

(* Every call of CdpExecutor ends after finitely many steps of its own:    *)
(* each of them leaves it fewer to take, whatever the browser answers and  *)
(* the other threads do.                                                   *)
THEOREM StepsAreCounted == Spec => StepsCount
<1>. DEFINE Counts(t) ==
       Active(t) /\ call'[t] # call[t] => StepsLeft(t)' \in 0..StepsLeft(t) - 1
<1>1. PageInv /\ [Next]_vars => \A t \in Thread : Counts(t)
  <2>. SUFFICES ASSUME PageInv, [Next]_vars, NEW t \in Thread PROVE Counts(t)
    OBVIOUS
  <2>1. CASE Change \/ Obey \/ UNCHANGED vars
    BY <2>1 DEF Change, Obey, vars
  <2>2. ASSUME NEW s \in Thread, NEW op, NEW wanted, NEW got, Begin(s, op, wanted, got)
        PROVE  Counts(t)
    <3>1. ~Active(s) /\ \E r : call' = [call EXCEPT ![s] = r]
      BY <2>2 DEF Begin
    <3>2. s # t => call'[t] = call[t]
      BY <3>1 DEF PageInv, CallsInv, Shapes
    <3>. QED
      BY <3>1, <3>2
  <2>3. ASSUME NEW s \in Thread, ThreadStep(s)
        PROVE  Counts(t)
    <3>1. /\ StepsLeft(s)' \in 0..StepsLeft(s) - 1
          /\ s # t => call'[t] = call[t]
      BY <2>3, ThreadCounts
    <3>. QED
      BY <3>1
  <2>. HIDE DEF Counts
  <2>. QED
    BY <2>1, <2>2, <2>3 DEF Next, Observe, OnTarget
<1>2. PageInv /\ [Next]_vars => [\A t \in Thread : Counts(t)]_vars
  BY <1>1
<1>. QED
  BY <1>2, PageAlways, PTL DEF Spec, StepsCount

(* The variables of the browser backend keep their types.                  *)
LEMMA PageTypesAre == PageInv => TypeOK
<1>. SUFFICES ASSUME PageInv
              PROVE  TypeOK
  OBVIOUS
<1>1. /\ wire \in Seq(WireCommand) /\ inbox \in Seq(WireAnswer) /\ effects \in Seq(Effect)
      /\ CallsInv /\ ObservationsInv
  BY DEF PageInv, CallsInv, Shapes
<1>2. \A i \in DOMAIN wire :
        wire[i] \in [id : Nat, num : 1..MaxCalls, cmd : Command, world : Nat]
  BY <1>1, Elements DEF WireCommand, CallsInv
<1>3. \A i \in DOMAIN inbox :
        /\ inbox[i].id \in 1..nextId
        /\ inbox[i].kind \in Command \union {"error", "done", "refused", "odd"}
  <2>1. \A i \in 1..Len(inbox) : inbox[i] \in WireAnswer /\ inbox[i].id \in 1..nextId
    BY <1>1, Elements DEF CallsInv, Numbered
  <2>2. DOMAIN inbox = 1..Len(inbox)
    BY <1>1
  <2>. QED
    BY <2>1, <2>2 DEF WireAnswer
<1>4. channel \in {Free} \union {call[t].num : t \in Thread}
  BY <1>1 DEF CallsInv, Numbered
<1>5. generation \in 0..MaxCalls
  BY <1>1, FewUnnumbered, CdpAssumption DEF ObservationsInv, Generations, CallsInv, Shapes
<1>6. ASSUME NEW t \in Thread
      PROVE  /\ call[t].op \in Ops \union {"idle"}
             /\ call[t].num \in 0..calls
             /\ call[t].waiting <=> (channel # Free /\ channel = call[t].num)
             /\ Active(t) => call[t].at \in 1..Len(Commands(t)) + 1
  <2>1. call[t] \in Call /\ calls \in Nat
    BY <1>1 DEF CallsInv, Shapes
  <2>. QED
    BY <1>1, <2>1 DEF CallsInv, Placed, Idle, Call
<1>. QED
  BY <1>1, <1>2, <1>3, <1>4, <1>5, <1>6
     DEF CallsInv, Shapes, TypeOK, Page, Effect, Report

(* Whatever the threads of the browser backend do, its variables keep      *)
(* their types.                                                            *)
THEOREM PageTypes == Spec => []TypeOK
BY PageTypesAre, PageAlways, PTL

-----------------------------------------------------------------------------
(* Effects                                                                 *)

(* No command has the name of an answer to an effect.                      *)
LEMMA CommandNames == Command \intersect {"done", "refused", "odd"} = {}
<1>. SUFFICES ASSUME NEW o \in DOMAIN Program, NEW i \in DOMAIN Program[o],
                     Program[o][i] \in {"done", "refused", "odd"}
              PROVE  FALSE
  BY DEF Command
<1>1. CASE o = "observe"
  BY <1>1, ProgramShapes DEF Gathering
<1>2. CASE o = "read"
  BY <1>2, ProgramShapes DEF Probing
<1>3. CASE o = "invoke"
  BY <1>3, ProgramShapes DEF Invoking
<1>4. CASE o = "set_value"
  BY <1>4, ProgramShapes, EditingIs
<1>5. CASE o = "scroll"
  BY <1>5, ProgramShapes DEF Scrolling
<1>. QED
  BY <1>1, <1>2, <1>3, <1>4, <1>5, ProgramShapes

(* Where the effect is in the program of a call.                           *)
LEMMA EffectPlace ==
  ASSUME CallsInv, NEW t \in Thread, Active(t), call[t].at \in 1..Len(Commands(t))
  PROVE  /\ Len(Commands(t)) \in Nat /\ ~Past(t)
         /\ Current(t) \in {"effect", "readback"} => call[t].op \in Effecting
         /\ Current(t) = "readback" => call[t].at = Len(Commands(t))
         /\ call[t].at < Len(Commands(t)) =>
              (Commands(t)[call[t].at + 1] = "readback" <=> Current(t) = "effect")
         /\ call[t].at = Len(Commands(t)) /\ call[t].op \in Effecting =>
              Current(t) \in {"effect", "readback"}
<1>1. call[t].op \in DOMAIN Program
  BY ProgramOf DEF CallsInv
<1>2. Len(Commands(t)) \in Nat
  BY <1>1, ProgramFacts DEF Commands
<1>3. ~Past(t)
  BY <1>2 DEF Past
<1>. QED
  BY <1>1, <1>2, <1>3, ProgramFacts DEF Commands, Current

(* Nothing is waited for twice.                                            *)
LEMMA OneWaits ==
  ASSUME CallsInv, NEW s \in Thread, NEW t \in Thread, call[s].waiting, call[t].waiting
  PROVE  s = t
BY DEF CallsInv, Placed, Numbered, Idle

(* What was reported and what is meant when a call ends.                   *)
LEMMA EndEffects ==
  ASSUME CallsInv, EffectsInv, NEW t \in Thread, Active(t), NEW o \in Outcome, End(t, o),
         UNCHANGED <<wire, effects, nextId>>,
         \A i \in 1..Len(inbox') : \E j \in 1..Len(inbox) : inbox'[i] = inbox[j],
         call[t].op \in Effecting /\ o = "none" => Untouched(call[t].num),
         call[t].op \in Effecting /\ o = "ok" => \E i \in Nat : Happened(call[t].num, i)
  PROVE  EffectsInv'
<1>. USE DEF EffectsInv
<1>1. /\ call'[t] = Idle
      /\ \A s \in Thread : s # t => call'[s] = call[s]
      /\ \A a \in answers' : a \in answers \/
           /\ call[t].op \in Effecting
           /\ a.num = call[t].num /\ a.op = call[t].op
           /\ a.named = call[t].named /\ a.outcome = o
  BY EndShape DEF CallsInv
<1>2. ~Active(t)' /\ call'[t].num = 0 /\ ~call'[t].waiting
  BY <1>1 DEF Active, Idle
<1>3. /\ \A n, i : OnTheWay(n, i)' <=> OnTheWay(n, i)
      /\ \A n, i : Happened(n, i)' <=> Happened(n, i)
      /\ \A n : Untouched(n)' <=> Untouched(n)
  BY DEF OnTheWay, Happened, Untouched
<1>4. Once'
  BY <1>3 DEF Once, AtMostOneEffect
<1>5. \A s \in Thread : Active(s)' => s # t /\ Active(s) /\ call'[s] = call[s]
        /\ (Past(s)' <=> Past(s)) /\ Current(s)' = Current(s) /\ (EffectSent(s)' <=> EffectSent(s))
  BY <1>1, <1>2 DEF Active, Past, Commands, Current, EffectSent
<1>6. Unsent'
  BY <1>3, <1>5 DEF Unsent
<1>7. ReadBack'
  BY <1>3, <1>5 DEF ReadBack
<1>8. Reported'
  BY <1>1, <1>3 DEF Reported
<1>9. Awaited'
  <2>. SUFFICES ASSUME NEW s \in Thread, call'[s].waiting
                PROVE  /\ \A i \in 1..Len(wire) : wire[i].id = nextId => Asked(s, wire[i])'
                       /\ \A i \in 1..Len(inbox') : inbox'[i].id = nextId =>
                            Told(s, inbox[i])'
    BY DEF Awaited
  <2>1. s # t /\ call'[s] = call[s] /\ Current(s)' = Current(s)
    BY <1>1, <1>2 DEF Current, Commands
  <2>3. /\ \A i \in 1..Len(wire) : wire[i].id = nextId => Asked(s, wire[i])
        /\ \A i \in 1..Len(inbox) : inbox[i].id = nextId => Told(s, inbox[i])
    BY <2>1 DEF Awaited
  <2>4. \A i \in 1..Len(wire) : Asked(s, wire[i]) => Asked(s, wire[i])'
    BY <2>1 DEF Asked
  <2>5. ASSUME NEW i \in 1..Len(inbox'), inbox'[i].id = nextId
        PROVE  Told(s, inbox[i])'
    <3>1. PICK j \in 1..Len(inbox) : inbox'[i] = inbox[j]
      OBVIOUS
    <3>2. Told(s, inbox[j])
      BY <2>3, <2>5, <3>1
    <3>. QED
      BY <1>3, <2>1, <3>1, <3>2 DEF Told
  <2>. QED
    BY <2>3, <2>4, <2>5
<1>10. \A n, d : Meant(n, d) /\ n # 0 => Meant(n, d)'
  BY <1>1, <1>2 DEF Meant
<1>11. /\ \A i \in 1..Len(wire) : wire[i].num # 0
       /\ \A i \in 1..Len(effects) : effects[i].num # 0
  BY Elements DEF CallsInv, WireCommand, Effect
<1>12. Documents'
  BY <1>10, <1>11 DEF Documents
<1>. QED
  BY <1>4, <1>6, <1>7, <1>8, <1>9, <1>12

(* A call that is refused before its effect was sent reports none          *)
(* truthfully.                                                             *)
LEMMA RefuseEffects ==
  ASSUME CallsInv, EffectsInv, NEW t \in Thread, Refuse(t)
  PROVE  EffectsInv'
<1>1. /\ Active(t) /\ ~Past(t) /\ ~call[t].waiting
      /\ End(t, IF Current(t) = "readback" THEN "unknown" ELSE "none")
      /\ UNCHANGED <<wire, inbox, nextId, effects>>
  BY DEF Refuse, channelVars
<1>2. CASE Current(t) = "readback"
  BY <1>1, <1>2, EndEffects DEF Outcome
<1>3. CASE Current(t) # "readback"
  <2>1. Untouched(call[t].num)
    BY <1>1, <1>3 DEF EffectsInv, Unsent, EffectSent
  <2>. QED
    BY <1>1, <1>3, <2>1, EndEffects DEF Outcome
<1>. QED
  BY <1>2, <1>3

(* A command whose answer is missing leaves nothing unreported.            *)
LEMMA AfterSendEffects ==
  ASSUME CallsInv, EffectsInv, NEW t \in Thread, Active(t), End(t, AfterSend(t)),
         UNCHANGED <<wire, effects, nextId>>,
         \A i \in 1..Len(inbox') : \E j \in 1..Len(inbox) : inbox'[i] = inbox[j]
  PROVE  EffectsInv'
<1>1. CASE Current(t) \in {"effect", "readback"}
  BY <1>1, EndEffects DEF AfterSend, Outcome
<1>2. CASE Current(t) \notin {"effect", "readback"}
  <2>1. Untouched(call[t].num)
    BY <1>2 DEF EffectsInv, Unsent, EffectSent
  <2>2. AfterSend(t) = "none"
    BY <1>2 DEF AfterSend
  <2>. QED
    BY <2>1, <2>2, EndEffects DEF Outcome
<1>. QED
  BY <1>1, <1>2

(* Giving up reports no more than is known.                                *)
LEMMA GiveUpEffects ==
  ASSUME CallsInv, EffectsInv, NEW t \in Thread, GiveUp(t)
  PROVE  EffectsInv'
<1>1. /\ End(t, AfterSend(t))
      /\ UNCHANGED <<wire, inbox, nextId, effects>>
  BY DEF GiveUp, MayGiveUp
<1>2. Active(t)
  BY GiveUpCalls
<1>. QED
  BY <1>1, <1>2, AfterSendEffects

(* An observation has no effect to report.                                 *)
LEMMA StoreEffects ==
  ASSUME CallsInv, EffectsInv, NEW t \in Thread, Store(t)
  PROVE  EffectsInv'
<1>1. /\ Active(t) /\ Past(t) /\ End(t, "ok")
      /\ UNCHANGED <<wire, inbox, nextId, effects>>
  BY DEF Store, MayStore, channelVars
<1>2. call[t].op \notin Effecting
  BY <1>1, PastGathers DEF Gathers, Effecting
<1>. QED
  BY <1>1, <1>2, EndEffects DEF Outcome
(* A step that touches neither commands nor effects nor reports, and what  *)
(* the threads are doing no more than their observations.                  *)
LEMMA StillEffects ==
  ASSUME EffectsInv, UNCHANGED <<wire, inbox, nextId, effects, answers>>,
         \A s \in Thread : /\ call'[s].op = call[s].op /\ call'[s].num = call[s].num
                           /\ call'[s].at = call[s].at /\ call'[s].waiting = call[s].waiting
                           /\ call'[s].named = call[s].named
  PROVE  EffectsInv'
<1>. USE DEF EffectsInv
<1>1. \A n : Untouched(n)' <=> Untouched(n)
  BY DEF OnTheWay, Happened, Untouched
<1>2. \A n, i : Happened(n, i)' <=> Happened(n, i)
  BY DEF Happened
<1>3. \A n : AtMostOneEffect(n)' <=> AtMostOneEffect(n)
  BY DEF OnTheWay, Happened, AtMostOneEffect
<1>4. \A s \in Thread :
        /\ Active(s)' <=> Active(s)
        /\ Past(s)' <=> Past(s)
        /\ Current(s)' = Current(s)
  BY DEF Active, Past, Current, Commands
<1>5. \A s \in Thread : EffectSent(s)' <=> EffectSent(s)
  BY <1>4 DEF EffectSent
<1>6. Once' /\ Unsent' /\ ReadBack' /\ Reported'
  BY <1>1, <1>2, <1>3, <1>4, <1>5 DEF Once, Unsent, ReadBack, Reported
<1>7. Awaited'
  <2>. SUFFICES ASSUME NEW s \in Thread, call[s].waiting
                PROVE  /\ \A i \in 1..Len(wire) : wire[i].id = nextId => Asked(s, wire[i])'
                       /\ \A i \in 1..Len(inbox) : inbox[i].id = nextId => Told(s, inbox[i])'
    BY DEF Awaited
  <2>1. \A i \in 1..Len(wire) : wire[i].id = nextId => Asked(s, wire[i])'
    BY <1>4 DEF Awaited, Asked
  <2>2. \A i \in 1..Len(inbox) : inbox[i].id = nextId => Told(s, inbox[i])'
    BY <1>1, <1>2, <1>4 DEF Awaited, Told
  <2>. QED
    BY <2>1, <2>2
<1>8. Documents'
  BY DEF Documents, Meant
<1>. QED
  BY <1>6, <1>7, <1>8

(* A new call has no effect yet.                                           *)
LEMMA BeginEffects ==
  ASSUME CallsInv, EffectsInv, NEW t \in Thread, NEW op, NEW wanted \in ObservationType,
         NEW got \in ObservationType, Begin(t, op, wanted, got)
  PROVE  EffectsInv'
<1>. USE DEF EffectsInv
<1>1. /\ ~Active(t) /\ op \in Ops /\ op # "idle" /\ calls' = calls + 1
      /\ calls' \in 1..MaxCalls
      /\ call' \in [Thread -> Call]
      /\ call'[t].op = op /\ call'[t].num = calls' /\ call'[t].at = 1
      /\ call'[t].waiting = FALSE /\ call'[t].named = wanted /\ call'[t].got = got
      /\ \A s \in Thread : s # t => call'[s] = call[s]
  BY BeginShape
<1>2. UNCHANGED <<wire, inbox, nextId, effects, answers>>
  BY DEF Begin, channelVars
<1>3. calls \in Nat
  BY DEF CallsInv, Shapes
<1>0. PICK n \in Nat : n = calls + 1
  BY <1>3
<1>15. call'[t].num = n
  BY <1>0, <1>1
<1>4. /\ \A i \in 1..Len(wire) : wire[i].num # n
      /\ \A i \in 1..Len(effects) : effects[i].num # n
  <2>1. /\ \A i \in 1..Len(wire) : wire[i].num <= calls /\ wire[i].num \in Nat
        /\ \A i \in 1..Len(effects) : effects[i].num <= calls /\ effects[i].num \in Nat
    BY Elements DEF CallsInv, Numbered
  <2>. QED
    BY <1>0, <1>3, <2>1
<1>5. Untouched(n)'
  BY <1>2, <1>4 DEF Untouched, OnTheWay, Happened
<1>6. /\ \A m : Untouched(m)' <=> Untouched(m)
      /\ \A m, i : Happened(m, i)' <=> Happened(m, i)
      /\ \A m : AtMostOneEffect(m)' <=> AtMostOneEffect(m)
  BY <1>2 DEF Untouched, OnTheWay, Happened, AtMostOneEffect
<1>7. \A s \in Thread : s # t => /\ Active(s)' <=> Active(s)
                                 /\ Past(s)' <=> Past(s)
                                 /\ Current(s)' = Current(s)
                                 /\ EffectSent(s)' <=> EffectSent(s)
  BY <1>1 DEF Active, Past, Current, Commands, EffectSent
<1>8. Current(t)' \notin {"effect", "readback"}
  <2>1. op \in DOMAIN Program
    BY <1>1, CdpAssumption
  <2>2. Current(t)' = Program[op][1]
    BY <1>1 DEF Current, Commands
  <2>. QED
    BY <2>1, <2>2, ProgramFacts
<1>9. Unsent'
  BY <1>5, <1>6, <1>7, <1>15, <1>1 DEF Unsent
<1>10. ReadBack'
  BY <1>1, <1>6, <1>7, <1>8 DEF ReadBack
<1>11. Once' /\ Reported'
  BY <1>2, <1>6 DEF Once, Reported
<1>12. Awaited'
  <2>. SUFFICES ASSUME NEW s \in Thread, call'[s].waiting
                PROVE  /\ \A i \in 1..Len(wire) : wire[i].id = nextId => Asked(s, wire[i])'
                       /\ \A i \in 1..Len(inbox) : inbox[i].id = nextId => Told(s, inbox[i])'
    BY <1>2 DEF Awaited
  <2>1. s # t /\ call'[s] = call[s] /\ Current(s)' = Current(s)
    BY <1>1, <1>7
  <2>2. \A i \in 1..Len(wire) : wire[i].id = nextId => Asked(s, wire[i])'
    BY <1>2, <2>1 DEF Awaited, Asked
  <2>3. \A i \in 1..Len(inbox) : inbox[i].id = nextId => Told(s, inbox[i])'
    BY <1>2, <1>6, <2>1 DEF Awaited, Told
  <2>. QED
    BY <2>2, <2>3
<1>13. \A m, d : Meant(m, d) /\ m # n => Meant(m, d)'
  BY <1>1, <1>2, <1>15 DEF Meant
<1>14. Documents'
  BY <1>2, <1>4, <1>13 DEF Documents
<1>. QED
  BY <1>9, <1>10, <1>11, <1>12, <1>14

(* The one effect command of a call is sent with the world of the          *)
(* observation that its caller named.                                      *)
LEMMA SendEffects ==
  ASSUME CallsInv, ObservationsInv, EffectsInv, NEW t \in Thread, Send(t)
  PROVE  EffectsInv'
<1>. USE DEF EffectsInv
<1>. DEFINE k == Len(wire) + 1
<1>1. /\ call'[t].op = call[t].op /\ call'[t].num = call[t].num
      /\ call'[t].at = call[t].at /\ call'[t].waiting = TRUE
      /\ call'[t].named = call[t].named /\ call'[t].got = call[t].got
      /\ \A s \in Thread : s # t => call'[s] = call[s]
      /\ Len(wire') = k
      /\ \A i \in 1..Len(wire) : wire'[i] = wire[i]
      /\ wire'[k] = [id |-> nextId', num |-> call[t].num,
                     cmd |-> Current(t), world |-> call[t].got.world]
  BY SendCalls
<1>2. /\ Active(t) /\ ~Past(t) /\ ~call[t].waiting /\ channel = Free /\ nextId' = nextId + 1
      /\ UNCHANGED <<inbox, effects, answers>>
  BY DEF Send, MaySend
<1>3. /\ Len(wire) \in Nat /\ nextId \in Nat /\ call[t].num \in Nat /\ call[t].num # 0
  BY <1>2 DEF CallsInv, Shapes, Placed
<1>4. /\ wire'[k].id = nextId' /\ wire'[k].num = call[t].num
      /\ wire'[k].cmd = Current(t) /\ wire'[k].world = call[t].got.world
  BY <1>1
<1>5. \A n, i : OnTheWay(n, i)' <=>
        OnTheWay(n, i) \/ (i = k /\ n = call[t].num /\ Current(t) = "effect")
  BY <1>1, <1>3, <1>4 DEF OnTheWay
<1>6. \A n, i : Happened(n, i)' <=> Happened(n, i)
  BY <1>2 DEF Happened
<1>7. Current(t) = "effect" => Untouched(call[t].num)
  BY <1>2 DEF Unsent, EffectSent
<1>8. \A n : Untouched(n)' <=> Untouched(n) /\ ~(n = call[t].num /\ Current(t) = "effect")
  BY <1>3, <1>5, <1>6 DEF Untouched
<1>9. Once'
  <2>. SUFFICES ASSUME NEW n \in Nat
                PROVE  AtMostOneEffect(n)'
    BY DEF Once
  <2>1. CASE n = call[t].num /\ Current(t) = "effect"
    BY <1>5, <1>6, <1>7, <2>1 DEF Untouched, AtMostOneEffect
  <2>2. CASE ~(n = call[t].num /\ Current(t) = "effect")
    BY <1>5, <1>6, <2>2 DEF Once, AtMostOneEffect
  <2>. QED
    BY <2>1, <2>2
<1>10. \A s \in Thread : /\ Active(s)' <=> Active(s)
                         /\ Past(s)' <=> Past(s)
                         /\ Current(s)' = Current(s)
                         /\ s # t => (EffectSent(s)' <=> EffectSent(s))
  BY <1>1 DEF Active, Past, Current, Commands, EffectSent
<1>11. ~EffectSent(t)' => ~EffectSent(t) /\ Current(t) # "effect"
  BY <1>1, <1>2, <1>10 DEF EffectSent
<1>12. \A s \in Thread : Active(s) /\ s # t => call[s].num # call[t].num
  BY <1>2 DEF CallsInv, Numbered
<1>13. \A s \in Thread : call'[s].num = call[s].num
  BY <1>1
<1>14. Unsent'
  BY <1>8, <1>10, <1>11, <1>12, <1>13 DEF Unsent
<1>15. ReadBack'
  BY <1>6, <1>10, <1>13 DEF ReadBack
<1>16. Reported'
  <2>1. \A a \in answers : a.num # call[t].num
    BY DEF CallsInv, Numbered
  <2>. QED
    BY <1>2, <1>6, <1>8, <2>1 DEF Reported
<1>17. Awaited'
  <2>. SUFFICES ASSUME NEW s \in Thread, call'[s].waiting
                PROVE  /\ \A i \in 1..Len(wire') : wire'[i].id = nextId' =>
                            wire'[i].num = call[s].num /\ wire'[i].cmd = Current(s)
                       /\ \A i \in 1..Len(inbox) : inbox[i].id # nextId'
    BY <1>2, <1>10, <1>13 DEF Awaited, Asked
  <2>1. s = t
    BY <1>1, <1>2 DEF CallsInv, Placed
  <2>2. /\ \A i \in 1..Len(wire) : wire[i].id # nextId'
        /\ \A i \in 1..Len(inbox) : inbox[i].id # nextId'
    <3>1. \A i \in 1..Len(wire) : wire[i].id \in Nat /\ wire[i].id <= nextId
      BY Elements DEF CallsInv, Numbered
    <3>2. \A i \in 1..Len(inbox) : inbox[i].id \in Nat /\ inbox[i].id <= nextId
      BY <1>3, Elements DEF CallsInv, Numbered
    <3>. QED
      BY <1>2, <1>3, <3>1, <3>2
  <2>3. ASSUME NEW i \in 1..Len(wire'), wire'[i].id = nextId'
        PROVE  wire'[i].num = call[s].num /\ wire'[i].cmd = Current(s)
    <3>1. i = k
      BY <1>1, <1>3, <2>2, <2>3
    <3>. QED
      BY <1>4, <2>1, <3>1
  <2>. QED
    BY <2>2, <2>3
<1>18. \A n, d : Meant(n, d) => Meant(n, d)'
  <2>1. \A s \in Thread : call'[s].named = call[s].named
    BY <1>1
  <2>. QED
    BY <1>2, <1>13, <2>1 DEF Meant
<1>19. Current(t) = "effect" => Meant(call[t].num, call[t].got.world)
  <2>. SUFFICES ASSUME Current(t) = "effect"
                PROVE  Meant(call[t].num, call[t].got.world)
    OBVIOUS
  <2>1. call[t].op \in Effecting
    <3>1. call[t].op \in DOMAIN Program /\ Len(Commands(t)) \in Nat
      BY <1>2, ProgramOf, ProgramFacts DEF CallsInv, Commands
    <3>2. call[t].at \in 1..Len(Commands(t))
      BY <1>2, <3>1 DEF CallsInv, Placed, Past
    <3>. QED
      BY <1>2, <3>2, EffectPlace
  <2>2. call[t].got = call[t].named /\ call[t].named \in returned
    BY <2>1 DEF ObservationsInv, Targets
  <2>3. call[t].got.world = call[t].named.doc
    BY <2>2 DEF ObservationsInv, Moments, Whole
  <2>4. \A s \in Thread : call[s].num = call[t].num => s = t
    BY <1>2 DEF CallsInv, Numbered
  <2>5. \A a \in answers : a.num # call[t].num
    BY DEF CallsInv, Numbered
  <2>. QED
    BY <2>3, <2>4, <2>5 DEF Meant
<1>20. Documents'
  <2>1. \A i \in 1..Len(wire') : wire'[i].cmd = "effect" => Meant(wire'[i].num, wire'[i].world)
    BY <1>1, <1>3, <1>4, <1>19 DEF Documents
  <2>2. \A i \in 1..Len(effects) : Meant(effects[i].num, effects[i].doc)
    BY DEF Documents
  <2>. QED
    BY <1>2, <1>18, <2>1, <2>2 DEF Documents
<1>. QED
  BY <1>9, <1>14, <1>15, <1>16, <1>17, <1>20
(* An answer ends a call with what it tells, or lets it go on.             *)
LEMMA ReadEffects ==
  ASSUME CallsInv, ObservationsInv, EffectsInv, NEW t \in Thread, Read(t)
  PROVE  EffectsInv'
<1>. DEFINE r == inbox[1]
<1>1. /\ Active(t) /\ ~Past(t) /\ call[t].waiting /\ inbox # <<>> /\ 1 \in 1..Len(inbox)
      /\ call[t].at \in 1..Len(Commands(t)) /\ Len(Commands(t)) \in Nat
      /\ \A i \in 1..Len(inbox') : i + 1 \in 1..Len(inbox) /\ inbox'[i] = inbox[i + 1]
      /\ UNCHANGED <<wire, nextId, effects>>
  BY ReadShape
<1>2. \/ /\ Mine(r) /\ Usable(t, r) /\ Compares(t, r.page)
         /\ Advance(t, Gathered(t, r.page)) /\ Gathered(t, r.page) \in ObservationType
      \/ /\ Mine(r) /\ (r.kind = "refused" \/ ~Compares(t, r.page)) /\ End(t, "none")
      \/ End(t, AfterSend(t))
  BY ReadShape
<1>3. \A i \in 1..Len(inbox') : \E j \in 1..Len(inbox) : inbox'[i] = inbox[j]
  BY <1>1
<1>4. Mine(r) => Told(t, r)
  BY <1>1 DEF Mine, EffectsInv, Awaited
<1>. HIDE DEF r
<1>5. CASE End(t, AfterSend(t))
  BY <1>1, <1>3, <1>5, AfterSendEffects
<1>6. CASE Mine(r) /\ (r.kind = "refused" \/ ~Compares(t, r.page)) /\ End(t, "none")
  <2>1. Untouched(call[t].num)
    <3>1. CASE r.kind = "refused"
      BY <1>4, <1>6, <3>1 DEF Told
    <3>2. CASE ~Compares(t, r.page)
      <4>1. Current(t) \notin {"effect", "readback"}
        BY <3>2 DEF Compares
      <4>. QED
        BY <1>1, <4>1 DEF EffectsInv, Unsent, EffectSent
    <3>. QED
      BY <1>6, <3>1, <3>2
  <2>. QED
    BY <1>1, <1>3, <1>6, <2>1, EndEffects DEF Outcome
<1>7. CASE /\ Mine(r) /\ Usable(t, r) /\ Compares(t, r.page)
           /\ Advance(t, Gathered(t, r.page)) /\ Gathered(t, r.page) \in ObservationType
  <2>1. Current(t) = "effect" => \E i \in Nat : Happened(call[t].num, i)
    BY <1>4, <1>7 DEF Usable, Told
  <2>2. Current(t) = "readback" => \E i \in Nat : Happened(call[t].num, i)
    BY <1>1 DEF EffectsInv, ReadBack
  <2>3. /\ Current(t) \in {"effect", "readback"} => call[t].op \in Effecting
        /\ Current(t) = "readback" => call[t].at = Len(Commands(t))
        /\ call[t].at < Len(Commands(t)) =>
             (Commands(t)[call[t].at + 1] = "readback" <=> Current(t) = "effect")
        /\ call[t].at = Len(Commands(t)) /\ call[t].op \in Effecting =>
             Current(t) \in {"effect", "readback"}
    BY <1>1, EffectPlace
  <2>4. CASE call[t].op # "observe" /\ call[t].at = Len(Commands(t)) /\ End(t, "ok")
    <3>1. call[t].op \in Effecting => \E i \in Nat : Happened(call[t].num, i)
      BY <2>1, <2>2, <2>3, <2>4
    <3>. QED
      BY <1>1, <1>3, <2>4, <3>1, EndEffects DEF Outcome
  <2>5. CASE /\ ~(call[t].op # "observe" /\ call[t].at = Len(Commands(t)))
             /\ call' \in [Thread -> Call]
             /\ call'[t].op = call[t].op /\ call'[t].num = call[t].num
             /\ call'[t].at = call[t].at + 1 /\ call'[t].waiting = FALSE
             /\ call'[t].named = call[t].named /\ call'[t].got = Gathered(t, r.page)
             /\ \A s \in Thread : s # t => call'[s] = call[s]
             /\ answers' = answers
    <3>1. /\ \A n : Untouched(n)' <=> Untouched(n)
          /\ \A n, i : Happened(n, i)' <=> Happened(n, i)
          /\ \A n : AtMostOneEffect(n)' <=> AtMostOneEffect(n)
      BY <1>1 DEF Untouched, OnTheWay, Happened, AtMostOneEffect
    <3>2. \A s \in Thread : s # t => /\ Active(s)' <=> Active(s)
                                     /\ Past(s)' <=> Past(s)
                                     /\ Current(s)' = Current(s)
                                     /\ EffectSent(s)' <=> EffectSent(s)
      BY <2>5 DEF Active, Past, Current, Commands, EffectSent
    <3>3. \A s \in Thread : call'[s].num = call[s].num /\ call'[s].named = call[s].named
      BY <2>5
    <3>4. Active(t)' /\ Commands(t)' = Commands(t)
      BY <1>1, <2>5 DEF Active, Commands
    <3>5. ~Past(t)' => /\ call[t].at < Len(Commands(t))
                       /\ Current(t)' = Commands(t)[call[t].at + 1]
      BY <1>1, <2>5, <3>4 DEF Past, Current
    <3>6. Past(t)' => Current(t) \notin {"effect", "readback"}
      <4>1. Past(t)' => call[t].op = "observe"
        BY <1>1, <2>5, <3>4 DEF Past
      <4>. QED
        BY <2>3, <4>1 DEF Effecting
    <3>7. ~EffectSent(t)' => Untouched(call[t].num)
      <4>1. ~EffectSent(t)' => Current(t) \notin {"effect", "readback"}
        <5>1. CASE Past(t)'
          BY <3>6, <5>1
        <5>2. CASE ~Past(t)'
          <6>1. Current(t) # "readback"
            BY <1>1, <2>3, <3>5, <5>2
          <6>2. Current(t) = "effect" => Current(t)' = "readback"
            BY <2>3, <3>5, <5>2
          <6>. QED
            BY <3>4, <5>2, <6>1, <6>2 DEF EffectSent
        <5>. QED
          BY <5>1, <5>2
      <4>2. Current(t) \notin {"effect", "readback"} => Untouched(call[t].num)
        BY <1>1 DEF EffectsInv, Unsent, EffectSent
      <4>. QED
        BY <4>1, <4>2
    <3>8. Once' /\ Reported'
      BY <2>5, <3>1 DEF EffectsInv, Once, Reported
    <3>9. Unsent'
      BY <3>1, <3>2, <3>3, <3>7 DEF EffectsInv, Unsent
    <3>10. ReadBack'
      <4>1. ~Past(t)' /\ Current(t)' = "readback" => \E i \in Nat : Happened(call[t].num, i)
        BY <2>1, <2>3, <3>5
      <4>. QED
        BY <3>1, <3>2, <3>3, <4>1 DEF EffectsInv, ReadBack
    <3>11. Awaited'
      <4>1. \A s \in Thread : ~call'[s].waiting
        BY <1>1, <2>5, OneWaits
      <4>. QED
        BY <4>1 DEF Awaited
    <3>12. Documents'
      BY <1>1, <2>5, <3>3 DEF EffectsInv, Documents, Meant
    <3>. QED
      BY <3>8, <3>9, <3>10, <3>11, <3>12 DEF EffectsInv
  <2>. QED
    BY <1>1, <1>7, <2>4, <2>5, AdvanceShape DEF CallsInv
<1>. QED
  BY <1>2, <1>5, <1>6, <1>7

(* What the browser does with the first command.                           *)
Landing(m) ==
  /\ m.cmd = "effect" /\ m.world = page.doc
  /\ effects' = Append(effects, [num |-> m.num, doc |-> page.doc])

Answering(m, kind) ==
  /\ inbox' = Append(inbox, [id |-> m.id, kind |-> kind, page |-> page])
  /\ kind \in {"done", "refused", "odd"} => m.cmd = "effect"
  /\ kind = "done" => Landing(m)
  /\ kind = "refused" => effects' = effects

(* Only a command whose object lives has an effect, the answer "done" is   *)
(* given when it had, and "refused" when it had none.                      *)
LEMMA ObeyShape ==
  ASSUME CallsInv, Obey
  PROVE  /\ 1 \in 1..Len(wire) /\ Len(wire') = Len(wire) - 1
         /\ \A i \in 1..Len(wire') : i + 1 \in 1..Len(wire) /\ wire'[i] = wire[i + 1]
         /\ UNCHANGED <<nextId, call, answers>>
         /\ Landing(wire[1]) \/ effects' = effects
         /\ \E kind : Answering(wire[1], kind)
<1>1. UNCHANGED <<nextId, call, answers>> /\ wire # <<>> /\ wire' = Tail(wire)
  BY DEF Obey, channelVars
<1>2. wire \in Seq(WireCommand)
  BY DEF CallsInv, Shapes
<1>3. /\ Head(wire) = wire[1] /\ 1 \in 1..Len(wire) /\ Len(wire') = Len(wire) - 1
      /\ \A i \in 1..Len(wire') : i + 1 \in 1..Len(wire) /\ wire'[i] = wire[i + 1]
  BY <1>1, <1>2, Taken
<1>. DEFINE m == wire[1]
<1>4. m.cmd \in Command
  BY <1>3, Elements DEF CallsInv
<1>5. \/ Reply(m, "error") /\ effects' = effects
      \/ m.cmd # "effect" /\ Reply(m, m.cmd) /\ effects' = effects
      \/ m.cmd = "effect" /\ m.world = page.doc /\ Reply(m, "done") /\ Lands(m)
      \/ m.cmd = "effect" /\ m.world = page.doc /\ Reply(m, "odd") /\ Lands(m)
      \/ m.cmd = "effect" /\ m.world = page.doc /\ Reply(m, "odd") /\ effects' = effects
      \/ m.cmd = "effect" /\ m.world = page.doc /\ Reply(m, "refused") /\ effects' = effects
  BY <1>3 DEF Obey, OnObject
<1>. HIDE DEF m
<1>6. m.cmd \notin {"done", "refused", "odd"}
  BY <1>4, CommandNames
<1>7. \E kind : Answering(m, kind)
  <2>1. CASE Reply(m, "error") /\ effects' = effects
    <3>1. Answering(m, "error")
      BY <2>1 DEF Answering, Reply
    <3>. QED
      BY <3>1
  <2>2. CASE m.cmd # "effect" /\ Reply(m, m.cmd) /\ effects' = effects
    <3>1. Answering(m, m.cmd)
      BY <1>6, <2>2 DEF Answering, Reply
    <3>. QED
      BY <3>1
  <2>3. CASE m.cmd = "effect" /\ m.world = page.doc /\ Reply(m, "done") /\ Lands(m)
    <3>1. Answering(m, "done")
      BY <2>3 DEF Answering, Landing, Reply, Lands
    <3>. QED
      BY <3>1
  <2>4. CASE m.cmd = "effect" /\ Reply(m, "odd")
    <3>1. Answering(m, "odd")
      BY <2>4 DEF Answering, Reply
    <3>. QED
      BY <3>1
  <2>5. CASE m.cmd = "effect" /\ Reply(m, "refused") /\ effects' = effects
    <3>1. Answering(m, "refused")
      BY <2>5 DEF Answering, Reply
    <3>. QED
      BY <3>1
  <2>. QED
    BY <1>5, <2>1, <2>2, <2>3, <2>4, <2>5
<1>8. Landing(m) \/ effects' = effects
  BY <1>5 DEF Landing, Lands
<1>. QED
  BY <1>1, <1>3, <1>7, <1>8 DEF m

(* The first command on the wire has its effect, or none, once.            *)
LEMMA ObeyEffects ==
  ASSUME CallsInv, EffectsInv, Obey
  PROVE  EffectsInv'
<1>. USE DEF EffectsInv
<1>1. /\ 1 \in 1..Len(wire) /\ Len(wire') = Len(wire) - 1
      /\ \A i \in 1..Len(wire') : i + 1 \in 1..Len(wire) /\ wire'[i] = wire[i + 1]
      /\ UNCHANGED <<nextId, call, answers>>
      /\ Landing(wire[1]) \/ effects' = effects
  BY ObeyShape
<1>2. PICK m : m = wire[1]
  OBVIOUS
<1>3. PICK kind : Answering(m, kind)
  BY <1>2, ObeyShape
<1>4. /\ Len(wire) \in Nat /\ Len(effects) \in Nat /\ Len(inbox) \in Nat
      /\ effects \in Seq(Effect) /\ inbox \in Seq(WireAnswer) /\ page.doc \in Nat
  BY Elements DEF CallsInv, Shapes, Page
<1>5. \A n, i : OnTheWay(n, i)' => OnTheWay(n, i + 1) /\ i \in Nat /\ i + 1 # 1
  BY <1>1, <1>4 DEF OnTheWay
<1>6. m.cmd = "effect" => OnTheWay(m.num, 1)
  BY <1>1, <1>2 DEF OnTheWay
<1>7. m.num \in Nat
  BY <1>1, <1>2, Elements DEF CallsInv
<1>8. /\ \A n, i : Happened(n, i) => Happened(n, i)'
      /\ \A n, i : Happened(n, i)' =>
           Happened(n, i) \/ (n = m.num /\ i = Len(effects) + 1 /\ Landing(m))
      /\ Landing(m) => \E i \in Nat : Happened(m.num, i)'
  <2>1. CASE Landing(m)
    <3>. DEFINE e == [num |-> m.num, doc |-> page.doc]
    <3>1. effects' = Append(effects, e) /\ e.num = m.num
      BY <2>1 DEF Landing
    <3>. HIDE DEF e
    <3>2. /\ Len(effects') = Len(effects) + 1
          /\ \A i \in 1..Len(effects) : effects'[i] = effects[i]
          /\ effects'[Len(effects) + 1] = e
      BY <1>4, <3>1
    <3>3. \A n, i : Happened(n, i)' <=>
            Happened(n, i) \/ (n = m.num /\ i = Len(effects) + 1)
      BY <1>4, <3>1, <3>2 DEF Happened
    <3>. QED
      BY <1>4, <2>1, <3>3
  <2>2. CASE ~Landing(m) /\ effects' = effects
    BY <2>2 DEF Happened
  <2>. QED
    BY <1>1, <1>2, <2>1, <2>2
<1>9. Landing(m) => OnTheWay(m.num, 1)
  BY <1>6 DEF Landing
<1>10. \A n : Untouched(n) => Untouched(n)'
  <2>. SUFFICES ASSUME NEW n, Untouched(n), NEW i \in Nat
                PROVE  ~OnTheWay(n, i)' /\ ~Happened(n, i)'
    BY DEF Untouched
  <2>1. ~OnTheWay(n, i)'
    BY <1>5 DEF Untouched
  <2>2. ~Happened(n, i)'
    BY <1>8, <1>9 DEF Untouched
  <2>. QED
    BY <2>1, <2>2
<1>11. Once'
  <2>. SUFFICES ASSUME NEW n \in Nat
                PROVE  AtMostOneEffect(n)'
    BY DEF Once
  <2>1. AtMostOneEffect(n)
    BY DEF Once
  <2>2. CASE n = m.num /\ Landing(m)
    <3>1. \A i \in Nat : ~OnTheWay(n, i)' /\ ~Happened(n, i)
      BY <1>5, <1>9, <2>1, <2>2 DEF AtMostOneEffect
    <3>2. \A i \in Nat : Happened(n, i)' => i = Len(effects) + 1
      BY <1>8, <3>1
    <3>. QED
      BY <3>1, <3>2 DEF AtMostOneEffect
  <2>3. CASE ~(n = m.num /\ Landing(m))
    <3>1. \A i \in Nat : Happened(n, i)' => Happened(n, i)
      BY <1>8, <2>3
    <3>2. \A i, j \in Nat : OnTheWay(n, i)' /\ OnTheWay(n, j)' => i = j
      BY <1>5, <2>1 DEF AtMostOneEffect
    <3>3. \A i, j \in Nat : ~(Happened(n, i)' /\ OnTheWay(n, j)')
      BY <1>5, <2>1, <3>1 DEF AtMostOneEffect
    <3>. QED
      BY <2>1, <3>1, <3>2, <3>3 DEF AtMostOneEffect
  <2>. QED
    BY <2>2, <2>3
<1>12. \A s \in Thread : /\ Active(s)' <=> Active(s)
                         /\ Past(s)' <=> Past(s)
                         /\ Current(s)' = Current(s)
                         /\ EffectSent(s)' <=> EffectSent(s)
  BY <1>1 DEF Active, Past, Current, Commands, EffectSent
<1>13. Unsent' /\ ReadBack' /\ Reported'
  BY <1>1, <1>8, <1>10, <1>12 DEF Unsent, ReadBack, Reported
<1>14. Awaited'
  <2>. SUFFICES ASSUME NEW s \in Thread, call[s].waiting
                PROVE  /\ \A i \in 1..Len(wire') : wire'[i].id = nextId => Asked(s, wire[i])'
                       /\ \A i \in 1..Len(inbox') : inbox'[i].id = nextId =>
                            Told(s, inbox[i])'
    BY <1>1 DEF Awaited
  <2>1. \A i \in 1..Len(wire') : wire'[i].id = nextId => Asked(s, wire[i])'
    BY <1>1, <1>12 DEF Awaited, Asked
  <2>2. \A r : Told(s, r) => Told(s, r)'
    BY <1>1, <1>8, <1>10, <1>12 DEF Told
  <2>3. PICK r : r = [id |-> m.id, kind |-> kind, page |-> page]
    OBVIOUS
  <2>4. r.id = nextId => Told(s, r)'
    <3>. SUFFICES ASSUME r.id = nextId
                  PROVE  Told(s, r)'
      OBVIOUS
    <3>1. r.id = m.id /\ r.kind = kind
      BY <2>3
    <3>2. m.num = call[s].num /\ m.cmd = Current(s)
      BY <1>1, <1>2, <3>1 DEF Awaited, Asked
    <3>3. kind = "refused" => Untouched(m.num)'
      <4>. SUFFICES ASSUME kind = "refused", NEW i \in Nat
                    PROVE  ~OnTheWay(m.num, i)' /\ ~Happened(m.num, i)'
        BY DEF Untouched
      <4>1. m.cmd = "effect" /\ effects' = effects
        BY <1>3 DEF Answering
      <4>2. AtMostOneEffect(m.num) /\ OnTheWay(m.num, 1)
        BY <1>6, <1>7, <4>1 DEF Once
      <4>3. ~OnTheWay(m.num, i)'
        BY <1>5, <4>2 DEF AtMostOneEffect
      <4>4. ~Happened(m.num, i)'
        BY <4>1, <4>2 DEF AtMostOneEffect, Happened
      <4>. QED
        BY <4>3, <4>4
    <3>4. kind = "done" => \E j \in Nat : Happened(m.num, j)'
      BY <1>3, <1>8 DEF Answering
    <3>5. kind \in {"done", "refused", "odd"} => m.cmd = "effect"
      BY <1>3 DEF Answering
    <3>. QED
      BY <1>1, <1>12, <3>1, <3>2, <3>3, <3>4, <3>5 DEF Told
  <2>5. \A i \in 1..Len(inbox') :
          (i \in 1..Len(inbox) /\ inbox'[i] = inbox[i]) \/ inbox'[i] = r
    <3>1. inbox' = Append(inbox, r)
      BY <1>3, <2>3 DEF Answering
    <3>. QED
      BY <1>4, <3>1
  <2>6. ASSUME NEW i \in 1..Len(inbox'), inbox'[i].id = nextId
        PROVE  Told(s, inbox[i])'
    <3>1. PICK q : q = inbox'[i]
      OBVIOUS
    <3>2. Told(s, q)'
      <4>1. CASE i \in 1..Len(inbox) /\ q = inbox[i]
        BY <2>2, <2>6, <3>1, <4>1 DEF Awaited
      <4>2. CASE q = r
        BY <2>4, <2>6, <3>1, <4>2
      <4>. QED
        BY <2>5, <3>1, <4>1, <4>2
    <3>. QED
      BY <3>1, <3>2 DEF Told
  <2>. QED
    BY <2>1, <2>6
<1>15. Documents'
  <2>1. \A n, d : Meant(n, d) => Meant(n, d)'
    BY <1>1 DEF Meant
  <2>2. \A i \in 1..Len(wire') : wire'[i].cmd = "effect" =>
          Meant(wire'[i].num, wire'[i].world)
    BY <1>1 DEF Documents
  <2>3. \A i \in 1..Len(effects') : Meant(effects'[i].num, effects'[i].doc)
    <3>1. CASE effects' = effects
      BY <3>1 DEF Documents
    <3>2. CASE Landing(m)
      <4>1. Meant(m.num, page.doc)
        BY <1>1, <1>2, <3>2 DEF Documents, Landing
      <4>. DEFINE e == [num |-> m.num, doc |-> page.doc]
      <4>2. effects' = Append(effects, e) /\ e.num = m.num /\ e.doc = page.doc
        BY <3>2 DEF Landing
      <4>. HIDE DEF e
      <4>3. \A i \in 1..Len(effects') :
              (i \in 1..Len(effects) /\ effects'[i] = effects[i]) \/ effects'[i] = e
        BY <1>4, <4>2
      <4>. QED
        BY <4>1, <4>2, <4>3 DEF Documents
    <3>. QED
      BY <1>1, <1>2, <3>1, <3>2
  <2>. QED
    BY <2>1, <2>2, <2>3 DEF Documents
<1>. QED
  BY <1>11, <1>13, <1>14, <1>15

-----------------------------------------------------------------------------
(* Nothing was sent, done or reported at the start.                        *)
LEMMA EffectsInit ==
  ASSUME Init
  PROVE  EffectsInv
<1>1. \A t \in Thread : ~Active(t) /\ ~call[t].waiting
  BY DEF Init, Idle, Active
<1>2. Len(wire) = 0 /\ Len(effects) = 0 /\ answers = {}
  BY DEF Init
<1>. QED
  BY <1>1, <1>2 DEF EffectsInv, Once, AtMostOneEffect, Happened, OnTheWay, Unsent, ReadBack,
     Reported, Awaited, Documents

(* Every step keeps what is known about effects.                           *)
LEMMA EffectsStep ==
  ASSUME PageInv, EffectsInv, [Next]_vars
  PROVE  EffectsInv'
<1>. USE DEF PageInv
<1>1. CASE Change
  <2>1. UNCHANGED <<wire, inbox, nextId, effects, answers, call>>
    BY <1>1 DEF Change, channelVars
  <2>. QED
    BY <2>1, StillEffects
<1>2. CASE Obey
  BY <1>2, ObeyEffects
<1>3. ASSUME NEW t \in Thread, Observe(t)
      PROVE  EffectsInv'
  <2>1. Begin(t, "observe", Nothing, Nothing) /\ Nothing \in ObservationType
    BY <1>3, Blank DEF Observe
  <2>. QED
    BY <2>1, BeginEffects
<1>4. ASSUME NEW t \in Thread, NEW op \in Ops, NEW wanted \in returned, OnTarget(t, op, wanted)
      PROVE  EffectsInv'
  <2>1. wanted \in ObservationType /\ Begin(t, op, wanted, wanted)
    BY <1>4, OnTargetObservations
  <2>. QED
    BY <2>1, BeginEffects
<1>5. ASSUME NEW t \in Thread, ThreadStep(t)
      PROVE  EffectsInv'
  <2>1. CASE Send(t)
    BY <2>1, SendEffects
  <2>2. CASE Refuse(t)
    BY <2>2, RefuseEffects
  <2>3. CASE Read(t)
    BY <2>3, ReadEffects
  <2>4. CASE GiveUp(t)
    BY <2>4, GiveUpEffects
  <2>5. CASE Number(t)
    <3>1. UNCHANGED <<wire, inbox, nextId, effects, answers>>
      BY <2>5 DEF Number, MayNumber, channelVars
    <3>2. \A s \in Thread :
            /\ call'[s].op = call[s].op /\ call'[s].num = call[s].num
            /\ call'[s].at = call[s].at /\ call'[s].waiting = call[s].waiting
            /\ call'[s].named = call[s].named
      <4>1. call \in [Thread -> Call]
        BY DEF CallsInv, Shapes
      <4>2. call' = [call EXCEPT ![t] = [call[t] EXCEPT !.got =
                       [call[t].got EXCEPT !.gen = generation']]]
        BY <2>5 DEF Number, MayNumber
      <4>. QED
        BY <4>1, <4>2 DEF Call
    <3>. QED
      BY <3>1, <3>2, StillEffects
  <2>6. CASE Store(t)
    BY <2>6, StoreEffects
  <2>. QED
    BY <1>5, <2>1, <2>2, <2>3, <2>4, <2>5, <2>6 DEF ThreadStep
<1>6. CASE UNCHANGED vars
  <2>1. UNCHANGED <<wire, inbox, nextId, effects, answers, call>>
    BY <1>6 DEF vars, channelVars
  <2>. QED
    BY <2>1, StillEffects
<1>. QED
  BY <1>1, <1>2, <1>3, <1>4, <1>5, <1>6 DEF Next

(* Effects are as reported, and where they were meant, in every reachable  *)
(* state.                                                                  *)
LEMMA EffectsAlways == Spec => [](PageInv /\ EffectsInv)
<1>1. Init => EffectsInv
  BY EffectsInit
<1>2. PageInv /\ EffectsInv /\ [Next]_vars => EffectsInv'
  BY EffectsStep
<1>. QED
  BY <1>1, <1>2, PageAlways, PTL DEF Spec

(* What a call reports is true, however late the browser obeys and answers *)
(* a command: "none" had no effect and will have none, "ok" had one, and   *)
(* no call of CdpExecutor has two.                                         *)
THEOREM OutcomesAreTruthful == Spec => []TruthfulOutcomes
<1>1. PageInv /\ EffectsInv => TruthfulOutcomes
  <2>. SUFFICES ASSUME PageInv, EffectsInv
                PROVE  TruthfulOutcomes
    OBVIOUS
  <2>1. /\ DOMAIN effects = 1..Len(effects) /\ DOMAIN wire = 1..Len(wire)
        /\ Len(effects) \in Nat /\ Len(wire) \in Nat /\ calls \in Nat
    BY DEF PageInv, CallsInv, Shapes
  <2>2. /\ \A n, i : i \in EffectsOf(n) <=> i \in Nat /\ Happened(n, i)
        /\ \A n, i : i \in EffectsOnTheWay(n) <=> i \in Nat /\ OnTheWay(n, i)
    BY <2>1 DEF EffectsOf, EffectsOnTheWay, Happened, OnTheWay
  <2>3. ASSUME NEW a \in answers
        PROVE  /\ a.outcome = "none" => EffectsOf(a.num) = {} /\ EffectsOnTheWay(a.num) = {}
               /\ a.outcome = "ok" => EffectsOf(a.num) # {}
    BY <2>2 DEF EffectsInv, Reported, Untouched
  <2>4. ASSUME NEW n \in 1..calls
        PROVE  Cardinality(EffectsOf(n)) + Cardinality(EffectsOnTheWay(n)) <= 1
    <3>. DEFINE E == EffectsOf(n)
                W == EffectsOnTheWay(n)
    <3>1. AtMostOneEffect(n)
      BY <2>1 DEF EffectsInv, Once
    <3>2. /\ \A i, j \in E : i = j
          /\ \A i, j \in W : i = j
          /\ E = {} \/ W = {}
      BY <2>2, <3>1 DEF AtMostOneEffect
    <3>. HIDE DEF E, W
    <3>3. E = {} \/ \E i : E = {i}
      BY <3>2
    <3>4. W = {} \/ \E i : W = {i}
      BY <3>2
    <3>5. /\ Cardinality({}) = 0
          /\ \A i : Cardinality({i}) = 1
      BY FS_EmptySet, FS_Singleton
    <3>6. /\ Cardinality(E) \in {0, 1} /\ Cardinality(W) \in {0, 1}
          /\ E = {} => Cardinality(E) = 0
          /\ W = {} => Cardinality(W) = 0
      BY <3>3, <3>4, <3>5
    <3>7. Cardinality(E) + Cardinality(W) <= 1
      BY <3>2, <3>6
    <3>. QED
      BY <3>7 DEF E, W
  <2>. QED
    BY <2>3, <2>4 DEF TruthfulOutcomes
<1>. QED
  BY <1>1, EffectsAlways, PTL

(* An effect happens only in the document of the observation that the      *)
(* caller of CdpExecutor took its target from, also after the call ended.  *)
THEOREM EffectsAreInNamedDocument == Spec => []EffectInNamedDocument
<1>1. PageInv /\ EffectsInv => EffectInNamedDocument
  <2>. SUFFICES ASSUME PageInv, EffectsInv
                PROVE  EffectInNamedDocument
    OBVIOUS
  <2>1. DOMAIN effects = 1..Len(effects)
    BY DEF PageInv, CallsInv, Shapes
  <2>. QED
    BY <2>1 DEF EffectsInv, Documents, Meant, EffectInNamedDocument
<1>. QED
  BY <1>1, EffectsAlways, PTL

-----------------------------------------------------------------------------
(* The contract                                                            *)

(* What the contract sees of effects and answers.                          *)
HadEffect == {effects[i].num : i \in DOMAIN effects}
Learnt == {<<a.num, a.outcome>> : a \in answers}

(* A call of ExecutorContract had an effect when one of its commands did.  *)
LEMMA HadEffectIs ==
  ASSUME PageInv
  PROVE  \A n : n \in HadEffect <=> \E i \in Nat : Happened(n, i)
<1>1. DOMAIN effects = 1..Len(effects) /\ Len(effects) \in Nat
  BY DEF PageInv, CallsInv, Shapes
<1>. QED
  BY <1>1 DEF HadEffect, Happened

(* An effect of a call that was not told that it had none is a step of the *)
(* contract.                                                               *)
LEMMA ContractTouch ==
  ASSUME NEW n \in 1..MaxCalls, HadEffect' = HadEffect \union {n},
         <<n, "none">> \notin Learnt, Learnt' = Learnt
  PROVE  Contract!Next
<1>1. Contract!Touch(n)
  BY DEF Contract!Touch, HadEffect, Learnt
<1>. QED
  BY <1>1 DEF Contract!Next

(* So is the first answer of a call, if it is true.                        *)
LEMMA ContractTell ==
  ASSUME NEW n \in 1..MaxCalls, NEW o \in Outcome, Learnt' = Learnt \union {<<n, o>>},
         \A y \in Outcome : <<n, y>> \notin Learnt, HadEffect' = HadEffect,
         o = "none" => n \notin HadEffect, o = "ok" => n \in HadEffect
  PROVE  Contract!Next
<1>1. Contract!Tell(n, o)
  BY DEF Contract!Tell, Contract!Knowledge, HadEffect, Learnt, Outcome
<1>2. o \in Contract!Knowledge
  BY DEF Contract!Knowledge, Outcome
<1>. QED
  BY <1>1, <1>2 DEF Contract!Next

(* A call that ends tells the engine once, and the truth.                  *)
LEMMA EndTells ==
  ASSUME PageInv, EffectsInv', NEW t \in Thread, Active(t), NEW o \in Outcome,
         End(t, o), UNCHANGED effects
  PROVE  Contract!Next \/ UNCHANGED <<HadEffect, Learnt>>
<1>1. HadEffect' = HadEffect
  BY DEF HadEffect
<1>2. CASE call[t].op \notin Effecting
  BY <1>1, <1>2 DEF End, Learnt
<1>3. CASE call[t].op \in Effecting
  <2>0. PICK n : n = call[t].num
    OBVIOUS
  <2>. DEFINE a == [num |-> n, op |-> call[t].op, named |-> call[t].named, outcome |-> o]
  <2>1. answers' = answers \union {a}
    BY <1>3, <2>0 DEF End
  <2>2. a.num = n /\ a.outcome = o
    OBVIOUS
  <2>3. n \in 1..MaxCalls
    BY <2>0, CdpAssumption DEF PageInv, CallsInv, Placed, Shapes
  <2>4. \A b \in answers : b.num # n
    BY <2>0 DEF PageInv, CallsInv, Numbered
  <2>5. /\ o = "none" => \A i \in Nat : ~Happened(n, i)
        /\ o = "ok" => \E i \in Nat : Happened(n, i)
    <3>1. \A m, i : Happened(m, i)' <=> Happened(m, i)
      BY DEF Happened
    <3>. HIDE DEF a
    <3>2. a \in answers'
      BY <2>1
    <3>3. (o = "none" => Untouched(n)') /\ (o = "ok" => \E i \in Nat : Happened(n, i)')
      BY <2>2, <3>2 DEF EffectsInv, Reported
    <3>. QED
      BY <3>1, <3>3 DEF Untouched
  <2>. HIDE DEF a
  <2>6. Learnt' = Learnt \union {<<n, o>>}
    BY <2>1, <2>2 DEF Learnt
  <2>7. \A y \in Outcome : <<n, y>> \notin Learnt
    BY <2>4 DEF Learnt
  <2>8. (o = "none" => n \notin HadEffect) /\ (o = "ok" => n \in HadEffect)
    BY <2>5, HadEffectIs
  <2>. QED
    BY <1>1, <2>3, <2>6, <2>7, <2>8, ContractTell
<1>. QED
  BY <1>2, <1>3

(* The browser acts for a call that was not told that it had no effect.    *)
LEMMA ObeyTouches ==
  ASSUME PageInv, EffectsInv, Obey
  PROVE  Contract!Next \/ UNCHANGED <<HadEffect, Learnt>>
<1>1. /\ 1 \in 1..Len(wire)
      /\ answers' = answers
      /\ Landing(wire[1]) \/ effects' = effects
  BY ObeyShape DEF PageInv
<1>2. Learnt' = Learnt
  BY <1>1 DEF Learnt
<1>3. CASE effects' = effects
  BY <1>2, <1>3 DEF HadEffect
<1>4. CASE Landing(wire[1])
  <2>1. PICK m : m = wire[1]
    OBVIOUS
  <2>2. /\ m.cmd = "effect" /\ m.num \in 1..MaxCalls
        /\ effects' = Append(effects, [num |-> m.num, doc |-> page.doc])
    BY <1>1, <1>4, <2>1, Elements DEF Landing, WireCommand, PageInv, CallsInv
  <2>3. PICK n \in 1..MaxCalls : n = m.num
    BY <2>2
  <2>4. HadEffect' = HadEffect \union {n}
    <3>1. PICK e : e = [num |-> n, doc |-> page.doc]
      OBVIOUS
    <3>2. effects \in Seq(Effect) /\ e \in Effect /\ e.num = n
      BY <2>3, <3>1, CdpAssumption DEF PageInv, CallsInv, Shapes, Page, Effect
    <3>3. effects' = Append(effects, e)
      BY <2>2, <2>3, <3>1
    <3>4. /\ DOMAIN effects = 1..Len(effects) /\ DOMAIN effects' = 1..Len(effects) + 1
          /\ Len(effects) \in Nat
          /\ effects'[Len(effects) + 1] = e
          /\ \A i \in 1..Len(effects) : effects'[i] = effects[i]
      BY <3>2, <3>3
    <3>. QED
      BY <3>2, <3>4 DEF HadEffect
  <2>5. <<n, "none">> \notin Learnt
    <3>. SUFFICES ASSUME NEW a \in answers, a.num = n, a.outcome = "none"
                  PROVE  FALSE
      BY DEF Learnt
    <3>1. Untouched(n)
      BY DEF EffectsInv, Reported
    <3>2. OnTheWay(n, 1)
      BY <1>1, <2>1, <2>2, <2>3 DEF OnTheWay
    <3>. QED
      BY <3>1, <3>2 DEF Untouched
  <2>. QED
    BY <1>2, <2>4, <2>5, ContractTouch
<1>. QED
  BY <1>1, <1>3, <1>4

(* Every step of the backend is one of the contract or none.               *)
LEMMA ContractStep ==
  ASSUME PageInv, EffectsInv, EffectsInv', [Next]_vars
  PROVE  [Contract!Next]_(Contract!vars)
<1>1. SUFFICES Contract!Next \/ UNCHANGED <<HadEffect, Learnt>>
  BY DEF Contract!vars, HadEffect, Learnt
<1>2. ASSUME UNCHANGED <<effects, answers>>
      PROVE  UNCHANGED <<HadEffect, Learnt>>
  BY <1>2 DEF HadEffect, Learnt
<1>3. CASE Change
  BY <1>2, <1>3 DEF Change
<1>4. CASE Obey
  BY <1>4, ObeyTouches
<1>5. ASSUME NEW t \in Thread, NEW op, NEW wanted, NEW got, Begin(t, op, wanted, got)
      PROVE  UNCHANGED <<HadEffect, Learnt>>
  BY <1>2, <1>5 DEF Begin
<1>6. ASSUME NEW t \in Thread, Active(t), NEW o \in Outcome, End(t, o), UNCHANGED effects
      PROVE  Contract!Next \/ UNCHANGED <<HadEffect, Learnt>>
  BY <1>6, EndTells
<1>7. ASSUME NEW t \in Thread, ThreadStep(t)
      PROVE  Contract!Next \/ UNCHANGED <<HadEffect, Learnt>>
  <2>1. CASE Send(t)
    BY <1>2, <2>1 DEF Send
  <2>2. CASE Number(t)
    BY <1>2, <2>2 DEF Number
  <2>3. CASE Store(t)
    BY <1>6, <2>3 DEF Store, MayStore, Outcome
  <2>4. CASE Refuse(t)
    <3>1. PICK o \in Outcome : End(t, o)
      BY <2>4 DEF Refuse, Outcome
    <3>. QED
      BY <1>6, <2>4, <3>1 DEF Refuse
  <2>5. AfterSend(t) \in Outcome
    BY DEF AfterSend, Outcome
  <2>6. call[t].waiting => Active(t)
    BY DEF PageInv, CallsInv, Placed, Idle
  <2>7. CASE GiveUp(t)
    BY <1>6, <2>5, <2>6, <2>7 DEF GiveUp, MayGiveUp
  <2>8. CASE Read(t)
    <3>1. UNCHANGED effects /\ Active(t)
      BY <2>6, <2>8 DEF Read
    <3>2. (\E o \in Outcome : End(t, o)) \/ UNCHANGED answers
      BY <2>5, <2>8 DEF Read, Advance, Outcome
    <3>. QED
      BY <1>2, <1>6, <3>1, <3>2
  <2>. QED
    BY <1>7, <2>1, <2>2, <2>3, <2>4, <2>7, <2>8 DEF ThreadStep
<1>8. CASE UNCHANGED vars
  BY <1>2, <1>8 DEF vars
<1>. QED
  BY <1>3, <1>4, <1>5, <1>7, <1>8 DEF Next, Observe, OnTarget

(* CdpExecutor keeps the contract of Executor::dispatch, however threads,  *)
(* page and answers interleave: one answer for a call, no effect after     *)
(* an answer of no effect, and success only after the effect.              *)
THEOREM BrowserKeepsContract == Spec => KeepsContract
<1>1. Init => Contract!Init
  BY DEF Init, Contract!Init
<1>2. PageInv /\ EffectsInv /\ EffectsInv' /\ [Next]_vars => [Contract!Next]_(Contract!vars)
  BY ContractStep
<1>. QED
  BY <1>1, <1>2, EffectsAlways, PTL DEF Spec, KeepsContract, Contract!Spec

-----------------------------------------------------------------------------
(* The invariant                                                           *)

Held == [number : Nat, elements : Seq(Element), since : Nat, until : Nat]
Target == [number : Nat, id : Id, print : Fingerprint]
Verdict == [kind : Refused \union Found \union {"none"}, at : Nat, time : Nat]

(* SemanticTypeOK with the types of the records that it only measures.     *)
TypeInv ==
  /\ SemanticTypeOK
  /\ held \in Held
  /\ target = NoTarget \/ target \in Target
  /\ answer \in Verdict
  /\ handed > 0 => held.number > 0

(* The target was made of the element that was named.                      *)
NamedInv ==
  target # NoTarget => target.id = named.id /\ target.print = named.print

ReaderInv == TypeInv /\ NamedInv /\ FoundIsNamed

-----------------------------------------------------------------------------
(* Resolving and routing                                                   *)

(* What is in an observation is an element.                                *)
LEMMA ElementTypes ==
  ASSUME TypeInv
  PROVE \A i \in Positions(held.elements) : held.elements[i] \in Element
BY DEF TypeInv, Held, Positions

(* A list that build_mapping accepts has no tag and no identifier twice.   *)
LEMMA GoodIsDistinct ==
  ASSUME NEW elements \in Seq(Element), BuildMapping(elements) = "good"
  PROVE \A i, j \in Positions(elements) :
          elements[i].id = elements[j].id \/ elements[i].tag = elements[j].tag => i = j
BY DEF BuildMapping

(* What resolve leads to is the one element with the identifier and the    *)
(* fingerprint of the target, in an observation that is good now.          *)
LEMMA ResolveTypes ==
  ASSUME TypeInv, target # NoTarget
  PROVE LET r == Resolve(held, target) IN
        /\ r.kind \in Refused \union {"found"}
        /\ r.time = now
        /\ r \in Verdict
        /\ r.at \in 0..Len(held.elements)
        /\ r.kind = "found" =>
             LET e == held.elements[r.at] IN
             /\ r.at \in Positions(held.elements)
             /\ e.id = target.id /\ e.print = target.print
             /\ target.number = held.number
             /\ held.until > held.since /\ held.until <= held.since + Age
             /\ held.since <= now /\ now < held.until
             /\ \A i \in Positions(held.elements) : held.elements[i].id = e.id => i = r.at
<1> DEFINE matches == {i \in Positions(held.elements) : held.elements[i].id = target.id}
           valid == Validate(held, now)
<1>1. matches = {i \in Positions(held.elements) : held.elements[i].id = target.id}
  OBVIOUS
<1>2. /\ now \in Nat /\ held.elements \in Seq(Element) /\ Age \in Nat
      /\ held.since \in Nat /\ held.until \in Nat
  BY SemanticAssumption DEF TypeInv, SemanticTypeOK, Held
<1>3. valid \in {"good", "invalid", "stale", "ambiguous"}
  BY DEF Validate, BuildMapping
<1>4. valid = "good" =>
        /\ BuildMapping(held.elements) = "good"
        /\ held.until > held.since /\ held.until <= held.since + Age
        /\ held.since <= now /\ now < held.until
  BY <1>2 DEF Validate
<1> HIDE DEF matches, valid
<1>5. Resolve(held, target) =
        IF valid # "good" THEN Answer(valid, 0)
        ELSE IF target.number # held.number THEN Answer("stale_target", 0)
        ELSE IF matches = {} THEN Answer("not_found", 0)
        ELSE IF Cardinality(matches) > 1 THEN Answer("ambiguous", 0)
        ELSE LET i == CHOOSE i \in matches : TRUE IN
             IF held.elements[i].print # target.print THEN Answer("stale_target", 0)
             ELSE Answer("found", i)
  BY DEF Resolve, matches, valid
<1> DEFINE i == CHOOSE i \in matches : TRUE
<1>6. matches # {} => i \in matches
  OBVIOUS
<1>7. Positions(held.elements) \subseteq 0..Len(held.elements) /\ Len(held.elements) \in Nat
  BY <1>2 DEF Positions
<1>8. \A kind \in Refused \union {"found"}, at \in 0..Len(held.elements) :
        /\ Answer(kind, at) \in Verdict /\ Answer(kind, at).kind = kind
        /\ Answer(kind, at).at = at /\ Answer(kind, at).time = now
  BY <1>2, <1>7 DEF Answer, Verdict, Refused, Found
<1>9. valid \in Refused \/ valid = "good"
  BY <1>3 DEF Refused
<1>10. CASE valid # "good"
  <2>1. Resolve(held, target) = Answer(valid, 0)
    BY <1>5, <1>10
  <2>2. valid \in Refused /\ valid # "found" /\ 0 \in 0..Len(held.elements)
    BY <1>3, <1>7, <1>9, <1>10
  <2> QED
    BY <2>1, <2>2, <1>8
<1>11. CASE valid = "good" /\ \E kind \in Refused : Resolve(held, target) = Answer(kind, 0)
  <2>1. "found" \notin Refused /\ 0 \in 0..Len(held.elements)
    BY <1>7 DEF Refused
  <2> QED
    BY <2>1, <1>8, <1>11
<1>12. CASE /\ valid = "good" /\ matches # {} /\ target.number = held.number
            /\ held.elements[i].print = target.print
            /\ Resolve(held, target) = Answer("found", i)
  <2>1. i \in Positions(held.elements) /\ held.elements[i].id = target.id
    BY <1>1, <1>6, <1>12
  <2>2. \A j \in Positions(held.elements) : held.elements[j].id = held.elements[i].id => j = i
    BY <1>2, <1>4, <1>12, <2>1, GoodIsDistinct
  <2>3. Answer("found", i).kind = "found" /\ Answer("found", i).at = i
        /\ Answer("found", i).time = now /\ Answer("found", i) \in Verdict
    BY <1>7, <1>8, <2>1
  <2> QED
    BY <1>4, <1>7, <1>12, <2>1, <2>2, <2>3
<1> QED
  BY <1>5, <1>10, <1>11, <1>12 DEF Refused

(* What a call for a route says, for each of the three ways it goes.       *)
LEMMA RouteTypes ==
  ASSUME TypeInv, target # NoTarget, NEW action
  PROVE LET r == Route(action, held, target)
            found == Resolve(held, target) IN
        \/ found.kind \in Refused /\ r = found
        \/ found.kind = "found" /\ r = Answer("not_actionable", 0)
        \/ /\ found.kind = "found" /\ r = Answer("routed", found.at)
           /\ Actionable(action, held.elements[found.at])
<1> DEFINE found == Resolve(held, target)
<1>1. found.kind \in Refused \union {"found"} /\ "found" \notin Refused
  BY ResolveTypes DEF Refused
<1>2. Route(action, held, target) =
        IF found.kind # "found" THEN found
        ELSE IF Actionable(action, held.elements[found.at]) THEN Answer("routed", found.at)
        ELSE Answer("not_actionable", 0)
  BY DEF Route
<1> QED
  BY <1>1, <1>2

-----------------------------------------------------------------------------
(* The steps of the reader                                                 *)

(* No answer is an answer of the right type.                               *)
LEMMA NoneTypes ==
  ASSUME now \in Nat
  PROVE  /\ Answer("none", 0) \in Verdict /\ Answer("none", 0).at = 0
         /\ Answer("none", 0).kind = "none" /\ Answer("none", 0).time = now
BY DEF Answer, Verdict

(* The caller has nothing at first.                                        *)
LEMMA ReaderStart == SemanticInit => ReaderInv
<1> SUFFICES ASSUME SemanticInit PROVE ReaderInv
  OBVIOUS
<1> USE SemanticAssumption DEF SemanticInit
<1>1. now = 1 /\ answer \in Verdict /\ answer.at = 0 /\ answer.kind = "none" /\ answer.time = 1
  BY NoneTypes
<1>2. held \in Held /\ Len(held.elements) = 0 /\ held.elements = <<>>
  BY DEF Held
<1>3. SemanticTypeOK
  BY <1>1, <1>2 DEF SemanticTypeOK
<1>4. "none" \notin Found
  BY DEF Found
<1> QED
  BY <1>1, <1>2, <1>3, <1>4 DEF ReaderInv, TypeInv, NamedInv, FoundIsNamed

(* Whatever the caller is handed, it has no answer about it.               *)
LEMMA HandInv == ReaderInv /\ Hand => ReaderInv'
<1> SUFFICES ASSUME ReaderInv, Hand PROVE ReaderInv'
  OBVIOUS
<1>1. TypeInv /\ SemanticTypeOK /\ NamedInv
  BY DEF ReaderInv, TypeInv
<1>2. PICK elements \in Given, number \in {handed + 1, held.number} \ {0},
           since \in {now, now + 1}, until \in now..now + Age + 1 :
        held' = [number |-> number, elements |-> elements, since |-> since, until |-> until]
  BY DEF Hand
<1>3. /\ now \in Nat \ {0} /\ handed \in Nat /\ Age \in Nat /\ MaxHanded \in Nat
      /\ held.number \in 0..handed /\ now \in 1..MaxTime
  <2>1. Age \in Nat /\ MaxHanded \in Nat /\ MaxTime \in Nat
    BY SemanticAssumption
  <2>2. now \in 1..MaxTime /\ handed \in 0..MaxHanded /\ held.number \in 0..handed
    BY <1>1 DEF SemanticTypeOK
  <2> QED
    BY <2>1, <2>2
<1>4. elements \in Seq(Element) /\ Len(elements) \in Nat
  BY SemanticAssumption
<1>5. held' \in Held
  BY <1>2, <1>3, <1>4 DEF Held
<1>6. answer' \in Verdict /\ answer'.at = 0 /\ answer'.kind = "none" /\ answer'.time = now
      /\ now' = now /\ target' = target /\ named' = named
      /\ handed' = handed + 1 /\ handed < MaxHanded
  BY <1>3, NoneTypes DEF Hand
<1>7. SemanticTypeOK'
  <2>1. now' \in 1..MaxTime /\ handed' \in 0..MaxHanded
    BY <1>3, <1>6
  <2>2. held'.elements \in Given \union {<<>>} /\ held'.number \in 0..handed'
    BY <1>2, <1>3, <1>6
  <2>3. held'.since \in 1..now' + 1 /\ held'.until \in 1..now' + Age + 1
    BY <1>2, <1>3, <1>6
  <2>4. target' = NoTarget \/ target'.number \in 1..handed'
    BY <1>1, <1>3, <1>6 DEF SemanticTypeOK
  <2>5. named' = Nobody \/ named' \in Element
    BY <1>1, <1>6 DEF SemanticTypeOK
  <2>6. answer'.at \in 0..Len(held'.elements) /\ answer'.time \in 1..now'
        /\ answer'.kind \in Refused \union Found \union {"none"}
    BY <1>2, <1>3, <1>4, <1>6
  <2> QED
    BY <2>1, <2>2, <2>3, <2>4, <2>5, <2>6 DEF SemanticTypeOK, Nobody, NoTarget
<1>8. (target = NoTarget \/ target \in Target)' /\ NamedInv'
  BY <1>1, <1>6 DEF TypeInv, NamedInv, NoTarget, Target
<1>9. FoundIsNamed'
  BY <1>6 DEF FoundIsNamed, Found
<1>10. (handed > 0 => held.number > 0)'
  BY <1>2, <1>3
<1> QED
  BY <1>5, <1>6, <1>7, <1>8, <1>9, <1>10 DEF ReaderInv, TypeInv

(* A target is made of the element that is named.                          *)
LEMMA PointInv == ASSUME NEW tag, ReaderInv, Point(tag) PROVE ReaderInv'
<1> DEFINE matches == {i \in Positions(held.elements) : held.elements[i].tag = tag}
           e == held.elements[CHOOSE i \in matches : TRUE]
<1>1. TypeInv /\ SemanticTypeOK /\ NamedInv
  BY DEF ReaderInv, TypeInv
<1>2. now \in Nat \ {0} /\ handed \in Nat \ {0} /\ held.number \in Nat
      /\ held.elements \in Seq(Element)
  BY <1>1, SemanticAssumption DEF SemanticTypeOK, TypeInv, Held, Point
<1>3. held.number \in 1..handed
  BY <1>1, <1>2 DEF SemanticTypeOK, TypeInv
<1>4. answer' = Answer("none", 0) /\ now' = now /\ handed' = handed /\ held' = held
  BY DEF Point
<1>5. answer' \in Verdict /\ answer'.at = 0 /\ answer'.kind = "none" /\ answer'.time = now
  BY <1>2, <1>4, NoneTypes
<1>6. \/ UNCHANGED <<target, named>>
      \/ /\ Cardinality(matches) = 1 /\ named' = e
         /\ target' = [number |-> held.number, id |-> e.id, print |-> e.print]
  BY DEF Point
<1> HIDE DEF matches
<1>7. Cardinality(matches) = 1 => \E i : i \in matches
  BY FS_EmptySet
<1>8. /\ target' = NoTarget \/ (target' \in Target /\ target'.number \in 1..handed)
      /\ target' # NoTarget => target'.id = named'.id /\ target'.print = named'.print
      /\ named' = Nobody \/ named' \in Element
  <2>1. CASE UNCHANGED <<target, named>>
    BY <1>1, <2>1 DEF SemanticTypeOK, TypeInv, NamedInv
  <2>2. CASE /\ Cardinality(matches) = 1 /\ named' = e
             /\ target' = [number |-> held.number, id |-> e.id, print |-> e.print]
    <3>1. (CHOOSE i \in matches : TRUE) \in matches
      BY <1>7, <2>2
    <3>2. e \in Element
      BY <1>1, <3>1, ElementTypes DEF matches
    <3> QED
      BY <1>2, <1>3, <2>2, <3>2 DEF Target, Element
  <2> QED
    BY <1>6, <2>1, <2>2
<1>9. now' \in 1..MaxTime /\ handed' \in 0..MaxHanded
      /\ held'.elements \in Given \union {<<>>} /\ held'.number \in 0..handed'
      /\ held'.since \in 1..now' + 1 /\ held'.until \in 1..now' + Age + 1
  BY <1>1, <1>4 DEF SemanticTypeOK
<1>10. answer'.at \in 0..Len(held'.elements) /\ answer'.time \in 1..now'
       /\ answer'.kind \in Refused \union Found \union {"none"}
  BY <1>2, <1>4, <1>5
<1>11. SemanticTypeOK'
  BY <1>4, <1>8, <1>9, <1>10 DEF SemanticTypeOK, Nobody, NoTarget
<1>12. FoundIsNamed'
  BY <1>5 DEF FoundIsNamed, Found
<1>13. TypeInv'
  BY <1>1, <1>4, <1>5, <1>8, <1>11 DEF TypeInv, NoTarget
<1>14. NamedInv'
  BY <1>8 DEF NamedInv, NoTarget
<1> QED
  BY <1>12, <1>13, <1>14 DEF ReaderInv

(* The answer that Ask gives has a type, and if it leads to an element,    *)
(* that is the one that the target says.                                   *)
LEMMA AskTypes ==
  ASSUME TypeInv, Ask
  PROVE  /\ answer' \in Verdict /\ answer'.kind \in Refused \union Found
         /\ answer'.at \in 0..Len(held.elements) /\ answer'.time = now
         /\ answer'.kind \in Found \ {"not_actionable"} =>
              /\ Resolve(held, target).kind = "found"
              /\ answer'.at = Resolve(held, target).at
         /\ answer'.kind = "invoke" => Actionable("invoke", held.elements[answer'.at])
         /\ answer'.kind = "set_value" => Actionable("set_value", held.elements[answer'.at])
<1> DEFINE found == Resolve(held, target)
<1>1. /\ found.kind \in Refused \union {"found"} /\ found.time = now
      /\ found \in Verdict /\ found.at \in 0..Len(held.elements)
  BY ResolveTypes DEF Ask
<1>2. 0 \in 0..Len(held.elements) /\ now \in Nat
  BY SemanticAssumption DEF TypeInv, SemanticTypeOK, Held
<1>3. CASE answer' = found
  BY <1>1, <1>3 DEF Refused, Found
<1>4. ASSUME NEW action \in {"invoke", "set_value"},
             answer' = [Route(action, held, target) EXCEPT
                          !.kind = IF @ = "routed" THEN action ELSE @]
      PROVE  /\ answer' \in Verdict /\ answer'.kind \in Refused \union Found
             /\ answer'.at \in 0..Len(held.elements) /\ answer'.time = now
             /\ answer'.kind \in Found \ {"not_actionable"} =>
                  found.kind = "found" /\ answer'.at = found.at
             /\ answer'.kind \in {"invoke", "set_value"} =>
                  answer'.kind = action /\ Actionable(action, held.elements[answer'.at])
  <2> DEFINE r == Route(action, held, target)
  <2>1. CASE found.kind \in Refused /\ r = found
    <3>1. answer' = found
      BY <1>1, <1>4, <2>1 DEF Refused, Verdict
    <3> QED
      BY <1>1, <2>1, <3>1 DEF Refused, Found
  <2>2. CASE found.kind = "found" /\ r = Answer("not_actionable", 0)
    <3>1. answer' = Answer("not_actionable", 0)
      BY <1>4, <2>2 DEF Answer
    <3> QED
      BY <1>2, <3>1 DEF Answer, Verdict, Found, Refused
  <2>3. CASE /\ found.kind = "found" /\ r = Answer("routed", found.at)
             /\ Actionable(action, held.elements[found.at])
    <3>1. answer' = Answer(action, found.at)
      BY <1>4, <2>3 DEF Answer
    <3>2. found.at \in Nat
      BY <1>1 DEF Verdict
    <3> QED
      BY <1>1, <1>2, <2>3, <3>1, <3>2 DEF Answer, Verdict, Found
  <2> QED
    BY <2>1, <2>2, <2>3, RouteTypes DEF Ask
<1> QED
  BY <1>3, <1>4 DEF Ask, Refused

(* What is found is what the target says, which is what was named.         *)
LEMMA AskInv == ReaderInv /\ Ask => ReaderInv'
<1> SUFFICES ASSUME ReaderInv, Ask PROVE ReaderInv'
  OBVIOUS
<1>1. TypeInv /\ SemanticTypeOK /\ NamedInv
  BY DEF ReaderInv, TypeInv
<1>2. now' = now /\ handed' = handed /\ held' = held /\ target' = target /\ named' = named
      /\ target # NoTarget
  BY DEF Ask
<1>3. now \in Nat \ {0} /\ held.since \in Nat /\ held.until \in Nat /\ Age \in Nat
  BY <1>1, SemanticAssumption DEF SemanticTypeOK, TypeInv, Held
<1>4. /\ answer' \in Verdict /\ answer'.kind \in Refused \union Found
      /\ answer'.at \in 0..Len(held.elements) /\ answer'.time = now
  BY <1>1, AskTypes
<1>5. SemanticTypeOK'
  BY <1>1, <1>2, <1>3, <1>4 DEF SemanticTypeOK
<1>6. ASSUME answer'.kind \in Found \ {"not_actionable"}
      PROVE  LET e == held.elements[answer'.at] IN
             /\ Good' /\ target.number = held.number
             /\ e.id = named.id /\ e.print = named.print
             /\ \A i \in Positions(held.elements) : held.elements[i].id = e.id => i = answer'.at
  <2>1. /\ Resolve(held, target).kind = "found"
        /\ answer'.at = Resolve(held, target).at
    BY <1>1, <1>6, AskTypes
  <2>2. LET e == held.elements[answer'.at] IN
        /\ e.id = target.id /\ e.print = target.print
        /\ target.number = held.number
        /\ held.until > held.since /\ held.until <= held.since + Age
        /\ held.since <= now /\ now < held.until
        /\ \A i \in Positions(held.elements) : held.elements[i].id = e.id => i = answer'.at
    BY <1>1, <1>2, <2>1, ResolveTypes
  <2>3. Good'
    BY <1>2, <1>3, <1>4, <2>2 DEF Good
  <2> QED
    BY <1>1, <1>2, <2>2, <2>3 DEF NamedInv
<1>7. /\ answer'.kind = "invoke" =>
           {"steady", "invokable"} \subseteq held.elements[answer'.at].flags
      /\ answer'.kind = "set_value" =>
           {"steady", "editable"} \subseteq held.elements[answer'.at].flags
  BY <1>1, AskTypes DEF Actionable
<1>8. FoundIsNamed'
  BY <1>2, <1>6, <1>7 DEF FoundIsNamed
<1> QED
  BY <1>1, <1>2, <1>4, <1>5, <1>8 DEF ReaderInv, TypeInv, NamedInv

(* Time changes nothing about an answer that was given.                    *)
LEMMA PassInv == ReaderInv /\ Pass => ReaderInv'
<1> SUFFICES ASSUME ReaderInv, Pass PROVE ReaderInv'
  OBVIOUS
<1>1. now \in Nat /\ Age \in Nat /\ held.since \in Nat /\ held.until \in Nat
      /\ MaxTime \in Nat /\ now' \in 1..MaxTime
  BY SemanticAssumption DEF ReaderInv, TypeInv, SemanticTypeOK, Held, Pass
<1>2. SemanticTypeOK'
  BY <1>1 DEF ReaderInv, TypeInv, SemanticTypeOK, Pass
<1> QED
  BY <1>2 DEF ReaderInv, TypeInv, NamedInv, FoundIsNamed, Good, Pass

(* Every step of a reader.                                                 *)
LEMMA ReaderStep == ReaderInv /\ [SemanticNext]_semanticVars => ReaderInv'
<1> SUFFICES ASSUME ReaderInv, [SemanticNext]_semanticVars PROVE ReaderInv'
  OBVIOUS
<1>1. CASE Hand
  BY <1>1, HandInv
<1>2. CASE \E tag \in Tag : Point(tag)
  BY <1>2, PointInv
<1>3. CASE Ask
  BY <1>3, AskInv
<1>4. CASE Pass
  BY <1>4, PassInv
<1>5. CASE UNCHANGED semanticVars
  BY <1>5 DEF semanticVars, ReaderInv, TypeInv, SemanticTypeOK, NamedInv, FoundIsNamed, Good
<1> QED
  BY <1>1, <1>2, <1>3, <1>4, <1>5 DEF SemanticNext

(* The invariant holds in every state of a reader.                         *)
LEMMA ReaderAlways == SemanticSpec => []ReaderInv
BY ReaderStart, ReaderStep, PTL DEF SemanticSpec

(* Whatever observations a reader is handed, in whatever order and however *)
(* malformed: what resolve and route_action lead to is the one element     *)
(* that was named, in an observation that is good (semantic.rs:152-196).   *)
THEOREM FoundAreNamed == SemanticSpec => []FoundIsNamed
<1>1. ReaderInv => FoundIsNamed
  BY DEF ReaderInv
<1> QED
  BY <1>1, ReaderAlways, PTL

(* Every reachable state has the types of Semantic.                        *)
THEOREM ReaderTypeCorrect == SemanticSpec => []SemanticTypeOK
<1>1. ReaderInv => SemanticTypeOK
  BY DEF ReaderInv, TypeInv
<1> QED
  BY <1>1, ReaderAlways, PTL

-----------------------------------------------------------------------------
(* Forests                                                                 *)
(*                                                                         *)
(* build_mapping follows the parents of every element and remembers whom   *)
(* it has seen; a forest speaks of sets of elements.  Between the two      *)
(* stands the set of identifiers at and above one (Above): the walk ends   *)
(* exactly when "none" is among them.  The walk is a recursive function,   *)
(* of which one must be shown to exist (WalkExists) and not two            *)
(* (WalkIsUnique: fewer and fewer elements are left to be seen).           *)

Name == Id \union {"none"}

(* One step of the walk, and all of it.                                    *)
Climbing(elements, walk, seen, id) ==
  \/ id = "none"
  \/ id \notin seen /\ walk[seen \union {id}][ParentOf(elements, id)]

Walk(elements, walk) ==
  walk = [seen \in SUBSET Id |-> [id \in Name |-> Climbing(elements, walk, seen, id)]]

TheWalk(elements) == CHOOSE walk : Walk(elements, walk)

(* A set that holds the parent of each of its members, and the least one   *)
(* with an identifier.                                                     *)
Closed(elements, some) == \A id \in some : ParentOf(elements, id) \in some

Above(elements, id) ==
  {x \in Name : \A some \in SUBSET Name : id \in some /\ Closed(elements, some) => x \in some}

Ends(elements, seen, id) ==
  "none" \in Above(elements, id) /\ Above(elements, id) \intersect seen = {}

(* The parent of an identifier is an identifier or nobody, and that of     *)
(* what is not in the list is nobody.                                      *)
LEMMA ParentTypes ==
  ASSUME NEW elements \in Seq(Element), NEW id \in Name
  PROVE  /\ ParentOf(elements, id) \in Name
         /\ id \notin Ids(elements) => ParentOf(elements, id) = "none"
         /\ ParentOf(elements, "none") = "none"
         /\ Ids(elements) \subseteq Id
<1>. DEFINE i == CHOOSE i \in Positions(elements) : elements[i].id = id
<1>1. \A j \in Positions(elements) : elements[j] \in Element
  BY DEF Positions
<1>2. Ids(elements) \subseteq Id
  BY <1>1 DEF Ids, Element
<1>3. "none" \notin Ids(elements)
  BY <1>2, SemanticAssumption
<1>4. ParentOf(elements, "none") = "none"
  BY <1>3 DEF ParentOf
<1>5. CASE id \notin Ids(elements)
  BY <1>2, <1>4, <1>5 DEF ParentOf, Name
<1>6. CASE id \in Ids(elements)
  <2>1. i \in Positions(elements)
    BY <1>6 DEF Ids
  <2>2. elements[i].parent \in Name
    BY <1>1, <2>1 DEF Element, Name
  <2>3. ParentOf(elements, id) = elements[i].parent
    BY <1>6 DEF ParentOf
  <2>. QED
    BY <1>2, <1>4, <1>6, <2>2, <2>3
<1>. QED
  BY <1>5, <1>6

(* In a list without doubles the parent of an identifier is the one that   *)
(* its element names.                                                      *)
LEMMA ParentIs ==
  ASSUME NEW elements, NEW i \in Positions(elements),
         \A j, k \in Positions(elements) : elements[j].id = elements[k].id => j = k
  PROVE  ParentOf(elements, elements[i].id) = elements[i].parent
<1>1. elements[i].id \in Ids(elements)
  BY DEF Ids
<1>2. (CHOOSE j \in Positions(elements) : elements[j].id = elements[i].id) = i
  OBVIOUS
<1>. QED
  BY <1>1, <1>2 DEF ParentOf

(* What is at and above an identifier is the least closed set with it.     *)
LEMMA AboveIsLeast ==
  ASSUME NEW elements \in Seq(Element), NEW id \in Name
  PROVE  /\ Above(elements, id) \subseteq Name
         /\ id \in Above(elements, id)
         /\ Closed(elements, Above(elements, id))
         /\ \A some \in SUBSET Name :
              id \in some /\ Closed(elements, some) => Above(elements, id) \subseteq some
<1>1. Above(elements, id) \subseteq Name /\ id \in Above(elements, id)
  BY DEF Above
<1>2. \A some \in SUBSET Name :
        id \in some /\ Closed(elements, some) => Above(elements, id) \subseteq some
  BY DEF Above
<1>3. ASSUME NEW x \in Above(elements, id)
      PROVE  ParentOf(elements, x) \in Above(elements, id)
  <2>1. ParentOf(elements, x) \in Name
    BY <1>1, ParentTypes
  <2>2. \A some \in SUBSET Name :
          id \in some /\ Closed(elements, some) => ParentOf(elements, x) \in some
    BY <1>2 DEF Closed
  <2>. QED
    BY <2>1, <2>2 DEF Above
<1>. QED
  BY <1>1, <1>2, <1>3 DEF Closed

(* Nobody is above nobody.                                                 *)
LEMMA AboveNone ==
  ASSUME NEW elements \in Seq(Element)
  PROVE  Above(elements, "none") = {"none"}
<1>1. "none" \in Name /\ {"none"} \in SUBSET Name
  BY DEF Name
<1>2. Closed(elements, {"none"})
  BY <1>1, ParentTypes DEF Closed
<1>. QED
  BY <1>1, <1>2, AboveIsLeast

(* Above an identifier are it and what is above its parent.                *)
LEMMA AboveStep ==
  ASSUME NEW elements \in Seq(Element), NEW id \in Name
  PROVE  Above(elements, id) = {id} \union Above(elements, ParentOf(elements, id))
<1>. DEFINE p == ParentOf(elements, id)
<1>1. p \in Name
  BY ParentTypes
<1>2. Above(elements, p) \subseteq Above(elements, id)
  BY <1>1, AboveIsLeast DEF Closed
<1>3. /\ Above(elements, p) \subseteq Name /\ p \in Above(elements, p)
      /\ Closed(elements, Above(elements, p))
  BY <1>1, AboveIsLeast
<1>4. Closed(elements, {id} \union Above(elements, p))
  BY <1>3 DEF Closed
<1>5. Above(elements, id) \subseteq {id} \union Above(elements, p)
  BY <1>3, <1>4, AboveIsLeast
<1>6. id \in Above(elements, id)
  BY AboveIsLeast
<1>. QED
  BY <1>2, <1>5, <1>6

(* A walk that ends does not come back: in a circle everything leads to    *)
(* everything, and nothing to nobody.                                      *)
LEMMA NoReturn ==
  ASSUME NEW elements \in Seq(Element), NEW id \in Id, "none" \in Above(elements, id)
  PROVE  id \notin Above(elements, ParentOf(elements, id))
<1>. DEFINE ring == {x \in Above(elements, id) : id \in Above(elements, x)}
<1>1. id \in Name /\ id # "none"
  BY SemanticAssumption DEF Name
<1>2. /\ Above(elements, id) \subseteq Name /\ id \in Above(elements, id)
      /\ Closed(elements, Above(elements, id))
  BY <1>1, AboveIsLeast
<1>3. SUFFICES ASSUME id \in Above(elements, ParentOf(elements, id)) PROVE FALSE
  OBVIOUS
<1>4. ASSUME NEW x \in ring
      PROVE  ParentOf(elements, x) \in ring
  <2>1. x \in Name /\ x \in Above(elements, id) /\ id \in Above(elements, x)
    BY <1>2
  <2>2. Above(elements, x) = {x} \union Above(elements, ParentOf(elements, x))
    BY <2>1, AboveStep
  <2>3. id \in Above(elements, ParentOf(elements, x))
    BY <1>3, <2>1, <2>2
  <2>. QED
    BY <1>2, <2>1, <2>3 DEF Closed
<1>5. ring \in SUBSET Name /\ id \in ring /\ Closed(elements, ring)
  BY <1>2, <1>4 DEF Closed
<1>6. Above(elements, id) \subseteq ring
  <2>. HIDE DEF ring
  <2>. QED
    BY <1>1, <1>5, AboveIsLeast
<1>7. id \in Above(elements, "none")
  BY <1>6
<1>. QED
  BY <1>1, <1>7, AboveNone

(* The walk that ends where nobody is above: there is one.                 *)
LEMMA WalkExists ==
  ASSUME NEW elements \in Seq(Element)
  PROVE  Walk(elements, [seen \in SUBSET Id |-> [id \in Name |-> Ends(elements, seen, id)]])
<1>. DEFINE walk == [seen \in SUBSET Id |-> [id \in Name |-> Ends(elements, seen, id)]]
<1>1. ASSUME NEW seen \in SUBSET Id, NEW id \in Name
      PROVE  Ends(elements, seen, id) <=> Climbing(elements, walk, seen, id)
  <2>. DEFINE p == ParentOf(elements, id)
  <2>1. CASE id = "none"
    <3>1. "none" \notin seen
      BY SemanticAssumption
    <3>. QED
      BY <2>1, <3>1, AboveNone DEF Ends, Climbing
  <2>2. CASE id # "none"
    <3>1. id \in Id /\ p \in Name /\ seen \union {id} \in SUBSET Id
      BY <2>2, ParentTypes DEF Name
    <3>2. walk[seen \union {id}][p] = Ends(elements, seen \union {id}, p)
      BY <3>1
    <3>3. Above(elements, id) = {id} \union Above(elements, p)
      BY AboveStep
    <3>4. "none" \in Above(elements, id) => id \notin Above(elements, p)
      BY <3>1, NoReturn
    <3>5. Ends(elements, seen, id) <=> id \notin seen /\ Ends(elements, seen \union {id}, p)
      <4>. HIDE DEF p
      <4>. QED
        BY <2>2, <3>3, <3>4 DEF Ends
    <3>6. Climbing(elements, walk, seen, id) <=> id \notin seen /\ walk[seen \union {id}][p]
      <4>. HIDE DEF walk
      <4>. QED
        BY <2>2 DEF Climbing
    <3>. QED
      BY <3>2, <3>5, <3>6
  <2>. QED
    BY <2>1, <2>2
<1>2. \A seen \in SUBSET Id, id \in Name :
        Ends(elements, seen, id) = Climbing(elements, walk, seen, id)
  <2>1. \A seen, id : Ends(elements, seen, id) \in BOOLEAN
    BY DEF Ends
  <2>2. \A seen, id : Climbing(elements, walk, seen, id) \in BOOLEAN
    BY DEF Climbing
  <2>. HIDE DEF walk
  <2>. QED
    BY <1>1, <2>1, <2>2
<1>. HIDE DEF walk
<1>3. walk = [seen \in SUBSET Id |-> [id \in Name |-> Climbing(elements, walk, seen, id)]]
  BY <1>2 DEF walk
<1>. QED
  BY <1>3 DEF Walk, walk

(* Of two walks that differ the last step would differ.                    *)
LEMMA WalkIsUnique ==
  ASSUME NEW elements \in Seq(Element), NEW v, NEW w, Walk(elements, v), Walk(elements, w),
         NEW id \in Name
  PROVE  v[{}][id] = w[{}][id]
<1>. DEFINE Unseen(seen) == Ids(elements) \ seen
            Differ(seen, x) == v[seen][x] # w[seen][x]
            T == {left \in SUBSET Ids(elements) :
                    \E seen \in SUBSET Id, x \in Name : Unseen(seen) = left /\ Differ(seen, x)}
            R == StrictSubsetOrdering(Ids(elements))
<1>1. \A seen \in SUBSET Id, x \in Name :
        /\ v[seen][x] = Climbing(elements, v, seen, x)
        /\ w[seen][x] = Climbing(elements, w, seen, x)
  BY DEF Walk
<1>2. ASSUME NEW seen \in SUBSET Id, NEW x \in Name, Differ(seen, x)
      PROVE  /\ x \in Ids(elements) /\ x \in Id /\ x \notin seen
             /\ Differ(seen \union {x}, ParentOf(elements, x))
  <2>. DEFINE p == ParentOf(elements, x)
  <2>1. p \in Name
    BY ParentTypes
  <2>2. x # "none" /\ x \notin seen
    BY <1>1, <1>2 DEF Climbing
  <2>3. x \in Id /\ seen \union {x} \in SUBSET Id
    BY <2>2 DEF Name
  <2>4. Differ(seen \union {x}, p)
    <3>1. v[seen \union {x}][p] = w[seen \union {x}][p] =>
            Climbing(elements, v, seen, x) = Climbing(elements, w, seen, x)
      BY DEF Climbing
    <3>. QED
      BY <1>1, <1>2, <3>1
  <2>5. p # "none"
    <3>1. Climbing(elements, v, seen \union {x}, "none")
            = Climbing(elements, w, seen \union {x}, "none")
      BY DEF Climbing
    <3>. QED
      BY <1>1, <2>1, <2>3, <2>4, <3>1
  <2>6. x \in Ids(elements)
    BY <2>5, ParentTypes
  <2>. QED
    BY <2>2, <2>3, <2>4, <2>6
<1>3. IsWellFoundedOn(R, SUBSET Ids(elements))
  <2>1. IsFiniteSet(Ids(elements))
    <3>. DEFINE f == [i \in Positions(elements) |-> elements[i].id]
    <3>1. Len(elements) \in Nat
      OBVIOUS
    <3>2. IsFiniteSet(Positions(elements))
      BY <3>1, FS_Interval DEF Positions
    <3>3. f \in Surjection(Positions(elements), Ids(elements))
      BY DEF Surjection, Ids
    <3>. QED
      BY <3>2, <3>3, FS_Surjection
  <2>. QED
    BY <2>1, FS_FiniteSubsetsOfFinite, FS_StrictSubsetOrderingWellFounded
<1>4. SUFFICES ASSUME Differ({}, id) PROVE FALSE
  OBVIOUS
<1>5. T # {} /\ T \subseteq SUBSET Ids(elements)
  <2>1. Unseen({}) \in T
    BY <1>4
  <2>. QED
    BY <2>1
<1>6. PICK left \in T : \A other \in T : <<other, left>> \notin R
  <2>. HIDE DEF T, R
  <2>. QED
    BY <1>3, <1>5, WFMin
<1>7. PICK seen \in SUBSET Id, x \in Name : Unseen(seen) = left /\ Differ(seen, x)
  OBVIOUS
<1>8. /\ x \in Ids(elements) /\ x \in Id /\ x \notin seen
      /\ Differ(seen \union {x}, ParentOf(elements, x))
      /\ ParentOf(elements, x) \in Name
  <2>. HIDE DEF Differ
  <2>. QED
    BY <1>2, <1>7, ParentTypes
<1>9. Unseen(seen \union {x}) \in T
  <2>. HIDE DEF Differ
  <2>. QED
    BY <1>8
<1>10. <<Unseen(seen \union {x}), left>> \in R
  BY <1>7, <1>8 DEF StrictSubsetOrdering
<1>. QED
  BY <1>6, <1>9, <1>10

(* The walk of build_mapping ends exactly when nobody is above.            *)
LEMMA ClimbsIs ==
  ASSUME NEW elements \in Seq(Element), NEW id \in Name
  PROVE  Climbs(elements, id) <=> "none" \in Above(elements, id)
<1>. DEFINE walk == [seen \in SUBSET Id |-> [x \in Name |-> Ends(elements, seen, x)]]
<1>1. Climbs(elements, id) = TheWalk(elements)[{}][id]
  BY DEF Climbs, TheWalk, Walk, Climbing, Name
<1>2. Walk(elements, walk)
  BY WalkExists
<1>3. walk[{}][id] = Ends(elements, {}, id)
  OBVIOUS
<1>. HIDE DEF walk
<1>4. Walk(elements, TheWalk(elements))
  BY <1>2 DEF TheWalk
<1>5. TheWalk(elements)[{}][id] = walk[{}][id]
  BY <1>2, <1>4, WalkIsUnique
<1>. QED
  BY <1>1, <1>3, <1>5 DEF Ends

(* build_mapping accepts the forests, and nothing else.                    *)
LEMMA GoodAreForests ==
  ASSUME NEW elements \in Seq(Element)
  PROVE  BuildMapping(elements) = "good" <=> IsForest(elements)
<1>. DEFINE Apart == \A i, j \in Positions(elements) :
                       (elements[i].id = elements[j].id \/ elements[i].tag = elements[j].tag)
                         => i = j
            Linked == \A i \in Positions(elements) :
                        elements[i].parent \in Ids(elements) \union {"none"}
            Own == \A i \in Positions(elements) :
                     elements[i].parent # "none" => elements[i].parent # elements[i].id
            Climb == \A i \in Positions(elements) : Climbs(elements, elements[i].parent)
            Root(some) == \E i \in some : elements[i].parent \notin {elements[j].id : j \in some}
            Rooted == \A some \in (SUBSET Positions(elements)) \ {{}} : Root(some)
<1>1. \A i \in Positions(elements) :
        /\ elements[i] \in Element /\ elements[i].id \in Ids(elements)
        /\ elements[i].id \in Name /\ elements[i].parent \in Name
  <2>. TAKE i \in Positions(elements)
  <2>1. elements[i] \in Element /\ elements[i].id \in Ids(elements)
    BY DEF Positions, Ids
  <2>. QED
    BY <2>1 DEF Element, Name
<1>2. Ids(elements) \subseteq Id /\ "none" \notin Id
  BY <1>1, SemanticAssumption DEF Ids, Element
<1>3. BuildMapping(elements) = "good" <=> Apart /\ Linked /\ Own /\ Climb
  <2>. DEFINE Clash ==
         \/ ~\A i, j \in Positions(elements) : elements[i].tag = elements[j].tag => i = j
         \/ ~\A i, j \in Positions(elements) : elements[i].id = elements[j].id => i = j
              Bad(i) ==
         \/ /\ elements[i].parent # "none"
            /\ elements[i].parent = elements[i].id \/ elements[i].parent \notin Ids(elements)
         \/ ~Climbs(elements, elements[i].parent)
  <2>1. BuildMapping(elements) =
          IF Clash THEN "ambiguous"
          ELSE IF \E i \in Positions(elements) : Bad(i) THEN "invalid" ELSE "good"
    BY DEF BuildMapping
  <2>2. ~Clash <=> Apart
    OBVIOUS
  <2>3. (\A i \in Positions(elements) : ~Bad(i)) <=> Linked /\ Own /\ Climb
    OBVIOUS
  <2>. HIDE DEF Clash, Bad, Apart, Linked, Own, Climb
  <2>. QED
    BY <2>1, <2>2, <2>3
<1>4. IsForest(elements) <=> Apart /\ Linked /\ Rooted
  BY DEF IsForest
<1>5. Climb <=> \A i \in Positions(elements) : "none" \in Above(elements, elements[i].parent)
  BY <1>1, ClimbsIs
<1>6. ASSUME Apart, Linked, Climb PROVE Rooted
  <2>. TAKE some \in (SUBSET Positions(elements)) \ {{}}
  <2>. SUFFICES ASSUME ~Root(some) PROVE FALSE
    OBVIOUS
  <2>. DEFINE names == {elements[j].id : j \in some}
  <2>1. names \in SUBSET Name /\ "none" \notin names
    BY <1>1, <1>2 DEF Ids
  <2>2. Closed(elements, names)
    <3>1. ASSUME NEW i \in some PROVE ParentOf(elements, elements[i].id) \in names
      BY <1>6, ParentIs
    <3>. QED
      BY <3>1 DEF Closed
  <2>3. PICK i \in some : elements[i].parent \in names
    OBVIOUS
  <2>4. Above(elements, elements[i].parent) \subseteq names
    <3>. HIDE DEF names
    <3>. QED
      BY <1>1, <2>1, <2>2, <2>3, AboveIsLeast
  <2>. QED
    BY <1>5, <1>6, <2>1, <2>4
<1>7. ASSUME Apart, Linked, Rooted PROVE Own
  <2>. SUFFICES ASSUME NEW i \in Positions(elements), elements[i].parent = elements[i].id
                PROVE  FALSE
    OBVIOUS
  <2>1. Root({i})
    <3>1. {i} \in (SUBSET Positions(elements)) \ {{}}
      OBVIOUS
    <3>. HIDE DEF Root
    <3>. QED  BY <1>7, <3>1
  <2>. QED
    BY <2>1
<1>8. ASSUME Apart, Linked, Rooted PROVE Climb
  <2>. SUFFICES ASSUME NEW i \in Positions(elements),
                       "none" \notin Above(elements, elements[i].parent)
                PROVE  FALSE
    BY <1>5
  <2>. DEFINE above == Above(elements, elements[i].parent)
              some == {j \in Positions(elements) : elements[j].id \in above}
  <2>1. /\ elements[i].parent \in above /\ above \subseteq Name
        /\ \A x \in above : ParentOf(elements, x) \in above
    BY <1>1, AboveIsLeast DEF Closed
  <2>2. above \subseteq Ids(elements)
    BY <2>1, ParentTypes
  <2>3. \A x \in above : \E j \in some : elements[j].id = x
    BY <2>2 DEF Ids
  <2>4. some \in SUBSET Positions(elements) /\ some # {}
    <3>. HIDE DEF above
    <3>1. \E k \in some : elements[k].id = elements[i].parent
      <4>. HIDE DEF some
      <4>. QED  BY <2>1, <2>3
    <3>. QED
      BY <3>1
  <2>5. Root(some)
    <3>. HIDE DEF Root, some
    <3>. QED  BY <1>8, <2>4
  <2>6. PICK j \in some : elements[j].parent \notin {elements[k].id : k \in some}
    BY <2>5
  <2>7. elements[j].parent \in above
    BY <1>8, <2>1, <2>6, ParentIs
  <2>. QED
    BY <2>3, <2>6, <2>7
<1>. QED
  BY <1>3, <1>4, <1>6, <1>7, <1>8

-----------------------------------------------------------------------------
(* What is found in a forest                                               *)

(* Resolve finds something only in a forest, and in a forest that is good  *)
(* now it complains about nothing but the target.                          *)
LEMMA ResolveForests ==
  ASSUME TypeInv, target # NoTarget
  PROVE  LET r == Resolve(held, target)
             good == /\ held.until > held.since /\ held.until <= held.since + Age
                     /\ held.since <= now /\ now < held.until IN
         /\ r.kind = "found" => IsForest(held.elements)
         /\ good /\ IsForest(held.elements) =>
              /\ r.kind \notin {"invalid", "ambiguous"}
              /\ \A i \in Positions(held.elements) :
                   /\ target.number = held.number
                   /\ held.elements[i].id = target.id /\ held.elements[i].print = target.print
                   => r.kind = "found"
<1>. DEFINE matches == {i \in Positions(held.elements) : held.elements[i].id = target.id}
            valid == Validate(held, now)
            r == Resolve(held, target)
            good == /\ held.until > held.since /\ held.until <= held.since + Age
                    /\ held.since <= now /\ now < held.until
            k == CHOOSE i \in matches : TRUE
<1>1. /\ now \in Nat /\ held.elements \in Seq(Element) /\ Age \in Nat
      /\ held.since \in Nat /\ held.until \in Nat
  BY SemanticAssumption DEF TypeInv, SemanticTypeOK, Held
<1>2. BuildMapping(held.elements) = "good" <=> IsForest(held.elements)
  BY <1>1, GoodAreForests
<1>3. valid = "good" => IsForest(held.elements)
  BY <1>2 DEF Validate
<1>4. good /\ IsForest(held.elements) => valid = "good"
  BY <1>1, <1>2 DEF Validate
<1>5. valid \in {"good", "invalid", "stale", "ambiguous"}
  BY DEF Validate, BuildMapping
<1>6. IsForest(held.elements) =>
        \A i, j \in Positions(held.elements) :
          held.elements[i].id = held.elements[j].id => i = j
  BY DEF IsForest
<1>7. r = IF valid # "good" THEN Answer(valid, 0)
          ELSE IF target.number # held.number THEN Answer("stale_target", 0)
          ELSE IF matches = {} THEN Answer("not_found", 0)
          ELSE IF Cardinality(matches) > 1 THEN Answer("ambiguous", 0)
          ELSE IF held.elements[k].print # target.print THEN Answer("stale_target", 0)
          ELSE Answer("found", k)
  BY DEF Resolve
<1>8. \A kind, i : Answer(kind, i).kind = kind
  BY DEF Answer
<1>9. r.kind = "found" => IsForest(held.elements)
  <2>. HIDE DEF valid, matches, k, r
  <2>. QED
    BY <1>3, <1>5, <1>7, <1>8
<1>10. ASSUME IsForest(held.elements), NEW i \in matches
       PROVE  matches = {i} /\ k = i /\ Cardinality(matches) = 1
  <2>1. matches = {i}
    BY <1>6, <1>10
  <2>. HIDE DEF matches
  <2>2. Cardinality(matches) = 1
    BY <2>1, FS_Singleton
  <2>. QED
    BY <2>1, <2>2
<1>11. ASSUME good, IsForest(held.elements)
       PROVE  r.kind \notin {"invalid", "ambiguous"}
  <2>1. valid = "good"
    BY <1>4, <1>11
  <2>2. CASE matches = {}
    <3>. HIDE DEF valid, matches, k, r
    <3>. QED
      BY <1>7, <1>8, <2>1, <2>2
  <2>3. CASE matches # {}
    <3>1. Cardinality(matches) = 1
      BY <1>10, <1>11, <2>3
    <3>2. ~(Cardinality(matches) > 1)
      BY <3>1
    <3>. HIDE DEF valid, matches, k, r
    <3>. QED
      BY <1>7, <1>8, <2>1, <3>2
  <2>. QED
    BY <2>2, <2>3
<1>12. ASSUME good, IsForest(held.elements), NEW i \in Positions(held.elements),
              target.number = held.number, held.elements[i].id = target.id,
              held.elements[i].print = target.print
       PROVE  r.kind = "found"
  <2>1. valid = "good"
    BY <1>4, <1>12
  <2>2. i \in matches
    BY <1>12
  <2>3. matches # {} /\ k = i /\ Cardinality(matches) = 1
    BY <1>10, <1>12, <2>2
  <2>4. ~(Cardinality(matches) > 1)
    BY <2>3
  <2>. HIDE DEF valid, matches, k, r
  <2>. QED
    BY <1>7, <1>8, <1>12, <2>1, <2>3, <2>4
<1>. QED
  BY <1>9, <1>11, <1>12

(* An answer leads to an element or refuses one as resolve does.           *)
LEMMA AskAsks ==
  ASSUME TypeInv, Ask
  PROVE  LET found == Resolve(held, target) IN
         /\ answer'.kind \in Found => found.kind = "found"
         /\ answer'.kind \notin Found => answer'.kind = found.kind
<1> DEFINE found == Resolve(held, target)
<1>1. /\ found.kind \in Refused \union {"found"} /\ found \in Verdict
      /\ Refused \intersect Found = {} /\ "found" \in Found
  BY ResolveTypes DEF Ask, Refused, Found
<1>2. CASE answer' = found
  BY <1>1, <1>2
<1>3. ASSUME NEW action \in {"invoke", "set_value"},
             answer' = [Route(action, held, target) EXCEPT
                          !.kind = IF @ = "routed" THEN action ELSE @]
      PROVE  \/ answer'.kind = found.kind
             \/ answer'.kind \in Found /\ found.kind = "found"
  <2> DEFINE r == Route(action, held, target)
  <2>1. CASE found.kind \in Refused /\ r = found
    <3>1. answer' = found
      BY <1>1, <1>3, <2>1 DEF Refused, Verdict
    <3> QED
      BY <3>1
  <2>2. CASE found.kind = "found" /\ r = Answer("not_actionable", 0)
    <3>1. answer' = Answer("not_actionable", 0)
      BY <1>3, <2>2 DEF Answer
    <3> QED
      BY <2>2, <3>1 DEF Answer, Found
  <2>3. CASE found.kind = "found" /\ r = Answer("routed", found.at)
    <3>1. answer' = Answer(action, found.at)
      BY <1>3, <2>3 DEF Answer
    <3> QED
      BY <2>3, <3>1 DEF Answer, Found
  <2> QED
    BY <2>1, <2>2, <2>3, RouteTypes DEF Ask
<1> QED
  BY <1>1, <1>2, <1>3 DEF Ask

(* The answers that were given stay right, and a new one is.               *)
LEMMA AskForests == ReaderInv /\ Ask => OnlyForests'
<1> SUFFICES ASSUME ReaderInv, Ask PROVE OnlyForests'
  OBVIOUS
<1> DEFINE found == Resolve(held, target)
<1>1. TypeInv /\ NamedInv /\ target # NoTarget
  BY DEF ReaderInv, Ask
<1>2. held' = held /\ target' = target /\ named' = named /\ answer'.time = now
  BY <1>1, AskTypes DEF Ask
<1>3. /\ answer'.kind \in Found => found.kind = "found"
      /\ answer'.kind \notin Found => answer'.kind = found.kind
  BY <1>1, AskAsks
<1>4. /\ Good' => /\ held.until > held.since /\ held.until <= held.since + Age
                  /\ held.since <= now /\ now < held.until
  BY <1>1, <1>2, SemanticAssumption DEF Good, TypeInv, SemanticTypeOK, Held
<1>5. target.id = named.id /\ target.print = named.print
  BY <1>1 DEF NamedInv
<1>6. "invalid" \notin Found /\ "ambiguous" \notin Found /\ "found" \in Found
  BY DEF Found
<1> HIDE DEF found
<1>7. (answer.kind \in Found => IsForest(held.elements))'
  BY <1>1, <1>2, <1>3, ResolveForests DEF found
<1>8. ASSUME Good', IsForest(held.elements)
      PROVE  /\ answer'.kind \notin {"invalid", "ambiguous"}
             /\ ( /\ target.number = held.number
                  /\ \E i \in Positions(held.elements) : held.elements[i] = named )
                => answer'.kind \in Found
  <2>1. /\ found.kind \notin {"invalid", "ambiguous"}
        /\ \A i \in Positions(held.elements) :
             /\ target.number = held.number
             /\ held.elements[i].id = target.id /\ held.elements[i].print = target.print
             => found.kind = "found"
    BY <1>1, <1>4, <1>8, ResolveForests DEF found
  <2>2. answer'.kind \notin {"invalid", "ambiguous"}
    BY <1>3, <1>6, <2>1
  <2>3. ASSUME target.number = held.number,
               NEW i \in Positions(held.elements), held.elements[i] = named
        PROVE  answer'.kind \in Found
    <3>1. found.kind = "found"
      BY <1>5, <2>1, <2>3
    <3> QED
      BY <1>3, <1>6, <3>1
  <2> QED
    BY <2>2, <2>3
<1> QED
  BY <1>2, <1>7, <1>8 DEF OnlyForests

(* Every other step leaves the answer and what it is about, or forgets it. *)
LEMMA ForestsStep ==
  ReaderInv /\ OnlyForests /\ [SemanticNext]_semanticVars => OnlyForests'
<1> SUFFICES ASSUME ReaderInv, OnlyForests, [SemanticNext]_semanticVars PROVE OnlyForests'
  OBVIOUS
<1>1. ASSUME answer' = Answer("none", 0) PROVE OnlyForests'
  <2>1. answer'.kind = "none" /\ "none" \notin Found
    BY <1>1 DEF Answer, Found
  <2> QED
    BY <2>1 DEF OnlyForests
<1>2. CASE Hand
  BY <1>1, <1>2 DEF Hand
<1>3. CASE \E tag \in Tag : Point(tag)
  BY <1>1, <1>3 DEF Point
<1>4. CASE Ask
  BY <1>4, AskForests
<1>5. ASSUME UNCHANGED <<held, target, named, answer>> PROVE OnlyForests'
  BY <1>5 DEF OnlyForests, Good
<1>6. CASE Pass \/ UNCHANGED semanticVars
  BY <1>5, <1>6 DEF Pass, semanticVars
<1> QED
  BY <1>2, <1>3, <1>4, <1>6 DEF SemanticNext

(* Whatever lists a reader is given: nothing is found in one that is not a *)
(* forest, however its parents run in circles, and in a good forest what   *)
(* was named in it is found (build_mapping, resolve: semantic.rs:152-280). *)
THEOREM OnlyForestsAreSearched == SemanticSpec => []OnlyForests
<1>1. SemanticInit => OnlyForests
  BY DEF SemanticInit, OnlyForests, Answer, Found
<1> QED
  BY <1>1, ForestsStep, ReaderAlways, PTL DEF SemanticSpec

-----------------------------------------------------------------------------
(* Both                                                                    *)

(* The backend (cdp.rs) and the reader (semantic.rs) together keep the     *)
(* types of their variables.                                               *)
THEOREM BothTypeCorrect == PageSpec => []PageTypeOK
<1>1. PageInit => PageInv /\ ReaderInv
  BY PageStart, ReaderStart DEF PageInit
<1>2. PageInv /\ ReaderInv /\ [PageNext]_<<part, vars, semanticVars>> => PageInv' /\ ReaderInv'
  <2> SUFFICES ASSUME PageInv, ReaderInv, [PageNext]_<<part, vars, semanticVars>>
               PROVE  PageInv' /\ ReaderInv'
    OBVIOUS
  <2>1. [Next]_vars /\ [SemanticNext]_semanticVars
    BY DEF PageNext
  <2> QED
    BY <2>1, PageStep, ReaderStep
<1>3. PageInv /\ ReaderInv => PageTypeOK
  BY PageTypesAre DEF PageTypeOK, ReaderInv, TypeInv
<1> QED
  BY <1>1, <1>2, <1>3, PTL DEF PageSpec

=============================================================================
