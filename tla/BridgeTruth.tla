----------------------------- MODULE BridgeTruth -----------------------------
(***************************************************************************)
(* What a caller of Bridge is told, for every set of callers and machines  *)
(* and every number of calls: that it is true (TruthInv), that a success   *)
(* is one that was granted and a verified effect one that was seen         *)
(* (GrantInv), and that the plugins take what the engine says (TakenInv).  *)
(***************************************************************************)
EXTENDS BridgeProofs

-----------------------------------------------------------------------------
(* The invariant                                                           *)

(* No effect has happened or is on its way.                                *)
Clean(o) == ~effect[o].landed /\ ~effect[o].flying

(* And none will be: the operation has ended, or its only call has.        *)
Final(o) ==
  /\ Clean(o)
  /\ ledger[o].terminal # NoTerminal \/ (~IsPlugin /\ At(o) = "done")

(* What a terminal says about its operation.                               *)
Truthful(t, o) ==
  /\ t.kind = "succeeded" => effect[o].landed
  /\ t.kind \in NoEffectKind => Final(o)

(* Labels that the execution lock protects, those of them behind the claim *)
(* and those before the effect.                                            *)
Claimed == {"prepare", "context", "dispatch", "executing", "uncertain", "returned",
            "after", "finish", "finish_effect"}
Locked == Claimed \union {"read"}
Before == {"prepare", "context", "dispatch", "finish"}

OpTruth(o) ==
  /\ ledger[o] = NoEntry => Clean(o)
  /\ Truthful(ledger[o].terminal, o)

LabelTruth(c) ==
  /\ At(c) \in Locked => holder = c
  /\ At(c) \in Claimed => /\ ledger[OpOf(c)] # NoEntry
                          /\ ledger[OpOf(c)].terminal = NoTerminal
  /\ At(c) \in Before => Clean(OpOf(c))
  /\ At(c) \in {"returned", "after"} => effect[OpOf(c)].landed
  /\ At(c) = "finish" => call[c].terminal.kind \in NoEffectKind
  /\ At(c) = "finish_effect" =>
       /\ call[c].terminal.kind \in {"succeeded", "outcome_unknown"}
       /\ call[c].terminal.kind = "succeeded" => effect[OpOf(c)].landed
  /\ At(c) = "answer" =>
       /\ Truthful(call[c].terminal, OpOf(c))
       /\ call[c].tool = "execute" =>
            call[c].terminal.kind \in Kind /\ call[c].sequence # <<>>

(* An operation that only its own call works for is untouched until then.  *)
OwnTruth(c) ==
  (~IsPlugin /\ \/ At(c) = "idle"
                \/ call[c].tool = "execute" /\ At(c) \in {"gate", "lock", "read"})
    => Clean(c)

(* What a caller was told, and whether it may ask again.                   *)
Faithful(told, tool, o) ==
  /\ Truthful(told.terminal, o)
  /\ (tool = "execute" /\ told.kind # "none" /\ told.retry /\ told.terminal.kind # "succeeded")
       => Final(o)

CallTruth(c) ==
  LabelTruth(c) /\ OwnTruth(c) /\ Faithful(call[c].told, call[c].tool, OpOf(c))

TruthInv == (\A o \in Op : OpTruth(o)) /\ (\A c \in Call : CallTruth(c))

-----------------------------------------------------------------------------
(* What no step undoes                                                     *)

(* What has happened has happened, and nothing happens that was not        *)
(* dispatched.                                                             *)
LEMMA DeedMoves ==
  ASSUME TypeInv, [Next]_vars, NEW o \in Op
  PROVE  /\ effect[o].landed => effect'[o].landed
         /\ effect'[o].landed => effect[o].landed \/ effect[o].flying
<1> DEFINE Kept == /\ effect[o].landed => effect'[o].landed
                   /\ effect'[o].landed => effect[o].landed \/ effect[o].flying
<1>1. effect \in [Op -> Deed]
  BY DEF TypeInv, TypeOK
<1>2. ASSUME NEW c \in Call, Begin(c) \/ Accept(c) \/ GiveUp(c) PROVE Kept
  BY <1>2 DEF Begin, Accept, GiveUp
<1>3. ASSUME NEW c \in Call, Crash(c) \/ Gate(c) \/ Lock(c) \/ Read(c) \/ Prepare(c)
                             \/ SampleBefore(c) \/ Doubt(c) \/ SampleAfter(c) \/ Conclude(c)
                             \/ FinishNoEffect(c) \/ FinishEffect(c)
      PROVE Kept
  BY <1>3 DEF Crash, Gate, Lock, Read, Prepare, SampleBefore, Doubt, SampleAfter, Conclude,
     FinishNoEffect, FinishEffect
<1>4. ASSUME NEW c \in Call, Return(c) PROVE Kept
  BY <1>1, <1>4, OpOfType DEF Return, Deed
<1>5. ASSUME NEW c \in Call, Dispatch(c) PROVE Kept
  <2>1. OpOf(c) \in Op /\ [effect EXCEPT ![OpOf(c)].flying = TRUE] \in [Op -> Deed]
    BY <1>1, OpOfType DEF Deed
  <2>2. effect'[o].landed = [effect EXCEPT ![OpOf(c)].flying = TRUE][o].landed
    BY <1>5, <2>1, NoticeKeeps DEF Dispatch
  <2>3. [effect EXCEPT ![OpOf(c)].flying = TRUE][o].landed = effect[o].landed
    BY <1>1, <2>1 DEF Deed
  <2> QED
    BY <2>2, <2>3
<1>6. ASSUME NEW p \in Op, Land(p) PROVE Kept
  <2>1. PICK disturbed \in BOOLEAN, d \in {desk'} :
          effect' = Notice([effect EXCEPT ![p] =
                             [flying |-> FALSE, landed |-> TRUE, late |-> passed # {},
                              disturbed |-> disturbed, held |-> effect[p].held]], d)
    BY <1>6 DEF Land
  <2> DEFINE deeds == [effect EXCEPT ![p] =
                        [flying |-> FALSE, landed |-> TRUE, late |-> passed # {},
                         disturbed |-> disturbed, held |-> effect[p].held]]
  <2>2. effect[p].held \in BOOLEAN /\ (passed # {}) \in BOOLEAN /\ effect[p].flying
    BY <1>1, <1>6 DEF Deed, Land
  <2>3. [flying |-> FALSE, landed |-> TRUE, late |-> passed # {},
         disturbed |-> disturbed, held |-> effect[p].held] \in Deed
    BY <2>2 DEF Deed
  <2>4. deeds \in [Op -> Deed]
    BY <1>1, <2>3
  <2> HIDE DEF deeds
  <2>5. effect' = Notice(deeds, d) /\ Notice(deeds, d)[o].landed = deeds[o].landed
    BY <2>1, <2>4, NoticeKeeps DEF deeds
  <2>6. deeds[p].landed = TRUE
    BY <1>1 DEF deeds
  <2>7. o # p => deeds[o] = effect[o]
    BY <1>1 DEF deeds
  <2> QED
    BY <2>2, <2>5, <2>6, <2>7
<1>7. ASSUME Change PROVE Kept
  BY <1>1, <1>7, NoticeKeeps DEF Change
<1> QED
  BY <1>2, <1>3, <1>4, <1>5, <1>6, <1>7 DEF Next, Engine, vars, Tick

(* Only a dispatch takes the promise away that nothing has happened.       *)
LEMMA CleanStays ==
  ASSUME TypeInv, [Next]_vars, NEW o \in Op, Clean(o),
         \A c \in Call : Dispatch(c) => OpOf(c) # o
  PROVE  Clean(o)'
BY DeedMoves, OnlyDispatch DEF Clean

(* What is dispatched was claimed and has not ended.                       *)
LEMMA DispatchIsFresh ==
  ASSUME TypeInv, TruthInv, NEW c \in Call, Dispatch(c)
  PROVE  /\ ~Final(OpOf(c)) /\ ledger[OpOf(c)] # NoEntry
         /\ holder = c /\ call'[c] # call[c]
         /\ ~IsPlugin => OpOf(c) = c
<1>1. At(c) = "dispatch" /\ call[c].tool = "execute" /\ call \in [Call -> CallRecord]
  BY DEF Dispatch, TypeInv, TypeOK, CallType, Granted, Prepared
<1>2. ~IsPlugin => OpOf(c) = c
  BY <1>1 DEF OpOf, IsPlugin
<1>3. /\ holder = c /\ ledger[OpOf(c)] # NoEntry /\ ledger[OpOf(c)].terminal = NoTerminal
  BY <1>1 DEF TruthInv, CallTruth, LabelTruth, Claimed, Locked
<1>4. call'[c].at = "executing"
  BY <1>1 DEF Dispatch, Goto, CallRecord
<1> QED
  BY <1>1, <1>2, <1>3, <1>4 DEF Final, At

(* A call that has ended does nothing any more.                            *)
LEMMA DoneStays ==
  ASSUME TypeInv, [Next]_vars, NEW b \in Call, At(b) = "done"
  PROVE  At(b)' = "done"
<1>1. ASSUME NEW c \in Call, Engine(c) \/ Accept(c) \/ GiveUp(c) PROVE call'[b] = call[b]
  <2>1. c # b
    BY <1>1 DEF Engine, Crash, Gate, Lock, Read, Prepare, SampleBefore, Dispatch, Return, Doubt,
       SampleAfter, Conclude, FinishNoEffect, FinishEffect, Accept, GiveUp, InEngine
  <2> QED
    BY <1>1, <2>1, EngineMoves DEF Moves
<1>2. ASSUME NEW c \in Call, Begin(c) PROVE call'[b] = call[b]
  <2>1. c # b /\ call \in [Call -> CallRecord]
    BY <1>2 DEF Begin, TypeInv, TypeOK
  <2> QED
    BY <1>2, <2>1 DEF Begin
<1>3. (\E o \in Op : Land(o)) \/ Change \/ Tick \/ UNCHANGED vars => UNCHANGED call
  BY DEF Land, Change, Tick, vars
<1> QED
  BY <1>1, <1>2, <1>3 DEF Next, At

(* Nobody but the holder of the execution lock writes the ledger or begins *)
(* an effect, and nobody else gives the lock up.                           *)
LEMMA OnlyHolder ==
  ASSUME TypeInv, TruthInv, NEW c \in Call,
         Begin(c) \/ Accept(c) \/ GiveUp(c) \/ Engine(c)
  PROVE  holder = c \/ (ledger' = ledger /\ (holder' = holder \/ holder = 0))
<1>1. At(c) \in Locked => holder = c
  BY DEF TruthInv, CallTruth, LabelTruth
<1>2. CASE Begin(c) \/ Accept(c)
  BY <1>2 DEF Begin, Accept
<1>3. CASE GiveUp(c)
  BY <1>3 DEF GiveUp, Leave
<1>4. CASE Crash(c) \/ Gate(c)
  BY <1>4 DEF Crash, Gate, Abort, Leave
<1>5. CASE Lock(c)
  BY <1>5 DEF Lock, Abort, Leave
<1>6. CASE Read(c)
  BY <1>1, <1>6 DEF Read, Locked
<1>7. CASE Prepare(c) \/ SampleBefore(c)
  BY <1>1, <1>7 DEF Prepare, SampleBefore, Locked, Claimed
<1>8. CASE Dispatch(c) \/ Return(c) \/ Doubt(c) \/ SampleAfter(c) \/ Conclude(c)
  BY <1>8 DEF Dispatch, Return, Doubt, SampleAfter, Conclude
<1>9. CASE FinishNoEffect(c) \/ FinishEffect(c)
  BY <1>1, <1>9 DEF FinishNoEffect, FinishEffect, Locked, Claimed
<1> QED
  BY <1>2, <1>3, <1>4, <1>5, <1>6, <1>7, <1>8, <1>9 DEF Engine

(* finish keeps a terminal, or puts one in its place.                      *)
LEMMA FinishWrites ==
  ASSUME TypeInv, NEW c \in Call, NEW terminal \in Terminals, NEW sequence,
         Finish(c, terminal, sequence)
  PROVE  \A o \in Op : \/ ledger'[o] = ledger[o]
                       \/ /\ o = OpOf(c) /\ ledger'[o].terminal = terminal
                          /\ ledger'[o].hash = ledger[o].hash
                          /\ ledger'[o].claim = ledger[o].claim
<1>1. ledger \in [Op -> Entry] /\ OpOf(c) \in Op
  BY OpOfType DEF TypeInv, TypeOK
<1>2. PICK written \in {ledger[OpOf(c)].terminal, terminal} :
        ledger' = [ledger EXCEPT ![OpOf(c)].terminal = written]
  BY DEF Finish
<1> QED
  BY <1>1, <1>2 DEF Entry

(* Every terminal that the engine writes is one, and an operation that     *)
(* ended stays ended.                                                      *)
LEMMA EndsStay ==
  ASSUME TypeInv, [Next]_vars, NEW o \in Op, ledger[o].terminal # NoTerminal
  PROVE  ledger'[o].terminal # NoTerminal
<1> DEFINE Kept == ledger'[o].terminal # NoTerminal
<1>1. /\ ledger \in [Op -> Entry] /\ \A c \in Call : OpOf(c) \in Op
      /\ NoTerminal \notin Terminals
  BY OpOfType, TerminalTypes DEF TypeInv, TypeOK
<1>2. ASSUME ledger' = ledger PROVE Kept
  BY <1>2
<1>3. ASSUME NEW c \in Call, NEW terminal \in Terminals, NEW sequence,
             Finish(c, terminal, sequence)
      PROVE  Kept
  BY <1>1, <1>3, FinishWrites
<1>4. ASSUME NEW c \in Call, Read(c) PROVE Kept
  <2>1. CASE Claim(c) /\ ledger[OpOf(c)] = NoEntry
    <3>1. PICK entry \in {ledger'[OpOf(c)]} : ledger' = [ledger EXCEPT ![OpOf(c)] = entry]
      BY <1>1, <2>1 DEF Claim
    <3>2. o # OpOf(c)
      BY <2>1 DEF NoEntry
    <3> QED
      BY <1>1, <3>1, <3>2
  <2>2. CASE /\ ledger[OpOf(c)] # NoEntry /\ ledger[OpOf(c)].terminal = NoTerminal
             /\ call[c].tool = "execute" => ledger[OpOf(c)].hash = call[c].request
             /\ Finish(c, IF call[c].tool = "execute"
                          THEN RecoveredUnknown(call[c].request, setup.platform,
                                                ledger[OpOf(c)].claim)
                          ELSE InterruptedAck(ledger[OpOf(c)].claim), <<2>>)
    <3>1. \E terminal, sequence : Finish(c, terminal, sequence)
      BY <2>2
    <3>2. o # OpOf(c)
      BY <2>2
    <3>3. ledger'[o] = ledger[o]
      BY <1>1, <3>1, <3>2 DEF Finish
    <3> QED
      BY <3>3
  <2>3. CASE ledger' = ledger
    BY <2>3
  <2> QED
    BY <1>4, <2>1, <2>2, <2>3 DEF Read, Replay
<1>5. ASSUME NEW c \in Call, Prepare(c) \/ SampleBefore(c) PROVE Kept
  <2>1. ASSUME NEW kind \in Kind, NEW code \in Code, FinishEarly(c, kind, code) PROVE Kept
    BY <1>3, <2>1, EarlyTypes DEF FinishEarly
  <2> QED
    BY <1>5, <2>1 DEF Prepare, SampleBefore, Kind, Code, NoEffectKind
<1>6. ASSUME NEW c \in Call, FinishNoEffect(c) PROVE Kept
  BY <1>3, <1>6 DEF FinishNoEffect, TypeInv, CallType
<1>7. ASSUME NEW c \in Call, FinishEffect(c) PROVE Kept
  <2>1. /\ call[c].terminal \in Terminals
        /\ PersistenceUnknown(call[c].terminal) \in Terminals
    BY <1>7, UnknownTypes DEF FinishEffect, TypeInv, CallType
  <2>2. PICK written \in {ledger[OpOf(c)].terminal} \union Terminals :
          ledger' = [ledger EXCEPT ![OpOf(c)].terminal = written]
    BY <1>7, <2>1 DEF FinishEffect
  <2> QED
    BY <1>1, <2>2 DEF Entry
<1>8. ASSUME NEW c \in Call, Engine(c) PROVE Kept
  BY <1>2, <1>4, <1>5, <1>6, <1>7, <1>8 DEF Engine, Crash, Gate, Lock, Dispatch, Return, Doubt,
     SampleAfter, Conclude
<1> QED
  BY <1>2, <1>8 DEF Next, Begin, Accept, GiveUp, Land, Change, Tick, vars

(* What is final stays final.                                              *)
LEMMA FinalStays ==
  ASSUME TypeInv, TruthInv, [Next]_vars, NEW o \in Op, Final(o)
  PROVE  Final(o)'
<1>1. Clean(o)'
  BY CleanStays, DispatchIsFresh DEF Final
<1>2. (IsPlugin' <=> IsPlugin) /\ o \in Call
  BY StepsKeepSetup DEF IsPlugin, Op
<1> QED
  BY <1>1, <1>2, DoneStays, EndsStay DEF Final

(* A terminal that is true stays true.                                     *)
LEMMA TruthfulStays ==
  ASSUME TypeInv, TruthInv, [Next]_vars, NEW o \in Op, NEW t, Truthful(t, o)
  PROVE  Truthful(t, o)'
BY DeedMoves, FinalStays DEF Truthful

(* So does what a caller was told.                                         *)
LEMMA FaithfulStays ==
  ASSUME TypeInv, TruthInv, [Next]_vars, NEW o \in Op, NEW told, NEW tool,
         Faithful(told, tool, o)
  PROVE  Faithful(told, tool, o)'
BY TruthfulStays, FinalStays DEF Faithful

(* The ledger stays true of an operation that it says nothing new about.   *)
LEMMA OpTruthStays ==
  ASSUME TypeInv, TruthInv, [Next]_vars, NEW o \in Op, ledger'[o] = ledger[o]
  PROVE  OpTruth(o)'
<1>1. OpTruth(o)
  BY DEF TruthInv
<1>2. /\ (ledger[o].terminal.kind = "succeeded") => effect'[o].landed
      /\ (ledger[o].terminal.kind \in NoEffectKind) => Final(o)'
  BY <1>1, DeedMoves, FinalStays DEF OpTruth, Truthful
<1>3. ledger[o] = NoEntry => Clean(o)'
  BY <1>1, CleanStays, DispatchIsFresh DEF OpTruth
<1> QED
  BY <1>2, <1>3 DEF OpTruth, Truthful

-----------------------------------------------------------------------------
(* What a step leaves of the other calls, and how calls end                *)

(* What is true of a call stays true while it does not move itself.        *)
LEMMA OtherTruth ==
  ASSUME TypeInv, TruthInv, [Next]_vars, NEW b \in Call, call'[b] = call[b],
         At(b) \in Locked => holder' = holder /\ ledger' = ledger
  PROVE  CallTruth(b)'
<1>1. CallTruth(b) /\ b \in Op
  BY DEF TruthInv, Call, Op
<1>2. PICK o \in Op : o = OpOf(b)
  BY OpOfType
<1>3. /\ At(b)' = At(b) /\ OpOf(b)' = o /\ (IsPlugin' <=> IsPlugin)
      /\ call'[b].tool = call[b].tool /\ call'[b].told = call[b].told
      /\ call'[b].terminal = call[b].terminal /\ call'[b].sequence = call[b].sequence
  BY <1>2, StepsKeepSetup DEF At, OpOf, IsPlugin
<1>4. \A c \in Call : Dispatch(c) => c # b /\ holder = c /\ (~IsPlugin => OpOf(c) = c)
  BY DispatchIsFresh
<1>5. LabelTruth(b)'
  <2>1. LabelTruth(b)
    BY <1>1 DEF CallTruth
  <2>2. At(b) \in Locked => holder' = b /\ ledger' = ledger /\ \A c \in Call : ~Dispatch(c)
    BY <1>4, <2>1 DEF LabelTruth
  <2>3. At(b) \in Before => Clean(o)'
    <3>1. CASE At(b) \in Before
      <4>1. Clean(o) /\ At(b) \in Locked
        BY <1>2, <2>1, <3>1 DEF LabelTruth, Before, Locked, Claimed
      <4> QED
        BY <2>2, <4>1, CleanStays
    <3> QED
      BY <3>1
  <2>4. effect[o].landed => effect'[o].landed
    BY DeedMoves
  <2>5. \A t : Truthful(t, o) => Truthful(t, o)'
    BY TruthfulStays
  <2>6. At(b) = "answer" => Truthful(call[b].terminal, o)'
    <3>1. CASE At(b) = "answer"
      <4>1. PICK t : t = call[b].terminal
        OBVIOUS
      <4>2. Truthful(t, o)
        BY <1>2, <2>1, <3>1, <4>1 DEF LabelTruth
      <4>3. Truthful(t, o)' /\ call'[b].terminal = t
        BY <1>3, <2>5, <4>1, <4>2
      <4> QED
        BY <4>3 DEF Truthful
    <3> QED
      BY <3>1
  <2> QED
    BY <1>2, <1>3, <2>1, <2>2, <2>3, <2>4, <2>6 DEF LabelTruth, Locked, Claimed, Clean, Truthful,
       Final
<1>6. OwnTruth(b)'
  <2>1. ASSUME ~IsPlugin,
               At(b) = "idle" \/ (call[b].tool = "execute" /\ At(b) \in {"gate", "lock", "read"})
        PROVE  Clean(b)'
    BY <1>1, <1>4, <2>1, CleanStays DEF CallTruth, OwnTruth
  <2> QED
    BY <1>3, <2>1 DEF OwnTruth
<1>7. Faithful(call[b].told, call[b].tool, OpOf(b))'
  <2>1. PICK told, tool : told = call[b].told /\ tool = call[b].tool
    OBVIOUS
  <2>2. Faithful(told, tool, o)'
    BY <1>1, <1>2, <2>1, FaithfulStays DEF CallTruth
  <2> QED
    BY <1>3, <2>1, <2>2 DEF Faithful, Truthful, Final, Clean
<1> QED
  BY <1>5, <1>6, <1>7 DEF CallTruth

(* A call that ends leaves what its caller was told.                       *)
LEMMA EndTruth ==
  ASSUME TypeInv, TruthInv, [Next]_vars, NEW c \in Call, NEW told \in Told,
         Answer(c, told), Faithful(told, call[c].tool, OpOf(c))'
  PROVE  CallTruth(c)'
<1>1. CallsType /\ OpOf(c) \in Op /\ setup' = setup
  BY TypeParts, OpOfType, StepsKeepSetup
<1>2. /\ call'[c].at = "done" /\ call'[c].tool = call[c].tool
      /\ call'[c].told = IF call[c].told = Silence THEN told ELSE call[c].told
  BY <1>1, AnswerTypes
<1>3. OpOf(c)' = OpOf(c)
  BY <1>1, <1>2 DEF OpOf
<1>4. LabelTruth(c)' /\ OwnTruth(c)'
  BY <1>2 DEF LabelTruth, OwnTruth, At, Locked, Claimed, Before
<1>5. Faithful(call[c].told, call[c].tool, OpOf(c))
  BY DEF TruthInv, CallTruth
<1>6. \A given, tool : Faithful(given, tool, OpOf(c)) => Faithful(given, tool, OpOf(c))'
  <2>1. \A o \in Op : \A given, tool : Faithful(given, tool, o) => Faithful(given, tool, o)'
    BY FaithfulStays
  <2> QED
    BY <1>1, <1>3, <2>1 DEF Faithful, Truthful, Final, Clean
<1>7. Faithful(call[c].told, call[c].tool, OpOf(c))'
  BY <1>2, <1>3, <1>5, <1>6 DEF Faithful, Truthful, Final, Clean
<1> QED
  BY <1>2, <1>4, <1>7 DEF CallTruth

(* An error is true of an operation that a caller without a plugin began   *)
(* and that did nothing; what plugins say of errors asks for no retry.     *)
LEMMA FailureTruth ==
  ASSUME TypeInv, TruthInv, [Next]_vars, NEW c \in Call, Answer(c, Failure(c)),
         (~IsPlugin /\ call[c].tool = "execute") => Clean(c)'
  PROVE  CallTruth(c)'
<1>1. CallsType /\ OpOf(c) \in Op /\ setup' = setup /\ Failure(c) \in Told
  BY TypeParts, OpOfType, StepsKeepSetup, ToldTypes
<1>2. call'[c].at = "done" /\ call'[c].tool = call[c].tool
  BY <1>1, AnswerTypes
<1>3. (IsPlugin' <=> IsPlugin) /\ OpOf(c)' = OpOf(c)
      /\ (~IsPlugin /\ call[c].tool = "execute" => OpOf(c) = c)
  BY <1>1, <1>2 DEF IsPlugin, OpOf
<1>4. /\ Failure(c).terminal.kind = "none"
      /\ Failure(c).retry => ~IsPlugin \/ call[c].tool # "execute"
  BY DEF Failure, Error, Refusal, Silence, NoTerminal, Terminal
<1>5. ~IsPlugin /\ call[c].tool = "execute" => Final(OpOf(c))'
  BY <1>2, <1>3 DEF Final, At, Clean
<1>6. PICK told \in Told : told = Failure(c)
  BY <1>1
<1>7. Faithful(told, call[c].tool, OpOf(c))'
  BY <1>2, <1>3, <1>4, <1>5, <1>6 DEF Faithful, Truthful, NoEffectKind
<1> QED
  BY <1>6, <1>7, EndTruth

(* A call that moves on without an answer.                                 *)
LEMMA MoveTruth ==
  ASSUME TypeInv, TruthInv, [Next]_vars, NEW c \in Call,
         call'[c].tool = call[c].tool, call'[c].told = call[c].told,
         LabelTruth(c)', OwnTruth(c)'
  PROVE  CallTruth(c)'
<1>1. setup' = setup /\ OpOf(c) \in Op
  BY StepsKeepSetup, OpOfType
<1>2. PICK o \in Op, told \in {call[c].told}, tool \in {call[c].tool} : o = OpOf(c)
  BY <1>1
<1>3. OpOf(c)' = o
  BY <1>1, <1>2 DEF OpOf
<1>4. Faithful(told, tool, o)'
  BY <1>2, FaithfulStays DEF TruthInv, CallTruth
<1> QED
  BY <1>2, <1>3, <1>4 DEF CallTruth, Faithful, Truthful, Final, Clean

(* What a call of the engine does, and what it leaves in the ledger.       *)
StepTruth(c) ==
  /\ CallTruth(c)'
  /\ \A o \in Op : ledger'[o] = ledger[o] \/ OpTruth(o)'

(* A terminal that is written while it is true of its operation.           *)
LEMMA WriteTruth ==
  ASSUME TypeInv, NEW o \in Op, NEW terminal \in Terminals,
         NEW written \in {ledger[o].terminal, terminal}, UNCHANGED <<setup, effect>>,
         ledger' = [ledger EXCEPT ![o].terminal = written],
         terminal.kind = "succeeded" => effect[o].landed,
         terminal.kind \in NoEffectKind => Clean(o)
  PROVE  /\ \A p \in Op : ledger'[p] = ledger[p] \/ OpTruth(p)'
         /\ written = terminal => Truthful(terminal, o)'
<1>1. ledger \in [Op -> Entry] /\ ledger[o] \in Entry /\ NoTerminal \notin Terminals
  BY TerminalTypes DEF TypeInv, TypeOK
<1>2. \A p \in Op \ {o} : ledger'[p] = ledger[p]
  BY <1>1
<1>3. CASE written = terminal
  <2>1. ledger'[o].terminal = terminal
    BY <1>1, <1>3 DEF Entry
  <2>2. ledger'[o] # NoEntry
    BY <1>1, <2>1 DEF NoEntry
  <2>3. Truthful(terminal, o)'
    BY <1>1, <2>1 DEF Truthful, Final, Clean
  <2>4. OpTruth(o)'
    BY <2>1, <2>2, <2>3 DEF OpTruth, Truthful
  <2> QED
    BY <1>2, <2>3, <2>4
<1>4. CASE written # terminal
  <2>1. ledger'[o] = ledger[o]
    BY <1>1, <1>4 DEF Entry
  <2> QED
    BY <1>2, <1>4, <2>1
<1> QED
  BY <1>3, <1>4

(* execute always has a terminal to report.                                *)
Complete(tool, terminal, sequence) ==
  tool = "execute" => terminal.kind \in Kind /\ sequence # <<>>

(* A call whose answer is ready.                                           *)
LEMMA ReadyTruth ==
  ASSUME TypeInv, TruthInv, [Next]_vars, NEW c \in Call, NEW o \in Op, o = OpOf(c),
         NEW terminal \in TerminalSet, NEW sequence \in Sequences,
         call' = [call EXCEPT ![c].at = "answer", ![c].terminal = terminal,
                              ![c].sequence = sequence],
         Truthful(terminal, o)', Complete(call[c].tool, terminal, sequence)
  PROVE  CallTruth(c)'
<1>1. CallsType /\ setup' = setup
  BY TypeParts, StepsKeepSetup
<1>2. /\ call'[c].at = "answer" /\ call'[c].tool = call[c].tool
      /\ call'[c].terminal = terminal /\ call'[c].sequence = sequence
      /\ call'[c].told = call[c].told
  <2> DEFINE r == [call[c] EXCEPT !.at = "answer", !.terminal = terminal,
                                  !.sequence = sequence]
  <2>1. call' = [call EXCEPT ![c] = r] /\ call[c] \in CallRecord
    BY <1>1 DEF CallsType
  <2>2. call'[c] = r
    BY <1>1, <2>1 DEF CallsType
  <2> QED
    BY <2>1, <2>2 DEF CallRecord
<1>3. OpOf(c)' = o
  BY <1>1, <1>2 DEF OpOf
<1>4. LabelTruth(c)' /\ OwnTruth(c)'
  BY <1>2, <1>3 DEF LabelTruth, OwnTruth, Complete, At, Locked, Claimed, Before, Truthful,
     Final, Clean
<1> QED
  BY <1>2, <1>4, MoveTruth

(* finish, of a terminal that is true of its operation.                    *)
LEMMA FinishTruth ==
  ASSUME TypeInv, TruthInv, [Next]_vars, NEW c \in Call, NEW terminal \in Terminals,
         NEW sequence \in Sequences \ {<<>>}, Finish(c, terminal, sequence),
         UNCHANGED effect, terminal.kind # "succeeded",
         terminal.kind \in NoEffectKind => Clean(OpOf(c)),
         (~IsPlugin /\ call[c].tool = "execute") => Clean(c)
  PROVE  StepTruth(c)
<1>1. PICK o \in Op : o = OpOf(c)
  BY OpOfType
<1>2. UNCHANGED <<setup, effect>> /\ terminal \in TerminalSet
  BY StepsKeepSetup, TerminalTypes
<1>3. CASE /\ ledger' = [ledger EXCEPT ![OpOf(c)].terminal = terminal]
           /\ call' = [call EXCEPT ![c].at = "answer", ![c].terminal = terminal,
                                   ![c].sequence = sequence]
  <2>1. /\ \A p \in Op : ledger'[p] = ledger[p] \/ OpTruth(p)'
        /\ Truthful(terminal, o)'
    BY <1>1, <1>2, <1>3, WriteTruth
  <2>2. terminal.kind \in Kind
    BY DEF Terminals
  <2>3. CallTruth(c)'
    BY <1>1, <1>2, <1>3, <2>1, <2>2, ReadyTruth DEF Complete
  <2> QED
    BY <2>1, <2>3 DEF StepTruth
<1>4. CASE /\ \E written \in {ledger[OpOf(c)].terminal, terminal} :
                ledger' = [ledger EXCEPT ![OpOf(c)].terminal = written]
           /\ Abort(c, Failure(c))
  <2>1. \A p \in Op : ledger'[p] = ledger[p] \/ OpTruth(p)'
    BY <1>1, <1>2, <1>4, WriteTruth
  <2>2. CallTruth(c)'
    BY <1>2, <1>4, FailureTruth DEF Abort, Clean
  <2> QED
    BY <2>1, <2>2 DEF StepTruth
<1> QED
  BY <1>3, <1>4 DEF Finish

-----------------------------------------------------------------------------
(* The steps of a call keep its truth                                      *)

(* A plugin, the command line or execute_batch begins a call.              *)
LEMMA BeginTruth ==
  ASSUME TypeInv, AwaitInv, TruthInv, NEW c \in Call, Begin(c)
  PROVE  StepTruth(c)
<1> SUFFICES CallTruth(c)'
  BY DEF StepTruth, Begin
<1>1. /\ CallsType /\ UNCHANGED <<setup, ledger, holder, effect>> /\ At(c) = "idle"
      /\ call[c].told = Silence /\ call[c] \in CallRecord
  BY TypeParts DEF Begin, AwaitInv, Waits, CallsType
<1>2. ~IsPlugin => Clean(c)'
  BY <1>1 DEF TruthInv, CallTruth, OwnTruth, Clean
<1>3. ASSUME call'[c].at \in {"gate", "lock", "done"},
             call'[c].told.terminal.kind = "none",
             call'[c].told.kind = "none" \/ call'[c].tool # "execute" \/ ~call'[c].told.retry
      PROVE  CallTruth(c)'
  BY <1>1, <1>2, <1>3 DEF CallTruth, LabelTruth, OwnTruth, Faithful, Truthful, At, IsPlugin,
     Locked, Claimed, Before, NoEffectKind
<1>a. /\ Silence.terminal.kind = "none" /\ Silence.kind = "none"
      /\ Refusal("invalid_request").terminal.kind = "none"
      /\ ~Refusal("invalid_request").retry
  BY DEF Silence, Refusal, NoTerminal, Terminal
<1>4. ASSUME NEW s \in setup.requests,
             LET request == IF setup.client = "cli" THEN CliRequest(s) ELSE s IN
             call' = [call EXCEPT ![c] = [NoCall EXCEPT
                        !.tool = "execute", !.request = request,
                        !.at = IF Proposes(setup.client, request) THEN "gate" ELSE "done",
                        !.told = IF Proposes(setup.client, request) THEN Silence
                                 ELSE Refusal("invalid_request")]]
      PROVE  CallTruth(c)'
  <2> DEFINE request == IF setup.client = "cli" THEN CliRequest(s) ELSE s
             pc == IF Proposes(setup.client, request) THEN "gate" ELSE "done"
             told == IF Proposes(setup.client, request) THEN Silence
                     ELSE Refusal("invalid_request")
  <2>1. /\ pc \in {"gate", "done"} /\ told.terminal.kind = "none"
        /\ told.kind = "none" \/ ~told.retry
    BY <1>a
  <2>2. call' = [call EXCEPT ![c] = [NoCall EXCEPT !.tool = "execute",
                    !.request = request, !.at = pc, !.told = told]]
    BY <1>4
  <2> HIDE DEF request, pc, told
  <2>3. call'[c].at = pc /\ call'[c].told = told
    BY <1>1, <2>2 DEF CallsType, NoCall
  <2> QED
    BY <1>3, <2>1, <2>3
<1>5. CASE call' = [call EXCEPT ![c].tool = "status", ![c].at = "lock"]
  <2>1. call'[c].at = "lock" /\ call'[c].told = Silence
    BY <1>1, <1>5 DEF CallsType, CallRecord
  <2> QED
    BY <1>3, <1>a, <2>1
<1>6. ASSUME NEW failed \in BOOLEAN,
             call' = [call EXCEPT ![c].tool = "capabilities", ![c].at = "done",
                                  ![c].told = ShownFacts(failed)]
      PROVE  CallTruth(c)'
  <2>1. ShownFacts(failed).terminal.kind = "none"
    BY DEF ShownFacts, Silence, NoTerminal, Terminal
  <2> DEFINE told == ShownFacts(failed)
  <2> HIDE DEF told
  <2>2. call'[c].at = "done" /\ call'[c].told = told /\ call'[c].tool = "capabilities"
    BY <1>1, <1>6 DEF CallsType, CallRecord, told
  <2> QED
    BY <1>3, <2>1, <2>2 DEF told
<1> QED
  BY <1>4, <1>5, <1>6 DEF Begin

(* What the plugins make of an answer, and what the command line prints,   *)
(* says of the operation no more than the answer.                          *)
LEMMA JudgedFaithfully ==
  ASSUME NEW c \in Call, At(c) = "answer", LabelTruth(c)
  PROVE  /\ Faithful(Judge(c), call[c].tool, OpOf(c))
         /\ Faithful(Show(c), call[c].tool, OpOf(c))
<1> DEFINE t == call[c].terminal
           tool == call[c].tool
           o == OpOf(c)
<1>1. Truthful(t, o) /\ (tool = "execute" => t.kind \in Kind /\ call[c].sequence # <<>>)
  BY DEF LabelTruth
<1>2. Truthful(NoTerminal, o) /\ Silence.terminal = NoTerminal
  BY DEF Truthful, NoTerminal, Terminal, NoEffectKind, Silence
<1>3. call[c].sequence = <<>> => Faithful([Silence EXCEPT !.kind = "null"], tool, o)
  BY <1>1, <1>2 DEF Faithful, Silence
<1>4. Faithful([Silence EXCEPT !.kind = "report", !.terminal = t,
                               !.retry = t.kind # "outcome_unknown"], tool, o)
  BY <1>1 DEF Faithful, Silence, Truthful, Kind
<1>5. Faithful([Silence EXCEPT !.kind = "report", !.terminal = t,
                  !.retry = tool = "execute" /\ t.kind = "succeeded"], tool, o)
  BY <1>1 DEF Faithful, Silence
<1>6. Faithful(Error(c, "praefectus_error"), tool, o)
  BY <1>2 DEF Faithful, Error, Refusal, Silence
<1> QED
  BY <1>3, <1>4, <1>5, <1>6 DEF Judge, Show

(* A plugin judges the answer, or the command line prints it.              *)
LEMMA AcceptTruth ==
  ASSUME TypeInv, TruthInv, [Next]_vars, NEW c \in Call, Accept(c)
  PROVE  StepTruth(c)
<1>1. PICK o \in Op, told \in Told, tool \in {call[c].tool} :
        o = OpOf(c) /\ tool = call[c].tool /\ told = IF IsPlugin THEN Judge(c) ELSE Show(c)
  BY OpOfType, ToldTypes
<1>2. Answer(c, told)
  BY <1>1 DEF Accept
<1>3. Faithful(told, tool, o)
  BY <1>1, JudgedFaithfully DEF Accept, TruthInv, CallTruth
<1>4. call'[c].tool = tool /\ setup' = setup
  BY <1>1, <1>2, TypeParts, AnswerTypes, StepsKeepSetup
<1>5. OpOf(c)' = o
  BY <1>1, <1>4 DEF OpOf
<1>6. Faithful(told, tool, o)'
  BY <1>3, FaithfulStays
<1>7. Faithful(told, call[c].tool, OpOf(c))'
  BY <1>4, <1>5, <1>6 DEF Faithful, Truthful, Final, Clean
<1>8. CallTruth(c)'
  BY <1>2, <1>7, EndTruth
<1> QED
  BY <1>8 DEF StepTruth, Accept

(* A call that ends with an answer that says nothing of the operation and  *)
(* does not ask for a retry.                                               *)
LEMMA SilentTruth ==
  ASSUME TypeInv, TruthInv, [Next]_vars, NEW c \in Call, NEW told \in Told,
         Answer(c, told), told.terminal.kind = "none",
         told.kind = "none" \/ call[c].tool # "execute" \/ ~told.retry
  PROVE  CallTruth(c)'
<1>1. call'[c].tool = call[c].tool
  BY TypeParts, AnswerTypes
<1>2. Faithful(told, call[c].tool, OpOf(c))'
  BY <1>1 DEF Faithful, Truthful, NoEffectKind
<1> QED
  BY <1>2, EndTruth

(* A plugin's timer fires.                                                 *)
LEMMA GiveUpTruth ==
  ASSUME TypeInv, TruthInv, [Next]_vars, NEW c \in Call, GiveUp(c)
  PROVE  StepTruth(c)
<1> SUFFICES CallTruth(c)'
  BY DEF StepTruth, GiveUp
<1>1. PICK told \in Told : told = Error(c, "host_executor_unavailable")
  BY ToldTypes
<1>a. /\ told.terminal.kind = "none"
      /\ told.kind = "none" \/ call[c].tool # "execute" \/ ~told.retry
  BY <1>1 DEF Error, Refusal, Silence, NoTerminal, Terminal
<1>2. CASE Answer(c, told)
  BY <1>a, <1>2, SilentTruth
<1>3. CASE call' = [call EXCEPT ![c].told = told] /\ UNCHANGED holder
  <2>1. CallsType /\ IsPlugin /\ UNCHANGED <<setup, ledger, holder, effect>>
    BY <1>3, TypeParts DEF GiveUp
  <2> DEFINE r == [call[c] EXCEPT !.told = told]
  <2>2. call' = [call EXCEPT ![c] = r] /\ call[c] \in CallRecord
    BY <1>3, <2>1 DEF CallsType
  <2>3. call'[c] = r
    BY <2>1, <2>2 DEF CallsType
  <2>4. /\ call'[c].at = call[c].at /\ call'[c].tool = call[c].tool
        /\ call'[c].terminal = call[c].terminal /\ call'[c].sequence = call[c].sequence
        /\ call'[c].told = told
    BY <2>2, <2>3 DEF CallRecord
  <2>5. OpOf(c)' = OpOf(c) /\ (IsPlugin' <=> IsPlugin)
    BY <2>1, <2>4 DEF OpOf, IsPlugin
  <2>6. PICK o \in Op : o = OpOf(c)
    BY OpOfType
  <2>7. \A t : Truthful(t, o) => Truthful(t, o)'
    BY TruthfulStays
  <2>8. LabelTruth(c)'
    <3>1. LabelTruth(c)
      BY DEF TruthInv, CallTruth
    <3>2. At(c) = "answer" => Truthful(call[c].terminal, o)'
      <4>1. PICK t : t = call[c].terminal
        OBVIOUS
      <4>2. At(c) = "answer" => Truthful(t, o)'
        BY <2>6, <2>7, <3>1, <4>1 DEF LabelTruth
      <4> QED
        BY <2>4, <4>1, <4>2 DEF Truthful
    <3> QED
      BY <2>1, <2>4, <2>5, <2>6, <3>1, <3>2 DEF LabelTruth, At, Clean, Truthful, Final
  <2>9. Faithful(told, call[c].tool, OpOf(c))'
    BY <1>a, <2>4 DEF Faithful, Truthful, NoEffectKind
  <2> QED
    BY <2>1, <2>4, <2>5, <2>8, <2>9 DEF CallTruth, OwnTruth, Faithful
<1> QED
  BY <1>1, <1>2, <1>3 DEF GiveUp

(* The process of the engine is killed.                                    *)
LEMMA CrashTruth ==
  ASSUME TypeInv, TruthInv, [Next]_vars, NEW c \in Call, Crash(c)
  PROVE  StepTruth(c)
<1>1. CASE IsPlugin
  BY <1>1, FailureTruth DEF Crash, Abort, StepTruth
<1>2. CASE ~IsPlugin
  BY <1>2, SilenceType, SilentTruth DEF Crash, Abort, StepTruth, Silence, NoTerminal, Terminal
<1> QED
  BY <1>1, <1>2

(* execute returns an error before anything was claimed.                   *)
LEMMA AbortTruth ==
  ASSUME TypeInv, TruthInv, [Next]_vars, NEW c \in Call, Abort(c, Failure(c)),
         At(c) \in {"gate", "lock", "read"}, UNCHANGED effect
  PROVE  CallTruth(c)'
<1>1. (~IsPlugin /\ call[c].tool = "execute") => Clean(c)'
  BY DEF TruthInv, CallTruth, OwnTruth, Clean
<1> QED
  BY <1>1, FailureTruth DEF Abort

(* validate_request and the verifier.                                      *)
LEMMA GateTruth ==
  ASSUME TypeInv, TruthInv, [Next]_vars, NEW c \in Call, Gate(c)
  PROVE  StepTruth(c)
<1> SUFFICES CallTruth(c)'
  BY DEF StepTruth, Gate
<1>1. CASE Goto(c, "lock")
  <2>1. /\ call'[c].at = "lock" /\ call'[c].tool = call[c].tool
        /\ call'[c].told = call[c].told /\ setup' = setup /\ UNCHANGED effect
    BY <1>1, TypeParts, GotoTypes DEF Gate, ProgramCounter
  <2>2. LabelTruth(c)'
    BY <2>1 DEF LabelTruth, At, Locked, Claimed, Before
  <2>3. OwnTruth(c)'
    BY <2>1 DEF TruthInv, CallTruth, OwnTruth, At, IsPlugin, Gate, Clean
  <2> QED
    BY <2>1, <2>2, <2>3, MoveTruth
<1>2. CASE Abort(c, Failure(c))
  BY <1>2, AbortTruth DEF Gate
<1> QED
  BY <1>1, <1>2 DEF Gate

(* acquire_ledger_lock.                                                    *)
LEMMA LockTruth ==
  ASSUME TypeInv, TruthInv, [Next]_vars, NEW c \in Call, Lock(c)
  PROVE  StepTruth(c)
<1> SUFFICES CallTruth(c)'
  BY DEF StepTruth, Lock
<1>1. CASE holder' = c /\ Goto(c, "read")
  <2>1. /\ call'[c].at = "read" /\ call'[c].tool = call[c].tool
        /\ call'[c].told = call[c].told /\ setup' = setup /\ UNCHANGED effect
    BY <1>1, TypeParts, GotoTypes DEF Lock, ProgramCounter
  <2>2. LabelTruth(c)'
    BY <1>1, <2>1 DEF LabelTruth, At, Locked, Claimed, Before
  <2>3. OwnTruth(c)'
    BY <2>1 DEF TruthInv, CallTruth, OwnTruth, At, IsPlugin, Lock, Clean
  <2> QED
    BY <2>1, <2>2, <2>3, MoveTruth
<1>2. CASE Abort(c, Failure(c))
  BY <1>2, AbortTruth DEF Lock
<1> QED
  BY <1>1, <1>2 DEF Lock

(* claim, of an operation that the ledger knows nothing of.                *)
LEMMA ClaimTruth ==
  ASSUME TypeInv, TruthInv, [Next]_vars, NEW c \in Call, At(c) = "read",
         call[c].tool = "execute", ledger[OpOf(c)] = NoEntry, Claim(c),
         UNCHANGED <<setup, effect>>
  PROVE  StepTruth(c)
<1> DEFINE entry == [NoEntry EXCEPT !.hash = call[c].request,
                                    !.claim = ClaimOf(call[c].request, setup.platform,
                                                      setup.isolation)]
<1>1. PICK o \in Op : o = OpOf(c)
  BY OpOfType
<1>2. CallsType /\ ledger \in [Op -> Entry] /\ call[c].request \in Request
  BY TypeParts DEF CallsType, CallType, InEngine, TypeInv, TypeOK
<1>3. entry.terminal = NoTerminal /\ entry.hash = call[c].request
  BY DEF NoEntry
<1>a. NoRequest \notin Request
  BY DEF NoRequest, Request, Action
<1>4. entry # NoEntry
  BY <1>2, <1>3, <1>a DEF NoEntry
<1>5. Clean(o) /\ holder = c
  BY <1>1 DEF TruthInv, OpTruth, CallTruth, LabelTruth, Locked
<1> HIDE DEF entry
<1>6. ASSUME NEW written \in {ledger[o], entry}, ledger' = [ledger EXCEPT ![o] = written]
      PROVE  \A p \in Op : ledger'[p] = ledger[p] \/ OpTruth(p)'
  <2>1. \A p \in Op \ {o} : ledger'[p] = ledger[p]
    BY <1>2, <1>6
  <2>2. CASE written = entry
    <3>1. ledger'[o] = entry
      BY <1>2, <1>6, <2>2
    <3>2. OpTruth(o)'
      BY <1>3, <1>4, <3>1 DEF OpTruth, Truthful, NoTerminal, Terminal, NoEffectKind
    <3> QED
      BY <2>1, <3>2
  <2>3. CASE written = ledger[o]
    BY <1>2, <1>6, <2>1, <2>3
  <2> QED
    BY <2>2, <2>3
<1>7. CASE /\ ledger' = [ledger EXCEPT ![OpOf(c)] = entry] /\ Goto(c, "prepare")
           /\ UNCHANGED holder
  <2>1. /\ call'[c].at = "prepare" /\ call'[c].tool = call[c].tool
        /\ call'[c].told = call[c].told
    BY <1>2, <1>7, GotoTypes DEF ProgramCounter
  <2>2. OpOf(c)' = o /\ ledger'[o] = entry
    BY <1>1, <1>2, <1>7, <2>1 DEF OpOf
  <2>3. LabelTruth(c)'
    BY <1>3, <1>4, <1>5, <1>7, <2>1, <2>2 DEF LabelTruth, At, Locked, Claimed, Before, Clean
  <2>4. OwnTruth(c)'
    BY <2>1 DEF OwnTruth, At
  <2>5. CallTruth(c)'
    BY <2>1, <2>3, <2>4, MoveTruth
  <2> QED
    BY <1>1, <1>6, <1>7, <2>5 DEF StepTruth
<1>8. CASE /\ \E written \in {ledger[OpOf(c)], entry} :
                ledger' = [ledger EXCEPT ![OpOf(c)] = written]
           /\ Abort(c, Failure(c))
  <2>1. CallTruth(c)'
    BY <1>8, AbortTruth
  <2> QED
    BY <1>1, <1>6, <1>8, <2>1 DEF StepTruth
<1> QED
  BY <1>7, <1>8 DEF Claim, entry

(* The terminal of an operation is reported once more.                     *)
LEMMA ReplayTruth ==
  ASSUME TypeInv, TruthInv, [Next]_vars, NEW c \in Call, NEW o \in Op, o = OpOf(c),
         NEW terminal \in TerminalSet, Replay(c, terminal),
         Truthful(terminal, o),
         call[c].tool = "execute" => terminal \in Terminals
  PROVE  StepTruth(c)
<1>1. PICK sequence \in Sequences :
        sequence = IF terminal = NoTerminal THEN <<>> ELSE <<2>>
  BY SequenceTypes
<1>2. call' = [call EXCEPT ![c].at = "answer", ![c].terminal = terminal,
                           ![c].sequence = sequence]
  BY <1>1 DEF Replay
<1>3. Truthful(terminal, o)'
  BY TruthfulStays
<1>4. Complete(call[c].tool, terminal, sequence)
  <2>1. NoTerminal \notin Terminals /\ <<2>> # <<>>
    BY TerminalTypes
  <2>2. terminal \in Terminals => terminal.kind \in Kind
    BY DEF Terminals
  <2> QED
    BY <1>1, <2>1, <2>2 DEF Complete
<1>5. CallTruth(c)'
  BY <1>2, <1>3, <1>4, ReadyTruth
<1> QED
  BY <1>5 DEF StepTruth, Replay

(* What execute and status find in the ledger.                             *)
LEMMA ReadTruth ==
  ASSUME TypeInv, TruthInv, [Next]_vars, NEW c \in Call, Read(c)
  PROVE  StepTruth(c)
<1> DEFINE entry == ledger[OpOf(c)]
           execute == call[c].tool = "execute"
<1>1. PICK o \in Op : o = OpOf(c)
  BY OpOfType
<1>2. /\ UNCHANGED <<setup, effect>> /\ At(c) = "read"
      /\ entry \in Entry /\ EntryType(entry)
  BY OpOfType, TypeParts DEF Read, LedgerType
<1>3. CASE Abort(c, Failure(c)) /\ UNCHANGED ledger
  BY <1>2, <1>3, AbortTruth DEF StepTruth
<1>4. CASE execute /\ entry = NoEntry /\ Claim(c)
  BY <1>2, <1>4, ClaimTruth
<1>5. CASE entry.terminal # NoTerminal /\ Replay(c, entry.terminal)
  <2>1. PICK terminal \in Terminals : terminal = entry.terminal
    BY <1>2, <1>5 DEF EntryType
  <2>2. Truthful(terminal, o) /\ terminal \in TerminalSet
    BY <1>1, <2>1, TerminalTypes DEF TruthInv, OpTruth
  <2> QED
    BY <1>1, <1>5, <2>1, <2>2, ReplayTruth
<1>6. CASE ~execute /\ Replay(c, NoTerminal)
  <2>1. Truthful(NoTerminal, o)
    BY DEF Truthful, NoTerminal, Terminal, NoEffectKind
  <2> QED
    BY <1>1, <1>6, <2>1, TerminalTypes, ReplayTruth
<1>7. CASE /\ entry # NoEntry /\ entry.terminal = NoTerminal
           /\ execute => entry.hash = call[c].request
           /\ Finish(c, IF execute
                        THEN RecoveredUnknown(call[c].request, setup.platform, entry.claim)
                        ELSE InterruptedAck(entry.claim), <<2>>)
  <2>1. entry.hash \in Request /\ entry.claim \in Claims
    BY <1>2, <1>7 DEF EntryType, Entry, NoEntry
  <2>2. PICK terminal \in Terminals :
          terminal = IF execute
                     THEN RecoveredUnknown(call[c].request, setup.platform, entry.claim)
                     ELSE InterruptedAck(entry.claim)
    BY <1>7, <2>1, SetupTypes, RecoveredTypes
  <2>3. terminal.kind = "outcome_unknown"
    BY <2>2 DEF RecoveredUnknown, InterruptedAck, Unknown, Terminal
  <2>4. (~IsPlugin /\ execute) => Clean(c)
    BY <1>2 DEF TruthInv, CallTruth, OwnTruth
  <2>5. Finish(c, terminal, <<2>>) /\ <<2>> \in Sequences \ {<<>>}
    BY <1>7, <2>2, SequenceTypes
  <2> QED
    BY <1>2, <2>3, <2>4, <2>5, FinishTruth DEF NoEffectKind
<1> QED
  BY <1>3, <1>4, <1>5, <1>6, <1>7 DEF Read

(* Behind the claim a call executes, and what nobody else works for is its *)
(* own.                                                                    *)
LEMMA ClaimedFacts ==
  ASSUME TypeInv, TruthInv, NEW c \in Call, At(c) \in Claimed
  PROVE  /\ call[c].tool = "execute" /\ holder = c
         /\ ledger[OpOf(c)] # NoEntry /\ ledger[OpOf(c)].terminal = NoTerminal
         /\ ~IsPlugin => OpOf(c) = c
<1>1. call[c].tool = "execute"
  BY DEF TypeInv, CallType, Claimed, Granted, Prepared
<1> QED
  BY <1>1 DEF TruthInv, CallTruth, LabelTruth, Locked, OpOf, IsPlugin

(* FinishEarly, and finish of what dispatch says had no effect.            *)
LEMMA NoEffectTruth ==
  ASSUME TypeInv, TruthInv, [Next]_vars, NEW c \in Call, At(c) \in Before,
         NEW terminal \in Terminals, NEW sequence \in Sequences \ {<<>>},
         Finish(c, terminal, sequence), UNCHANGED effect, terminal.kind # "succeeded"
  PROVE  StepTruth(c)
<1>1. Clean(OpOf(c)) /\ At(c) \in Claimed
  BY DEF TruthInv, CallTruth, LabelTruth, Before, Claimed
<1>2. (~IsPlugin /\ call[c].tool = "execute") => Clean(c)
  BY <1>1, ClaimedFacts
<1> QED
  BY <1>1, <1>2, FinishTruth

(* execute from the claim to its first observation, and context_before.    *)
LEMMA EarlyTruth ==
  ASSUME TypeInv, TruthInv, [Next]_vars, NEW c \in Call, Prepare(c) \/ SampleBefore(c)
  PROVE  StepTruth(c)
<1>1. /\ At(c) \in Before /\ At(c) \in Claimed /\ UNCHANGED <<setup, effect>>
      /\ CallsType /\ call[c] \in CallRecord /\ Clean(OpOf(c)) /\ LabelTruth(c)
  BY TypeParts DEF Prepare, SampleBefore, Before, Claimed, CallsType, TruthInv, CallTruth,
     LabelTruth
<1>2. ASSUME NEW kind \in NoEffectKind, NEW code \in Code, FinishEarly(c, kind, code)
      PROVE  StepTruth(c)
  <2>1. kind \in Kind /\ Early(kind, code).kind # "succeeded"
    BY DEF Kind, Early, Terminal, NoEffectKind
  <2>2. <<0, 2>> \in Sequences \ {<<>>}
    BY SequenceTypes
  <2> QED
    BY <1>1, <1>2, <2>1, <2>2, EarlyTypes, NoEffectTruth DEF FinishEarly
<1>3. ASSUME call'[c].at \in {"context", "dispatch"}, call'[c].tool = call[c].tool,
             call'[c].told = call[c].told, UNCHANGED <<ledger, holder>>
      PROVE  StepTruth(c)
  <2>1. OpOf(c)' = OpOf(c)
    BY <1>1, <1>3 DEF OpOf
  <2>2. LabelTruth(c)' /\ OwnTruth(c)'
    BY <1>1, <1>3, <2>1, ClaimedFacts DEF LabelTruth, OwnTruth, At, Locked, Claimed, Before,
       Clean
  <2>3. CallTruth(c)'
    BY <1>3, <2>2, MoveTruth
  <2> QED
    BY <1>3, <2>3 DEF StepTruth
<1>4. ASSUME call' = [call EXCEPT ![c].at = "context", ![c].before = desk.view],
             UNCHANGED <<ledger, holder>>
      PROVE  StepTruth(c)
  <2>1. /\ call'[c].at = "context" /\ call'[c].tool = call[c].tool
        /\ call'[c].told = call[c].told
    BY <1>1, <1>4 DEF CallsType, CallRecord
  <2> QED
    BY <1>3, <1>4, <2>1
<1>5. ASSUME call' = [call EXCEPT ![c].at = "dispatch",
                        ![c].sample = IF Guarded(c) THEN desk.context ELSE 0],
             UNCHANGED <<ledger, holder>>
      PROVE  StepTruth(c)
  <2>1. PICK sample : sample = IF Guarded(c) THEN desk.context ELSE 0
    OBVIOUS
  <2>2. call' = [call EXCEPT ![c].at = "dispatch", ![c].sample = sample]
    BY <1>5, <2>1
  <2>3. /\ call'[c].at = "dispatch" /\ call'[c].tool = call[c].tool
        /\ call'[c].told = call[c].told
    BY <1>1, <2>2 DEF CallsType, CallRecord
  <2> QED
    BY <1>3, <1>5, <2>3
<1>6. CASE Prepare(c)
  BY <1>2, <1>4, <1>6 DEF Prepare, NoEffectKind, Code
<1>7. CASE SampleBefore(c)
  BY <1>2, <1>5, <1>7 DEF SampleBefore, NoEffectKind, Code
<1> QED
  BY <1>6, <1>7

(* A step behind the claim that leaves ledger and lock alone.              *)
LEMMA WorkTruth ==
  ASSUME TypeInv, TruthInv, [Next]_vars, NEW c \in Call, At(c) \in Claimed,
         UNCHANGED <<setup, ledger, holder>>,
         call'[c].at \in {"executing", "uncertain", "returned", "after", "finish",
                          "finish_effect"},
         call'[c].tool = call[c].tool, call'[c].told = call[c].told,
         call'[c].at = "finish" =>
           Clean(OpOf(c))' /\ call'[c].terminal.kind \in NoEffectKind,
         call'[c].at \in {"returned", "after"} => effect'[OpOf(c)].landed,
         call'[c].at = "finish_effect" =>
           /\ call'[c].terminal.kind \in {"succeeded", "outcome_unknown"}
           /\ call'[c].terminal.kind = "succeeded" => effect'[OpOf(c)].landed
  PROVE  StepTruth(c)
<1>1. OpOf(c)' = OpOf(c)
  BY DEF OpOf
<1>2. LabelTruth(c)' /\ OwnTruth(c)'
  BY <1>1, ClaimedFacts DEF LabelTruth, OwnTruth, At, Locked, Claimed, Before, Clean
<1> QED
  BY <1>2, MoveTruth DEF StepTruth

(* Executor::dispatch is called.                                           *)
LEMMA DispatchTruth ==
  ASSUME TypeInv, TruthInv, [Next]_vars, NEW c \in Call, Dispatch(c)
  PROVE  StepTruth(c)
<1>1. /\ call'[c].at = "executing" /\ call'[c].tool = call[c].tool
      /\ call'[c].told = call[c].told
  BY TypeParts, GotoTypes DEF Dispatch, ProgramCounter
<1> QED
  BY <1>1, WorkTruth DEF Dispatch, Claimed

(* Executor::dispatch returns: what it says had no effect has none.        *)
LEMMA ReturnTruth ==
  ASSUME TypeInv, TruthInv, [Next]_vars, NEW c \in Call, Return(c)
  PROVE  StepTruth(c)
<1>1. /\ CallsType /\ At(c) \in Claimed /\ UNCHANGED <<setup, ledger, holder>>
      /\ OpOf(c) \in Op /\ effect \in [Op -> Deed] /\ setup' = setup
  BY TypeParts, OpOfType DEF Return, Claimed, RestType
<1>2. ASSUME NEW pc \in {"uncertain", "returned"}, Goto(c, pc), UNCHANGED effect,
             pc = "returned" => effect[OpOf(c)].landed
      PROVE  StepTruth(c)
  <2>1. call'[c].at = pc /\ call'[c].tool = call[c].tool /\ call'[c].told = call[c].told
    BY <1>1, <1>2, GotoTypes DEF ProgramCounter
  <2>2. OpOf(c)' = OpOf(c)
    BY <1>1, <2>1 DEF OpOf
  <2> QED
    BY <1>1, <1>2, <2>1, <2>2, WorkTruth
<1>3. ASSUME ~effect[OpOf(c)].landed, effect' = [effect EXCEPT ![OpOf(c)].flying = FALSE],
             call' = [call EXCEPT ![c].at = "finish",
                        ![c].terminal = IF Expired THEN Early("expired_before_effect", "none")
                                        ELSE Early("rejected", "dispatch_failed")]
      PROVE  StepTruth(c)
  <2>1. PICK terminal \in Terminals :
          /\ terminal.kind \in NoEffectKind
          /\ terminal = IF Expired THEN Early("expired_before_effect", "none")
                        ELSE Early("rejected", "dispatch_failed")
    <3>1. /\ Early("expired_before_effect", "none") \in Terminals
          /\ Early("rejected", "dispatch_failed") \in Terminals
      BY EarlyTypes DEF Kind, Code, NoEffectKind
    <3>2. /\ Early("expired_before_effect", "none").kind \in NoEffectKind
          /\ Early("rejected", "dispatch_failed").kind \in NoEffectKind
      BY DEF Early, Terminal, NoEffectKind
    <3> QED
      BY <3>1, <3>2
  <2>2. Carries(c, "finish", terminal) /\ terminal \in TerminalSet
    BY <1>3, <2>1, TerminalTypes DEF Carries
  <2>3. /\ call'[c].at = "finish" /\ call'[c].tool = call[c].tool
        /\ call'[c].told = call[c].told /\ call'[c].terminal = terminal
    BY <1>1, <2>2, WithTerminal DEF ProgramCounter
  <2>4. OpOf(c)' = OpOf(c)
    BY <1>1, <2>3 DEF OpOf
  <2>5. Clean(OpOf(c))'
    BY <1>1, <1>3, <2>4 DEF Clean, Deed
  <2> QED
    BY <1>1, <2>1, <2>3, <2>5, WorkTruth
<1> QED
  BY <1>2, <1>3 DEF Return

(* An unknown effect gets its receipt.                                     *)
LEMMA DoubtTruth ==
  ASSUME TypeInv, TruthInv, [Next]_vars, NEW c \in Call, Doubt(c)
  PROVE  StepTruth(c)
<1>1. PICK receipt :
        call' = [call EXCEPT ![c].at = "finish_effect", ![c].terminal = Unknown(receipt)]
  BY DEF Doubt
<1>2. Unknown(receipt).kind = "outcome_unknown"
  BY DEF Unknown, Terminal
<1>3. CallsType /\ call[c] \in CallRecord
  BY TypeParts DEF CallsType
<1> DEFINE terminal == Unknown(receipt)
<1> HIDE DEF terminal
<1>4. /\ call'[c].at = "finish_effect" /\ call'[c].tool = call[c].tool
      /\ call'[c].told = call[c].told /\ call'[c].terminal = terminal
  BY <1>1, <1>3 DEF CallsType, CallRecord, terminal
<1> QED
  BY <1>2, <1>4, WorkTruth DEF Doubt, Claimed, terminal

(* context_preservation after the effect.                                  *)
LEMMA SampleAfterTruth ==
  ASSUME TypeInv, TruthInv, [Next]_vars, NEW c \in Call, SampleAfter(c)
  PROVE  StepTruth(c)
<1>1. PICK context : call' = [call EXCEPT ![c].at = "after", ![c].context = context]
  BY DEF SampleAfter
<1>2. CallsType /\ call[c] \in CallRecord
  BY TypeParts DEF CallsType
<1>3. /\ call'[c].at = "after" /\ call'[c].tool = call[c].tool
      /\ call'[c].told = call[c].told
  BY <1>1, <1>2 DEF CallsType, CallRecord
<1>4. effect'[OpOf(c)].landed
  BY DEF SampleAfter, TruthInv, CallTruth, LabelTruth
<1> QED
  BY <1>3, <1>4, WorkTruth DEF SampleAfter, Claimed, OpOf

(* The receipt of a dispatch that returned Ok.                             *)
LEMMA ConcludeTruth ==
  ASSUME TypeInv, TruthInv, [Next]_vars, NEW c \in Call, Conclude(c)
  PROVE  StepTruth(c)
<1>1. PICK kind \in {"succeeded", "outcome_unknown"} : \E receipt :
        call' = [call EXCEPT ![c].at = "finish_effect",
                             ![c].terminal = Terminal(kind, "none", receipt)]
  BY DEF Conclude
<1>2. CallsType /\ call[c] \in CallRecord
  BY TypeParts DEF CallsType
<1>3. PICK receipt, terminal :
        /\ terminal = Terminal(kind, "none", receipt)
        /\ call' = [call EXCEPT ![c].at = "finish_effect",
                                ![c].terminal = Terminal(kind, "none", receipt)]
  BY <1>1
<1>4. terminal.kind \in {"succeeded", "outcome_unknown"}
  BY <1>3 DEF Terminal
<1>5. call' = [call EXCEPT ![c].at = "finish_effect", ![c].terminal = terminal]
  BY <1>3
<1>6. /\ call'[c].at = "finish_effect" /\ call'[c].tool = call[c].tool
      /\ call'[c].told = call[c].told /\ call'[c].terminal = terminal
  BY <1>2, <1>5 DEF CallsType, CallRecord
<1>7. effect'[OpOf(c)].landed
  BY DEF Conclude, TruthInv, CallTruth, LabelTruth
<1> QED
  BY <1>4, <1>6, <1>7, WorkTruth DEF Conclude, Claimed

(* finish, for a dispatch without an effect.                               *)
LEMMA FinishNoEffectTruth ==
  ASSUME TypeInv, TruthInv, [Next]_vars, NEW c \in Call, FinishNoEffect(c)
  PROVE  StepTruth(c)
<1>1. PICK terminal \in Terminals : terminal = call[c].terminal
  BY DEF TypeInv, CallType, FinishNoEffect
<1>2. terminal.kind \in NoEffectKind
  BY <1>1 DEF FinishNoEffect, TruthInv, CallTruth, LabelTruth
<1>3. <<0, 1, 2>> \in Sequences \ {<<>>}
  BY SequenceTypes
<1> QED
  BY <1>1, <1>2, <1>3, NoEffectTruth DEF FinishNoEffect, Before, NoEffectKind

(* finish_after_effect: whatever of its appends is durable, a success that *)
(* is written or told happened.                                            *)
LEMMA FinishEffectTruth ==
  ASSUME TypeInv, TruthInv, [Next]_vars, NEW c \in Call, FinishEffect(c)
  PROVE  StepTruth(c)
<1>1. PICK o \in Op : o = OpOf(c)
  BY OpOfType
<1>2. PICK told \in Terminals, weaker \in Terminals :
        told = call[c].terminal /\ weaker = PersistenceUnknown(told)
  BY UnknownTypes DEF TypeInv, CallType, FinishEffect
<1>3. /\ told.kind \in {"succeeded", "outcome_unknown"}
      /\ told.kind = "succeeded" => effect[o].landed
  BY <1>1, <1>2 DEF FinishEffect, TruthInv, CallTruth, LabelTruth
<1>4. \A t \in {told, weaker} :
        /\ t \in Terminals /\ t \in TerminalSet
        /\ t.kind \notin NoEffectKind
        /\ t.kind = "succeeded" => effect[o].landed
  BY <1>2, <1>3, TerminalTypes DEF PersistenceUnknown, Unknown, Terminal, NoEffectKind
<1>5. PICK written \in {ledger[o].terminal, told, weaker}, out \in {told, weaker} :
        /\ ledger' = [ledger EXCEPT ![o].terminal = written]
        /\ call' = [call EXCEPT ![c].at = "answer", ![c].terminal = out,
                                ![c].sequence = <<0, 1, 2>>]
  BY <1>1, <1>2 DEF FinishEffect
<1>6. UNCHANGED <<setup, effect>>
  BY DEF FinishEffect
<1>7. PICK t \in {told, weaker} : written \in {ledger[o].terminal, t}
  BY <1>5
<1>8. \A p \in Op : ledger'[p] = ledger[p] \/ OpTruth(p)'
  BY <1>4, <1>5, <1>6, <1>7, WriteTruth
<1>9. Truthful(out, o)'
  BY <1>4, <1>5, <1>6 DEF Truthful
<1>10. Complete(call[c].tool, out, <<0, 1, 2>>)
  <2>1. <<0, 1, 2>> # <<>> /\ out.kind \in Kind
    BY <1>4 DEF Terminals
  <2> QED
    BY <2>1 DEF Complete
<1>11. CallTruth(c)'
  BY <1>1, <1>4, <1>5, <1>9, <1>10, SequenceTypes, ReadyTruth
<1> QED
  BY <1>8, <1>11 DEF StepTruth

-----------------------------------------------------------------------------
(* The theorem                                                             *)

(* Every step of a call keeps the truth of it.                             *)
LEMMA CallSteps ==
  ASSUME TypeInv, AwaitInv, TruthInv, [Next]_vars, NEW c \in Call,
         Begin(c) \/ Accept(c) \/ GiveUp(c) \/ Engine(c)
  PROVE  StepTruth(c)
BY BeginTruth, AcceptTruth, GiveUpTruth, CrashTruth, GateTruth, LockTruth, ReadTruth, EarlyTruth,
   DispatchTruth, ReturnTruth, DoubtTruth, SampleAfterTruth, ConcludeTruth,
   FinishNoEffectTruth, FinishEffectTruth DEF Engine

(* A call moves itself only.                                               *)
LEMMA OthersRest ==
  ASSUME TypeInv, NEW c \in Call, NEW b \in Call \ {c},
         Begin(c) \/ Accept(c) \/ GiveUp(c) \/ Engine(c)
  PROVE  call'[b] = call[b]
<1>1. CASE Begin(c)
  BY <1>1 DEF Begin, TypeInv, TypeOK
<1>2. CASE Accept(c) \/ GiveUp(c) \/ Engine(c)
  BY <1>2, EngineMoves DEF Moves
<1> QED
  BY <1>1, <1>2

(* Every step keeps the truth.                                             *)
LEMMA TruthKept == TypeInv /\ AwaitInv /\ TruthInv /\ [Next]_vars => TruthInv'
<1> SUFFICES ASSUME TypeInv, AwaitInv, TruthInv, [Next]_vars PROVE TruthInv'
  OBVIOUS
<1>1. ASSUME NEW c \in Call, Begin(c) \/ Accept(c) \/ GiveUp(c) \/ Engine(c)
      PROVE  TruthInv'
  <2>1. StepTruth(c)
    BY <1>1, CallSteps
  <2>2. ASSUME NEW o \in Op PROVE OpTruth(o)'
    BY <2>1, OpTruthStays DEF StepTruth
  <2>3. ASSUME NEW b \in Call \ {c} PROVE CallTruth(b)'
    <3>1. call'[b] = call[b]
      BY <1>1, OthersRest
    <3>2. At(b) \in Locked => holder = b /\ b # 0
      BY DEF TruthInv, CallTruth, LabelTruth, Call
    <3>3. At(b) \in Locked => holder' = holder /\ ledger' = ledger
      BY <1>1, <3>2, OnlyHolder
    <3> QED
      BY <3>1, <3>3, OtherTruth
  <2> QED
    BY <2>1, <2>2, <2>3 DEF StepTruth, TruthInv
<1>2. ASSUME UNCHANGED <<call, ledger, holder>> PROVE TruthInv'
  <2>1. ASSUME NEW o \in Op PROVE OpTruth(o)'
    BY <1>2, OpTruthStays
  <2>2. ASSUME NEW b \in Call PROVE CallTruth(b)'
    BY <1>2, OtherTruth
  <2> QED
    BY <2>1, <2>2 DEF TruthInv
<1>3. (\E o \in Op : Land(o)) \/ Change \/ Tick \/ UNCHANGED vars
        => UNCHANGED <<call, ledger, holder>>
  BY DEF Land, Change, Tick, vars
<1> QED
  BY <1>1, <1>2, <1>3 DEF Next

(* Nothing has been told, and only plugins find what an older version      *)
(* claimed.                                                                *)
LEMMA TruthInit == Init => TruthInv
<1> SUFFICES ASSUME Init PROVE TruthInv
  OBVIOUS
<1>1. NoEntry.terminal = NoTerminal /\ NoTerminal.kind = "none"
  BY DEF NoEntry, NoTerminal, Terminal
<1>2. ASSUME NEW o \in Op PROVE /\ ledger[o].terminal = NoTerminal
                                /\ ledger[o] = NoEntry => Clean(o)
  <2>1. CASE ~setup.legacy
    BY <1>1, <2>1 DEF Init, Clean, NoDeed
  <2>2. CASE setup.legacy
    <3>1. PICK r \in setup.requests, landed \in BOOLEAN :
            /\ ledger = [p \in Op |-> IF p = 1 THEN [NoEntry EXCEPT !.hash = r,
                                                                   !.claim = LegacyClaim]
                                      ELSE NoEntry]
            /\ effect = [p \in Op |-> IF p = 1 THEN [NoDeed EXCEPT !.landed = landed]
                                      ELSE NoDeed]
      BY <2>2 DEF Init
    <3>2. r # NoRequest
      BY <3>1, InitTypes, SetupTypes DEF NoRequest, Request, Action
    <3>3. CASE o = 1
      BY <1>1, <3>1, <3>2, <3>3 DEF NoEntry
    <3>4. CASE o # 1
      BY <1>1, <3>1, <3>4 DEF Clean, NoDeed
    <3> QED
      BY <3>3, <3>4
  <2> QED
    BY <2>1, <2>2
<1>3. ASSUME NEW o \in Op PROVE OpTruth(o)
  BY <1>1, <1>2 DEF OpTruth, Truthful, NoEffectKind
<1>4. ASSUME NEW c \in Call PROVE CallTruth(c)
  <2>1. call[c] = NoCall
    BY DEF Init
  <2>2. At(c) = "idle" /\ call[c].told = Silence
    BY <2>1 DEF At, NoCall
  <2>3. ~IsPlugin => Clean(c)
    <3>1. ~IsPlugin => ~setup.legacy
      BY BridgeAssumption DEF Init, IsPlugin
    <3>2. c \in Op
      BY DEF Call, Op
    <3>3. CASE ~setup.legacy
      BY <3>2, <3>3 DEF Init, Clean, NoDeed
    <3> QED
      BY <3>1, <3>3
  <2> QED
    BY <1>1, <2>2, <2>3 DEF CallTruth, LabelTruth, OwnTruth, Faithful, Truthful, Locked, Claimed,
       Before, Silence, NoEffectKind
<1> QED
  BY <1>3, <1>4 DEF TruthInv

(* A terminal that a caller was told is true of the desktop, now and for   *)
(* ever: a success happened; what was refused, failed or expired has not   *)
(* happened and will not; and what may be asked for again has not happened *)
(* either.  So it is for any number of calls that share an operation,      *)
(* wherever they crash, time out or lose a write (execute,                 *)
(* finish_after_effect, _execute, retry_safe).                             *)
THEOREM ToldAreTrue == Spec => []ToldIsTrue
<1>1. TruthInv => ToldIsTrue
  BY DEF TruthInv, CallTruth, Faithful, Truthful, Final, Clean, ToldIsTrue
<1> QED
  BY <1>1, InitTypes, NextTypes, AwaitInit, AwaitKept, TruthInit, TruthKept, PTL DEF Spec

-----------------------------------------------------------------------------
(* Successes are granted: the invariant                                    *)

(* A success was in time and left the focus and the pointer of a shared    *)
(* desktop alone; what is verified was there.                              *)
Backed(t, o) ==
  /\ t.kind = "succeeded" =>
       /\ effect[o].landed /\ ~effect[o].late
       /\ (t.receipt.mode = "background_only" /\ t.receipt.isolation = "shared_desktop")
            => ~effect[o].disturbed
  /\ t.receipt.effect = "verified" => effect[o].held

(* What happened because of an operation happens once, and is noticed.     *)
DeedInv(o) ==
  /\ effect[o].late => passed # {}
  /\ effect[o].disturbed => effect[o].landed
  /\ effect[o].landed => ~effect[o].flying
  /\ ((effect[o].flying \/ effect[o].landed) /\ Holds(desk)) => effect[o].held

(* A call that guards the focus and the pointer sees in the two samples    *)
(* whether its own effect moved them.                                      *)
Sampled == {"dispatch", "executing", "uncertain", "returned"}

SampleInv(c) ==
  /\ (At(c) \in Sampled /\ Guarded(c)) =>
       /\ call[c].sample <= desk.context
       /\ effect[OpOf(c)].disturbed => call[c].sample < desk.context
  /\ (At(c) = "after" /\ Guarded(c) /\ call[c].context \notin {"changed", "unavailable"})
       => ~effect[OpOf(c)].disturbed

(* execute_batch goes on when the action before is verified.               *)
OrderInv(c) ==
  (setup.client = "batch" /\ At(c) # "idle") =>
    call[c].tool = "execute" /\ (c > 1 => effect[c - 1].held)

(* Labels of a call that carries a terminal to its caller.                 *)
Carrying == {"finish", "finish_effect", "answer"}

(* What a call carries, and what its caller was told, is granted.          *)
CallGrant(c) ==
  /\ SampleInv(c) /\ OrderInv(c)
  /\ At(c) \in Carrying => Backed(call[c].terminal, OpOf(c))
  /\ Backed(call[c].told.terminal, OpOf(c))

GrantInv ==
  /\ \A o \in Op : DeedInv(o) /\ Backed(ledger[o].terminal, o)
  /\ \A c \in Call : CallGrant(c)

(* A terminal that grants nothing.                                         *)
Plain(t) == t.kind # "succeeded" /\ t.receipt.effect # "verified"

-----------------------------------------------------------------------------
(* What a step can do to what has happened                                 *)

(* Notice changes what was held only, and sees every wanted value.         *)
LEMMA NoticeSees ==
  ASSUME NEW deeds \in [Op -> Deed], NEW d, NEW o \in Op
  PROVE  /\ Notice(deeds, d)[o].disturbed = deeds[o].disturbed
         /\ deeds[o].held => Notice(deeds, d)[o].held
         /\ ((deeds[o].flying \/ deeds[o].landed) /\ Holds(d)) => Notice(deeds, d)[o].held
<1> DEFINE held == deeds[o].held \/ ((deeds[o].flying \/ deeds[o].landed) /\ Holds(d))
<1>1. Notice(deeds, d)[o] = [deeds[o] EXCEPT !.held = held] /\ deeds[o] \in Deed
  BY DEF Notice
<1>2. held \in BOOLEAN
  OBVIOUS
<1>3. (deeds[o].held => held) /\ (((deeds[o].flying \/ deeds[o].landed) /\ Holds(d)) => held)
  OBVIOUS
<1> HIDE DEF held
<1>4. ASSUME NEW r \in Deed, NEW h \in BOOLEAN
      PROVE  [r EXCEPT !.held = h].held = h /\ [r EXCEPT !.held = h].disturbed = r.disturbed
  BY DEF Deed
<1> QED
  BY <1>1, <1>2, <1>3, <1>4

(* Deeds only grow: what landed keeps its time and its disturbance, what   *)
(* was seen stays seen, and a disturbance shows in the context.            *)
Grows(o) ==
  /\ effect[o].held => effect'[o].held
  /\ effect[o].landed => /\ effect'[o].late = effect[o].late
                         /\ effect'[o].disturbed = effect[o].disturbed
  /\ desk.context <= desk'.context
  /\ (effect'[o].disturbed /\ ~effect[o].disturbed) => desk.context < desk'.context

(* What was dispatched for p happens.                                      *)
LEMMA LandGrows ==
  ASSUME TypeInv, GrantInv, NEW p \in Op, Land(p), NEW o \in Op
  PROVE  Grows(o) /\ DeedInv(o)'
<1>1. /\ effect \in [Op -> Deed] /\ desk.context \in Nat /\ desk.view \in View
      /\ effect[p].flying /\ DeedInv(o) /\ DeedInv(p) /\ passed' = passed
  BY DeskTypes DEF TypeInv, TypeOK, GrantInv, Land
<1>2. PICK disturbed \in BOOLEAN, value \in {"wanted", desk.view.value} :
        LET d == [view |-> [desk.view EXCEPT !.value = value],
                  context |-> desk.context + IF disturbed THEN 1 ELSE 0] IN
        /\ desk' = d
        /\ effect' = Notice([effect EXCEPT ![p] =
                              [flying |-> FALSE, landed |-> TRUE, late |-> passed # {},
                               disturbed |-> disturbed, held |-> effect[p].held]], d)
  BY DEF Land
<1>3. desk'.context = desk.context + IF disturbed THEN 1 ELSE 0
  BY <1>2
<1> DEFINE deed == [flying |-> FALSE, landed |-> TRUE, late |-> passed # {},
                    disturbed |-> disturbed, held |-> effect[p].held]
           deeds == [effect EXCEPT ![p] = deed]
<1>4. deed \in Deed /\ deeds \in [Op -> Deed]
  <2>1. effect[p].held \in BOOLEAN /\ (passed # {}) \in BOOLEAN
    BY <1>1 DEF Deed
  <2>2. deed \in Deed
    BY <2>1 DEF Deed
  <2> QED
    BY <1>1, <2>2
<1>5. effect' = Notice(deeds, desk')
  BY <1>2
<1>6. /\ deeds[p] = deed
      /\ o # p => deeds[o] = effect[o]
  BY <1>1
<1>7. /\ deed.flying = FALSE /\ deed.landed = TRUE /\ deed.disturbed = disturbed
      /\ deed.held = effect[p].held /\ (deed.late => passed # {})
  OBVIOUS
<1> HIDE DEF deed, deeds
<1>8. /\ effect'[o].flying = deeds[o].flying /\ effect'[o].landed = deeds[o].landed
      /\ effect'[o].late = deeds[o].late /\ effect'[o].disturbed = deeds[o].disturbed
      /\ deeds[o].held => effect'[o].held
      /\ ((deeds[o].flying \/ deeds[o].landed) /\ Holds(desk')) => effect'[o].held
  BY <1>4, <1>5, NoticeKeeps, NoticeSees
<1>9. CASE o = p
  <2>1. ~effect[o].landed /\ ~effect[o].disturbed
    BY <1>1, <1>9 DEF DeedInv
  <2> QED
    BY <1>1, <1>3, <1>6, <1>7, <1>8, <1>9, <2>1 DEF Grows, DeedInv, Holds
<1>10. CASE o # p
  BY <1>1, <1>3, <1>6, <1>8, <1>10 DEF Grows, DeedInv, Holds
<1> QED
  BY <1>9, <1>10

(* Every step of the system lets deeds grow.                               *)
LEMMA DeedsGrow ==
  ASSUME TypeInv, TruthInv, GrantInv, [Next]_vars, NEW o \in Op
  PROVE  Grows(o) /\ DeedInv(o)'
<1>1. /\ effect \in [Op -> Deed] /\ desk.context \in Nat /\ DeedInv(o)
      /\ effect[o] \in Deed
  BY DeskTypes DEF TypeInv, TypeOK, GrantInv
<1>2. ASSUME UNCHANGED <<effect, desk>>, passed # {} => passed' # {}
      PROVE  Grows(o) /\ DeedInv(o)'
  BY <1>1, <1>2 DEF Grows, DeedInv, Holds
<1>3. ASSUME NEW c \in Call, Begin(c) \/ Accept(c) \/ GiveUp(c) PROVE Grows(o) /\ DeedInv(o)'
  BY <1>2, <1>3 DEF Begin, Accept, GiveUp
<1>4. ASSUME NEW c \in Call, Crash(c) \/ Gate(c) \/ Lock(c) \/ Read(c) \/ Prepare(c)
                             \/ SampleBefore(c) \/ Doubt(c) \/ SampleAfter(c) \/ Conclude(c)
                             \/ FinishNoEffect(c) \/ FinishEffect(c)
      PROVE  Grows(o) /\ DeedInv(o)'
  BY <1>2, <1>4 DEF Crash, Gate, Lock, Read, Prepare, SampleBefore, Doubt, SampleAfter, Conclude,
     FinishNoEffect, FinishEffect
<1>5. ASSUME NEW c \in Call, Return(c) PROVE Grows(o) /\ DeedInv(o)'
  <2>1. OpOf(c) \in Op /\ UNCHANGED <<passed, desk>>
    BY <1>5, OpOfType DEF Return
  <2>2. CASE effect' = [effect EXCEPT ![OpOf(c)].flying = FALSE]
    <3>1. /\ effect'[o].landed = effect[o].landed /\ effect'[o].late = effect[o].late
          /\ effect'[o].disturbed = effect[o].disturbed /\ effect'[o].held = effect[o].held
          /\ effect'[o].flying => effect[o].flying
      BY <1>1, <2>1, <2>2 DEF Deed
    <3> QED
      BY <1>1, <2>1, <3>1 DEF Grows, DeedInv, Holds
  <2> QED
    BY <1>2, <1>5, <2>1, <2>2 DEF Return
<1>6. ASSUME NEW c \in Call, Dispatch(c) PROVE Grows(o) /\ DeedInv(o)'
  <2>1. OpOf(c) \in Op /\ UNCHANGED <<passed, desk>> /\ At(c) = "dispatch"
    BY <1>6, OpOfType DEF Dispatch
  <2>2. ~effect[OpOf(c)].landed
    BY <2>1 DEF TruthInv, CallTruth, LabelTruth, Before, Clean
  <2> DEFINE deeds == [effect EXCEPT ![OpOf(c)].flying = TRUE]
  <2>3. deeds \in [Op -> Deed]
    BY <1>1, <2>1 DEF Deed
  <2>4. /\ deeds[o].landed = effect[o].landed /\ deeds[o].late = effect[o].late
        /\ deeds[o].disturbed = effect[o].disturbed /\ deeds[o].held = effect[o].held
        /\ o # OpOf(c) => deeds[o].flying = effect[o].flying
    BY <1>1, <2>1 DEF Deed
  <2>5. effect' = Notice(deeds, desk)
    BY <1>6 DEF Dispatch
  <2> HIDE DEF deeds
  <2>6. /\ effect'[o].flying = deeds[o].flying /\ effect'[o].landed = deeds[o].landed
        /\ effect'[o].late = deeds[o].late /\ effect'[o].disturbed = deeds[o].disturbed
        /\ deeds[o].held => effect'[o].held
        /\ ((deeds[o].flying \/ deeds[o].landed) /\ Holds(desk)) => effect'[o].held
    BY <2>3, <2>5, NoticeKeeps, NoticeSees
  <2> QED
    BY <1>1, <2>1, <2>2, <2>4, <2>6 DEF Grows, DeedInv, Holds
<1>7. CASE Change
  <2>1. PICK d \in Changed : desk' = d /\ effect' = Notice(effect, d) /\ passed' = passed
    BY <1>7 DEF Change
  <2>2. desk.context <= desk'.context
    BY <1>1, <2>1, DeskTypes DEF Changed, Desk, TypeInv, TypeOK
  <2>3. /\ effect'[o].flying = effect[o].flying /\ effect'[o].landed = effect[o].landed
        /\ effect'[o].late = effect[o].late /\ effect'[o].disturbed = effect[o].disturbed
        /\ effect[o].held => effect'[o].held
        /\ ((effect[o].flying \/ effect[o].landed) /\ Holds(desk')) => effect'[o].held
    BY <1>1, <2>1, NoticeKeeps, NoticeSees
  <2> QED
    BY <1>1, <2>1, <2>2, <2>3 DEF Grows, DeedInv, Holds
<1>8. CASE Tick
  BY <1>2, <1>8 DEF Tick
<1>9. CASE UNCHANGED vars
  BY <1>2, <1>9 DEF vars
<1> QED
  BY <1>3, <1>4, <1>5, <1>6, <1>7, <1>8, <1>9, LandGrows DEF Next, Engine

(* What backs a terminal stays.                                            *)
LEMMA BackedStays ==
  ASSUME TypeInv, TruthInv, GrantInv, [Next]_vars, NEW o \in Op, NEW t, Backed(t, o)
  PROVE  Backed(t, o)'
BY DeedsGrow, DeedMoves DEF Backed, Grows

(* A call that does not move keeps what backs it.                          *)
LEMMA OtherGrant ==
  ASSUME TypeInv, TruthInv, GrantInv, [Next]_vars, NEW b \in Call, call'[b] = call[b]
  PROVE  CallGrant(b)'
<1>1. /\ setup' = setup /\ At(b)' = At(b) /\ (Guarded(b)' <=> Guarded(b))
      /\ OpOf(b)' = OpOf(b) /\ CallGrant(b)
  BY StepsKeepSetup DEF At, Guarded, OpOf, GrantInv
<1>2. PICK o, t, s : o \in Op /\ o = OpOf(b) /\ t = call[b].terminal /\ s = call[b].told.terminal
  BY OpOfType
<1>3. Grows(o)
  BY <1>2, DeedsGrow
<1>4. (At(b) \in Carrying => Backed(t, o)') /\ Backed(s, o)'
  BY <1>1, <1>2, BackedStays DEF CallGrant
<1>5. /\ At(b)' \in Carrying => Backed(call[b].terminal, OpOf(b))'
      /\ Backed(call[b].told.terminal, OpOf(b))'
  BY <1>1, <1>2, <1>4 DEF Backed
<1>6. SampleInv(b)'
  <2>1. desk.context \in Nat /\ desk'.context \in Nat /\ call[b].sample \in Nat
    BY DeskTypes, NextTypes DEF TypeInv, TypeOK, Desk, CallRecord
  <2>2. At(b) = "after" => effect[o].landed
    BY <1>2 DEF TruthInv, CallTruth, LabelTruth
  <2> QED
    BY <1>1, <1>2, <1>3, <2>1, <2>2 DEF CallGrant, SampleInv, Grows
<1>7. OrderInv(b)'
  <2>1. b > 1 => b - 1 \in Op
    BY BridgeAssumption DEF Call, Op
  <2>2. b > 1 => (effect[b - 1].held => effect'[b - 1].held)
    BY <2>1, DeedsGrow DEF Grows
  <2> QED
    BY <1>1, <2>2 DEF CallGrant, OrderInv
<1> QED
  BY <1>5, <1>6, <1>7 DEF CallGrant

(* What a step of a call leaves of it and in the ledger.                   *)
StepGrant(c) == CallGrant(c)' /\ \A o \in Op : Backed(ledger[o].terminal, o)'

(* The ledger stays backed where it says nothing new, or what is backed.   *)
LEMMA LedgerBacked ==
  ASSUME TypeInv, TruthInv, GrantInv, [Next]_vars, NEW o \in Op, NEW t,
         t = ledger'[o].terminal, t = ledger[o].terminal \/ Backed(t, o)
  PROVE  Backed(ledger[o].terminal, o)'
<1>1. Backed(t, o)
  BY DEF GrantInv
<1>2. Backed(t, o)'
  BY <1>1, BackedStays
<1> QED
  BY <1>2 DEF Backed

(* A call that moves on without an answer.                                 *)
LEMMA MoveGrant ==
  ASSUME TypeInv, TruthInv, GrantInv, [Next]_vars, NEW c \in Call, NEW o \in Op, o = OpOf(c),
         At(c) # "idle", call'[c].tool = call[c].tool, call'[c].told = call[c].told,
         NEW t, t = call'[c].terminal, call'[c].at \in Carrying => Backed(t, o)',
         SampleInv(c)'
  PROVE  CallGrant(c)'
<1>1. setup' = setup /\ CallGrant(c)
  BY StepsKeepSetup DEF GrantInv
<1>2. OpOf(c)' = o
  BY <1>1 DEF OpOf
<1>3. PICK s : s = call[c].told.terminal
  OBVIOUS
<1>4. Backed(s, o)'
  BY <1>1, <1>3, BackedStays DEF CallGrant
<1>5. /\ At(c)' \in Carrying => Backed(call[c].terminal, OpOf(c))'
      /\ Backed(call[c].told.terminal, OpOf(c))'
  BY <1>2, <1>3, <1>4 DEF Backed, At
<1>6. OrderInv(c)'
  <2>1. c > 1 => c - 1 \in Op
    BY BridgeAssumption DEF Call, Op
  <2>2. c > 1 => (effect[c - 1].held => effect'[c - 1].held)
    BY <2>1, DeedsGrow DEF Grows
  <2> QED
    BY <1>1, <2>2 DEF CallGrant, OrderInv
<1> QED
  BY <1>5, <1>6 DEF CallGrant

(* A call that ends tells no more than is backed.                          *)
LEMMA AnswerGrant ==
  ASSUME TypeInv, TruthInv, GrantInv, [Next]_vars, NEW c \in Call, NEW told \in Told,
         Answer(c, told), Backed(told.terminal, OpOf(c)), At(c) # "idle"
  PROVE  CallGrant(c)'
<1>1. setup' = setup /\ CallGrant(c) /\ CallsType
  BY StepsKeepSetup, TypeParts DEF GrantInv
<1>2. /\ call'[c].at = "done" /\ call'[c].tool = call[c].tool
      /\ call'[c].told = IF call[c].told = Silence THEN told ELSE call[c].told
  BY <1>1, AnswerTypes
<1>3. PICK o \in Op : o = OpOf(c)
  BY OpOfType
<1>4. OpOf(c)' = o
  BY <1>1, <1>2, <1>3 DEF OpOf
<1>5. PICK s : s = call'[c].told.terminal
  OBVIOUS
<1>6. Backed(s, o)'
  BY <1>1, <1>2, <1>3, <1>5, BackedStays DEF CallGrant
<1>7. Backed(call[c].told.terminal, OpOf(c))'
  BY <1>4, <1>5, <1>6 DEF Backed
<1>8. SampleInv(c)' /\ At(c)' \notin Carrying
  BY <1>2 DEF SampleInv, At, Sampled, Carrying
<1>9. OrderInv(c)'
  <2>1. c > 1 => c - 1 \in Op
    BY BridgeAssumption DEF Call, Op
  <2>2. c > 1 => (effect[c - 1].held => effect'[c - 1].held)
    BY <2>1, DeedsGrow DEF Grows
  <2> QED
    BY <1>1, <1>2, <2>2 DEF CallGrant, OrderInv
<1> QED
  BY <1>7, <1>8, <1>9 DEF CallGrant

(* An error tells nothing.                                                 *)
LEMMA SilentGrant ==
  ASSUME TypeInv, TruthInv, GrantInv, [Next]_vars, NEW c \in Call, NEW told \in Told,
         Answer(c, told), told.terminal = NoTerminal, At(c) # "idle"
  PROVE  CallGrant(c)'
<1>1. Backed(told.terminal, OpOf(c))
  BY DEF Backed, NoTerminal, Terminal, NoReceipt
<1> QED
  BY <1>1, AnswerGrant

(* The error of the engine, and the silence of a command that was killed.  *)
LEMMA FailureIsSilent ==
  \A c \in Call : /\ Failure(c).terminal = NoTerminal
                  /\ Error(c, "host_executor_unavailable").terminal = NoTerminal
                  /\ Error(c, "praefectus_error").terminal = NoTerminal
                  /\ Silence.terminal = NoTerminal
BY DEF Failure, Error, Refusal, Silence

(* A call whose answer is ready.                                           *)
LEMMA ReadyGrant ==
  ASSUME TypeInv, TruthInv, GrantInv, [Next]_vars, NEW c \in Call, NEW o \in Op, o = OpOf(c),
         At(c) # "idle", NEW terminal \in TerminalSet, NEW sequence \in Sequences,
         call' = [call EXCEPT ![c].at = "answer", ![c].terminal = terminal,
                              ![c].sequence = sequence],
         Backed(terminal, o)'
  PROVE  CallGrant(c)'
<1>1. CallsType
  BY TypeParts
<1>2. /\ call'[c].at = "answer" /\ call'[c].tool = call[c].tool
      /\ call'[c].terminal = terminal /\ call'[c].told = call[c].told
  BY <1>1, ReadyTypes
<1>3. SampleInv(c)'
  BY <1>2 DEF SampleInv, At, Sampled
<1> QED
  BY <1>2, <1>3, MoveGrant

(* What grants nothing is backed.                                          *)
LEMMA PlainIsBacked == \A t, o : Plain(t) => Backed(t, o)
BY DEF Plain, Backed

(* finish, of a terminal that is backed.                                   *)
LEMMA FinishGrant ==
  ASSUME TypeInv, TruthInv, GrantInv, [Next]_vars, NEW c \in Call, NEW terminal \in Terminals,
         NEW sequence \in Sequences, Finish(c, terminal, sequence),
         Backed(terminal, OpOf(c)), At(c) # "idle"
  PROVE  StepGrant(c)
<1>1. PICK o \in Op : o = OpOf(c)
  BY OpOfType
<1>2. \A p \in Op : Backed(ledger[p].terminal, p)'
  BY FinishWrites, LedgerBacked
<1>3. Backed(terminal, o)' /\ terminal \in TerminalSet
  BY <1>1, BackedStays, TerminalTypes
<1>4. CASE call' = [call EXCEPT ![c].at = "answer", ![c].terminal = terminal,
                                ![c].sequence = sequence]
  BY <1>1, <1>2, <1>3, <1>4, ReadyGrant DEF StepGrant
<1>5. CASE Abort(c, Failure(c))
  BY <1>2, <1>5, ToldTypes, FailureIsSilent, SilentGrant DEF StepGrant, Abort
<1> QED
  BY <1>4, <1>5 DEF Finish

-----------------------------------------------------------------------------
(* The steps keep the grants                                               *)

(* A request is made when the one before it is verified (execute_batch).   *)
LEMMA BeginGrant ==
  ASSUME TypeInv, AwaitInv, TruthInv, GrantInv, [Next]_vars, NEW c \in Call, Begin(c)
  PROVE  StepGrant(c)
<1>1. /\ CallsType /\ UNCHANGED <<setup, passed, desk, ledger, effect>> /\ At(c) = "idle"
      /\ call[c].told = Silence /\ call[c] \in CallRecord
  BY TypeParts DEF Begin, AwaitInv, Waits, CallsType
<1>2. \A o \in Op : Backed(ledger[o].terminal, o)'
  BY <1>1 DEF GrantInv, Backed
<1>3. ASSUME setup.client = "batch", c > 1 PROVE effect[c - 1].held
  <2>1. c - 1 \in Call
    BY <1>3, BridgeAssumption DEF Call
  <2>2. At(c - 1) # "idle" /\ GoesOn(call[c - 1].told)
    BY <1>3 DEF Begin
  <2>3. CallGrant(c - 1)
    BY <2>1 DEF GrantInv
  <2>4. call[c - 1].tool = "execute"
    BY <1>3, <2>2, <2>3 DEF CallGrant, OrderInv
  <2>5. OpOf(c - 1) = c - 1
    BY <1>3, <2>4 DEF OpOf, Plugin
  <2> QED
    BY <2>2, <2>3, <2>5 DEF GoesOn, CallGrant, Backed
<1>4. ASSUME call'[c].at \in {"gate", "lock", "done"}, call'[c].told.terminal = NoTerminal,
             setup.client = "batch" => call'[c].tool = "execute"
      PROVE  StepGrant(c)
  <2>1. SampleInv(c)' /\ At(c)' \notin Carrying
    BY <1>4 DEF SampleInv, At, Sampled, Carrying
  <2>2. OrderInv(c)'
    BY <1>1, <1>3, <1>4 DEF OrderInv
  <2>3. \A o : Backed(NoTerminal, o)'
    BY DEF Backed, NoTerminal, Terminal, NoReceipt
  <2>4. CallGrant(c)'
    BY <1>4, <2>1, <2>2, <2>3 DEF CallGrant, Backed
  <2> QED
    BY <1>2, <2>4 DEF StepGrant
<1>5. /\ Silence.terminal = NoTerminal
      /\ Refusal("invalid_request").terminal = NoTerminal
      /\ \A failed : ShownFacts(failed).terminal = NoTerminal
  BY DEF Silence, Refusal, ShownFacts
<1>6. ASSUME NEW s \in setup.requests,
             LET request == IF setup.client = "cli" THEN CliRequest(s) ELSE s IN
             call' = [call EXCEPT ![c] = [NoCall EXCEPT
                        !.tool = "execute", !.request = request,
                        !.at = IF Proposes(setup.client, request) THEN "gate" ELSE "done",
                        !.told = IF Proposes(setup.client, request) THEN Silence
                                 ELSE Refusal("invalid_request")]]
      PROVE  StepGrant(c)
  <2> DEFINE request == IF setup.client = "cli" THEN CliRequest(s) ELSE s
             pc == IF Proposes(setup.client, request) THEN "gate" ELSE "done"
             told == IF Proposes(setup.client, request) THEN Silence
                     ELSE Refusal("invalid_request")
  <2>1. pc \in {"gate", "done"} /\ told.terminal = NoTerminal
    BY <1>5
  <2>2. call' = [call EXCEPT ![c] = [NoCall EXCEPT !.tool = "execute",
                    !.request = request, !.at = pc, !.told = told]]
    BY <1>6
  <2> HIDE DEF request, pc, told
  <2>3. call'[c].at = pc /\ call'[c].told = told /\ call'[c].tool = "execute"
    BY <1>1, <2>2 DEF CallsType, NoCall
  <2> QED
    BY <1>4, <2>1, <2>3
<1>7. CASE setup.client # "batch" /\ call' = [call EXCEPT ![c].tool = "status", ![c].at = "lock"]
  <2>1. call'[c].at = "lock" /\ call'[c].told = Silence
    BY <1>1, <1>7 DEF CallsType, CallRecord
  <2> QED
    BY <1>4, <1>5, <1>7, <2>1
<1>8. ASSUME setup.client # "batch", NEW failed \in BOOLEAN,
             call' = [call EXCEPT ![c].tool = "capabilities", ![c].at = "done",
                                  ![c].told = ShownFacts(failed)]
      PROVE  StepGrant(c)
  <2> DEFINE told == ShownFacts(failed)
  <2>1. told.terminal = NoTerminal
    BY <1>5
  <2> HIDE DEF told
  <2>2. call'[c].at = "done" /\ call'[c].told = told
    BY <1>1, <1>8 DEF CallsType, CallRecord, told
  <2> QED
    BY <1>4, <1>8, <2>1, <2>2
<1> QED
  BY <1>6, <1>7, <1>8 DEF Begin

(* The ledger is backed as long as nobody writes it.                       *)
LEMMA SameLedger ==
  ASSUME TypeInv, TruthInv, GrantInv, [Next]_vars, UNCHANGED ledger
  PROVE  \A o \in Op : Backed(ledger[o].terminal, o)'
BY LedgerBacked

(* A plugin judges the answer, or the command line prints it.              *)
LEMMA AcceptGrant ==
  ASSUME TypeInv, TruthInv, GrantInv, [Next]_vars, NEW c \in Call, Accept(c)
  PROVE  StepGrant(c)
<1>1. At(c) = "answer" /\ UNCHANGED ledger
  BY DEF Accept
<1>2. Backed(call[c].terminal, OpOf(c))
  BY <1>1 DEF GrantInv, CallGrant, Carrying
<1>3. /\ Judge(c).terminal \in {call[c].terminal, NoTerminal}
      /\ Show(c).terminal \in {call[c].terminal, NoTerminal}
  BY DEF Judge, Show, Error, Refusal, Silence
<1>4. Backed(NoTerminal, OpOf(c))
  BY DEF Backed, NoTerminal, Terminal, NoReceipt
<1>5. PICK told \in Told : told = IF IsPlugin THEN Judge(c) ELSE Show(c)
  BY ToldTypes
<1>6. Answer(c, told) /\ Backed(told.terminal, OpOf(c))
  BY <1>2, <1>3, <1>4, <1>5 DEF Accept
<1> QED
  BY <1>1, <1>6, AnswerGrant, SameLedger DEF StepGrant

(* A plugin's timer fires.                                                 *)
LEMMA GiveUpGrant ==
  ASSUME TypeInv, TruthInv, GrantInv, [Next]_vars, NEW c \in Call, GiveUp(c)
  PROVE  StepGrant(c)
<1>1. /\ At(c) # "idle" /\ UNCHANGED <<setup, passed, desk, ledger, effect>> /\ CallsType
      /\ CallGrant(c)
  BY TypeParts DEF GiveUp, GrantInv
<1>2. PICK told \in Told : told = Error(c, "host_executor_unavailable")
  BY ToldTypes
<1>3. told.terminal = NoTerminal
  BY <1>2, FailureIsSilent
<1>4. CASE Answer(c, told)
  BY <1>1, <1>3, <1>4, SilentGrant, SameLedger DEF StepGrant
<1>5. CASE call' = [call EXCEPT ![c].told = told]
  <2>1. call[c] \in CallRecord
    BY <1>1 DEF CallsType
  <2>2. /\ call'[c].at = call[c].at /\ call'[c].tool = call[c].tool
        /\ call'[c].terminal = call[c].terminal /\ call'[c].sample = call[c].sample
        /\ call'[c].context = call[c].context /\ call'[c].request = call[c].request
        /\ call'[c].told = told
    BY <1>1, <1>5, <2>1 DEF CallsType, CallRecord
  <2>3. OpOf(c)' = OpOf(c) /\ At(c)' = At(c) /\ (Guarded(c)' <=> Guarded(c))
    BY <1>1, <2>2 DEF OpOf, At, Guarded
  <2>4. SampleInv(c)' /\ OrderInv(c)'
    BY <1>1, <2>2, <2>3 DEF CallGrant, SampleInv, OrderInv
  <2>5. /\ At(c)' \in Carrying => Backed(call[c].terminal, OpOf(c))'
        /\ Backed(call[c].told.terminal, OpOf(c))'
    BY <1>1, <1>3, <2>2, <2>3 DEF CallGrant, Backed, NoTerminal, Terminal, NoReceipt
  <2>6. CallGrant(c)'
    BY <2>4, <2>5 DEF CallGrant
  <2> QED
    BY <1>1, <2>6, SameLedger DEF StepGrant
<1> QED
  BY <1>2, <1>4, <1>5 DEF GiveUp

(* The engine returns an error, or its process ends.                       *)
LEMMA AbortGrant ==
  ASSUME TypeInv, TruthInv, GrantInv, [Next]_vars, NEW c \in Call, At(c) # "idle",
         Abort(c, Failure(c)) \/ Abort(c, Silence)
  PROVE  CallGrant(c)'
BY ToldTypes, SilenceType, FailureIsSilent, SilentGrant DEF Abort

(* The process of the engine is killed.                                    *)
LEMMA CrashGrant ==
  ASSUME TypeInv, TruthInv, GrantInv, [Next]_vars, NEW c \in Call, Crash(c)
  PROVE  StepGrant(c)
<1>1. /\ At(c) # "idle" /\ UNCHANGED ledger
      /\ Abort(c, Failure(c)) \/ Abort(c, Silence)
  BY DEF Crash, InEngine
<1> QED
  BY <1>1, AbortGrant, SameLedger DEF StepGrant

(* A call that goes to a label where it guards and carries nothing.        *)
LEMMA GotoGrant ==
  ASSUME TypeInv, TruthInv, GrantInv, [Next]_vars, NEW c \in Call, At(c) # "idle",
         NEW pc \in {"lock", "read", "prepare"}, Goto(c, pc)
  PROVE  CallGrant(c)'
<1>1. CallsType /\ pc \in ProgramCounter
  BY TypeParts DEF ProgramCounter
<1>2. call'[c].at = pc /\ call'[c].tool = call[c].tool /\ call'[c].told = call[c].told
  BY <1>1, GotoTypes
<1>3. PICK o, t : o \in Op /\ o = OpOf(c) /\ t = call'[c].terminal
  BY OpOfType
<1>4. SampleInv(c)' /\ call'[c].at \notin Carrying
  BY <1>2 DEF SampleInv, At, Sampled, Carrying
<1> QED
  BY <1>2, <1>3, <1>4, MoveGrant

(* validate_request and the verifier, and the execution lock.              *)
LEMMA LockGrant ==
  ASSUME TypeInv, TruthInv, GrantInv, [Next]_vars, NEW c \in Call, Gate(c) \/ Lock(c)
  PROVE  StepGrant(c)
<1>1. /\ At(c) # "idle" /\ UNCHANGED ledger
      /\ \/ \E pc \in {"lock", "read"} : Goto(c, pc)
         \/ Abort(c, Failure(c))
  BY DEF Gate, Lock
<1> QED
  BY <1>1, GotoGrant, AbortGrant, SameLedger DEF StepGrant

(* Recovered and unknown effects grant nothing, and neither does what had  *)
(* none.                                                                   *)
LEMMA PlainTerminals ==
  /\ \A receipt : receipt.effect # "verified" => Plain(Unknown(receipt))
  /\ \A request, platform, claim : Plain(RecoveredUnknown(request, platform, claim))
  /\ \A claim : Plain(InterruptedAck(claim))
  /\ \A kind, code : kind # "succeeded" => Plain(Early(kind, code))
  /\ Plain(NoTerminal)
BY DEF Plain, Unknown, RecoveredUnknown, EmptyReceipt, InterruptedAck, Early, Terminal,
   NoReceipt, NoTerminal

(* What execute and status find in the ledger.                             *)
LEMMA ReadGrant ==
  ASSUME TypeInv, TruthInv, GrantInv, [Next]_vars, NEW c \in Call, Read(c)
  PROVE  StepGrant(c)
<1> DEFINE entry == ledger[OpOf(c)]
           execute == call[c].tool = "execute"
<1>1. PICK o \in Op : o = OpOf(c)
  BY OpOfType
<1>2. /\ At(c) = "read" /\ entry \in Entry /\ EntryType(entry) /\ ledger \in [Op -> Entry]
  BY <1>1, TypeParts DEF Read, LedgerType
<1>3. CASE Abort(c, Failure(c)) /\ UNCHANGED ledger
  BY <1>2, <1>3, AbortGrant, SameLedger DEF StepGrant
<1>4. CASE Claim(c)
  <2>1. PICK written : /\ ledger' = [ledger EXCEPT ![o] = written]
                       /\ written = ledger[o] \/ written.terminal = NoTerminal
    BY <1>1, <1>4 DEF Claim, NoEntry
  <2>2. \A p \in Op : \/ ledger'[p].terminal = ledger[p].terminal
                      \/ ledger'[p].terminal = NoTerminal
    BY <1>2, <2>1
  <2>3. \A p \in Op : Backed(ledger[p].terminal, p)'
    BY <2>2, PlainTerminals, PlainIsBacked, LedgerBacked
  <2>4. CallGrant(c)'
    BY <1>2, <1>4, AbortGrant, GotoGrant DEF Claim
  <2> QED
    BY <2>3, <2>4 DEF StepGrant
<1>5. ASSUME NEW terminal \in TerminalSet, Replay(c, terminal), Backed(terminal, o)
      PROVE  StepGrant(c)
  <2>1. PICK sequence \in Sequences :
          sequence = IF terminal = NoTerminal THEN <<>> ELSE <<2>>
    BY SequenceTypes
  <2>2. call' = [call EXCEPT ![c].at = "answer", ![c].terminal = terminal,
                             ![c].sequence = sequence]
    BY <1>5, <2>1 DEF Replay
  <2>3. Backed(terminal, o)'
    BY <1>5, BackedStays
  <2>4. CallGrant(c)'
    BY <1>1, <1>2, <2>2, <2>3, ReadyGrant
  <2> QED
    BY <1>5, <2>4, SameLedger DEF StepGrant, Replay
<1>6. CASE Replay(c, entry.terminal)
  <2>1. PICK terminal \in TerminalSet : terminal = entry.terminal
    BY <1>2 DEF Entry
  <2>2. Backed(terminal, o)
    BY <1>1, <2>1 DEF GrantInv
  <2> QED
    BY <1>5, <1>6, <2>1, <2>2
<1>7. CASE Replay(c, NoTerminal)
  BY <1>5, <1>7, TerminalTypes, PlainTerminals, PlainIsBacked
<1>8. CASE /\ entry # NoEntry /\ entry.terminal = NoTerminal
           /\ Finish(c, IF execute
                        THEN RecoveredUnknown(call[c].request, setup.platform, entry.claim)
                        ELSE InterruptedAck(entry.claim), <<2>>)
           /\ execute => entry.hash = call[c].request
  <2>1. entry.hash \in Request /\ entry.claim \in Claims
    BY <1>2, <1>8 DEF EntryType, Entry, NoEntry
  <2>2. PICK terminal \in Terminals :
          terminal = IF execute
                     THEN RecoveredUnknown(call[c].request, setup.platform, entry.claim)
                     ELSE InterruptedAck(entry.claim)
    BY <1>8, <2>1, SetupTypes, RecoveredTypes
  <2>3. Backed(terminal, OpOf(c))
    BY <2>2, PlainTerminals, PlainIsBacked
  <2> QED
    BY <1>2, <1>8, <2>2, <2>3, SequenceTypes, FinishGrant
<1> QED
  BY <1>3, <1>4, <1>6, <1>7, <1>8 DEF Read

(* execute from the claim to its first observation, and context_before:    *)
(* nothing has happened yet, so the sample is of a context that the call   *)
(* did not disturb.                                                        *)
LEMMA EarlyGrant ==
  ASSUME TypeInv, TruthInv, GrantInv, [Next]_vars, NEW c \in Call, Prepare(c) \/ SampleBefore(c)
  PROVE  StepGrant(c)
<1>1. /\ At(c) # "idle" /\ At(c) \in Before /\ UNCHANGED <<setup, desk, effect>>
      /\ CallsType /\ call[c] \in CallRecord /\ setup' = setup
  BY TypeParts DEF Prepare, SampleBefore, CallsType, Before
<1>2. PICK o \in Op : o = OpOf(c)
  BY OpOfType
<1>3. ~effect[o].disturbed /\ desk.context \in Nat
  <2>1. Clean(o) /\ DeedInv(o)
    BY <1>1, <1>2 DEF TruthInv, CallTruth, LabelTruth, GrantInv
  <2> QED
    BY <2>1, DeskTypes DEF Clean, DeedInv
<1>4. ASSUME NEW kind \in NoEffectKind, NEW code \in Code, FinishEarly(c, kind, code)
      PROVE  StepGrant(c)
  <2>1. Early(kind, code) \in Terminals /\ kind # "succeeded"
    BY EarlyTypes DEF Kind, NoEffectKind
  <2>2. Backed(Early(kind, code), OpOf(c))
    BY <2>1, PlainTerminals, PlainIsBacked
  <2> QED
    BY <1>1, <1>4, <2>1, <2>2, SequenceTypes, FinishGrant DEF FinishEarly
<1>5. ASSUME call'[c].at \in {"context", "dispatch"}, call'[c].tool = call[c].tool,
             call'[c].told = call[c].told, call'[c].request = call[c].request,
             (call'[c].at = "dispatch" /\ Guarded(c)) => call'[c].sample = desk.context,
             UNCHANGED ledger
      PROVE  StepGrant(c)
  <2>1. OpOf(c)' = o /\ (Guarded(c)' <=> Guarded(c))
    BY <1>1, <1>2, <1>5 DEF OpOf, Guarded
  <2>2. SampleInv(c)' /\ call'[c].at \notin Carrying
    BY <1>1, <1>3, <1>5, <2>1 DEF SampleInv, At, Sampled, Carrying
  <2>3. PICK t : t = call'[c].terminal
    OBVIOUS
  <2>4. CallGrant(c)'
    BY <1>1, <1>2, <1>5, <2>2, <2>3, MoveGrant
  <2> QED
    BY <1>5, <2>4, SameLedger DEF StepGrant
<1>6. ASSUME call' = [call EXCEPT ![c].at = "context", ![c].before = desk.view],
             UNCHANGED ledger
      PROVE  StepGrant(c)
  <2>1. /\ call'[c].at = "context" /\ call'[c].tool = call[c].tool
        /\ call'[c].told = call[c].told /\ call'[c].request = call[c].request
    BY <1>1, <1>6 DEF CallsType, CallRecord
  <2> QED
    BY <1>5, <1>6, <2>1
<1>7. ASSUME call' = [call EXCEPT ![c].at = "dispatch",
                        ![c].sample = IF Guarded(c) THEN desk.context ELSE 0],
             UNCHANGED ledger
      PROVE  StepGrant(c)
  <2>1. PICK sample : sample = IF Guarded(c) THEN desk.context ELSE 0
    OBVIOUS
  <2>2. call' = [call EXCEPT ![c].at = "dispatch", ![c].sample = sample]
    BY <1>7, <2>1
  <2>3. /\ call'[c].at = "dispatch" /\ call'[c].tool = call[c].tool
        /\ call'[c].told = call[c].told /\ call'[c].request = call[c].request
        /\ call'[c].sample = sample
    BY <1>1, <2>2 DEF CallsType, CallRecord
  <2> QED
    BY <1>5, <1>7, <2>1, <2>3
<1>8. CASE Prepare(c)
  BY <1>4, <1>6, <1>8 DEF Prepare, NoEffectKind, Code
<1>9. CASE SampleBefore(c)
  BY <1>4, <1>7, <1>9 DEF SampleBefore, NoEffectKind, Code
<1> QED
  BY <1>8, <1>9

(* A sampled call that goes on in the same context.                        *)
LEMMA WorkGrant ==
  ASSUME TypeInv, TruthInv, GrantInv, [Next]_vars, NEW c \in Call, At(c) \in Sampled,
         NEW pc \in Sampled, Goto(c, pc), UNCHANGED <<setup, desk, ledger>>
  PROVE  StepGrant(c)
<1>1. CallsType /\ call[c] \in CallRecord
  BY TypeParts DEF CallsType
<1>2. /\ call'[c].at = pc /\ call'[c].tool = call[c].tool /\ call'[c].told = call[c].told
      /\ call'[c].request = call[c].request /\ call'[c].sample = call[c].sample
  BY <1>1 DEF Goto, CallsType, CallRecord
<1>3. PICK o, t : o \in Op /\ o = OpOf(c) /\ t = call'[c].terminal
  BY OpOfType
<1>4. OpOf(c)' = o /\ (Guarded(c)' <=> Guarded(c)) /\ desk.context \in Nat
  BY <1>2, <1>3, DeskTypes DEF OpOf, Guarded
<1>5. effect'[o].disturbed => effect[o].disturbed
  BY <1>3, <1>4, DeedsGrow DEF Grows
<1>6. SampleInv(c)' /\ call'[c].at \notin Carrying /\ At(c) # "idle"
  BY <1>2, <1>3, <1>4, <1>5 DEF SampleInv, At, Sampled, Carrying, GrantInv, CallGrant
<1>7. CallGrant(c)'
  BY <1>2, <1>3, <1>6, MoveGrant
<1> QED
  BY <1>7, SameLedger DEF StepGrant

(* A call that goes to the ledger with a terminal.                         *)
LEMMA CarryGrant ==
  ASSUME TypeInv, TruthInv, GrantInv, [Next]_vars, NEW c \in Call, At(c) # "idle",
         NEW pc \in {"finish", "finish_effect"}, NEW t,
         call' = [call EXCEPT ![c].at = pc, ![c].terminal = t],
         Backed(t, OpOf(c)), UNCHANGED ledger
  PROVE  StepGrant(c)
<1>1. CallsType /\ call[c] \in CallRecord
  BY TypeParts DEF CallsType
<1>2. /\ call'[c].at = pc /\ call'[c].tool = call[c].tool /\ call'[c].told = call[c].told
      /\ call'[c].terminal = t
  BY <1>1 DEF CallsType, CallRecord
<1>3. PICK o \in Op : o = OpOf(c)
  BY OpOfType
<1>4. Backed(t, o)'
  BY <1>3, BackedStays
<1>5. SampleInv(c)'
  BY <1>2 DEF SampleInv, At, Sampled
<1>6. CallGrant(c)'
  BY <1>2, <1>3, <1>4, <1>5, MoveGrant
<1> QED
  BY <1>6, SameLedger DEF StepGrant

(* Executor::dispatch is called, and returns.                              *)
LEMMA DispatchGrant ==
  ASSUME TypeInv, TruthInv, GrantInv, [Next]_vars, NEW c \in Call, Dispatch(c) \/ Return(c)
  PROVE  StepGrant(c)
<1>1. CASE \E pc \in {"executing", "uncertain", "returned"} : Goto(c, pc)
  BY <1>1, WorkGrant DEF Dispatch, Return, Sampled
<1>2. CASE call' = [call EXCEPT ![c].at = "finish",
                      ![c].terminal = IF Expired THEN Early("expired_before_effect", "none")
                                      ELSE Early("rejected", "dispatch_failed")]
           /\ UNCHANGED ledger /\ At(c) # "idle"
  <2>1. PICK t : t = IF Expired THEN Early("expired_before_effect", "none")
                     ELSE Early("rejected", "dispatch_failed")
    OBVIOUS
  <2>2. Backed(t, OpOf(c))
    BY <2>1, PlainTerminals, PlainIsBacked
  <2>3. call' = [call EXCEPT ![c].at = "finish", ![c].terminal = t]
    BY <1>2, <2>1
  <2> QED
    BY <1>2, <2>2, <2>3, CarryGrant
<1> QED
  BY <1>1, <1>2 DEF Dispatch, Return

(* An unknown effect gets its receipt.                                     *)
LEMMA DoubtGrant ==
  ASSUME TypeInv, TruthInv, GrantInv, [Next]_vars, NEW c \in Call, Doubt(c)
  PROVE  StepGrant(c)
<1>1. PICK context, t :
        /\ t = Unknown([EmptyReceipt(call[c].request, setup.platform, setup.isolation)
                          EXCEPT !.context = context])
        /\ call' = [call EXCEPT ![c].at = "finish_effect", ![c].terminal = t]
  BY DEF Doubt
<1>2. [EmptyReceipt(call[c].request, setup.platform, setup.isolation)
         EXCEPT !.context = context].effect = "unknown"
  BY DEF EmptyReceipt
<1>3. Backed(t, OpOf(c))
  BY <1>1, <1>2, PlainTerminals, PlainIsBacked
<1> QED
  BY <1>1, <1>3, CarryGrant DEF Doubt

(* context_preservation: the second sample shows what the call disturbed.  *)
LEMMA SampleAfterGrant ==
  ASSUME TypeInv, TruthInv, GrantInv, [Next]_vars, NEW c \in Call, SampleAfter(c)
  PROVE  StepGrant(c)
<1>1. /\ At(c) = "returned" /\ UNCHANGED <<setup, desk, ledger, effect>> /\ CallsType
      /\ call[c] \in CallRecord /\ desk.context \in Nat /\ call[c].sample \in Nat
  BY TypeParts, DeskTypes DEF SampleAfter, CallsType, CallRecord
<1>2. PICK context \in Preservation(c) :
        call' = [call EXCEPT ![c].at = "after", ![c].context = context]
  BY DEF SampleAfter
<1>3. /\ call'[c].at = "after" /\ call'[c].tool = call[c].tool /\ call'[c].told = call[c].told
      /\ call'[c].request = call[c].request /\ call'[c].context = context
  BY <1>1, <1>2 DEF CallsType, CallRecord
<1>4. PICK o, t : o \in Op /\ o = OpOf(c) /\ t = call'[c].terminal
  BY OpOfType
<1>5. OpOf(c)' = o /\ (Guarded(c)' <=> Guarded(c))
  BY <1>1, <1>3, <1>4 DEF OpOf, Guarded
<1>6. (Guarded(c) /\ context \notin {"changed", "unavailable"}) => ~effect[o].disturbed
  <2>1. Guarded(c) => /\ call[c].sample <= desk.context
                      /\ effect[o].disturbed => call[c].sample < desk.context
    BY <1>1, <1>4 DEF GrantInv, CallGrant, SampleInv, Sampled
  <2>2. (Guarded(c) /\ context \notin {"changed", "unavailable"}) =>
          desk.context = call[c].sample
    BY <1>2 DEF Preservation, Guarded
  <2> QED
    BY <1>1, <2>1, <2>2
<1>7. SampleInv(c)' /\ call'[c].at \notin Carrying /\ At(c) # "idle"
  BY <1>1, <1>3, <1>5, <1>6 DEF SampleInv, At, Sampled, Carrying
<1>8. CallGrant(c)'
  BY <1>3, <1>4, <1>7, MoveGrant
<1> QED
  BY <1>1, <1>8, SameLedger DEF StepGrant

(* The terminal of a dispatch that returned: it is a success only before   *)
(* the deadline and in an undisturbed context, and verified only when the  *)
(* second observation shows the value.                                     *)
LEMMA ConcludeGrant ==
  ASSUME TypeInv, TruthInv, GrantInv, [Next]_vars, NEW c \in Call, Conclude(c)
  PROVE  StepGrant(c)
<1> DEFINE request == call[c].request
           doubtful == Expired \/ call[c].context \in {"changed", "unavailable"}
           seen(after) == IF doubtful THEN "unknown" ELSE Verify(request, call[c].before, after)
           success(after) == /\ seen(after) # "unknown"
                             /\ request.verification = "none" \/ seen(after) = "verified"
           receipt(after) == [action |-> request.action,
                              route |-> (CHOOSE f \in ActionFacts(c) : TRUE).route,
                              isolation |-> setup.isolation, mode |-> request.mode,
                              context |-> call[c].context, effect |-> seen(after)]
<1>0. PICK after \in {desk.view, NoView} :
        \E t : /\ t = Terminal(IF success(after) THEN "succeeded" ELSE "outcome_unknown",
                             "none", receipt(after))
              /\ call' = [call EXCEPT ![c].at = "finish_effect", ![c].terminal = t]
  BY DEF Conclude
<1>1. PICK t :
        /\ t = Terminal(IF success(after) THEN "succeeded" ELSE "outcome_unknown", "none",
                        receipt(after))
        /\ call' = [call EXCEPT ![c].at = "finish_effect", ![c].terminal = t]
  BY <1>0
<1>2. PICK o \in Op : o = OpOf(c)
  BY OpOfType
<1>3. At(c) = "after" /\ UNCHANGED ledger /\ effect[o].landed /\ DeedInv(o) /\ SampleInv(c)
  BY <1>2 DEF Conclude, TruthInv, CallTruth, LabelTruth, GrantInv, CallGrant
<1>4. /\ t.kind = "succeeded" => ~doubtful
      /\ t.receipt.effect = "verified" => seen(after) = "verified"
      /\ t.receipt.mode = request.mode /\ t.receipt.isolation = setup.isolation
  BY <1>1 DEF Terminal
<1>5. ~doubtful => ~effect[o].late /\ (Guarded(c) => ~effect[o].disturbed)
  BY <1>2, <1>3 DEF Expired, DeedInv, SampleInv
<1>6. seen(after) = "verified" => effect[o].held
  <2>1. seen(after) = "verified" => after.value = "wanted" /\ after.face = "named"
    BY DEF Verify
  <2>2. NoView.value # "wanted"
    BY DEF NoView
  <2>3. seen(after) = "verified" => Holds(desk)
    BY <1>0, <1>1, <2>1, <2>2 DEF Holds
  <2> QED
    BY <1>3, <2>3 DEF DeedInv
<1>7. Backed(t, o)
  BY <1>3, <1>4, <1>5, <1>6 DEF Backed, Guarded
<1> QED
  BY <1>1, <1>2, <1>3, <1>7, CarryGrant

(* finish, for a dispatch without an effect.                               *)
LEMMA FinishNoEffectGrant ==
  ASSUME TypeInv, TruthInv, GrantInv, [Next]_vars, NEW c \in Call, FinishNoEffect(c)
  PROVE  StepGrant(c)
<1>1. At(c) = "finish"
  BY DEF FinishNoEffect
<1>2. PICK terminal \in Terminals : terminal = call[c].terminal
  BY <1>1 DEF TypeInv, CallType
<1>3. Backed(terminal, OpOf(c))
  BY <1>1, <1>2 DEF GrantInv, CallGrant, Carrying
<1> QED
  BY <1>1, <1>2, <1>3, SequenceTypes, FinishGrant DEF FinishNoEffect

(* finish_after_effect: what is written and told of a success is the       *)
(* success or an unknown outcome with its receipt.                         *)
LEMMA FinishEffectGrant ==
  ASSUME TypeInv, TruthInv, GrantInv, [Next]_vars, NEW c \in Call, FinishEffect(c)
  PROVE  StepGrant(c)
<1>1. PICK o \in Op : o = OpOf(c)
  BY OpOfType
<1>2. At(c) = "finish_effect" /\ ledger \in [Op -> Entry]
  BY DEF FinishEffect, TypeInv, TypeOK
<1>3. PICK told \in Terminals, weaker \in Terminals :
        told = call[c].terminal /\ weaker = PersistenceUnknown(told)
  BY <1>2, UnknownTypes DEF TypeInv, CallType
<1>4. Backed(told, o) /\ Backed(weaker, o)
  <2>1. Backed(told, o)
    BY <1>1, <1>2, <1>3 DEF GrantInv, CallGrant, Carrying
  <2>2. weaker = told \/ weaker = Unknown(told.receipt)
    BY <1>3 DEF PersistenceUnknown
  <2>3. /\ Unknown(told.receipt).kind = "outcome_unknown"
        /\ Unknown(told.receipt).receipt = told.receipt
    BY DEF Unknown, Terminal
  <2> QED
    BY <2>1, <2>2, <2>3 DEF Backed
<1>5. PICK written \in {ledger[o].terminal, told, weaker}, out \in {told, weaker} :
        /\ ledger' = [ledger EXCEPT ![o].terminal = written]
        /\ call' = [call EXCEPT ![c].at = "answer", ![c].terminal = out,
                                ![c].sequence = <<0, 1, 2>>]
  BY <1>1, <1>3 DEF FinishEffect
<1>6. ASSUME NEW p \in Op PROVE Backed(ledger[p].terminal, p)'
  <2>1. CASE p = o
    <3>1. ledger'[p].terminal = written
      BY <1>2, <1>5, <2>1 DEF Entry
    <3>2. written = ledger[p].terminal \/ Backed(written, p)
      BY <1>4, <2>1
    <3> QED
      BY <3>1, <3>2, LedgerBacked
  <2>2. CASE p # o
    <3>1. ledger'[p].terminal = ledger[p].terminal
      BY <1>2, <1>5, <2>2
    <3> QED
      BY <3>1, LedgerBacked
  <2> QED
    BY <2>1, <2>2
<1>7. out \in TerminalSet /\ Backed(out, o)'
  BY <1>4, TerminalTypes, BackedStays
<1>8. CallGrant(c)'
  BY <1>1, <1>2, <1>5, <1>7, SequenceTypes, ReadyGrant
<1> QED
  BY <1>6, <1>8 DEF StepGrant

(* Every step keeps the grants.                                            *)
LEMMA GrantKept ==
  TypeInv /\ AwaitInv /\ TruthInv /\ GrantInv /\ [Next]_vars => GrantInv'
<1> SUFFICES ASSUME TypeInv, AwaitInv, TruthInv, GrantInv, [Next]_vars PROVE GrantInv'
  OBVIOUS
<1>1. \A o \in Op : DeedInv(o)'
  BY DeedsGrow
<1>2. ASSUME NEW c \in Call, Begin(c) \/ Accept(c) \/ GiveUp(c) \/ Engine(c) PROVE GrantInv'
  <2>1. StepGrant(c)
    BY <1>2, BeginGrant, AcceptGrant, GiveUpGrant, CrashGrant, LockGrant, ReadGrant, EarlyGrant,
       DispatchGrant, DoubtGrant, SampleAfterGrant, ConcludeGrant, FinishNoEffectGrant,
       FinishEffectGrant DEF Engine
  <2>2. \A b \in Call \ {c} : CallGrant(b)'
    BY <1>2, OthersRest, OtherGrant
  <2> QED
    BY <1>1, <2>1, <2>2 DEF StepGrant, GrantInv
<1>3. ASSUME UNCHANGED <<call, ledger>> PROVE GrantInv'
  <2>1. \A b \in Call : CallGrant(b)'
    BY <1>3, OtherGrant
  <2>2. \A o \in Op : Backed(ledger[o].terminal, o)'
    BY <1>3, SameLedger
  <2> QED
    BY <1>1, <2>1, <2>2 DEF GrantInv
<1>4. (\E o \in Op : Land(o)) \/ Change \/ Tick \/ UNCHANGED vars => UNCHANGED <<call, ledger>>
  BY DEF Land, Change, Tick, vars
<1> QED
  BY <1>2, <1>3, <1>4 DEF Next

(* Nothing has been told, and the desktop has the old value.               *)
LEMMA GrantInit == Init => GrantInv
<1> SUFFICES ASSUME Init PROVE GrantInv
  OBVIOUS
<1>1. Backed(NoTerminal, 1) /\ (\A o : Backed(NoTerminal, o)) /\ ~Holds(desk)
  BY PlainTerminals, PlainIsBacked DEF Init, Holds
<1>2. ASSUME NEW o \in Op
      PROVE  /\ ledger[o].terminal = NoTerminal
             /\ ~effect[o].late /\ ~effect[o].disturbed /\ ~effect[o].flying
  <2>1. CASE ~setup.legacy
    BY <2>1 DEF Init, NoDeed, NoEntry
  <2>2. CASE setup.legacy
    <3>1. PICK r \in setup.requests, landed \in BOOLEAN :
            /\ ledger = [p \in Op |-> IF p = 1 THEN [NoEntry EXCEPT !.hash = r,
                                                                   !.claim = LegacyClaim]
                                      ELSE NoEntry]
            /\ effect = [p \in Op |-> IF p = 1 THEN [NoDeed EXCEPT !.landed = landed]
                                      ELSE NoDeed]
      BY <2>2 DEF Init
    <3> QED
      BY <3>1 DEF NoDeed, NoEntry
  <2> QED
    BY <2>1, <2>2
<1>3. ASSUME NEW c \in Call PROVE CallGrant(c)
  <2>1. call[c] = NoCall
    BY DEF Init
  <2>2. At(c) = "idle" /\ call[c].told.terminal = NoTerminal
    BY <2>1 DEF At, NoCall, Silence
  <2> QED
    BY <1>1, <2>2 DEF CallGrant, SampleInv, OrderInv, Sampled, Carrying
<1> QED
  BY <1>1, <1>2, <1>3 DEF GrantInv, DeedInv

(* A success is what was granted, for any number of calls: its effect came *)
(* before the deadline and the expiry of the grant, and in the background  *)
(* of a shared desktop it left the focus and the pointer alone (execute,   *)
(* context_preservation).                                                  *)
THEOREM SuccessesAreGranted == Spec => []SuccessIsGranted
<1>1. GrantInv => SuccessIsGranted
  BY DEF GrantInv, CallGrant, Backed, SuccessIsGranted
<1> QED
  BY <1>1, InitTypes, NextTypes, AwaitInit, AwaitKept, TruthInit, TruthKept, GrantInit,
     GrantKept, PTL DEF Spec

(* What was told as verified was there, and no action of a batch is begun  *)
(* before the one that it follows was (verify, execute_batch).             *)
THEOREM VerifiedWereSeen == Spec => []VerifiedWasSeen
<1>1. ASSUME TypeInv, TruthInv, GrantInv PROVE VerifiedWasSeen
  <2>1. \A c \in Call :
          call[c].told.terminal.receipt.effect = "verified" => effect[OpOf(c)].held
    BY <1>1 DEF GrantInv, CallGrant, Backed
  <2>2. ASSUME setup.client = "batch", NEW c \in Call \ {1},
               effect[c].flying \/ effect[c].landed
        PROVE  effect[c - 1].held
    <3>1. At(c) # "idle"
      BY <1>1, <2>2 DEF TruthInv, CallTruth, OwnTruth, Clean, IsPlugin, Plugin
    <3>2. c > 1
      BY BridgeAssumption DEF Call
    <3> QED
      BY <1>1, <2>2, <3>1, <3>2 DEF GrantInv, CallGrant, OrderInv
  <2> QED
    BY <2>1, <2>2 DEF VerifiedWasSeen
<1> QED
  BY <1>1, InitTypes, NextTypes, AwaitInit, AwaitKept, TruthInit, TruthKept, GrantInit,
     GrantKept, PTL DEF Spec

-----------------------------------------------------------------------------
(* Outcomes are told: what the plugins take                                *)

(* The two answers that no plugin takes (Exception).                       *)
Odd(t) ==
  \/ t.receipt.route = "per_process_event"
  \/ t.receipt.isolation = "unknown" /\ t.receipt.context = "not_applicable"

(* Whatever else a terminal says, the plugin takes it as the answer to the *)
(* request.                                                                *)
TakenBy(client, request, t) ==
  Odd(t) \/ (TakesAck(client, t) /\ ValidExecution(request, <<2>>, t))

(* What has no effect has no receipt to refuse.                            *)
LEMMA NoReceiptIsTaken ==
  ASSUME NEW client, NEW request
  PROVE  /\ \A kind, code : kind \in NoEffectKind => TakenBy(client, request, Early(kind, code))
         /\ TakenBy(client, request, NoTerminal)
BY DEF TakenBy, TakesAck, ValidExecution, HasReceipt, Early, NoTerminal, Terminal, NoEffectKind

(* The context that a receipt of the mode and the isolation has.           *)
ContextFits(mode, isolation, context) ==
  /\ mode = "interactive" => context = "not_applicable"
  /\ (mode = "background_only" /\ isolation = "host_isolated") => context = "host_isolated"
  /\ (mode = "background_only" /\ isolation = "shared_desktop") =>
       context \in {"unavailable", "unchanged_at_boundaries", "changed"}

(* A receipt for the request in a known isolation is taken, when a success *)
(* and a known effect come with an undisturbed context.                    *)
LEMMA ReceiptIsTaken ==
  ASSUME NEW client \in Plugin, NEW request \in Request, Proposes(client, request),
         NEW t, NEW r, r = t.receipt, t.kind \in {"succeeded", "outcome_unknown"},
         r.action = request.action, r.mode = request.mode,
         r.route = RouteOf(request.action),
         r.isolation \in {"shared_desktop", "host_isolated"},
         ContextFits(r.mode, r.isolation, r.context),
         (t.kind = "succeeded" \/ r.effect # "unknown")
           => r.context \notin {"unavailable", "changed"},
         t.kind = "succeeded" =>
           r.effect = IF request.action = "set_value" THEN "verified" ELSE "executed_unverified",
         (request.action # "set_value") => r.effect \in {"unknown", "executed_unverified"}
  PROVE  TakenBy(client, request, t)
<1>1. /\ request.action \in {"invoke", "set_value", "click"}
      /\ request.mode \in {"interactive", "background_only"}
      /\ request.verification = IF request.action = "set_value" THEN "value_hash" ELSE "none"
      /\ client = "openclaw" => request.action # "click"
      /\ client \in {"hermes", "openclaw"}
  BY DEF Proposes, HermesProposes, OpenClawProposes, Plugin
<1>2. ~SomeUnknown(r)
  BY <1>1 DEF SomeUnknown, RouteOf
<1>3. ValidReceiptContext(r, t.kind)
  BY <1>1, <1>2 DEF ValidReceiptContext, ContextFits
<1>4. client = "hermes" => HermesReceipt(r) /\ HermesEffect(r, t.kind)
  BY <1>1 DEF HermesReceipt, HermesEffect, ContextFits, RouteOf
<1>5. client = "openclaw" => OpenClawReceipt(r) /\ OpenClawEffect(r, t.kind)
  BY <1>1 DEF OpenClawReceipt, OpenClawEffect, RouteOf
<1>6. TakesAck(client, t)
  BY <1>1, <1>3, <1>4, <1>5 DEF TakesAck
<1>7. EffectFits(request, t)
  BY <1>1 DEF EffectFits
<1>8. ValidExecution(request, <<2>>, t)
  BY <1>7 DEF ValidExecution
<1> QED
  BY <1>6, <1>8 DEF TakenBy

(* What a plugin can find out about the claim of an older version, or of a *)
(* call in the background of a machine that does not know its isolation,   *)
(* it takes for any request.                                               *)
LEMMA RecoveryIsTaken ==
  ASSUME NEW client \in Plugin, NEW request, NEW t, NEW r, r = t.receipt,
         t.kind = "outcome_unknown", r.effect = "unknown", r.context = "unavailable",
         SomeUnknown(r), r.mode # "interactive",
         r.action \in {"invoke", "set_value", "unknown"},
         r.route \in {"target_addressed", "unknown"},
         r.isolation = "unknown"
  PROVE  TakenBy(client, request, t)
<1>1. IsRecoveryReceipt(r, t.kind)
  BY DEF IsRecoveryReceipt
<1>2. HermesReceipt(r) /\ OpenClawReceipt(r)
  BY DEF HermesReceipt, OpenClawReceipt
<1>3. TakesAck(client, t)
  BY <1>1, <1>2 DEF TakesAck, HermesEffect, OpenClawEffect, ValidReceiptContext
<1>4. ValidExecution(request, <<2>>, t)
  BY <1>1 DEF ValidExecution, EffectFits
<1> QED
  BY <1>3, <1>4 DEF TakenBy

(* The route of what a plugin may ask for is the one that it expects,      *)
(* except for a click on macOS.                                            *)
LEMMA ProposedRoute ==
  ASSUME NEW client \in Plugin, NEW request \in Request, Proposes(client, request),
         NEW platform \in Platform
  PROVE  /\ ClaimRoute(request, platform) = RequestRoute(request, platform)
         /\ RequestRoute(request, platform) \in {RouteOf(request.action), "per_process_event"}
         /\ request.action \in {"invoke", "set_value", "click"}
         /\ request.action = "click" => request.mode = "interactive"
         /\ request.mode \in {"interactive", "background_only"}
BY DEF Proposes, HermesProposes, OpenClawProposes, Plugin, ClaimRoute, RequestRoute, PointerRoute,
   RouteOf

(* An interrupted claim, as execute (RecoveredUnknown) and as status       *)
(* (InterruptedAck) find it.                                               *)
LEMMA InterruptedIsTaken ==
  ASSUME NEW client \in Plugin, NEW request \in Request, Proposes(client, request),
         NEW platform \in Platform, NEW isolation \in Isolation
  PROVE  /\ TakenBy(client, request,
                    RecoveredUnknown(request, platform, ClaimOf(request, platform, isolation)))
         /\ TakenBy(client, request, InterruptedAck(ClaimOf(request, platform, isolation)))
<1> DEFINE claim == ClaimOf(request, platform, isolation)
           context == RecoveredContext(request.mode, isolation)
           r == [action |-> request.action, route |-> RequestRoute(request, platform),
                 isolation |-> isolation, mode |-> request.mode, context |-> context,
                 effect |-> "unknown"]
<1>1. /\ claim.action = request.action /\ claim.mode = request.mode
      /\ claim.isolation = isolation /\ claim.route = RequestRoute(request, platform)
  BY ProposedRoute DEF ClaimOf
<1>2. InterruptedAck(claim) = Unknown(r)
  BY <1>1 DEF InterruptedAck
<1>3. RecoveredUnknown(request, platform, claim) = Unknown(r)
  <2>1. EmptyReceipt(request, platform, isolation) = r
    BY DEF EmptyReceipt
  <2>2. \A a, b, m : a = r.action /\ b = r.route /\ m = r.mode =>
          [r EXCEPT !.action = a, !.route = b, !.mode = m] = r
    OBVIOUS
  <2>3. /\ claim.action = r.action /\ claim.route = r.route /\ claim.mode = r.mode
        /\ claim.isolation = isolation
    BY <1>1
  <2> HIDE DEF r, claim
  <2>4. [r EXCEPT !.action = claim.action, !.route = claim.route, !.mode = claim.mode] = r
    BY <2>2, <2>3
  <2> QED
    BY <2>1, <2>3, <2>4 DEF RecoveredUnknown
<1>4. Unknown(r).kind = "outcome_unknown" /\ Unknown(r).receipt = r
  BY DEF Unknown, Terminal
<1>5. /\ r.action = request.action /\ r.mode = request.mode /\ r.isolation = isolation
      /\ r.route = RequestRoute(request, platform) /\ r.effect = "unknown"
      /\ r.context = context
  OBVIOUS
<1>6. isolation \in {"shared_desktop", "host_isolated", "unknown"}
  BY DEF Isolation
<1>7. /\ isolation # "unknown" => ContextFits(request.mode, isolation, context)
      /\ (isolation = "unknown" /\ request.mode = "interactive") => context = "not_applicable"
      /\ (isolation = "unknown" /\ request.mode # "interactive") => context = "unavailable"
  BY <1>6, ProposedRoute DEF ContextFits, RecoveredContext
<1> HIDE DEF r, context, claim
<1>8. TakenBy(client, request, Unknown(r))
  <2>1. CASE \/ r.route = "per_process_event"
             \/ isolation = "unknown" /\ request.mode = "interactive"
    BY <1>4, <1>5, <1>7, <2>1 DEF TakenBy, Odd
  <2>2. CASE isolation = "unknown" /\ request.mode # "interactive" /\ r.route # "per_process_event"
    <3>1. request.action \in {"invoke", "set_value"} /\ r.route = "target_addressed"
      BY <1>5, <2>2, ProposedRoute DEF RouteOf
    <3>2. SomeUnknown(r)
      BY <1>5, <2>2 DEF SomeUnknown
    <3> QED
      BY <1>4, <1>5, <1>7, <2>2, <3>1, <3>2, RecoveryIsTaken
  <2>3. CASE isolation # "unknown" /\ r.route # "per_process_event"
    <3>1. r.route = RouteOf(request.action)
      BY <1>5, <2>3, ProposedRoute
    <3> QED
      BY <1>4, <1>5, <1>6, <1>7, <2>3, <3>1, ReceiptIsTaken
  <2> QED
    BY <2>1, <2>2, <2>3
<1> QED
  BY <1>2, <1>3, <1>8 DEF claim

(* A claim of an older version says nothing but its operation.             *)
LEMMA LegacyIsTaken ==
  ASSUME NEW client \in Plugin, NEW request \in Request, NEW platform \in Platform
  PROVE  /\ Proposes(client, request) =>
              TakenBy(client, request, RecoveredUnknown(request, platform, LegacyClaim))
         /\ TakenBy(client, request, InterruptedAck(LegacyClaim))
<1>1. TakenBy(client, request, InterruptedAck(LegacyClaim))
  <2> DEFINE t == InterruptedAck(LegacyClaim)
             r == t.receipt
  <2>1. /\ t.kind = "outcome_unknown" /\ r.effect = "unknown" /\ r.context = "unavailable"
        /\ r.mode = "unknown" /\ r.action = "unknown" /\ r.route = "unknown"
        /\ r.isolation = "unknown"
    BY DEF InterruptedAck, LegacyClaim, Unknown, Terminal, RecoveredContext
  <2>2. SomeUnknown(r)
    BY <2>1 DEF SomeUnknown
  <2> HIDE DEF t
  <2>3. TakenBy(client, request, t)
    BY <2>1, <2>2, RecoveryIsTaken
  <2> QED
    BY <2>3 DEF t
<1>2. ASSUME Proposes(client, request)
      PROVE  TakenBy(client, request, RecoveredUnknown(request, platform, LegacyClaim))
  <2> DEFINE t == RecoveredUnknown(request, platform, LegacyClaim)
             r == t.receipt
  <2>1. /\ t.kind = "outcome_unknown" /\ r.effect = "unknown"
        /\ r.mode = "unknown" /\ r.action = "unknown" /\ r.route = "unknown"
        /\ r.isolation = "unknown"
        /\ r.context = RecoveredContext(request.mode, "unknown")
    BY DEF RecoveredUnknown, EmptyReceipt, LegacyClaim, Unknown, Terminal
  <2>2. r.context \in {"not_applicable", "unavailable"}
    BY <2>1 DEF RecoveredContext
  <2>3. SomeUnknown(r)
    BY <2>1 DEF SomeUnknown
  <2> HIDE DEF t
  <2>4. CASE r.context = "not_applicable"
    BY <2>1, <2>4 DEF TakenBy, Odd, t
  <2>5. CASE r.context = "unavailable"
    <3>1. TakenBy(client, request, t)
      BY <2>1, <2>3, <2>5, RecoveryIsTaken
    <3> QED
      BY <3>1 DEF t
  <2> QED
    BY <2>2, <2>4, <2>5
<1> QED
  BY <1>1, <1>2

(* A success that became unknown because it may not be durable is still    *)
(* taken.                                                                  *)
LEMMA WeakenedIsTaken ==
  ASSUME NEW client \in Plugin, NEW request \in Request, Proposes(client, request), NEW t,
         TakenBy(client, request, t)
  PROVE  TakenBy(client, request, PersistenceUnknown(t))
<1>1. CASE t.kind # "succeeded"
  BY <1>1 DEF PersistenceUnknown
<1>2. CASE t.kind = "succeeded" /\ ~Odd(t)
  <2> DEFINE r == t.receipt
             weaker == Unknown(r)
  <2>1. weaker.kind = "outcome_unknown" /\ weaker.receipt = r /\ PersistenceUnknown(t) = weaker
    BY <1>2 DEF PersistenceUnknown, Unknown, Terminal
  <2>2. TakesAck(client, t) /\ ValidExecution(request, <<2>>, t)
    BY <1>2 DEF TakenBy
  <2>3. /\ ValidReceiptContext(r, "succeeded") /\ EffectFits(request, t)
        /\ IF client = "hermes" THEN HermesReceipt(r) ELSE OpenClawReceipt(r)
        /\ r.action = request.action /\ r.route = RouteOf(request.action)
        /\ r.mode = request.mode
    BY <1>2, <2>2 DEF TakesAck, ValidExecution, HasReceipt, IsRecoveryReceipt
  <2>4. r.effect \in {"verified", "executed_unverified"}
    BY <1>2, <2>3 DEF EffectFits
  <2>5. ValidReceiptContext(r, "outcome_unknown")
    BY <2>3, <2>4 DEF ValidReceiptContext, IsRecoveryReceipt
  <2> HIDE DEF weaker
  <2>6. TakesAck(client, weaker)
    BY <2>1, <2>3, <2>5 DEF TakesAck, HermesEffect, OpenClawEffect
  <2>7. EffectFits(request, weaker)
    BY <1>2, <2>1, <2>3 DEF EffectFits
  <2>8. ValidExecution(request, <<2>>, weaker)
    BY <2>1, <2>3, <2>7 DEF ValidExecution
  <2> QED
    BY <2>1, <2>6, <2>8 DEF TakenBy
<1>3. CASE t.kind = "succeeded" /\ Odd(t)
  BY <1>3 DEF TakenBy, Odd, PersistenceUnknown, Unknown, Terminal
<1> QED
  BY <1>1, <1>2, <1>3

(* Every capability that is listed elsewhere than on macOS is known to the *)
(* plugins (the facts of _CAPABILITIES and capabilityFacts).               *)
LEMMA FactsAreTaken ==
  ASSUME NEW plugin \in Plugin, NEW platform \in Platform \ {"macos"}, NEW permitted \in BOOLEAN
  PROVE  TakesFacts(plugin, platform, Facts(platform, permitted))
BY DEF TakesFacts, Facts, LinuxFacts, NativeFacts, BrowserFacts, SemanticFacts, Fact, PointerRoute,
   HermesFact, OpenClawFact, Semantic, Platform

-----------------------------------------------------------------------------
(* Outcomes are told: the invariant                                        *)

(* What the ledger says of an operation is an answer to the request that   *)
(* was claimed.                                                            *)
EntryTaken(o) ==
  /\ ledger[o].hash # NoRequest =>
       \/ ledger[o].claim = LegacyClaim
       \/ /\ ledger[o].claim = ClaimOf(ledger[o].hash, setup.platform, setup.isolation)
          /\ Proposes(setup.client, ledger[o].hash)
  /\ TakenBy(setup.client, ledger[o].hash, ledger[o].terminal)

(* What a call carries is an answer to its own.                            *)
CallTaken(c) ==
  /\ (call[c].tool = "execute" /\ At(c) \notin {"idle", "done"}) =>
       Proposes(setup.client, call[c].request)
  /\ At(c) \in Claimed => ledger[OpOf(c)].hash = call[c].request
  /\ (call[c].tool = "execute" /\ At(c) \in Carrying) =>
       TakenBy(setup.client, call[c].request, call[c].terminal)
  /\ At(c) = "answer" => Odd(call[c].terminal) \/ TakesAck(setup.client, call[c].terminal)
  /\ At(c) = "after" => ContextFits(call[c].request.mode, setup.isolation, call[c].context)

(* Only an exception keeps an answer from the model.                       *)
ToldTaken(c) ==
  call[c].told.code = "praefectus_error" => At(c) = "done" /\ Exception(c)

TakenInv ==
  /\ IsPlugin => (\A o \in Op : EntryTaken(o)) /\ (\A c \in Call : CallTaken(c))
  /\ \A c \in Call : ToldTaken(c)

-----------------------------------------------------------------------------
(* What a step leaves as it was                                            *)

(* A step of another call leaves what this one carries and has told.       *)
LEMMA OtherTaken ==
  ASSUME TakenInv, [Next]_vars, NEW b \in Call, call'[b] = call[b],
         At(b) \in Locked => ledger' = ledger
  PROVE  (IsPlugin => CallTaken(b)') /\ ToldTaken(b)'
<1>1. /\ setup' = setup /\ At(b)' = At(b) /\ OpOf(b)' = OpOf(b)
      /\ (IsPlugin => CallTaken(b)) /\ ToldTaken(b)
  BY StepsKeepSetup DEF At, OpOf, TakenInv
<1>2. ToldTaken(b)'
  BY <1>1 DEF ToldTaken, Exception
<1>3. ASSUME IsPlugin PROVE CallTaken(b)'
  BY <1>1, <1>3 DEF CallTaken, Locked
<1> QED
  BY <1>2, <1>3

(* So does a step that does not write its entry with the entry.            *)
LEMMA EntryStays ==
  ASSUME TakenInv, [Next]_vars, IsPlugin, NEW o \in Op, ledger'[o] = ledger[o]
  PROVE  EntryTaken(o)'
BY StepsKeepSetup DEF TakenInv, EntryTaken

(* A terminal that answers what was claimed.                               *)
LEMMA EntryWritten ==
  ASSUME TakenInv, [Next]_vars, IsPlugin, NEW o \in Op, NEW t, ledger'[o].terminal = t,
         ledger'[o].hash = ledger[o].hash, ledger'[o].claim = ledger[o].claim,
         TakenBy(setup.client, ledger[o].hash, t)
  PROVE  EntryTaken(o)'
BY StepsKeepSetup DEF TakenInv, EntryTaken

(* What a step of a call leaves of it and in the ledger.                   *)
StepTaken(c) ==
  /\ IsPlugin => CallTaken(c)' /\ \A o \in Op : EntryTaken(o)'
  /\ ToldTaken(c)'

(* A call that moves on without an answer.                                 *)
LEMMA MoveTaken ==
  ASSUME TakenInv, [Next]_vars, NEW c \in Call, At(c) \notin {"idle", "done"},
         call'[c].tool = call[c].tool, call'[c].request = call[c].request,
         call'[c].told = call[c].told,
         NEW t, t = call'[c].terminal,
         call'[c].at \in Claimed => ledger'[OpOf(c)].hash = call[c].request,
         (IsPlugin /\ call[c].tool = "execute" /\ call'[c].at \in Carrying) =>
           TakenBy(setup.client, call[c].request, t),
         (IsPlugin /\ call'[c].at = "answer") => Odd(t) \/ TakesAck(setup.client, t),
         call'[c].at = "after" =>
           ContextFits(call[c].request.mode, setup.isolation, call'[c].context)
  PROVE  (IsPlugin => CallTaken(c)') /\ ToldTaken(c)'
<1>1. setup' = setup /\ (IsPlugin => CallTaken(c)) /\ ToldTaken(c)
  BY StepsKeepSetup DEF TakenInv
<1>2. OpOf(c)' = OpOf(c)
  BY <1>1 DEF OpOf
<1>3. ToldTaken(c)'
  BY <1>1 DEF ToldTaken
<1>4. ASSUME IsPlugin PROVE CallTaken(c)'
  BY <1>1, <1>2, <1>4 DEF CallTaken, At
<1> QED
  BY <1>3, <1>4

(* What stays of a call that ends.                                         *)
LEMMA AnswerLeaves ==
  ASSUME CallsType, NEW c \in Call, NEW told \in Told, Answer(c, told)
  PROVE  call'[c].terminal = IF told.code = "praefectus_error" THEN call[c].terminal
                             ELSE NoTerminal
<1> DEFINE left == IF told.code = "praefectus_error" THEN call[c].terminal ELSE NoTerminal
           out == IF call[c].told = Silence THEN told ELSE call[c].told
           r == [NoCall EXCEPT !.at = "done", !.tool = call[c].tool,
                   !.request = call[c].request, !.terminal = left, !.told = out]
<1>1. call' = [call EXCEPT ![c] = r]
  BY DEF Answer
<1>2. r.terminal = left
  <2> HIDE DEF left, out
  <2> QED
    BY DEF NoCall
<1> QED
  BY <1>1, <1>2 DEF CallsType

(* A call that ends, with an answer that no plugin refused or with one     *)
(* that is an exception.                                                   *)
LEMMA AnswerTaken ==
  ASSUME TypeInv, TakenInv, [Next]_vars, NEW c \in Call, NEW told \in Told, Answer(c, told),
         At(c) # "done",
         told.code = "praefectus_error" => Exception(c)
  PROVE  (IsPlugin => CallTaken(c)') /\ ToldTaken(c)'
<1>1. CallsType /\ setup' = setup /\ ToldTaken(c)
  BY TypeParts, StepsKeepSetup DEF TakenInv
<1>2. /\ call'[c].at = "done" /\ call'[c].tool = call[c].tool
      /\ call'[c].told = IF call[c].told = Silence THEN told ELSE call[c].told
      /\ call'[c].terminal = IF told.code = "praefectus_error" THEN call[c].terminal
                             ELSE NoTerminal
  BY <1>1, AnswerTypes, AnswerLeaves
<1>3. call[c].told.code # "praefectus_error"
  BY <1>1 DEF ToldTaken
<1>4. ToldTaken(c)'
  BY <1>1, <1>2, <1>3 DEF ToldTaken, Exception, At
<1>5. CallTaken(c)'
  BY <1>2 DEF CallTaken, At, Claimed, Carrying
<1> QED
  BY <1>4, <1>5

(* Only a plugin that read an answer refuses one.                          *)
LEMMA FailureIsNoRefusal ==
  \A c \in Call : /\ Failure(c).code # "praefectus_error"
                  /\ Error(c, "host_executor_unavailable").code # "praefectus_error"
                  /\ Silence.code # "praefectus_error"
                  /\ Refusal("invalid_request").code # "praefectus_error"
BY DEF Failure, Error, Refusal, Silence

(* The engine returns an error, or its process ends.                       *)
LEMMA AbortTaken ==
  ASSUME TypeInv, TakenInv, [Next]_vars, NEW c \in Call, At(c) # "done",
         Abort(c, Failure(c)) \/ Abort(c, Silence)
  PROVE  (IsPlugin => CallTaken(c)') /\ ToldTaken(c)'
BY ToldTypes, SilenceType, FailureIsNoRefusal, AnswerTaken DEF Abort

(* The ledger answers what was claimed as long as nobody writes it.        *)
LEMMA QuietTaken ==
  ASSUME TakenInv, [Next]_vars, NEW c \in Call, UNCHANGED ledger,
         (IsPlugin => CallTaken(c)') /\ ToldTaken(c)'
  PROVE  StepTaken(c)
BY EntryStays DEF StepTaken

(* A call whose answer is ready.                                           *)
LEMMA ReadyTaken ==
  ASSUME TypeInv, TakenInv, [Next]_vars, NEW c \in Call, At(c) \notin {"idle", "done"},
         NEW terminal \in TerminalSet, NEW sequence \in Sequences,
         call' = [call EXCEPT ![c].at = "answer", ![c].terminal = terminal,
                              ![c].sequence = sequence],
         (IsPlugin /\ call[c].tool = "execute") =>
           TakenBy(setup.client, call[c].request, terminal),
         IsPlugin => Odd(terminal) \/ TakesAck(setup.client, terminal)
  PROVE  (IsPlugin => CallTaken(c)') /\ ToldTaken(c)'
<1>1. CallsType
  BY TypeParts
<1>2. /\ call'[c].at = "answer" /\ call'[c].tool = call[c].tool
      /\ call'[c].request = call[c].request
      /\ call'[c].terminal = terminal /\ call'[c].told = call[c].told
  BY <1>1, ReadyTypes
<1> QED
  BY <1>2, MoveTaken DEF Claimed

(* finish, of a terminal that answers what was claimed.                    *)
LEMMA FinishTaken ==
  ASSUME TypeInv, TakenInv, [Next]_vars, NEW c \in Call, At(c) \notin {"idle", "done"},
         NEW terminal \in Terminals, NEW sequence \in Sequences, Finish(c, terminal, sequence),
         IsPlugin => TakenBy(setup.client, ledger[OpOf(c)].hash, terminal),
         (IsPlugin /\ call[c].tool = "execute") =>
           TakenBy(setup.client, call[c].request, terminal)
  PROVE  StepTaken(c)
<1>1. ASSUME IsPlugin, NEW o \in Op PROVE EntryTaken(o)'
  BY <1>1, FinishWrites, EntryStays, EntryWritten
<1>2. terminal \in TerminalSet /\ (IsPlugin => Odd(terminal) \/ TakesAck(setup.client, terminal))
  BY TerminalTypes DEF TakenBy
<1>3. CASE call' = [call EXCEPT ![c].at = "answer", ![c].terminal = terminal,
                                ![c].sequence = sequence]
  BY <1>1, <1>2, <1>3, ReadyTaken DEF StepTaken
<1>4. CASE Abort(c, Failure(c))
  BY <1>1, <1>4, AbortTaken DEF StepTaken
<1> QED
  BY <1>3, <1>4 DEF Finish

-----------------------------------------------------------------------------
(* Outcomes are told: the steps                                            *)

(* A tool call, a command or an action of a batch begins.                  *)
LEMMA BeginTaken ==
  ASSUME TypeInv, AwaitInv, TakenInv, [Next]_vars, NEW c \in Call, Begin(c)
  PROVE  StepTaken(c)
<1>1. /\ CallsType /\ UNCHANGED <<setup, ledger>> /\ At(c) = "idle"
      /\ call[c].told = Silence /\ call[c] \in CallRecord
  BY TypeParts DEF Begin, AwaitInv, Waits, CallsType
<1>2. ASSUME call'[c].at \in {"gate", "lock", "done"},
             (IsPlugin /\ call'[c].tool = "execute" /\ call'[c].at # "done") =>
               Proposes(setup.client, call'[c].request),
             call'[c].told.code = "praefectus_error" =>
               /\ call'[c].at = "done" /\ call'[c].tool = "capabilities"
               /\ setup.platform = "macos"
      PROVE  StepTaken(c)
  <2>1. IsPlugin => CallTaken(c)'
    BY <1>1, <1>2 DEF CallTaken, At, Claimed, Carrying
  <2>2. ToldTaken(c)'
    BY <1>1, <1>2 DEF ToldTaken, Exception, At
  <2> QED
    BY <1>1, <2>1, <2>2, QuietTaken
<1>3. ASSUME NEW s \in setup.requests,
             LET request == IF setup.client = "cli" THEN CliRequest(s) ELSE s IN
             call' = [call EXCEPT ![c] = [NoCall EXCEPT
                        !.tool = "execute", !.request = request,
                        !.at = IF Proposes(setup.client, request) THEN "gate" ELSE "done",
                        !.told = IF Proposes(setup.client, request) THEN Silence
                                 ELSE Refusal("invalid_request")]]
      PROVE  StepTaken(c)
  <2> DEFINE request == IF setup.client = "cli" THEN CliRequest(s) ELSE s
             pc == IF Proposes(setup.client, request) THEN "gate" ELSE "done"
             told == IF Proposes(setup.client, request) THEN Silence
                     ELSE Refusal("invalid_request")
  <2>1. /\ pc \in {"gate", "done"} /\ told.code # "praefectus_error"
        /\ pc # "done" => Proposes(setup.client, request)
    BY FailureIsNoRefusal
  <2>2. call' = [call EXCEPT ![c] = [NoCall EXCEPT !.tool = "execute",
                    !.request = request, !.at = pc, !.told = told]]
    BY <1>3
  <2> HIDE DEF request, pc, told
  <2>3. /\ call'[c].at = pc /\ call'[c].told = told /\ call'[c].tool = "execute"
        /\ call'[c].request = request
    BY <1>1, <2>2 DEF CallsType, NoCall
  <2> QED
    BY <1>2, <2>1, <2>3
<1>4. CASE call' = [call EXCEPT ![c].tool = "status", ![c].at = "lock"]
  <2>1. call'[c].at = "lock" /\ call'[c].told = Silence /\ call'[c].tool = "status"
    BY <1>1, <1>4 DEF CallsType, CallRecord
  <2> QED
    BY <1>2, <2>1, FailureIsNoRefusal
<1>5. ASSUME NEW failed \in BOOLEAN,
             call' = [call EXCEPT ![c].tool = "capabilities", ![c].at = "done",
                                  ![c].told = ShownFacts(failed)]
      PROVE  StepTaken(c)
  <2> DEFINE told == ShownFacts(failed)
  <2>1. told.code = "praefectus_error" => setup.platform = "macos"
    <3>1. (IsPlugin /\ setup.platform # "macos") =>
            TakesFacts(setup.client, setup.platform, Facts(setup.platform, setup.permitted))
      BY SetupTypes, FactsAreTaken DEF IsPlugin
    <3> QED
      BY <3>1 DEF ShownFacts, Silence
  <2> HIDE DEF told
  <2>2. call'[c].at = "done" /\ call'[c].told = told /\ call'[c].tool = "capabilities"
    BY <1>1, <1>5 DEF CallsType, CallRecord, told
  <2> QED
    BY <1>2, <2>1, <2>2
<1> QED
  BY <1>3, <1>4, <1>5 DEF Begin

(* A plugin refuses what it could read only when it is an exception.       *)
LEMMA AcceptTaken ==
  ASSUME TypeInv, TakenInv, [Next]_vars, NEW c \in Call, Accept(c)
  PROVE  StepTaken(c)
<1>1. At(c) = "answer" /\ UNCHANGED ledger
  BY DEF Accept
<1>2. PICK told \in Told : told = IF IsPlugin THEN Judge(c) ELSE Show(c)
  BY ToldTypes
<1>3. told.code = "praefectus_error" => Exception(c)
  <2> SUFFICES ASSUME told.code = "praefectus_error", ~Odd(call[c].terminal) PROVE FALSE
    BY DEF Exception, Odd
  <2>1. IsPlugin /\ told = Judge(c)
    BY <1>2 DEF Show, Silence
  <2>2. CallTaken(c)
    BY <2>1 DEF TakenInv
  <2>3. TakesAck(setup.client, call[c].terminal)
    BY <1>1, <2>2 DEF CallTaken
  <2>4. call[c].tool = "execute" => ValidExecution(call[c].request, <<2>>, call[c].terminal)
    BY <1>1, <2>2 DEF CallTaken, TakenBy, Carrying
  <2>5. call[c].sequence \in Sequences
    BY DEF TypeInv, TypeOK, CallRecord
  <2>6. call[c].sequence # <<>> =>
          call[c].sequence \in {<<2>>, <<0, 2>>, <<1, 2>>, <<0, 1, 2>>}
    BY <2>5 DEF Sequences
  <2>7. (call[c].sequence # <<>> /\ call[c].tool = "execute") =>
          ValidExecution(call[c].request, call[c].sequence, call[c].terminal)
    BY <2>4, <2>6 DEF ValidExecution
  <2>8. Judge(c).code = "none"
    BY <2>3, <2>7 DEF Judge, Silence
  <2> QED
    BY <2>1, <2>8
<1> QED
  BY <1>1, <1>2, <1>3, AnswerTaken, QuietTaken DEF Accept

(* A plugin's timer fires.                                                 *)
LEMMA GiveUpTaken ==
  ASSUME TypeInv, TakenInv, [Next]_vars, NEW c \in Call, GiveUp(c)
  PROVE  StepTaken(c)
<1>1. /\ At(c) \notin {"idle", "done"} /\ UNCHANGED <<setup, ledger>> /\ CallsType
      /\ (IsPlugin => CallTaken(c))
  BY TypeParts DEF GiveUp, TakenInv
<1>2. PICK told \in Told : told = Error(c, "host_executor_unavailable")
  BY ToldTypes
<1>3. told.code # "praefectus_error"
  BY <1>2, FailureIsNoRefusal
<1>4. CASE Answer(c, told)
  BY <1>1, <1>3, <1>4, AnswerTaken, QuietTaken
<1>5. CASE call' = [call EXCEPT ![c].told = told]
  <2>1. call[c] \in CallRecord
    BY <1>1 DEF CallsType
  <2>2. /\ call'[c].at = call[c].at /\ call'[c].tool = call[c].tool
        /\ call'[c].terminal = call[c].terminal
        /\ call'[c].context = call[c].context /\ call'[c].request = call[c].request
        /\ call'[c].told = told
    BY <1>1, <1>5, <2>1 DEF CallsType, CallRecord
  <2>3. OpOf(c)' = OpOf(c) /\ At(c)' = At(c)
    BY <1>1, <2>2 DEF OpOf, At
  <2>4. (IsPlugin => CallTaken(c)') /\ ToldTaken(c)'
    BY <1>1, <1>3, <2>2, <2>3 DEF CallTaken, ToldTaken
  <2> QED
    BY <1>1, <2>4, QuietTaken
<1> QED
  BY <1>2, <1>4, <1>5 DEF GiveUp

(* The process of the engine is killed.                                    *)
LEMMA CrashTaken ==
  ASSUME TypeInv, TakenInv, [Next]_vars, NEW c \in Call, Crash(c)
  PROVE  StepTaken(c)
<1>1. /\ At(c) # "done" /\ UNCHANGED ledger
      /\ Abort(c, Failure(c)) \/ Abort(c, Silence)
  BY DEF Crash, InEngine
<1> QED
  BY <1>1, AbortTaken, QuietTaken

(* A call that goes to another label and has no answer yet.                *)
LEMMA GotoTaken ==
  ASSUME TypeInv, TakenInv, [Next]_vars, NEW c \in Call, At(c) \notin {"idle", "done"},
         NEW pc \in {"lock", "read", "prepare", "executing", "uncertain", "returned"},
         Goto(c, pc), pc \in Claimed => ledger'[OpOf(c)].hash = call[c].request
  PROVE  (IsPlugin => CallTaken(c)') /\ ToldTaken(c)'
<1>1. CallsType /\ pc \in ProgramCounter
  BY TypeParts DEF ProgramCounter
<1>2. /\ call'[c].at = pc /\ call'[c].tool = call[c].tool
      /\ call'[c].request = call[c].request /\ call'[c].told = call[c].told
  BY <1>1, GotoTypes
<1>3. PICK t : t = call'[c].terminal
  OBVIOUS
<1>4. call'[c].at \notin Carrying /\ call'[c].at # "after"
  BY <1>2 DEF Carrying
<1>5. call'[c].at # "answer"
  BY <1>2
<1> QED
  BY <1>2, <1>3, <1>4, <1>5, MoveTaken

(* validate_request and the verifier, and the execution lock.              *)
LEMMA LockTaken ==
  ASSUME TypeInv, TakenInv, [Next]_vars, NEW c \in Call, Gate(c) \/ Lock(c)
  PROVE  StepTaken(c)
<1>1. /\ At(c) \notin {"idle", "done"} /\ UNCHANGED ledger
      /\ \/ \E pc \in {"lock", "read"} : Goto(c, pc)
         \/ Abort(c, Failure(c))
  BY DEF Gate, Lock
<1>2. ASSUME NEW pc \in {"lock", "read"}, Goto(c, pc) PROVE StepTaken(c)
  BY <1>1, <1>2, GotoTaken, QuietTaken DEF Claimed
<1> QED
  BY <1>1, <1>2, AbortTaken, QuietTaken

(* What execute and status find in the ledger.                             *)
LEMMA ReadTaken ==
  ASSUME TypeInv, TakenInv, [Next]_vars, NEW c \in Call, Read(c)
  PROVE  StepTaken(c)
<1> DEFINE entry == ledger[OpOf(c)]
           execute == call[c].tool = "execute"
<1>1. PICK o \in Op : o = OpOf(c)
  BY OpOfType
<1>2. /\ At(c) = "read" /\ entry \in Entry /\ EntryType(entry) /\ ledger \in [Op -> Entry]
      /\ setup' = setup /\ (execute => call[c].request \in Request)
      /\ setup.platform \in Platform /\ setup.isolation \in Isolation
  BY <1>1, TypeParts, SetupTypes DEF Read, LedgerType, TypeInv, CallType, InEngine
<1>a. IsPlugin => /\ setup.client \in Plugin /\ EntryTaken(o)
                  /\ execute => Proposes(setup.client, call[c].request)
  BY <1>2 DEF TakenInv, CallTaken, IsPlugin
<1>3. CASE Abort(c, Failure(c)) /\ UNCHANGED ledger
  BY <1>2, <1>3, AbortTaken, QuietTaken
<1>4. CASE execute /\ entry = NoEntry /\ Claim(c)
  <2> DEFINE claimed == [NoEntry EXCEPT !.hash = call[c].request,
                                        !.claim = ClaimOf(call[c].request, setup.platform,
                                                          setup.isolation)]
  <2>1. /\ claimed.hash = call[c].request /\ claimed.terminal = NoTerminal
        /\ claimed.claim = ClaimOf(call[c].request, setup.platform, setup.isolation)
    BY DEF NoEntry
  <2> HIDE DEF claimed
  <2>2. ASSUME NEW written \in {ledger[o], claimed}, ledger' = [ledger EXCEPT ![o] = written],
               IsPlugin, NEW p \in Op
        PROVE  EntryTaken(p)'
    <3>1. CASE ledger'[p] = ledger[p]
      BY <2>2, <3>1, EntryStays
    <3>2. CASE p = o /\ written = claimed
      <4>1. ledger'[p] = claimed
        BY <1>2, <2>2, <3>2
      <4>2. TakenBy(setup.client, call[c].request, NoTerminal)
        BY NoReceiptIsTaken
      <4> QED
        BY <1>2, <1>4, <1>a, <2>1, <2>2, <4>1, <4>2 DEF EntryTaken
    <3> QED
      BY <1>2, <2>2, <3>1, <3>2
  <2>3. CASE ledger' = [ledger EXCEPT ![o] = claimed] /\ Goto(c, "prepare")
    <3>1. ledger'[OpOf(c)].hash = call[c].request
      BY <1>1, <1>2, <2>1, <2>3
    <3> QED
      BY <1>2, <2>2, <2>3, <3>1, GotoTaken DEF StepTaken
  <2>4. ASSUME NEW written \in {ledger[o], claimed}, ledger' = [ledger EXCEPT ![o] = written],
               Abort(c, Failure(c))
        PROVE  StepTaken(c)
    BY <1>2, <2>2, <2>4, AbortTaken DEF StepTaken
  <2> QED
    BY <1>1, <1>4, <2>3, <2>4 DEF Claim, claimed
<1>5. ASSUME NEW terminal \in TerminalSet, Replay(c, terminal),
             IsPlugin => Odd(terminal) \/ TakesAck(setup.client, terminal),
             (IsPlugin /\ execute) => TakenBy(setup.client, call[c].request, terminal)
      PROVE  StepTaken(c)
  <2>1. PICK sequence \in Sequences :
          sequence = IF terminal = NoTerminal THEN <<>> ELSE <<2>>
    BY SequenceTypes
  <2>2. call' = [call EXCEPT ![c].at = "answer", ![c].terminal = terminal,
                             ![c].sequence = sequence]
    BY <1>5, <2>1 DEF Replay
  <2>3. (IsPlugin => CallTaken(c)') /\ ToldTaken(c)'
    BY <1>2, <1>5, <2>2, ReadyTaken
  <2> QED
    BY <1>5, <2>3, QuietTaken DEF Replay
<1>6. CASE Replay(c, entry.terminal) /\ (execute => entry.hash = call[c].request)
  <2>1. PICK terminal \in TerminalSet : terminal = entry.terminal
    BY <1>2 DEF Entry
  <2>2. IsPlugin => TakenBy(setup.client, entry.hash, terminal)
    BY <1>1, <1>a, <2>1 DEF EntryTaken
  <2>3. IsPlugin => Odd(terminal) \/ TakesAck(setup.client, terminal)
    BY <2>2 DEF TakenBy
  <2> QED
    BY <1>5, <1>6, <2>1, <2>2, <2>3
<1>7. CASE ~execute /\ Replay(c, NoTerminal)
  <2>1. TakenBy(setup.client, call[c].request, NoTerminal)
    BY NoReceiptIsTaken
  <2> QED
    BY <1>5, <1>7, <2>1, TerminalTypes DEF TakenBy
<1>8. CASE /\ entry # NoEntry /\ entry.terminal = NoTerminal
           /\ execute => entry.hash = call[c].request
           /\ Finish(c, IF execute
                        THEN RecoveredUnknown(call[c].request, setup.platform, entry.claim)
                        ELSE InterruptedAck(entry.claim), <<2>>)
  <2>1. entry.hash \in Request /\ entry.claim \in Claims /\ NoRequest \notin Request
    BY <1>2, <1>8 DEF EntryType, Entry, NoEntry, NoRequest, Request, Action
  <2>2. PICK terminal \in Terminals :
          terminal = IF execute
                     THEN RecoveredUnknown(call[c].request, setup.platform, entry.claim)
                     ELSE InterruptedAck(entry.claim)
    BY <1>8, <2>1, SetupTypes, RecoveredTypes
  <2>3. IsPlugin =>
          \/ entry.claim = LegacyClaim
          \/ /\ entry.claim = ClaimOf(entry.hash, setup.platform, setup.isolation)
             /\ Proposes(setup.client, entry.hash)
    BY <1>1, <1>a, <2>1 DEF EntryTaken
  <2>4. IsPlugin => TakenBy(setup.client, entry.hash, terminal)
    BY <1>2, <1>8, <1>a, <2>1, <2>2, <2>3, InterruptedIsTaken, LegacyIsTaken
  <2>5. (IsPlugin /\ execute) => TakenBy(setup.client, call[c].request, terminal)
    BY <1>8, <2>4
  <2>6. Finish(c, terminal, <<2>>)
    BY <1>8, <2>2
  <2> QED
    BY <1>2, <2>4, <2>5, <2>6, SequenceTypes, FinishTaken
<1> QED
  BY <1>3, <1>4, <1>6, <1>7, <1>8 DEF Read

(* A call behind the claim answers what it claimed.                        *)
LEMMA ClaimedIsOwn ==
  ASSUME TypeInv, TakenInv, NEW c \in Call, At(c) \in Claimed
  PROVE  /\ call[c].tool = "execute" /\ call[c].request \in Request
         /\ IsPlugin => /\ ledger[OpOf(c)].hash = call[c].request
                        /\ Proposes(setup.client, call[c].request) /\ setup.client \in Plugin
                        /\ At(c) \in Carrying =>
                             TakenBy(setup.client, call[c].request, call[c].terminal)
<1>1. call[c].tool = "execute" /\ InEngine(c)
  BY DEF TypeInv, CallType, Claimed, Granted, Prepared, InEngine
<1> QED
  BY <1>1 DEF TypeInv, CallType, TakenInv, CallTaken, Claimed, IsPlugin

(* A call behind the claim that goes on and leaves the ledger alone.       *)
LEMMA WorkTaken ==
  ASSUME TypeInv, TakenInv, [Next]_vars, NEW c \in Call, At(c) \in Claimed, IsPlugin =>
           ledger[OpOf(c)].hash = call[c].request,
         UNCHANGED ledger, call'[c].tool = call[c].tool, call'[c].request = call[c].request,
         call'[c].told = call[c].told, NEW t, t = call'[c].terminal,
         call'[c].at # "answer",
         (IsPlugin /\ call'[c].at \in Carrying) => TakenBy(setup.client, call[c].request, t),
         call'[c].at = "after" =>
           ContextFits(call[c].request.mode, setup.isolation, call'[c].context)
  PROVE  StepTaken(c)
<1>1. setup' = setup /\ (IsPlugin => CallTaken(c)) /\ ToldTaken(c) /\ At(c) \notin {"idle", "done"}
  BY StepsKeepSetup DEF TakenInv, Claimed
<1>2. OpOf(c)' = OpOf(c)
  BY <1>1 DEF OpOf
<1>3. ToldTaken(c)'
  BY <1>1 DEF ToldTaken
<1>4. ASSUME IsPlugin PROVE CallTaken(c)'
  BY <1>1, <1>2, <1>4 DEF CallTaken, At
<1> QED
  BY <1>3, <1>4, QuietTaken

(* execute from the claim to its first observation, and context_before.    *)
LEMMA EarlyTaken ==
  ASSUME TypeInv, TakenInv, [Next]_vars, NEW c \in Call, Prepare(c) \/ SampleBefore(c)
  PROVE  StepTaken(c)
<1>1. /\ At(c) \in {"prepare", "context"} /\ At(c) \in Claimed
      /\ CallsType /\ call[c] \in CallRecord
  BY TypeParts DEF Prepare, SampleBefore, CallsType, Claimed
<1>2. ASSUME NEW kind \in NoEffectKind, NEW code \in Code, FinishEarly(c, kind, code)
      PROVE  StepTaken(c)
  <2>1. Early(kind, code) \in Terminals
    BY EarlyTypes DEF Kind
  <2>2. \A r : TakenBy(setup.client, r, Early(kind, code))
    BY NoReceiptIsTaken
  <2> QED
    BY <1>1, <1>2, <2>1, <2>2, SequenceTypes, FinishTaken DEF FinishEarly
<1>3. ASSUME call'[c].at \in {"context", "dispatch"}, call'[c].tool = call[c].tool,
             call'[c].told = call[c].told, call'[c].request = call[c].request, UNCHANGED ledger
      PROVE  StepTaken(c)
  <2>1. PICK t : t = call'[c].terminal
    OBVIOUS
  <2>2. call'[c].at \notin Carrying /\ call'[c].at # "after" /\ call'[c].at # "answer"
    BY <1>3 DEF Carrying
  <2> QED
    BY <1>1, <1>3, <2>1, <2>2, ClaimedIsOwn, WorkTaken
<1>4. ASSUME call' = [call EXCEPT ![c].at = "context", ![c].before = desk.view],
             UNCHANGED ledger
      PROVE  StepTaken(c)
  <2>1. /\ call'[c].at = "context" /\ call'[c].tool = call[c].tool
        /\ call'[c].told = call[c].told /\ call'[c].request = call[c].request
    BY <1>1, <1>4 DEF CallsType, CallRecord
  <2> QED
    BY <1>3, <1>4, <2>1
<1>5. ASSUME call' = [call EXCEPT ![c].at = "dispatch",
                        ![c].sample = IF Guarded(c) THEN desk.context ELSE 0],
             UNCHANGED ledger
      PROVE  StepTaken(c)
  <2>1. PICK sample : sample = IF Guarded(c) THEN desk.context ELSE 0
    OBVIOUS
  <2>2. call' = [call EXCEPT ![c].at = "dispatch", ![c].sample = sample]
    BY <1>5, <2>1
  <2>3. /\ call'[c].at = "dispatch" /\ call'[c].tool = call[c].tool
        /\ call'[c].told = call[c].told /\ call'[c].request = call[c].request
    BY <1>1, <2>2 DEF CallsType, CallRecord
  <2> QED
    BY <1>3, <1>5, <2>3
<1>6. CASE Prepare(c)
  BY <1>2, <1>4, <1>6 DEF Prepare, NoEffectKind, Code
<1>7. CASE SampleBefore(c)
  BY <1>2, <1>5, <1>7 DEF SampleBefore, NoEffectKind, Code
<1> QED
  BY <1>6, <1>7

(* A call that goes to the ledger with a terminal that answers it.         *)
LEMMA CarryTaken ==
  ASSUME TypeInv, TakenInv, [Next]_vars, NEW c \in Call, At(c) \in Claimed,
         NEW pc \in {"finish", "finish_effect"}, NEW t,
         call' = [call EXCEPT ![c].at = pc, ![c].terminal = t], UNCHANGED ledger,
         IsPlugin => TakenBy(setup.client, call[c].request, t)
  PROVE  StepTaken(c)
<1>1. CallsType /\ call[c] \in CallRecord
  BY TypeParts DEF CallsType
<1>2. /\ call'[c].at = pc /\ call'[c].tool = call[c].tool /\ call'[c].told = call[c].told
      /\ call'[c].request = call[c].request /\ call'[c].terminal = t
  BY <1>1 DEF CallsType, CallRecord
<1>3. pc # "answer" /\ pc # "after"
  OBVIOUS
<1> QED
  BY <1>2, <1>3, ClaimedIsOwn, WorkTaken

(* Executor::dispatch is called, and returns.                              *)
LEMMA DispatchTaken ==
  ASSUME TypeInv, TakenInv, [Next]_vars, NEW c \in Call, Dispatch(c) \/ Return(c)
  PROVE  StepTaken(c)
<1>1. At(c) \in Claimed /\ UNCHANGED ledger /\ CallsType
  BY TypeParts DEF Dispatch, Return, Claimed
<1>2. ASSUME NEW pc \in {"executing", "uncertain", "returned"}, Goto(c, pc)
      PROVE  StepTaken(c)
  <2>1. /\ call'[c].at = pc /\ call'[c].tool = call[c].tool
        /\ call'[c].request = call[c].request /\ call'[c].told = call[c].told
    BY <1>1, <1>2, GotoTypes DEF ProgramCounter
  <2>2. pc \notin Carrying /\ pc # "answer" /\ pc # "after"
    BY DEF Carrying
  <2>3. PICK t : t = call'[c].terminal
    OBVIOUS
  <2> QED
    BY <1>1, <2>1, <2>2, <2>3, ClaimedIsOwn, WorkTaken
<1>3. CASE call' = [call EXCEPT ![c].at = "finish",
                      ![c].terminal = IF Expired THEN Early("expired_before_effect", "none")
                                      ELSE Early("rejected", "dispatch_failed")]
  <2>1. PICK t : t = IF Expired THEN Early("expired_before_effect", "none")
                     ELSE Early("rejected", "dispatch_failed")
    OBVIOUS
  <2>2. TakenBy(setup.client, call[c].request, t)
    BY <2>1, NoReceiptIsTaken DEF NoEffectKind
  <2>3. call' = [call EXCEPT ![c].at = "finish", ![c].terminal = t]
    BY <1>3, <2>1
  <2> QED
    BY <1>1, <2>2, <2>3, CarryTaken
<1> QED
  BY <1>2, <1>3 DEF Dispatch, Return

(* context_preservation gives a context of the mode and the isolation.     *)
LEMMA PreservationFits ==
  ASSUME TypeInv, NEW c \in Call, At(c) \in Prepared, NEW context \in Preservation(c)
  PROVE  /\ ContextFits(call[c].request.mode, setup.isolation, context)
         /\ setup.isolation \in {"shared_desktop", "host_isolated"}
<1>1. setup.isolation \in {"shared_desktop", "host_isolated"}
  BY SetupTypes DEF TypeInv, CallType, Usable, Isolation
<1> QED
  BY <1>1 DEF Preservation, ContextFits

(* An unknown effect gets its receipt.                                     *)
LEMMA DoubtTaken ==
  ASSUME TypeInv, TakenInv, [Next]_vars, NEW c \in Call, Doubt(c)
  PROVE  StepTaken(c)
<1>1. /\ At(c) \in Claimed /\ At(c) \in Prepared /\ UNCHANGED ledger
      /\ call[c].request \in Request
      /\ setup.platform \in Platform
  BY SetupTypes, ClaimedIsOwn DEF Doubt, Claimed, Prepared
<1>2. PICK context, t :
        /\ context \in Preservation(c)
        /\ t = Unknown([EmptyReceipt(call[c].request, setup.platform, setup.isolation)
                          EXCEPT !.context = context])
        /\ call' = [call EXCEPT ![c].at = "finish_effect", ![c].terminal = t]
  BY DEF Doubt
<1>3. PICK r : r = t.receipt
  OBVIOUS
<1>4. /\ t.kind = "outcome_unknown" /\ r.action = call[c].request.action
      /\ r.route = RequestRoute(call[c].request, setup.platform)
      /\ r.isolation = setup.isolation /\ r.mode = call[c].request.mode
      /\ r.context = context /\ r.effect = "unknown"
  BY <1>2, <1>3 DEF Unknown, Terminal, EmptyReceipt
<1>5. ASSUME IsPlugin PROVE TakenBy(setup.client, call[c].request, t)
  <2>1. Proposes(setup.client, call[c].request) /\ setup.client \in Plugin
    BY <1>1, <1>5, ClaimedIsOwn
  <2>2. r.route \in {RouteOf(call[c].request.action), "per_process_event"}
    BY <1>1, <1>4, <2>1, ProposedRoute
  <2>3. CASE r.route = "per_process_event"
    BY <1>3, <2>3 DEF TakenBy, Odd
  <2>4. CASE r.route = RouteOf(call[c].request.action)
    BY <1>1, <1>2, <1>3, <1>4, <2>1, <2>4, PreservationFits, ReceiptIsTaken
  <2> QED
    BY <2>2, <2>3, <2>4
<1> QED
  BY <1>1, <1>2, <1>5, CarryTaken

(* context_preservation after the effect.                                  *)
LEMMA SampleAfterTaken ==
  ASSUME TypeInv, TakenInv, [Next]_vars, NEW c \in Call, SampleAfter(c)
  PROVE  StepTaken(c)
<1>1. /\ At(c) \in Claimed /\ At(c) \in Prepared /\ UNCHANGED ledger
      /\ CallsType /\ call[c] \in CallRecord
  BY TypeParts DEF SampleAfter, Claimed, Prepared, CallsType
<1>2. PICK context \in Preservation(c) :
        call' = [call EXCEPT ![c].at = "after", ![c].context = context]
  BY DEF SampleAfter
<1>3. /\ call'[c].at = "after" /\ call'[c].tool = call[c].tool /\ call'[c].told = call[c].told
      /\ call'[c].request = call[c].request /\ call'[c].context = context
  BY <1>1, <1>2 DEF CallsType, CallRecord
<1>4. PICK t : t = call'[c].terminal
  OBVIOUS
<1>5. call'[c].at \notin Carrying /\ call'[c].at # "answer"
  BY <1>3 DEF Carrying
<1> QED
  BY <1>1, <1>2, <1>3, <1>4, <1>5, ClaimedIsOwn, PreservationFits, WorkTaken

(* The route of a listed capability is the one that the plugins expect.    *)
LEMMA ListedRoute ==
  ASSUME NEW facts, NEW action \in {"invoke", "set_value", "click"},
         NEW f \in StrictFacts(facts, action)
  PROVE  f.route \in {RouteOf(action), "per_process_event"}
<1>1. f \in facts /\ f.action = action /\ RouteIsValid(f)
  BY DEF StrictFacts
<1> QED
  BY <1>1 DEF RouteIsValid, RouteOf

(* The receipt of a dispatch that returned.                                *)
LEMMA ConcludeTaken ==
  ASSUME TypeInv, TakenInv, [Next]_vars, NEW c \in Call, Conclude(c)
  PROVE  StepTaken(c)
<1> DEFINE request == call[c].request
           doubtful == Expired \/ call[c].context \in {"changed", "unavailable"}
           seen(after) == IF doubtful THEN "unknown" ELSE Verify(request, call[c].before, after)
           success(after) == /\ seen(after) # "unknown"
                             /\ request.verification = "none" \/ seen(after) = "verified"
           receipt(after) == [action |-> request.action,
                              route |-> (CHOOSE f \in ActionFacts(c) : TRUE).route,
                              isolation |-> setup.isolation, mode |-> request.mode,
                              context |-> call[c].context, effect |-> seen(after)]
<1>1. PICK after, t :
        /\ t = Terminal(IF success(after) THEN "succeeded" ELSE "outcome_unknown", "none",
                        receipt(after))
        /\ call' = [call EXCEPT ![c].at = "finish_effect", ![c].terminal = t]
  BY DEF Conclude
<1>2. /\ At(c) = "after" /\ At(c) \in Claimed /\ At(c) \in Prepared /\ UNCHANGED ledger
      /\ request \in Request
  BY ClaimedIsOwn DEF Conclude, Claimed, Prepared
<1>3. /\ setup.isolation \in {"shared_desktop", "host_isolated"} /\ ActionFacts(c) # {}
  BY <1>2, SetupTypes DEF TypeInv, CallType, Usable, Isolation
<1>4. PICK f \in ActionFacts(c) : f = CHOOSE g \in ActionFacts(c) : TRUE
  BY <1>3
<1>5. PICK r : r = t.receipt
  OBVIOUS
<1>6. /\ t.kind = IF success(after) THEN "succeeded" ELSE "outcome_unknown"
      /\ r.action = request.action /\ r.route = f.route /\ r.isolation = setup.isolation
      /\ r.mode = request.mode /\ r.context = call[c].context /\ r.effect = seen(after)
  BY <1>1, <1>4, <1>5 DEF Terminal
<1>7. ASSUME IsPlugin PROVE TakenBy(setup.client, call[c].request, t)
  <2>1. /\ Proposes(setup.client, request) /\ setup.client \in Plugin
        /\ ContextFits(request.mode, setup.isolation, call[c].context)
    BY <1>2, <1>7, ClaimedIsOwn DEF TakenInv, CallTaken
  <2>2. /\ request.action \in {"invoke", "set_value", "click"}
        /\ request.verification = IF request.action = "set_value" THEN "value_hash" ELSE "none"
    BY <2>1 DEF Proposes, HermesProposes, OpenClawProposes, Plugin
  <2>3. r.route \in {RouteOf(request.action), "per_process_event"}
    BY <1>4, <1>6, <2>2, ListedRoute DEF ActionFacts
  <2>4. /\ seen(after) \in {"unknown", "verified", "executed_unverified"}
        /\ request.action # "set_value" => seen(after) \in {"unknown", "executed_unverified"}
        /\ seen(after) # "unknown" => ~doubtful
    BY <2>2 DEF Verify
  <2>5. /\ t.kind \in {"succeeded", "outcome_unknown"}
        /\ t.kind = "succeeded" =>
             /\ seen(after) # "unknown"
             /\ seen(after) = IF request.action = "set_value" THEN "verified"
                              ELSE "executed_unverified"
    BY <1>6, <2>2, <2>4
  <2>6. CASE r.route = "per_process_event"
    BY <1>5, <2>6 DEF TakenBy, Odd
  <2>7. CASE r.route = RouteOf(request.action)
    <3>1. /\ ContextFits(r.mode, r.isolation, r.context)
          /\ (t.kind = "succeeded" \/ r.effect # "unknown") =>
               r.context \notin {"unavailable", "changed"}
      BY <1>6, <2>1, <2>4, <2>5
    <3> HIDE DEF seen, success, receipt
    <3>2. /\ t.kind = "succeeded" =>
               r.effect = IF request.action = "set_value" THEN "verified"
                          ELSE "executed_unverified"
          /\ request.action # "set_value" => r.effect \in {"unknown", "executed_unverified"}
      BY <1>6, <2>4, <2>5
    <3> QED
      BY <1>2, <1>3, <1>5, <1>6, <2>1, <2>5, <2>7, <3>1, <3>2, ReceiptIsTaken
  <2> QED
    BY <2>3, <2>6, <2>7
<1> QED
  BY <1>1, <1>2, <1>7, CarryTaken

(* finish, for a dispatch without an effect.                               *)
LEMMA FinishNoEffectTaken ==
  ASSUME TypeInv, TakenInv, [Next]_vars, NEW c \in Call, FinishNoEffect(c)
  PROVE  StepTaken(c)
<1>1. At(c) = "finish" /\ At(c) \in Claimed /\ At(c) \in Carrying
  BY DEF FinishNoEffect, Claimed, Carrying
<1>2. PICK terminal \in Terminals : terminal = call[c].terminal
  BY <1>1 DEF TypeInv, CallType
<1>3. IsPlugin => /\ TakenBy(setup.client, call[c].request, terminal)
                  /\ TakenBy(setup.client, ledger[OpOf(c)].hash, terminal)
  BY <1>1, <1>2, ClaimedIsOwn
<1> QED
  BY <1>1, <1>2, <1>3, SequenceTypes, FinishTaken DEF FinishNoEffect

(* finish_after_effect.                                                    *)
LEMMA FinishEffectTaken ==
  ASSUME TypeInv, TakenInv, [Next]_vars, NEW c \in Call, FinishEffect(c)
  PROVE  StepTaken(c)
<1>1. PICK o \in Op : o = OpOf(c)
  BY OpOfType
<1>2. /\ At(c) = "finish_effect" /\ At(c) \in Claimed /\ At(c) \in Carrying
      /\ ledger \in [Op -> Entry]
  BY DEF FinishEffect, TypeInv, TypeOK, Claimed, Carrying
<1>3. PICK told \in Terminals, weaker \in Terminals :
        told = call[c].terminal /\ weaker = PersistenceUnknown(told)
  BY <1>2, UnknownTypes DEF TypeInv, CallType
<1>4. IsPlugin => /\ TakenBy(setup.client, call[c].request, told)
                  /\ TakenBy(setup.client, call[c].request, weaker)
                  /\ ledger[o].hash = call[c].request
  BY <1>1, <1>2, <1>3, ClaimedIsOwn, WeakenedIsTaken
<1>5. PICK written \in {ledger[o].terminal, told, weaker}, out \in {told, weaker} :
        /\ ledger' = [ledger EXCEPT ![o].terminal = written]
        /\ call' = [call EXCEPT ![c].at = "answer", ![c].terminal = out,
                                ![c].sequence = <<0, 1, 2>>]
  BY <1>1, <1>3 DEF FinishEffect
<1>6. ASSUME IsPlugin, NEW p \in Op PROVE EntryTaken(p)'
  <2>1. CASE p # o \/ written = ledger[o].terminal
    <3>1. ledger'[p] = ledger[p]
      BY <1>2, <1>5, <2>1 DEF Entry
    <3> QED
      BY <1>6, <3>1, EntryStays
  <2>2. CASE p = o /\ written \in {told, weaker}
    <3>1. /\ ledger'[p].terminal = written /\ ledger'[p].hash = ledger[p].hash
          /\ ledger'[p].claim = ledger[p].claim
      BY <1>2, <1>5, <2>2 DEF Entry
    <3>2. TakenBy(setup.client, ledger[p].hash, written)
      BY <1>4, <1>6, <2>2
    <3> QED
      BY <1>6, <3>1, <3>2, EntryWritten
  <2> QED
    BY <2>1, <2>2
<1>7. /\ out \in TerminalSet
      /\ IsPlugin => TakenBy(setup.client, call[c].request, out)
  BY <1>4, TerminalTypes
<1>8. (IsPlugin => CallTaken(c)') /\ ToldTaken(c)'
  BY <1>2, <1>5, <1>7, SequenceTypes, ReadyTaken DEF TakenBy
<1> QED
  BY <1>6, <1>8 DEF StepTaken

(* Every step keeps it.                                                    *)
LEMMA TakenKept ==
  TypeInv /\ AwaitInv /\ TruthInv /\ TakenInv /\ [Next]_vars => TakenInv'
<1> SUFFICES ASSUME TypeInv, AwaitInv, TruthInv, TakenInv, [Next]_vars PROVE TakenInv'
  OBVIOUS
<1>1. IsPlugin' <=> IsPlugin
  BY StepsKeepSetup DEF IsPlugin
<1>2. ASSUME NEW c \in Call, Begin(c) \/ Accept(c) \/ GiveUp(c) \/ Engine(c) PROVE TakenInv'
  <2>1. StepTaken(c)
    BY <1>2, BeginTaken, AcceptTaken, GiveUpTaken, CrashTaken, LockTaken, ReadTaken, EarlyTaken,
       DispatchTaken, DoubtTaken, SampleAfterTaken, ConcludeTaken, FinishNoEffectTaken,
       FinishEffectTaken DEF Engine
  <2>2. ASSUME NEW b \in Call \ {c} PROVE (IsPlugin => CallTaken(b)') /\ ToldTaken(b)'
    <3>1. call'[b] = call[b]
      BY <1>2, OthersRest
    <3>2. At(b) \in Locked => holder = b /\ b # 0
      BY DEF TruthInv, CallTruth, LabelTruth, Call
    <3>3. At(b) \in Locked => ledger' = ledger
      BY <1>2, <3>2, OnlyHolder
    <3> QED
      BY <3>1, <3>3, OtherTaken
  <2> QED
    BY <1>1, <2>1, <2>2 DEF StepTaken, TakenInv
<1>3. ASSUME UNCHANGED <<call, ledger>> PROVE TakenInv'
  BY <1>1, <1>3, OtherTaken, EntryStays DEF TakenInv
<1>4. (\E o \in Op : Land(o)) \/ Change \/ Tick \/ UNCHANGED vars => UNCHANGED <<call, ledger>>
  BY DEF Land, Change, Tick, vars
<1> QED
  BY <1>2, <1>3, <1>4 DEF Next

(* Nothing is claimed but what an older version claimed.                   *)
LEMMA TakenInit == Init => TakenInv
<1> SUFFICES ASSUME Init PROVE TakenInv
  OBVIOUS
<1>1. ASSUME NEW o \in Op PROVE EntryTaken(o)
  <2>1. /\ ledger[o].terminal = NoTerminal
        /\ ledger[o].hash # NoRequest => ledger[o].claim = LegacyClaim
    <3>1. CASE ~setup.legacy
      BY <3>1 DEF Init, NoEntry
    <3>2. CASE setup.legacy
      <4>1. PICK r \in setup.requests :
              ledger = [p \in Op |-> IF p = 1 THEN [NoEntry EXCEPT !.hash = r,
                                                                  !.claim = LegacyClaim]
                                     ELSE NoEntry]
        BY <3>2 DEF Init
      <4> QED
        BY <4>1 DEF NoEntry
    <3> QED
      BY <3>1, <3>2
  <2> QED
    BY <2>1, NoReceiptIsTaken DEF EntryTaken
<1>2. ASSUME NEW c \in Call PROVE CallTaken(c) /\ ToldTaken(c)
  <2>1. call[c] = NoCall
    BY DEF Init
  <2>2. At(c) = "idle" /\ call[c].told.code = "none"
    BY <2>1 DEF At, NoCall, Silence
  <2> QED
    BY <2>2 DEF CallTaken, ToldTaken, Claimed, Carrying
<1> QED
  BY <1>1, <1>2 DEF TakenInv

(* Whatever the engine says reaches the model: but for the exceptions, the *)
(* plugins take every answer that they could read, for every request that  *)
(* they forward, on every platform, and whoever executed or asked before   *)
(* (_redact, redact, _valid_execution, recovered_context_preservation).    *)
THEOREM AnswersAreTold == Spec => []OutcomesAreTold
<1>1. TakenInv => OutcomesAreTold
  BY DEF TakenInv, ToldTaken, OutcomesAreTold
<1> QED
  BY <1>1, InitTypes, NextTypes, AwaitInit, AwaitKept, TruthInit, TruthKept, TakenInit,
     TakenKept, PTL DEF Spec

=============================================================================
