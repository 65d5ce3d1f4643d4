---------------------------- MODULE EngineProofs ----------------------------
(***************************************************************************)
(* Proofs about Engine, for every set of threads, processes, ledger files, *)
(* operations and hashes, every kind of outcome ledger and every           *)
(* combination of faults.                                                  *)
(*                                                                         *)
(* AtMostOncePerLedger is not inductive: that a claimed operation was not  *)
(* dispatched before rests on the claim of every dispatched operation      *)
(* being in the synced part of the file, where neither a kill nor a power  *)
(* loss can remove it, on the lock, and on no append following a torn      *)
(* tail, which would make a claim unreadable.                              *)
(*                                                                         *)
(* Nor is KnownStaysKnown: that no later line of an operation follows a    *)
(* known terminal rests on every call at work having read the file, and    *)
(* found none, after it got the lock.  AtMostOncePerKey rests on the grant *)
(* of the outcome ledger, which is there before the dispatch and for good. *)
(*                                                                         *)
(* That calls come to an end, as far as it is a safety property, is that   *)
(* every step counts down (StepsAreCounted) but for the wait for a lock,   *)
(* whose holder is at work (LocksAreHeldAtWork).                           *)
(***************************************************************************)
EXTENDS Engine, TLAPS

(* Labels between the acquisition of the lock and its release.             *)
Inside == ProgramCounter \ {"idle", "lock", "wait"}

(* Labels at which an append is in progress.                               *)
Appending == {"append", "newline", "sync"}

(* Labels from the durable claim of a new operation to its dispatch.       *)
Granting == {"begin_new", "capabilities", "observe", "sentinel", "dispatch"}

(* Labels at which the file ends in a newline.                             *)
Clean == Inside \ {"repair", "newline", "repair_retry"}

(* The thread has found no claim of its operation, and means to dispatch.  *)
Claiming(t) == pc[t] \in Appending /\ site[t] = "claim"

(* The claim of k is where no crash can remove it.                         *)
DurableClaim(f, k) == \E i \in 1..synced[f] : log[f][i] = Claim(k)

(* No request with the operation id of k was dispatched through file f.    *)
Undispatched(f, k) == \A j \in Key : j.op = k.op => dispatches[f][j] = 0

(* What holds at every label of thread t.                                  *)
ThreadInv(t) ==
  /\ pc[t] \in Inside => lock[FileOf(t)] = t
  /\ (pc[t] # "idle" /\ call[t] = "execute") => key[t] \in Key
  /\ pc[t] \in Inside \ {"repair", "read"} => key[t] \in Key
  /\ pc[t] \in {"record", "repair_retry", "begin_reconcile"} => term[t] \in Terminal
  /\ pc[t] = "record" => site[t] \in {"final", "effect"}
  /\ (pc[t] \in Appending /\ ~Claiming(t)) => term[t] \in Terminal
  /\ pc[t] \in Clean => ~torn[FileOf(t)]
  /\ (pc[t] \in Granting \/ Claiming(t)) => Undispatched(FileOf(t), key[t])
  /\ pc[t] \in Granting => DurableClaim(FileOf(t), key[t])
  /\ (pc[t] = "sync" /\ Claiming(t)) =>
       /\ Len(log[FileOf(t)]) > 0
       /\ log[FileOf(t)][Len(log[FileOf(t)])] = Claim(key[t])

(* What holds of every ledger file.                                        *)
FileInv(f) ==
  /\ synced[f] <= Len(log[f])
  /\ ~corrupt[f]
  /\ \A k \in Key : dispatches[f][k] > 0 => DurableClaim(f, k)

Inv ==
  /\ TypeOK
  /\ \A t \in Thread : ThreadInv(t)
  /\ \A f \in File : FileInv(f)
  /\ AtMostOncePerLedger

-----------------------------------------------------------------------------
(* Frames                                                                  *)

(* The locals and the lock have their types.                               *)
CallTypes ==
  /\ lock \in [File -> Thread \union {None}]
  /\ pc \in [Thread -> ProgramCounter]
  /\ call \in [Thread -> {"execute", "status"}]
  /\ key \in [Thread -> [op : Op \union {None}, hash : Hash \union {None}]]
  /\ term \in [Thread -> Terminal \union {None}]
  /\ site \in [Thread -> Site]
  /\ cancelled \in [Thread -> BOOLEAN]
  /\ expired \in [Thread -> BOOLEAN]

(* Everything else has its type.                                           *)
FileTypes ==
  /\ log \in [File -> Seq(Record)]
  /\ synced \in [File -> Nat]
  /\ torn \in [File -> BOOLEAN]
  /\ corrupt \in [File -> BOOLEAN]

OutcomeTypes == outcomes \in [Store -> [Key -> Entry]]

WorldTypes ==
  /\ world \in [File -> [Key -> {"none", "inflight", "done"}]]
  /\ dispatches \in [File -> [Key -> Nat]]

AckTypes ==
  /\ told \in [File -> [Key -> SUBSET Terminal]]
  /\ acked \in [File -> [Key -> SUBSET Terminal]]

(* The step takes nothing from the threads outside T.                      *)
Spares(T) ==
  \A u \in Thread \ T :
    /\ pc'[u] = pc[u] /\ call'[u] = call[u] /\ key'[u] = key[u]
    /\ term'[u] = term[u] /\ site'[u] = site[u]
    /\ lock[FileOf(u)] = u => lock'[FileOf(u)] = u

(* The step changes no ledger file but f.                                  *)
OnlyFile(f) ==
  \A g \in File \ {f} :
    /\ log'[g] = log[g] /\ synced'[g] = synced[g] /\ torn'[g] = torn[g]
    /\ corrupt'[g] = corrupt[g] /\ dispatches'[g] = dispatches[g]

(* TypeOK in the parts that the steps disturb separately.                  *)
LEMMA TypeParts ==
  TypeOK <=> CallTypes /\ FileTypes /\ OutcomeTypes /\ WorldTypes /\ AckTypes
BY DEF TypeOK, CallTypes, FileTypes, OutcomeTypes, WorldTypes, AckTypes

(* The file of a thread does not change.                                   *)
LEMMA FileRigid == \A t : FileOf(t)' = FileOf(t)
BY DEF FileOf

(* Every thread works on a ledger file.                                    *)
LEMMA FileOfType == \A t \in Thread : FileOf(t) \in File
BY ConstantsAssumption DEF FileOf

(* A thread inside the lock keeps what it knows when another one moves     *)
(* without touching its file.                                              *)
LEMMA OtherThread ==
  ASSUME NEW u \in Thread, ThreadInv(u),
         pc'[u] = pc[u], call'[u] = call[u], key'[u] = key[u],
         term'[u] = term[u], site'[u] = site[u],
         lock[FileOf(u)] = u => lock'[FileOf(u)] = u,
         pc[u] \in Inside =>
           /\ log'[FileOf(u)] = log[FileOf(u)]
           /\ synced'[FileOf(u)] = synced[FileOf(u)]
           /\ torn'[FileOf(u)] = torn[FileOf(u)]
           /\ dispatches'[FileOf(u)] = dispatches[FileOf(u)]
  PROVE  ThreadInv(u)'
BY DEF ThreadInv, Inside, ProgramCounter, Appending, Granting, Clean, Claiming,
       DurableClaim, Undispatched, FileOf

(* A thread between two calls owes nothing.                                *)
LEMMA IdleThread ==
  ASSUME NEW t \in Thread, pc'[t] = "idle"
  PROVE  ThreadInv(t)'
BY DEF ThreadInv, Inside, Appending, Granting, Clean, Claiming

(* A step that leaves the files and the dispatches alone.                  *)
LEMMA QuietStep ==
  ASSUME Inv, TypeOK', NEW T \in SUBSET Thread, Spares(T),
         UNCHANGED <<fileVars, dispatches>>, \A t \in T : ThreadInv(t)'
  PROVE  Inv'
<1>1. ASSUME NEW u \in Thread PROVE ThreadInv(u)'
  <2>1. CASE u \in T
    BY <2>1
  <2>2. CASE u \notin T
    BY <2>2, OtherThread DEF Inv, Spares, fileVars
  <2>. QED BY <2>1, <2>2
<1>2. \A f \in File : FileInv(f)'
  BY DEF Inv, FileInv, DurableClaim, fileVars
<1>3. AtMostOncePerLedger'
  BY DEF Inv, AtMostOncePerLedger
<1>. QED BY <1>1, <1>2, <1>3 DEF Inv

(* A step of the thread that holds the lock of its file.                   *)
LEMMA InsideStep ==
  ASSUME Inv, TypeOK', NEW t \in Thread, pc[t] \in Inside, Spares({t}),
         OnlyFile(FileOf(t)), ThreadInv(t)', FileInv(FileOf(t))',
         AtMostOncePerLedger'
  PROVE  Inv'
<1>1. ASSUME NEW u \in Thread, u # t PROVE ThreadInv(u)'
  <2>1. pc[u] \in Inside => FileOf(u) # FileOf(t)
    BY <1>1 DEF Inv, ThreadInv
  <2>. QED BY <1>1, <2>1, OtherThread, FileOfType DEF Inv, Spares, OnlyFile
<1>2. ASSUME NEW f \in File, f # FileOf(t) PROVE FileInv(f)'
  BY <1>2 DEF Inv, FileInv, OnlyFile, DurableClaim
<1>. QED BY <1>1, <1>2 DEF Inv

(* The end of calls, or of their processes, drops their locals and their   *)
(* locks and touches no other thread.                                      *)
LEMMA LeaveFrame ==
  ASSUME TypeOK, NEW T \in SUBSET Thread, Leave(T)
  PROVE  /\ CallTypes'
         /\ Spares(T)
         /\ \A t \in T : ThreadInv(t)'
<1>1. CallTypes'
  BY DEF TypeOK, CallTypes, Leave, NoKey, ProgramCounter, Site
<1>2. Spares(T)
  BY FileOfType DEF TypeOK, Spares, Leave
<1>3. \A t \in T : ThreadInv(t)'
  BY IdleThread DEF Leave
<1>. QED BY <1>1, <1>2, <1>3

(* Every way in which execute or status returns ends one call only.        *)
LEMMA ReturnFrame ==
  ASSUME TypeOK, NEW t \in Thread,
         \/ ReturnNothing(t)
         \/ \E k \in Key, z \in Terminal : ReturnUnsynced(t, k, z)
         \/ ReturnDurable(t) /\ key[t] \in Key /\ term[t] \in Terminal
  PROVE  CallTypes' /\ AckTypes' /\ Spares({t}) /\ ThreadInv(t)'
<1>1. Leave({t})
  BY DEF ReturnNothing, ReturnUnsynced, ReturnDurable
<1>2. AckTypes'
  <2>1. CASE ReturnNothing(t)
    BY <2>1 DEF TypeOK, AckTypes, ReturnNothing, ackVars
  <2>2. ASSUME NEW k \in Key, NEW z \in Terminal, ReturnUnsynced(t, k, z)
        PROVE  AckTypes'
    BY <2>2, FileOfType DEF TypeOK, AckTypes, ReturnUnsynced
  <2>3. CASE ReturnDurable(t) /\ key[t] \in Key /\ term[t] \in Terminal
    BY <2>3, FileOfType DEF TypeOK, AckTypes, ReturnDurable
  <2>. QED BY <2>1, <2>2, <2>3
<1>. QED BY <1>1, <1>2, LeaveFrame

(* A return that touches neither a file nor the desktop nor a store.       *)
LEMMA PlainReturn ==
  ASSUME Inv, NEW t \in Thread,
         \/ ReturnNothing(t)
         \/ \E k \in Key, z \in Terminal : ReturnUnsynced(t, k, z),
         UNCHANGED <<fileVars, worldVars>>, OutcomeTypes'
  PROVE  Inv'
<1>1. CallTypes' /\ AckTypes' /\ Spares({t}) /\ ThreadInv(t)'
  BY ReturnFrame DEF Inv
<1>2. FileTypes' /\ WorldTypes'
  BY TypeParts DEF Inv, fileVars, worldVars, FileTypes, WorldTypes
<1>3. TypeOK'
  BY <1>1, <1>2, TypeParts DEF TypeOK, CallTypes, FileTypes, OutcomeTypes,
     WorldTypes, AckTypes
<1>. QED BY <1>1, <1>3, QuietStep DEF worldVars

-----------------------------------------------------------------------------
(* What the lines of a file are                                            *)

(* A line has a key, and is rebuilt from it by its kind.                   *)
LEMMA RecordFields ==
  ASSUME NEW r \in Record
  PROVE  /\ r.key \in Key
         /\ r.kind = "claim" => r = Claim(r.key)
         /\ r.kind = "terminal" => r.term \in Terminal
<1>1. CASE \E k \in Key : r = Claim(k)
  BY <1>1 DEF Claim
<1>2. CASE \E k \in Key, z \in Terminal : r = Finish(k, z)
  BY <1>2 DEF Finish
<1>. QED BY <1>1, <1>2 DEF Record

(* A file without a claim of an operation had no dispatch of it.           *)
LEMMA NoClaimNoDispatch ==
  ASSUME Inv, NEW f \in File, NEW o, Lines(f, o, "claim") = {}
  PROVE  \A k \in Key : k.op = o => dispatches[f][k] = 0
<1> SUFFICES ASSUME NEW k \in Key, k.op = o, dispatches[f][k] # 0
             PROVE  FALSE
  OBVIOUS
<1>1. dispatches[f][k] > 0
  BY DEF Inv, TypeOK
<1>2. PICK i \in 1..synced[f] : log[f][i] = Claim(k)
  BY <1>1 DEF Inv, FileInv, DurableClaim
<1>3. i \in 1..Len(log[f])
  BY <1>2 DEF Inv, FileInv, TypeOK
<1>. QED BY <1>2, <1>3 DEF Lines, Claim

-----------------------------------------------------------------------------
(* Calls, cancellation, time and the lock                                  *)

(* A call of execute starts outside the lock.                              *)
LEMMA ExecuteKeeps ==
  ASSUME Inv, NEW t \in Thread, NEW k \in Key, Execute(t, k)
  PROVE  Inv'
<1> USE DEF Execute, Goto
<1>1. TypeOK'
  BY DEF Inv, TypeOK, Key, ProgramCounter, fileVars, worldVars, ackVars
<1>2. Spares({t})
  BY DEF Spares, Inv, TypeOK
<1>3. ThreadInv(t)'
  BY DEF ThreadInv, Inv, TypeOK, Inside, Appending, Granting, Clean, Claiming
<1>. QED BY <1>1, <1>2, <1>3, QuietStep DEF fileVars, worldVars

(* So does a call of status.                                               *)
LEMMA StatusKeeps ==
  ASSUME Inv, NEW t \in Thread, NEW o \in Op, Status(t, o)
  PROVE  Inv'
<1> USE DEF Status, Goto
<1>1. TypeOK'
  BY DEF Inv, TypeOK, ProgramCounter, fileVars, worldVars, ackVars
<1>2. Spares({t})
  BY DEF Spares, Inv, TypeOK
<1>3. ThreadInv(t)'
  BY DEF ThreadInv, Inv, TypeOK, Inside, Appending, Granting, Clean, Claiming
<1>. QED BY <1>1, <1>2, <1>3, QuietStep DEF fileVars, worldVars

(* Cancel, Expire and Land touch nothing Inv is about but types.           *)
LEMMA SignalKeeps ==
  ASSUME Inv,
         \/ \E t \in Thread : Cancel(t) \/ Expire(t)
         \/ \E f \in File, k \in Key : Land(f, k)
  PROVE  Inv'
<1>1. TypeOK'
  <2>1. ASSUME NEW t \in Thread, Cancel(t) PROVE TypeOK'
    BY <2>1 DEF Inv, TypeOK, Cancel, fileVars, worldVars, ackVars
  <2>2. ASSUME NEW t \in Thread, Expire(t) PROVE TypeOK'
    BY <2>2 DEF Inv, TypeOK, Expire, fileVars, worldVars, ackVars
  <2>3. ASSUME NEW f \in File, NEW k \in Key, Land(f, k) PROVE TypeOK'
    BY <2>3 DEF Inv, TypeOK, Land, fileVars, threadVars, ackVars
  <2>. QED BY <2>1, <2>2, <2>3
<1>2. Spares({}) /\ UNCHANGED <<fileVars, dispatches>>
  BY DEF Spares, Cancel, Expire, Land, threadVars, worldVars
<1>. QED BY <1>1, <1>2, QuietStep

(* The lock is given only when nobody holds it.                            *)
LEMMA AcquireKeeps ==
  ASSUME Inv, NEW t \in Thread, Acquire(t)
  PROVE  Inv'
<1> USE DEF Acquire, Goto
<1>1. TypeOK'
  BY DEF Inv, TypeOK, ProgramCounter, fileVars, worldVars, ackVars
<1>2. Spares({t})
  BY ConstantsAssumption DEF Spares, Inv, TypeOK
<1>3. ThreadInv(t)'
  BY FileOfType DEF ThreadInv, Inv, TypeOK, Inside, Appending, Granting, Clean,
     Claiming, FileOf
<1>. QED BY <1>1, <1>2, <1>3, QuietStep DEF fileVars, worldVars

(* Waiting for the lock, and giving up, leaves the holder alone.           *)
LEMMA WaitKeeps ==
  ASSUME Inv, NEW t \in Thread,
         AcquireFails(t) \/ WouldBlock(t) \/ Wake(t)
  PROVE  Inv'
<1>1. CASE ReturnNothing(t) /\ UNCHANGED <<fileVars, outcomes, worldVars>>
  BY <1>1, PlainReturn, TypeParts DEF Inv, OutcomeTypes
<1>2. ASSUME NEW label \in {"lock", "wait"}, Goto(t, label),
             pc[t] # "idle",
             UNCHANGED <<fileVars, lock, outcomes, call, key, term, site,
                         cancelled, expired, worldVars, ackVars>>
      PROVE  Inv'
  <2> USE <1>2 DEF Goto
  <2>1. TypeOK'
    BY DEF Inv, TypeOK, ProgramCounter, fileVars, worldVars, ackVars
  <2>2. Spares({t})
    BY DEF Spares, Inv, TypeOK
  <2>3. ThreadInv(t)'
    BY DEF ThreadInv, Inv, TypeOK, Inside, Appending, Granting, Clean, Claiming
  <2>. QED BY <2>1, <2>2, <2>3, QuietStep DEF fileVars, worldVars
<1>. QED BY <1>1, <1>2 DEF AcquireFails, WouldBlock, Wake

-----------------------------------------------------------------------------
(* The tail of the file, and what is read                                  *)

(* Cutting the tail off loses no line, and neither does failing to.        *)
LEMMA RepairFrame ==
  ASSUME Inv, NEW f \in File, Repaired(f) \/ RepairFails(f)
  PROVE  /\ FileTypes'
         /\ UNCHANGED <<log, corrupt>>
         /\ synced[f] <= synced'[f] /\ synced'[f] <= Len(log[f])
         /\ Repaired(f) => ~torn'[f]
         /\ \A g \in File \ {f} : torn'[g] = torn[g] /\ synced'[g] = synced[g]
<1>1. CASE Repaired(f)
  BY <1>1 DEF Repaired, Inv, TypeOK, FileTypes, FileInv
<1>2. CASE RepairFails(f)
  <2>1. torn' \in {torn, [torn EXCEPT ![f] = FALSE]} /\ UNCHANGED <<log, synced, corrupt>>
    BY <1>2 DEF RepairFails
  <2>2. torn' \in [File -> BOOLEAN] /\ \A g \in File \ {f} : torn'[g] = torn[g]
    BY <2>1 DEF Inv, TypeOK
  <2>3. Repaired(f) => ~torn'[f]
    BY DEF Repaired, Inv, TypeOK
  <2>. QED BY <2>1, <2>2, <2>3 DEF Inv, TypeOK, FileTypes, FileInv
<1>. QED BY <1>1, <1>2

(* So repair_jsonl_tail keeps every durable claim, and the file readable.  *)
LEMMA RepairedFile ==
  ASSUME Inv, NEW f \in File, Repaired(f) \/ RepairFails(f),
         UNCHANGED dispatches
  PROVE  FileInv(f)' /\ OnlyFile(f) /\ AtMostOncePerLedger'
<1>1. OnlyFile(f) /\ AtMostOncePerLedger'
  BY RepairFrame DEF OnlyFile, Inv, AtMostOncePerLedger
<1>2. \A k \in Key : DurableClaim(f, k) => DurableClaim(f, k)'
  <2> SUFFICES ASSUME NEW k \in Key, NEW i \in 1..synced[f], log[f][i] = Claim(k)
               PROVE  DurableClaim(f, k)'
    BY DEF DurableClaim
  <2>1. i \in 1..synced'[f] /\ log'[f][i] = Claim(k)
    BY RepairFrame DEF Inv, TypeOK, FileTypes
  <2>. QED BY <2>1 DEF DurableClaim
<1>3. FileInv(f)'
  BY <1>2, RepairFrame DEF FileInv, Inv
<1>. QED BY <1>1, <1>3

(* Both calls of repair_tail keep the invariant: before a read, and before *)
(* the second attempt of finish_after_effect.                              *)
LEMMA RepairKeeps ==
  ASSUME Inv, NEW t \in Thread, Repair(t) \/ RepairRetry(t)
  PROVE  Inv'
<1> DEFINE f == FileOf(t)
<1>1. pc[t] \in Inside /\ f \in File
  BY FileOfType DEF Repair, RepairRetry, Inside, ProgramCounter
<1>2. (Repaired(f) \/ RepairFails(f)) /\ UNCHANGED <<outcomes, worldVars>>
  BY DEF Repair, RepairRetry
<1>3. FileTypes' /\ OutcomeTypes' /\ WorldTypes'
  BY <1>1, <1>2, RepairFrame, TypeParts
     DEF Inv, OutcomeTypes, WorldTypes, worldVars
<1>4. CallTypes' /\ AckTypes' /\ Spares({t}) /\ ThreadInv(t)'
  <2>1. CASE ReturnNothing(t)
    BY <2>1, ReturnFrame DEF Inv
  <2>2. CASE pc[t] = "repair_retry" /\ ReturnUnsynced(t, key[t], term[t])
    <3>1. key[t] \in Key /\ term[t] \in Terminal
      BY <2>2 DEF Inv, ThreadInv, Inside, ProgramCounter
    <3>. QED BY <2>2, <3>1, ReturnFrame DEF Inv
  <2>3. CASE /\ pc[t] = "repair" /\ Repaired(f) /\ Goto(t, "read")
             /\ UNCHANGED <<lock, call, key, term, site, cancelled, expired, ackVars>>
    <3>1. CallTypes' /\ AckTypes' /\ Spares({t})
      BY <2>3 DEF Inv, TypeOK, CallTypes, AckTypes, ackVars, Spares, Goto,
         ProgramCounter
    <3>2. ThreadInv(t)'
      BY <1>1, <2>3, RepairFrame DEF Inv, TypeOK, ThreadInv, Goto, Inside,
         ProgramCounter, Appending, Granting, Clean, Claiming, FileOf
    <3>. QED BY <3>1, <3>2
  <2>4. CASE /\ pc[t] = "repair_retry" /\ Repaired(f) /\ StartAppend(t, "retry")
             /\ UNCHANGED <<lock, call, key, term, cancelled, expired, ackVars>>
    <3>1. CallTypes' /\ AckTypes' /\ Spares({t})
      BY <2>4 DEF Inv, TypeOK, CallTypes, AckTypes, ackVars, Spares, Goto,
         ProgramCounter, StartAppend, Site
    <3>2. ThreadInv(t)'
      BY <1>1, <2>4, RepairFrame DEF Inv, TypeOK, ThreadInv, Goto, Inside,
         ProgramCounter, Appending, Granting, Clean, Claiming, FileOf, StartAppend
    <3>. QED BY <3>1, <3>2
  <2>. QED BY <2>1, <2>2, <2>3, <2>4 DEF Repair, RepairRetry
<1>5. TypeOK'
  BY <1>3, <1>4 DEF TypeOK, CallTypes, FileTypes, OutcomeTypes, WorldTypes, AckTypes
<1>6. FileInv(f)' /\ OnlyFile(f) /\ AtMostOncePerLedger'
  BY <1>1, <1>2, RepairedFile DEF worldVars
<1>. QED BY <1>1, <1>4, <1>5, <1>6, InsideStep

(* A step that moves a thread from one label inside the lock to another.   *)
LEMMA LocalStep ==
  ASSUME Inv, NEW t \in Thread, pc[t] \in Inside,
         NEW label \in Inside, Goto(t, label),
         UNCHANGED <<fileVars, lock, call, dispatches, ackVars>>,
         \A u \in Thread \ {t} :
           key'[u] = key[u] /\ term'[u] = term[u] /\ site'[u] = site[u],
         key' \in [Thread -> [op : Op \union {None}, hash : Hash \union {None}]],
         term' \in [Thread -> Terminal \union {None}],
         site' \in [Thread -> Site],
         UNCHANGED <<cancelled, expired>>,
         OutcomeTypes', WorldTypes', ThreadInv(t)'
  PROVE  Inv'
<1>1. CallTypes' /\ Spares({t})
  BY DEF Inv, TypeOK, CallTypes, Spares, Goto, Inside
<1>2. FileTypes' /\ AckTypes'
  BY TypeParts DEF Inv, fileVars, FileTypes, ackVars, AckTypes
<1>3. TypeOK'
  BY <1>1, <1>2 DEF TypeOK, CallTypes, FileTypes, OutcomeTypes, WorldTypes, AckTypes
<1>. QED BY <1>1, <1>3, QuietStep

(* claim goes on only with an operation that was never dispatched.         *)
LEMMA ReadNothingKeeps ==
  ASSUME Inv, NEW t \in Thread, ReadNothing(t)
  PROVE  Inv'
<1>1. OutcomeTypes' /\ WorldTypes' /\ UNCHANGED <<fileVars, worldVars>>
  BY TypeParts DEF Inv, ReadNothing, OutcomeTypes, WorldTypes, worldVars
<1>2. CASE ReturnNothing(t)
  BY <1>1, <1>2, PlainReturn
<1>3. CASE /\ call[t] = "execute" /\ StartAppend(t, "claim")
           /\ UNCHANGED <<lock, call, key, term, cancelled, expired, ackVars>>
  <2>1. pc[t] = "read" /\ Lines(FileOf(t), key[t].op, "claim") = {}
    BY DEF ReadNothing
  <2>2. key[t] \in Key /\ Undispatched(FileOf(t), key[t])
    BY <1>3, <2>1, NoClaimNoDispatch, FileOfType DEF Inv, ThreadInv, Undispatched
  <2>3. ThreadInv(t)'
    BY <1>1, <1>3, <2>1, <2>2 DEF Inv, TypeOK, ThreadInv, StartAppend, Goto, Inside,
       ProgramCounter, Appending, Granting, Clean, Claiming, FileOf,
       Undispatched, fileVars, worldVars
  <2>. QED BY <1>1, <1>3, <2>1, <2>3, LocalStep DEF StartAppend, Inv, TypeOK, Site,
          Goto, Inside, ProgramCounter, worldVars
<1>. QED BY <1>2, <1>3 DEF ReadNothing

(* A conflict ends the call.                                               *)
LEMMA ReadConflictKeeps ==
  ASSUME Inv, NEW t \in Thread, ReadConflict(t)
  PROVE  Inv'
BY PlainReturn, TypeParts DEF Inv, ReadConflict, OutcomeTypes

(* Recovery of an interrupted claim leads to no dispatch.                  *)
LEMMA ReadClaimOnlyKeeps ==
  ASSUME Inv, NEW t \in Thread, ReadClaimOnly(t)
  PROVE  Inv'
<1> DEFINE f == FileOf(t)
<1>1. PICK i \in 1..Len(log[f]) : key' = [key EXCEPT ![t] = log[f][i].key]
  BY DEF ReadClaimOnly
<1>2. log[f][i].key \in Key
  BY RecordFields, FileOfType DEF Inv, TypeOK
<1>3. pc[t] = "read" /\ Goto(t, "begin_recovered")
  BY DEF ReadClaimOnly
<1>4. OutcomeTypes' /\ WorldTypes'
  BY TypeParts DEF Inv, ReadClaimOnly, OutcomeTypes, WorldTypes, worldVars
<1>5. ThreadInv(t)'
  BY <1>1, <1>2, <1>3 DEF Inv, TypeOK, ThreadInv, ReadClaimOnly, Goto, Inside,
     ProgramCounter, Appending, Granting, Clean, Claiming, FileOf, fileVars
<1>6. key' \in [Thread -> [op : Op \union {None}, hash : Hash \union {None}]]
  BY <1>1, <1>2 DEF Inv, TypeOK, Key
<1>. QED BY <1>1, <1>3, <1>4, <1>5, <1>6, LocalStep DEF ReadClaimOnly, Inv, TypeOK,
        Inside, ProgramCounter, worldVars

(* Replay and reconciliation lead to no dispatch.                          *)
LEMMA ReadTerminalKeeps ==
  ASSUME Inv, NEW t \in Thread, ReadTerminal(t)
  PROVE  Inv'
<1> DEFINE f == FileOf(t)
<1>1. PICK i \in 1..Len(log[f]) :
        /\ IsLast(i, Lines(f, key[t].op, "terminal"))
        /\ \/ /\ log[f][i].term = "interrupted"
              /\ key' = [key EXCEPT ![t] = log[f][i].key]
              /\ term' = [term EXCEPT ![t] = log[f][i].term]
              /\ Goto(t, "begin_reconcile")
              /\ UNCHANGED <<lock, call, site, cancelled, expired, ackVars>>
           \/ ReturnUnsynced(t, log[f][i].key, log[f][i].term)
  BY DEF ReadTerminal
<1>2. log[f][i].key \in Key /\ log[f][i].term \in Terminal
  BY <1>1, RecordFields, FileOfType DEF Inv, TypeOK, IsLast, Lines
<1>3. /\ pc[t] = "read" /\ OutcomeTypes' /\ WorldTypes'
      /\ UNCHANGED <<fileVars, worldVars>>
  BY TypeParts DEF Inv, ReadTerminal, OutcomeTypes, WorldTypes, worldVars
<1>4. CASE ReturnUnsynced(t, log[f][i].key, log[f][i].term)
  BY <1>2, <1>3, <1>4, PlainReturn
<1>5. CASE /\ log[f][i].term = "interrupted"
           /\ key' = [key EXCEPT ![t] = log[f][i].key]
           /\ term' = [term EXCEPT ![t] = log[f][i].term]
           /\ Goto(t, "begin_reconcile")
           /\ UNCHANGED <<lock, call, site, cancelled, expired, ackVars>>
  <2>1. ThreadInv(t)'
    BY <1>2, <1>3, <1>5 DEF Inv, TypeOK, ThreadInv, Goto, Inside,
       ProgramCounter, Appending, Granting, Clean, Claiming, FileOf, fileVars
  <2>2. /\ key' \in [Thread -> [op : Op \union {None}, hash : Hash \union {None}]]
        /\ term' \in [Thread -> Terminal \union {None}]
    BY <1>2, <1>5 DEF Inv, TypeOK, Key
  <2>. QED BY <1>3, <1>5, <2>1, <2>2, LocalStep DEF Inv, TypeOK, Inside,
          ProgramCounter, worldVars
<1>. QED BY <1>1, <1>4, <1>5

-----------------------------------------------------------------------------
(* Appends                                                                 *)

(* finish_after_effect weakens a terminal to a terminal.                   *)
LEMMA PersistenceUnknownType ==
  ASSUME NEW z \in Terminal
  PROVE  PersistenceUnknown(z) \in Terminal
BY DEF PersistenceUnknown, Terminal, Unknown

(* What an append relies on: the lock, and a line to write.                *)
LEMMA AppendingFacts ==
  ASSUME Inv, NEW t \in Thread, pc[t] \in Appending
  PROVE  /\ pc[t] \in Inside /\ FileOf(t) \in File /\ lock[FileOf(t)] = t
         /\ key[t] \in Key /\ Line(t) \in Record
         /\ ~Claiming(t) => term[t] \in Terminal
<1>1. pc[t] \in Inside \ {"repair", "read"}
  BY DEF Appending, Inside, ProgramCounter
<1>2. key[t] \in Key /\ lock[FileOf(t)] = t /\ (~Claiming(t) => term[t] \in Terminal)
  BY <1>1 DEF Inv, ThreadInv
<1>. QED BY <1>1, <1>2, FileOfType DEF Line, Record, Claiming

(* Whatever follows a failed append, no file or dispatch is involved.      *)
LEMMA AppendFailedFrame ==
  ASSUME Inv, NEW t \in Thread, pc[t] \in Appending, AppendFailed(t)
  PROVE  CallTypes' /\ AckTypes' /\ Spares({t}) /\ ThreadInv(t)'
<1>1. CASE ReturnNothing(t)
  BY <1>1, ReturnFrame DEF Inv
<1>2. CASE site[t] = "retry" /\ ReturnUnsynced(t, key[t], term[t])
  BY <1>2, AppendingFacts, ReturnFrame DEF Inv, Claiming
<1>3. CASE /\ site[t] = "effect"
           /\ term' = [term EXCEPT ![t] = PersistenceUnknown(@)]
           /\ Goto(t, "repair_retry")
           /\ UNCHANGED <<lock, call, key, site, cancelled, expired, ackVars>>
  <2>1. PersistenceUnknown(term[t]) \in Terminal
    BY <1>3, AppendingFacts, PersistenceUnknownType DEF Claiming
  <2>2. CallTypes' /\ AckTypes' /\ Spares({t})
    BY <1>3, <2>1 DEF Inv, TypeOK, CallTypes, AckTypes, ackVars, Spares, Goto,
       ProgramCounter
  <2>3. ThreadInv(t)'
    BY <1>3, <2>1, AppendingFacts DEF Inv, TypeOK, ThreadInv, Goto, Inside,
       Appending, Granting, Clean, Claiming, FileOf
  <2>. QED BY <2>2, <2>3
<1>. QED BY <1>1, <1>2, <1>3 DEF AppendFailed

(* A step that changes at most whether the tail is torn, and syncs nothing. *)
LEMMA TailStep ==
  ASSUME Inv, NEW t \in Thread, pc[t] \in Appending,
         CallTypes', AckTypes', Spares({t}), ThreadInv(t)',
         UNCHANGED <<log, synced, outcomes, worldVars>>,
         ~corrupt'[FileOf(t)],
         corrupt' \in [File -> BOOLEAN], torn' \in [File -> BOOLEAN],
         \A g \in File \ {FileOf(t)} :
           torn'[g] = torn[g] /\ corrupt'[g] = corrupt[g]
  PROVE  Inv'
<1>1. TypeOK'
  BY DEF Inv, TypeOK, CallTypes, AckTypes, worldVars
<1>2. OnlyFile(FileOf(t)) /\ AtMostOncePerLedger'
  BY DEF OnlyFile, Inv, AtMostOncePerLedger, worldVars
<1>3. FileInv(FileOf(t))'
  BY AppendingFacts DEF Inv, FileInv, DurableClaim, FileOf, worldVars
<1>. QED BY <1>1, <1>2, <1>3, AppendingFacts, InsideStep

(* A failed append leaves at most a torn tail.                             *)
LEMMA AppendFailsKeeps ==
  ASSUME Inv, NEW t \in Thread,
         AppendBodyFails(t) \/ AppendNewlineFails(t) \/ AppendSyncFails(t)
  PROVE  Inv'
<1>1. /\ pc[t] \in Appending /\ AppendFailed(t)
      /\ UNCHANGED <<log, synced, corrupt, outcomes, worldVars>>
      /\ \E tail \in BOOLEAN : torn' = [torn EXCEPT ![FileOf(t)] = tail]
  <2>1. torn = [torn EXCEPT ![FileOf(t)] = torn[FileOf(t)]] /\ torn[FileOf(t)] \in BOOLEAN
    BY FileOfType DEF Inv, TypeOK
  <2>. QED BY <2>1 DEF AppendBodyFails, AppendNewlineFails, AppendSyncFails,
              Appending, fileVars
<1>2. CallTypes' /\ AckTypes' /\ Spares({t}) /\ ThreadInv(t)'
  BY <1>1, AppendFailedFrame
<1>3. /\ ~corrupt'[FileOf(t)]
      /\ corrupt' \in [File -> BOOLEAN]
      /\ torn' \in [File -> BOOLEAN]
      /\ \A g \in File \ {FileOf(t)} : torn'[g] = torn[g] /\ corrupt'[g] = corrupt[g]
  BY <1>1, FileOfType DEF Inv, TypeOK, FileInv
<1>. QED BY <1>1, <1>2, <1>3, TailStep

(* The JSON of a line is written only after a clean tail.                  *)
LEMMA AppendBodyKeeps ==
  ASSUME Inv, NEW t \in Thread, AppendBody(t)
  PROVE  Inv'
<1>1. pc[t] = "append" /\ pc[t] \in Appending /\ Goto(t, "newline")
  BY DEF AppendBody, Appending
<1>2. ~torn[FileOf(t)] /\ ~corrupt[FileOf(t)]
  BY <1>1, FileOfType DEF Inv, ThreadInv, FileInv, Clean, Inside, ProgramCounter
<1>3. /\ ~corrupt'[FileOf(t)]
      /\ corrupt' \in [File -> BOOLEAN]
      /\ torn' \in [File -> BOOLEAN]
      /\ \A g \in File \ {FileOf(t)} : torn'[g] = torn[g] /\ corrupt'[g] = corrupt[g]
  BY <1>2, FileOfType DEF AppendBody, Inv, TypeOK
<1>4. CallTypes' /\ AckTypes' /\ Spares({t})
  BY <1>1 DEF AppendBody, Inv, TypeOK, CallTypes, AckTypes, ackVars, Spares, Goto,
     ProgramCounter
<1>5. ThreadInv(t)'
  BY <1>1, AppendingFacts DEF AppendBody, Inv, TypeOK, ThreadInv, Goto, Inside,
     ProgramCounter, Appending, Granting, Clean, Claiming, FileOf, Undispatched,
     worldVars
<1>. QED BY <1>1, <1>3, <1>4, <1>5, TailStep DEF AppendBody

(* The newline completes the line at the end of the file.                  *)
LEMMA AppendNewlineKeeps ==
  ASSUME Inv, NEW t \in Thread, AppendNewline(t)
  PROVE  Inv'
<1> DEFINE f == FileOf(t)
<1>1. pc[t] = "newline" /\ pc[t] \in Appending /\ Goto(t, "sync")
  BY DEF AppendNewline, Appending
<1>2. f \in File /\ log[f] \in Seq(Record) /\ Line(t) \in Record /\ ~corrupt[f]
  BY <1>1, AppendingFacts DEF Inv, TypeOK, FileInv
<1>3. log' = [log EXCEPT ![f] = Append(log[f], Line(t))]
  BY <1>2 DEF AppendNewline
<1>4. /\ log'[f] = Append(log[f], Line(t))
      /\ Len(log'[f]) = Len(log[f]) + 1
      /\ log'[f][Len(log'[f])] = Line(t)
      /\ \A i \in 1..Len(log[f]) : log'[f][i] = log[f][i]
  BY <1>2, <1>3 DEF Inv, TypeOK
<1>5. TypeOK'
  BY <1>1, <1>2, <1>3 DEF AppendNewline, Inv, TypeOK, Goto, ProgramCounter,
     worldVars, ackVars
<1>6. Spares({t})
  BY <1>1 DEF AppendNewline, Spares, Inv, TypeOK, Goto
<1>7. OnlyFile(f) /\ AtMostOncePerLedger'
  BY <1>3 DEF AppendNewline, OnlyFile, Inv, TypeOK, AtMostOncePerLedger, worldVars
<1>8. FileInv(f)'
  <2>1. synced[f] \in Nat /\ synced[f] <= Len(log[f]) /\ synced' = synced
    BY <1>2 DEF AppendNewline, Inv, TypeOK, FileInv
  <2>2. \A k \in Key : DurableClaim(f, k) => DurableClaim(f, k)'
    BY <1>2, <1>4, <2>1 DEF DurableClaim
  <2>. QED BY <1>2, <1>4, <2>1, <2>2 DEF AppendNewline, Inv, FileInv, worldVars
<1>9. ThreadInv(t)'
  <2>1. Claiming(t) => Line(t) = Claim(key[t])
    BY DEF Claiming, Line
  <2>. QED BY <1>1, <1>2, <1>4, <2>1, AppendingFacts DEF AppendNewline, Inv,
          TypeOK, ThreadInv, Goto, Inside, ProgramCounter, Appending, Granting,
          Clean, Claiming, FileOf, Undispatched, worldVars
<1>. QED BY <1>1, <1>5, <1>6, <1>7, <1>8, <1>9, AppendingFacts, InsideStep

(* The sync makes a claim durable before its operation is dispatched.      *)
LEMMA AppendSyncKeeps ==
  ASSUME Inv, NEW t \in Thread, AppendSync(t)
  PROVE  Inv'
<1> DEFINE f == FileOf(t)
<1>1. pc[t] = "sync" /\ pc[t] \in Appending /\ AppendDone(t)
  BY DEF AppendSync, Appending
<1>2. f \in File /\ log[f] \in Seq(Record) /\ key[t] \in Key
  BY <1>1, AppendingFacts DEF Inv, TypeOK
<1>3. /\ UNCHANGED <<log, torn, corrupt, outcomes, worldVars>>
      /\ synced' = [synced EXCEPT ![f] = Len(log[f])]
  BY DEF AppendSync
<1>4. FileTypes' /\ OutcomeTypes' /\ WorldTypes'
  BY <1>2, <1>3 DEF Inv, TypeOK, FileTypes, OutcomeTypes, WorldTypes, worldVars
<1>5. synced'[f] = Len(log[f]) /\ synced[f] <= Len(log[f]) /\ synced[f] \in Nat
  BY <1>2, <1>3 DEF Inv, TypeOK, FileInv
<1>6. \A k \in Key : DurableClaim(f, k) => DurableClaim(f, k)'
  BY <1>2, <1>3, <1>5 DEF DurableClaim
<1>7. CallTypes' /\ AckTypes' /\ Spares({t}) /\ ThreadInv(t)'
  <2>1. CASE site[t] # "claim" /\ ReturnDurable(t)
    BY <1>1, <2>1, AppendingFacts, ReturnFrame DEF Inv, Claiming
  <2>2. CASE /\ site[t] = "claim" /\ Goto(t, "begin_new")
             /\ UNCHANGED <<lock, call, key, term, site, cancelled, expired, ackVars>>
    <3>1. CallTypes' /\ AckTypes' /\ Spares({t})
      BY <2>2 DEF Inv, TypeOK, CallTypes, AckTypes, ackVars, Spares, Goto,
         ProgramCounter
    <3>2. Claiming(t) /\ Len(log[f]) > 0 /\ log[f][Len(log[f])] = Claim(key[t])
      BY <1>1, <2>2 DEF Inv, ThreadInv, Claiming
    <3>3. DurableClaim(f, key[t])'
      <4>1. Len(log[f]) \in 1..synced'[f] /\ log'[f][Len(log[f])] = Claim(key'[t])
        BY <1>2, <1>3, <1>5, <2>2, <3>2
      <4>. QED BY <4>1, <1>3 DEF DurableClaim
    <3>4. pc'[t] = "begin_new" /\ key'[t] = key[t] /\ lock'[f] = t /\ ~torn'[f]
      BY <1>1, <1>3, <2>2, AppendingFacts DEF Inv, TypeOK, ThreadInv, Clean,
         Inside, ProgramCounter, Goto
    <3>5. Undispatched(f, key[t])'
      BY <1>1, <1>3, <2>2, <3>2 DEF Inv, ThreadInv, Undispatched, FileOf, worldVars
    <3>6. ThreadInv(t)'
      BY <1>2, <3>3, <3>4, <3>5 DEF ThreadInv, Appending, Granting, Clean,
         Claiming, FileOf
    <3>. QED BY <3>1, <3>6
  <2>. QED BY <1>1, <2>1, <2>2 DEF AppendDone
<1>8. TypeOK'
  BY <1>4, <1>7 DEF TypeOK, CallTypes, FileTypes, OutcomeTypes, WorldTypes, AckTypes
<1>9. OnlyFile(f) /\ AtMostOncePerLedger'
  BY <1>3 DEF OnlyFile, Inv, TypeOK, AtMostOncePerLedger, worldVars
<1>10. FileInv(f)'
  BY <1>2, <1>3, <1>5, <1>6 DEF Inv, FileInv, worldVars
<1>. QED BY <1>1, <1>7, <1>8, <1>9, <1>10, AppendingFacts, InsideStep

-----------------------------------------------------------------------------
(* The outcome ledger                                                      *)

(* What a call that holds the lock knows of itself.                        *)
LEMMA InsideFacts ==
  ASSUME Inv, NEW t \in Thread, pc[t] \in Inside \ {"repair", "read"}
  PROVE  /\ key[t] \in Key /\ FileOf(t) \in File /\ lock[FileOf(t)] = t
         /\ StoreOf[ProcessOf[t]] \in Store /\ Held(t) \in Entry
BY ConstantsAssumption, FileOfType DEF Inv, TypeOK, ThreadInv, Held

(* OutcomeLedger::begin, failing or not, writes an entry at most.          *)
LEMMA GrantType ==
  ASSUME Inv, NEW t \in Thread, pc[t] \in Inside \ {"repair", "read"},
         Grant(t) \/ UNCHANGED outcomes
  PROVE  OutcomeTypes'
<1>1. CASE UNCHANGED outcomes
  BY <1>1 DEF Inv, TypeOK, OutcomeTypes
<1>2. CASE Grant(t)
  BY <1>2, InsideFacts DEF Inv, TypeOK, OutcomeTypes, Grant, Entry
<1>. QED BY <1>1, <1>2

(* begin resolved the operation: its terminal goes to the file.            *)
LEMMA ResolvedKeeps ==
  ASSUME Inv, NEW t \in Thread, pc[t] \in Inside \ {"repair", "read"},
         pc[t] \in Clean, Grant(t),
         NEW z \in Terminal, term' = [term EXCEPT ![t] = z],
         StartAppend(t, "final"),
         UNCHANGED <<fileVars, lock, call, key, cancelled, expired, worldVars, ackVars>>
  PROVE  Inv'
<1>1. OutcomeTypes' /\ WorldTypes'
  BY GrantType DEF Inv, TypeOK, WorldTypes, worldVars
<1>2. ThreadInv(t)'
  BY InsideFacts DEF Inv, TypeOK, ThreadInv, StartAppend, Goto, Inside,
     ProgramCounter, Appending, Granting, Clean, Claiming, FileOf, fileVars
<1>. QED BY <1>1, <1>2, LocalStep DEF StartAppend, Inv, TypeOK, Site, Goto, Inside,
        ProgramCounter, worldVars

(* A fresh claim goes on to the dispatch or ends without one.              *)
LEMMA BeginNewKeeps ==
  ASSUME Inv, NEW t \in Thread, BeginNew(t)
  PROVE  Inv'
<1>1. pc[t] = "begin_new" /\ pc[t] \in Inside \ {"repair", "read"} /\ pc[t] \in Clean
  BY DEF BeginNew, Inside, Clean, ProgramCounter
<1>2. OutcomeTypes' /\ WorldTypes'
  BY <1>1, GrantType DEF BeginNew, Inv, TypeOK, WorldTypes, worldVars
<1>3. CASE Goto(t, "capabilities") /\ UNCHANGED <<term, site>>
  <2>1. ThreadInv(t)'
    BY <1>1, <1>3, InsideFacts DEF BeginNew, Inv, TypeOK, ThreadInv, Goto, Inside,
       ProgramCounter, Appending, Granting, Clean, Claiming, FileOf,
       Undispatched, DurableClaim, fileVars, worldVars
  <2>. QED BY <1>1, <1>2, <1>3, <2>1, LocalStep DEF BeginNew, Inv, TypeOK, Inside,
          ProgramCounter, worldVars
<1>4. CASE Held(t) # "absent" /\ StartAppend(t, "final")
  BY <1>1, <1>4, ResolvedKeeps DEF BeginNew, Terminal, Unknown
<1>. QED BY <1>3, <1>4 DEF BeginNew

(* A recovered claim ends without a dispatch.                              *)
LEMMA BeginRecoveredKeeps ==
  ASSUME Inv, NEW t \in Thread, BeginRecovered(t)
  PROVE  Inv'
<1>1. pc[t] \in Inside \ {"repair", "read"} /\ pc[t] \in Clean
  BY DEF BeginRecovered, Inside, Clean, ProgramCounter
<1>. QED BY <1>1, ResolvedKeeps DEF BeginRecovered, Terminal, Unknown

(* A reconciled terminal ends without a dispatch.                          *)
LEMMA BeginReconcileKeeps ==
  ASSUME Inv, NEW t \in Thread, BeginReconcile(t)
  PROVE  Inv'
<1>1. /\ pc[t] = "begin_reconcile" /\ pc[t] \in Clean
      /\ pc[t] \in Inside \ {"repair", "read"}
  BY DEF BeginReconcile, Inside, Clean, ProgramCounter
<1>2. key[t] \in Key /\ term[t] \in Terminal
  BY <1>1, InsideFacts DEF Inv, ThreadInv
<1>3. OutcomeTypes'
  BY <1>1, GrantType DEF BeginReconcile
<1>4. CASE ReturnUnsynced(t, key[t], term[t])
  BY <1>2, <1>3, <1>4, PlainReturn DEF BeginReconcile
<1>5. CASE /\ Held(t) \in Terminal
           /\ term' = [term EXCEPT ![t] = Held(t)]
           /\ StartAppend(t, "final")
           /\ UNCHANGED <<lock, call, key, cancelled, expired, ackVars>>
  BY <1>1, <1>5, ResolvedKeeps DEF BeginReconcile
<1>. QED BY <1>4, <1>5 DEF BeginReconcile

(* A failing begin ends the call.                                          *)
LEMMA BeginFailsKeeps ==
  ASSUME Inv, NEW t \in Thread, BeginFails(t)
  PROVE  Inv'
<1>1. pc[t] \in Inside \ {"repair", "read"}
  BY DEF BeginFails, Inside, ProgramCounter
<1>. QED BY <1>1, GrantType, PlainReturn DEF BeginFails

-----------------------------------------------------------------------------
(* Up to the effect and after it                                           *)

(* Whatever the terminal is, the claim stays durable.                      *)
LEMMA SettleKeeps ==
  ASSUME Inv, NEW t \in Thread, pc[t] \in Inside \ {"repair", "read"},
         pc[t] \in Clean, NEW z \in Terminal, NEW s \in {"final", "effect"},
         Settle(t, z, s), WorldTypes'
  PROVE  Inv'
<1>1. OutcomeTypes'
  BY DEF Settle, Inv, TypeOK, OutcomeTypes
<1>2. ThreadInv(t)'
  BY InsideFacts DEF Settle, Inv, TypeOK, ThreadInv, Goto, Inside,
     ProgramCounter, Appending, Granting, Clean, Claiming, FileOf, fileVars
<1>. QED BY <1>1, <1>2, LocalStep DEF Settle, Inv, TypeOK, Site, Inside, ProgramCounter

(* The steps from the claim to the dispatch lose none of what the dispatch *)
(* relies on.                                                              *)
LEMMA PrecheckKeeps ==
  ASSUME Inv, NEW t \in Thread, Capabilities(t) \/ Observe(t) \/ Sentinel(t)
  PROVE  Inv'
<1>1. PICK here \in Granting \ {"begin_new", "dispatch"},
           next \in Granting \ {"begin_new", "capabilities"},
           Refusals \in SUBSET Terminal : Precheck(t, here, next, Refusals)
  <2>1. {"rejected", "failed"} \subseteq Terminal /\ {"rejected"} \subseteq Terminal
    BY DEF Terminal, NoEffect
  <2>. QED BY <2>1 DEF Capabilities, Observe, Sentinel, Granting
<1>2. /\ pc[t] \in Granting /\ pc[t] \in Clean
      /\ pc[t] \in Inside \ {"repair", "read"}
  BY <1>1 DEF Precheck, Granting, Inside, Clean, ProgramCounter
<1>3. ASSUME NEW z \in Terminal, FinishEarly(t, z) PROVE Inv'
  <2>1. WorldTypes'
    BY <1>3 DEF FinishEarly, Settle, Inv, TypeOK, WorldTypes
  <2>. QED BY <1>2, <1>3, <2>1, SettleKeeps DEF FinishEarly
<1>4. CASE /\ Goto(t, next)
           /\ UNCHANGED <<fileVars, lock, outcomes, call, key, term, site,
                          cancelled, expired, worldVars, ackVars>>
  <2>1. OutcomeTypes' /\ WorldTypes'
    BY <1>4 DEF Inv, TypeOK, OutcomeTypes, WorldTypes, worldVars
  <2>2. ThreadInv(t)'
    BY <1>2, <1>4, InsideFacts DEF Inv, TypeOK, ThreadInv, Goto, Inside,
       ProgramCounter, Appending, Granting, Clean, Claiming, FileOf,
       Undispatched, DurableClaim, fileVars, worldVars
  <2>3. next \in Inside
    BY DEF Granting, Inside, ProgramCounter
  <2>. QED BY <1>2, <1>4, <2>1, <2>2, <2>3, LocalStep DEF Inv, TypeOK, worldVars
<1>5. {"cancelled", "expired"} \subseteq Terminal
  BY DEF Terminal, NoEffect
<1>. QED BY <1>1, <1>3, <1>4, <1>5 DEF Precheck

(* The one step that counts a dispatch.                                    *)
LEMMA DispatchKeeps ==
  ASSUME Inv, NEW t \in Thread, Dispatch(t)
  PROVE  Inv'
<1> DEFINE f == FileOf(t)
<1>1. /\ pc[t] = "dispatch" /\ pc[t] \in Inside \ {"repair", "read"}
      /\ pc[t] \in Granting /\ pc[t] \in Clean
  BY DEF Dispatch, Granting, Inside, Clean, ProgramCounter
<1>2. f \in File /\ key[t] \in Key
  BY <1>1, InsideFacts
<1>3. Undispatched(f, key[t]) /\ DurableClaim(f, key[t])
  BY <1>1 DEF Inv, ThreadInv
<1>4. dispatches' = [dispatches EXCEPT ![f][key[t]] = dispatches[f][key[t]] + 1]
  BY DEF Dispatch
<1>5. /\ dispatches'[f][key[t]] = 1
      /\ \A k \in Key \ {key[t]} : dispatches'[f][k] = dispatches[f][k]
      /\ \A g \in File \ {f} : dispatches'[g] = dispatches[g]
  BY <1>2, <1>3, <1>4 DEF Inv, TypeOK, Undispatched
<1>6. TypeOK'
  <2>1. world' \in [File -> [Key -> {"none", "inflight", "done"}]]
    BY <1>2 DEF Dispatch, Inv, TypeOK
  <2>2. dispatches' \in [File -> [Key -> Nat]]
    BY <1>2, <1>4 DEF Inv, TypeOK
  <2>. QED BY <2>1, <2>2 DEF Dispatch, Inv, TypeOK, Goto, ProgramCounter,
              fileVars, ackVars
<1>7. Spares({t})
  BY DEF Dispatch, Spares, Inv, TypeOK, Goto
<1>8. OnlyFile(f)
  BY <1>5 DEF Dispatch, OnlyFile, fileVars
<1>9. ThreadInv(t)'
  BY <1>1, InsideFacts DEF Dispatch, Inv, TypeOK, ThreadInv, Goto, Inside,
     ProgramCounter, Appending, Granting, Clean, Claiming, FileOf, fileVars
<1>10. FileInv(f)'
  BY <1>2, <1>3, <1>5 DEF Dispatch, Inv, FileInv, DurableClaim, fileVars
<1>11. AtMostOncePerLedger'
  <2> SUFFICES ASSUME NEW g \in File, NEW k1 \in Key, NEW k2 \in Key
               PROVE  /\ dispatches'[g][k1] <= 1
                      /\ (/\ k1.op = k2.op
                          /\ dispatches'[g][k1] > 0 /\ dispatches'[g][k2] > 0)
                           => k1 = k2
    BY DEF AtMostOncePerLedger
  <2>1. CASE g # f
    BY <1>5, <2>1 DEF Inv, AtMostOncePerLedger
  <2>2. CASE g = f
    BY <1>2, <1>3, <1>5, <2>2 DEF Inv, AtMostOncePerLedger, Undispatched
  <2>. QED BY <2>1, <2>2
<1>. QED BY <1>1, <1>6, <1>7, <1>8, <1>9, <1>10, <1>11, InsideStep

(* What the executor answers, and the verification, dispatch nothing.      *)
LEMMA EffectKeeps ==
  ASSUME Inv, NEW t \in Thread,
         DispatchOk(t) \/ DispatchUnknown(t) \/ DispatchRefused(t) \/ Verify(t)
  PROVE  Inv'
<1>1. pc[t] \in {"executing", "verify"}
  BY DEF DispatchOk, DispatchUnknown, DispatchRefused, Verify
<1>2. pc[t] \in Inside \ {"repair", "read"} /\ pc[t] \in Clean
  BY <1>1 DEF Inside, Clean, ProgramCounter
<1>3. CASE /\ Goto(t, "verify") /\ UNCHANGED world
           /\ UNCHANGED <<fileVars, lock, outcomes, call, key, term, site,
                          cancelled, expired, dispatches, ackVars>>
  <2>1. OutcomeTypes' /\ WorldTypes'
    BY <1>3 DEF Inv, TypeOK, OutcomeTypes, WorldTypes
  <2>2. ThreadInv(t)'
    BY <1>2, <1>3, InsideFacts DEF Inv, TypeOK, ThreadInv, Goto, Inside,
       ProgramCounter, Appending, Granting, Clean, Claiming, FileOf, fileVars
  <2>. QED BY <1>2, <1>3, <2>1, <2>2, LocalStep DEF Inv, TypeOK, Inside, ProgramCounter
<1>4. CASE \E z \in Terminal, s \in {"final", "effect"} : Settle(t, z, s)
  <2>1. WorldTypes'
    <3>1. world' = world \/ world' = [world EXCEPT ![FileOf(t)][key[t]] = "none"]
      BY DEF DispatchOk, DispatchUnknown, DispatchRefused, Verify
    <3>2. world' \in [File -> [Key -> {"none", "inflight", "done"}]]
      <4>1. CASE world' = world
        BY <4>1 DEF Inv, TypeOK
      <4>2. CASE world' = [world EXCEPT ![FileOf(t)][key[t]] = "none"]
        BY <1>2, <4>2, InsideFacts DEF Inv, TypeOK
      <4>. QED BY <3>1, <4>1, <4>2
    <3>3. dispatches' = dispatches
      BY <1>4 DEF Settle
    <3>. QED BY <3>2, <3>3 DEF Inv, TypeOK, WorldTypes
  <2>. QED BY <1>2, <1>4, <2>1, SettleKeeps
<1>5. {"uncertain", "cancelled", "expired", "rejected", "verified", "unverified"}
        \subseteq Terminal
  BY DEF Terminal, Success, NoEffect, Unknown
<1>. QED BY <1>3, <1>4, <1>5 DEF DispatchOk, DispatchUnknown, DispatchRefused, Verify

(* OutcomeLedger::record, failing or not, dispatches nothing.              *)
LEMMA RecordKeeps ==
  ASSUME Inv, NEW t \in Thread, RecordOutcome(t) \/ RecordFails(t)
  PROVE  Inv'
<1>1. /\ pc[t] = "record" /\ pc[t] \in Inside \ {"repair", "read"}
      /\ pc[t] \in Clean
  BY DEF RecordOutcome, RecordFails, Inside, Clean, ProgramCounter
<1>2. term[t] \in Terminal /\ PersistenceUnknown(term[t]) \in Terminal
  BY <1>1, PersistenceUnknownType DEF Inv, ThreadInv
<1>3. OutcomeTypes'
  <2>1. CASE UNCHANGED outcomes
    BY <2>1 DEF Inv, TypeOK, OutcomeTypes
  <2>2. CASE Recorded(t)
    BY <1>1, <1>2, <2>2, InsideFacts DEF Inv, TypeOK, OutcomeTypes, Recorded, Entry
  <2>. QED BY <2>1, <2>2 DEF RecordOutcome, RecordFails
<1>4. CASE ReturnNothing(t)
  BY <1>3, <1>4, PlainReturn DEF RecordOutcome, RecordFails
<1>5. ASSUME NEW z \in Terminal, term' = [term EXCEPT ![t] = z],
             site[t] # "claim", Goto(t, "append"),
             UNCHANGED <<fileVars, lock, call, key, site, cancelled, expired,
                         worldVars, ackVars>>
      PROVE  Inv'
  <2>1. WorldTypes'
    BY <1>5 DEF Inv, TypeOK, WorldTypes, worldVars
  <2>2. ThreadInv(t)'
    BY <1>1, <1>5, InsideFacts DEF Inv, TypeOK, ThreadInv, Goto, Inside,
       ProgramCounter, Appending, Granting, Clean, Claiming, FileOf, fileVars
  <2>. QED BY <1>1, <1>3, <1>5, <2>1, <2>2, LocalStep DEF Inv, TypeOK, Inside,
          ProgramCounter, worldVars
<1>6. site[t] \in {"final", "effect"}
  BY <1>1 DEF Inv, ThreadInv
<1>7. term = [term EXCEPT ![t] = term[t]]
  BY DEF Inv, TypeOK
<1>. QED BY <1>2, <1>4, <1>5, <1>6, <1>7 DEF RecordOutcome, RecordFails

-----------------------------------------------------------------------------
(* Killed processes and power loss                                         *)

(* What a memory outcome ledger forgets is forgotten whole.                *)
LEMMA ForgetType ==
  ASSUME Inv, NEW P \in SUBSET Process, ForgetOutcomes(P)
  PROVE  OutcomeTypes'
BY DEF Inv, TypeOK, OutcomeTypes, ForgetOutcomes, Entry

(* A killed process releases its locks and leaves its files as they are.   *)
LEMMA KillKeeps ==
  ASSUME Inv, NEW p \in Process, Kill(p)
  PROVE  Inv'
<1> DEFINE T == {t \in Thread : ProcessOf[t] = p}
<1>1. CallTypes' /\ Spares(T) /\ \A t \in T : ThreadInv(t)'
  BY LeaveFrame DEF Inv, Kill
<1>2. OutcomeTypes'
  BY ForgetType DEF Kill
<1>3. TypeOK' /\ UNCHANGED <<fileVars, dispatches>>
  BY <1>1, <1>2 DEF Kill, Inv, TypeOK, CallTypes, OutcomeTypes, fileVars,
     worldVars, ackVars
<1>. QED BY <1>1, <1>3, QuietStep

(* The synced lines survive, so no durable claim is lost.                  *)
LEMMA PowerLossKeeps ==
  ASSUME Inv, PowerLoss
  PROVE  Inv'
<1>1. PICK cut \in Survivors :
        /\ log' = [f \in File |-> SubSeq(log[f], 1, cut[f])]
        /\ synced' = cut
        /\ torn' \in [File -> BOOLEAN]
  BY DEF PowerLoss
<1>2. cut \in [File -> Nat] /\ \A f \in File : cut[f] \in synced[f]..Len(log[f])
  <2>1. \A f \in File : synced[f] \in Nat /\ Len(log[f]) \in Nat
    BY DEF Inv, TypeOK
  <2>2. \A f \in File : cut[f] \in synced[f]..Len(log[f])
    BY DEF Survivors
  <2>3. cut = [f \in File |-> cut[f]]
    BY DEF Survivors
  <2>. QED BY <2>1, <2>2, <2>3
<1>3. ASSUME NEW f \in File
      PROVE  /\ log'[f] \in Seq(Record)
             /\ synced'[f] = cut[f] /\ Len(log'[f]) = cut[f]
             /\ \A i \in 1..cut[f] : log'[f][i] = log[f][i]
  <2>1. log[f] \in Seq(Record) /\ cut[f] \in 0..Len(log[f])
    BY <1>2 DEF Inv, TypeOK
  <2>. QED BY <1>1, <2>1
<1>4. CallTypes' /\ \A t \in Thread : ThreadInv(t)'
  BY LeaveFrame DEF Inv, PowerLoss
<1>5. TypeOK'
  <2>1. log' \in [File -> Seq(Record)]
    BY <1>1, <1>3
  <2>2. OutcomeTypes'
    BY ForgetType DEF PowerLoss
  <2>3. world' \in [File -> [Key -> {"none", "inflight", "done"}]]
    BY DEF PowerLoss, Inv, TypeOK
  <2>. QED BY <1>1, <1>2, <1>4, <2>1, <2>2, <2>3 DEF PowerLoss, Inv, TypeOK, CallTypes,
          OutcomeTypes, ackVars
<1>6. ASSUME NEW f \in File PROVE FileInv(f)'
  <2>1. synced'[f] <= Len(log'[f]) /\ ~corrupt'[f]
    BY <1>2, <1>3 DEF PowerLoss, Inv, FileInv
  <2>2. ASSUME NEW k \in Key, dispatches'[f][k] > 0 PROVE DurableClaim(f, k)'
    <3>1. PICK i \in 1..synced[f] : log[f][i] = Claim(k)
      BY <2>2 DEF PowerLoss, Inv, FileInv, DurableClaim
    <3>2. i \in 1..synced'[f] /\ log'[f][i] = Claim(k)
      BY <1>2, <1>3, <3>1 DEF Inv, TypeOK
    <3>. QED BY <3>2 DEF DurableClaim
  <2>. QED BY <2>1, <2>2 DEF FileInv
<1>7. AtMostOncePerLedger'
  BY DEF PowerLoss, Inv, AtMostOncePerLedger
<1>. QED BY <1>4, <1>5, <1>6, <1>7 DEF Inv

-----------------------------------------------------------------------------
(* The theorems                                                            *)

(* Empty ledger files satisfy the invariant.                               *)
LEMMA InitInv == Init => Inv
<1> SUFFICES ASSUME Init PROVE Inv
  OBVIOUS
<1>1. TypeOK
  BY DEF Init, TypeOK, ProgramCounter, Site, NoKey, Entry
<1>2. \A t \in Thread : ThreadInv(t)
  BY DEF Init, ThreadInv, Inside, Appending, Granting, Clean, Claiming
<1>3. \A f \in File : FileInv(f)
  BY DEF Init, FileInv
<1>4. AtMostOncePerLedger
  BY DEF Init, AtMostOncePerLedger
<1>. QED BY <1>1, <1>2, <1>3, <1>4 DEF Inv

(* Every step of a call keeps the invariant.                               *)
LEMMA StepInv ==
  ASSUME Inv, NEW t \in Thread, Step(t)
  PROVE  Inv'
<1>1. CASE Acquire(t)
  BY <1>1, AcquireKeeps
<1>2. CASE AcquireFails(t) \/ WouldBlock(t) \/ Wake(t)
  BY <1>2, WaitKeeps
<1>3. CASE Repair(t) \/ RepairRetry(t)
  BY <1>3, RepairKeeps
<1>4. CASE ReadNothing(t) \/ ReadConflict(t) \/ ReadClaimOnly(t) \/ ReadTerminal(t)
  BY <1>4, ReadNothingKeeps, ReadConflictKeeps, ReadClaimOnlyKeeps, ReadTerminalKeeps
<1>5. CASE AppendBody(t) \/ AppendNewline(t) \/ AppendSync(t)
  BY <1>5, AppendBodyKeeps, AppendNewlineKeeps, AppendSyncKeeps
<1>6. CASE AppendBodyFails(t) \/ AppendNewlineFails(t) \/ AppendSyncFails(t)
  BY <1>6, AppendFailsKeeps
<1>7. CASE BeginNew(t) \/ BeginRecovered(t) \/ BeginReconcile(t) \/ BeginFails(t)
  BY <1>7, BeginNewKeeps, BeginRecoveredKeeps, BeginReconcileKeeps, BeginFailsKeeps
<1>8. CASE Capabilities(t) \/ Observe(t) \/ Sentinel(t)
  BY <1>8, PrecheckKeeps
<1>9. CASE Dispatch(t)
  BY <1>9, DispatchKeeps
<1>10. CASE DispatchOk(t) \/ DispatchUnknown(t) \/ DispatchRefused(t) \/ Verify(t)
  BY <1>10, EffectKeeps
<1>11. CASE RecordOutcome(t) \/ RecordFails(t)
  BY <1>11, RecordKeeps
<1>. QED BY <1>1, <1>2, <1>3, <1>4, <1>5, <1>6, <1>7, <1>8, <1>9, <1>10, <1>11 DEF Step

(* Every step of the system keeps the invariant.                           *)
LEMMA NextInv == Inv /\ [Next]_vars => Inv'
<1> SUFFICES ASSUME Inv, [Next]_vars PROVE Inv'
  OBVIOUS
<1>1. CASE UNCHANGED vars
  <2>1. TypeOK' /\ UNCHANGED <<fileVars, dispatches>>
    BY <1>1 DEF Inv, TypeOK, vars, fileVars, threadVars, worldVars, ackVars
  <2>2. Spares({})
    BY <1>1 DEF vars, threadVars, Spares
  <2>. QED BY <2>1, <2>2, QuietStep
<1>2. ASSUME NEW t \in Thread, NEW k \in Key, Execute(t, k) PROVE Inv'
  BY <1>2, ExecuteKeeps
<1>3. ASSUME NEW t \in Thread, NEW o \in Op, Status(t, o) PROVE Inv'
  BY <1>3, StatusKeeps
<1>4. ASSUME NEW t \in Thread, Cancel(t) \/ Expire(t) PROVE Inv'
  BY <1>4, SignalKeeps
<1>5. ASSUME NEW t \in Thread, Step(t) PROVE Inv'
  BY <1>5, StepInv
<1>6. ASSUME NEW f \in File, NEW k \in Key, Land(f, k) PROVE Inv'
  BY <1>6, SignalKeeps
<1>7. ASSUME NEW p \in Process, Kill(p) PROVE Inv'
  BY <1>7, KillKeeps
<1>8. CASE PowerLoss
  BY <1>8, PowerLossKeeps
<1>. QED BY <1>1, <1>2, <1>3, <1>4, <1>5, <1>6, <1>7, <1>8 DEF Next

(* The inductive invariant holds in every reachable state: the claim of a  *)
(* dispatched operation is durable, one call at a time is inside the lock, *)
(* and no append follows a torn tail.                                      *)
THEOREM SpecInv == Spec => []Inv
<1>. QED BY InitInv, NextInv, PTL DEF Spec

(* Every variable keeps its type.                                          *)
THEOREM TypeCorrect == Spec => []TypeOK
<1>1. Inv => TypeOK
  BY DEF Inv
<1>. QED BY <1>1, SpecInv, PTL

(* Durable at-most-once dispatch: whatever callers present and retry, and  *)
(* wherever I/O errors, kills and power losses strike, execute dispatches  *)
(* an operation id at most once through one ledger file.                   *)
THEOREM AtMostOnceDispatch == Spec => []AtMostOncePerLedger
<1>1. Inv => AtMostOncePerLedger
  BY DEF Inv
<1>. QED BY <1>1, SpecInv, PTL

(* Whatever was dispatched has a claim in the ledger file, so a later      *)
(* execute or status finds that it may have run.                           *)
THEOREM DispatchesAreClaimed == Spec => []DispatchIsClaimed
<1>1. ASSUME Inv, NEW f \in File, NEW k \in Key, dispatches[f][k] > 0
      PROVE  \E i \in 1..Len(log[f]) : log[f][i] = Claim(k)
  <2>1. PICK i \in 1..synced[f] : log[f][i] = Claim(k)
    BY <1>1 DEF Inv, FileInv, DurableClaim
  <2>2. i \in 1..Len(log[f])
    BY <1>1, <2>1 DEF Inv, FileInv, TypeOK
  <2>. QED BY <2>1, <2>2
<1>2. Inv => DispatchIsClaimed
  BY <1>1 DEF DispatchIsClaimed
<1>. QED BY <1>2, SpecInv, PTL

(* No write path of the ledger appends to a torn tail, so the file never   *)
(* holds a line in the middle that repair_tail and records() refuse.       *)
THEOREM LedgerStaysReadable == Spec => []NeverCorrupt
<1>1. Inv => NeverCorrupt
  BY DEF Inv, FileInv, NeverCorrupt
<1>. QED BY <1>1, SpecInv, PTL

-----------------------------------------------------------------------------
(* What a step can do to the files                                         *)

(* No line is added or lost, though more of them may be on the disk; a     *)
(* call adds its line; or the machine stops.                               *)
SameLines(f) == log'[f] = log[f] /\ synced'[f] \in {synced[f], Len(log[f])}

(* Thread t adds its line to file f.                                       *)
AddsLine(t, f) ==
  /\ pc[t] = "newline" /\ pc'[t] = "sync" /\ FileOf(t) = f
  /\ log'[f] = Append(log[f], Line(t)) /\ synced'[f] = synced[f]

(* File f loses lines that were not synced; what is left is on the disk.   *)
LosesLines(f) ==
  /\ synced'[f] \in synced[f]..Len(log[f])
  /\ log'[f] = SubSeq(log[f], 1, synced'[f])

(* What a step of the program does to file f.                              *)
FileStep(f) == SameLines(f) \/ \E t \in Thread : AddsLine(t, f)

(* What any step does to it.                                               *)
FileMove(f) == FileStep(f) \/ LosesLines(f)

(* A step that leaves the lines alone.                                     *)
LEMMA SameFiles ==
  ASSUME UNCHANGED <<log, synced>>
  PROVE  \A f \in File : FileStep(f)
BY DEF FileStep, SameLines

(* A step of a call leaves the lines alone, syncs them or adds one.        *)
LEMMA StepFiles ==
  ASSUME Inv, NEW t \in Thread, Step(t)
  PROVE  \A f \in File : FileStep(f)
<1>1. CASE Acquire(t) \/ AcquireFails(t) \/ WouldBlock(t) \/ Wake(t)
  BY <1>1, SameFiles DEF Acquire, AcquireFails, WouldBlock, Wake, fileVars
<1>2. CASE ReadNothing(t) \/ ReadConflict(t) \/ ReadClaimOnly(t) \/ ReadTerminal(t)
  BY <1>2, SameFiles DEF ReadNothing, ReadConflict, ReadClaimOnly, ReadTerminal, fileVars
<1>3. CASE \/ AppendBody(t) \/ AppendBodyFails(t)
           \/ AppendNewlineFails(t) \/ AppendSyncFails(t)
  BY <1>3, SameFiles DEF AppendBody, AppendBodyFails, AppendNewlineFails,
     AppendSyncFails, fileVars
<1>4. CASE BeginNew(t) \/ BeginRecovered(t) \/ BeginReconcile(t) \/ BeginFails(t)
  BY <1>4, SameFiles DEF BeginNew, BeginRecovered, BeginReconcile, BeginFails, fileVars
<1>5. CASE Capabilities(t) \/ Observe(t) \/ Sentinel(t)
  BY <1>5, SameFiles DEF Capabilities, Observe, Sentinel, Precheck, FinishEarly, Settle,
     fileVars
<1>6. CASE Dispatch(t) \/ DispatchOk(t) \/ DispatchUnknown(t) \/ DispatchRefused(t)
  BY <1>6, SameFiles DEF Dispatch, DispatchOk, DispatchUnknown, DispatchRefused, Settle,
     fileVars
<1>7. CASE Verify(t) \/ RecordOutcome(t) \/ RecordFails(t)
  BY <1>7, SameFiles DEF Verify, RecordOutcome, RecordFails, Settle, fileVars
<1>8. CASE Repair(t) \/ RepairRetry(t)
  <2>1. Repaired(FileOf(t)) \/ RepairFails(FileOf(t))
    BY <1>8 DEF Repair, RepairRetry
  <2>2. CASE Repaired(FileOf(t))
    BY <2>2, FileOfType DEF Repaired, FileStep, SameLines, Inv, TypeOK
  <2>3. CASE RepairFails(FileOf(t))
    BY <2>3, SameFiles DEF RepairFails
  <2>. QED BY <2>1, <2>2, <2>3
<1>9. CASE AppendNewline(t)
  <2>1. ~corrupt[FileOf(t)]
    BY FileOfType DEF Inv, FileInv
  <2>2. /\ log' = [log EXCEPT ![FileOf(t)] = Append(@, Line(t))]
        /\ synced' = synced /\ pc[t] = "newline" /\ pc'[t] = "sync"
    BY <1>9, <2>1 DEF AppendNewline, Goto, Inv, TypeOK
  <2>. QED BY <2>2, FileOfType DEF FileStep, SameLines, AddsLine, Inv, TypeOK
<1>10. CASE AppendSync(t)
  BY <1>10, FileOfType DEF AppendSync, FileStep, SameLines, Inv, TypeOK
<1>. QED BY <1>1, <1>2, <1>3, <1>4, <1>5, <1>6, <1>7, <1>8, <1>9, <1>10 DEF Step

(* Only a power loss takes lines away.                                     *)
LEMMA FilesMove ==
  ASSUME Inv, [Next]_vars
  PROVE  /\ \A f \in File : FileMove(f)
         /\ PowerLoss \/ \A f \in File : FileStep(f)
<1>1. ASSUME UNCHANGED vars PROVE \A f \in File : FileStep(f)
  BY <1>1, SameFiles DEF vars, fileVars
<1>2. ASSUME NEW t \in Thread, NEW k \in Key, Execute(t, k)
      PROVE  \A f \in File : FileStep(f)
  BY <1>2, SameFiles DEF Execute, fileVars
<1>3. ASSUME NEW t \in Thread, NEW o \in Op, Status(t, o)
      PROVE  \A f \in File : FileStep(f)
  BY <1>3, SameFiles DEF Status, fileVars
<1>4. ASSUME NEW t \in Thread, Cancel(t) \/ Expire(t)
      PROVE  \A f \in File : FileStep(f)
  BY <1>4, SameFiles DEF Cancel, Expire, fileVars
<1>5. ASSUME NEW t \in Thread, Step(t) PROVE \A f \in File : FileStep(f)
  BY <1>5, StepFiles
<1>6. ASSUME NEW f \in File, NEW k \in Key, Land(f, k) PROVE \A g \in File : FileStep(g)
  BY <1>6, SameFiles DEF Land, fileVars
<1>7. ASSUME NEW p \in Process, Kill(p) PROVE \A f \in File : FileStep(f)
  BY <1>7, SameFiles DEF Kill, fileVars
<1>8. CASE PowerLoss
  <2>1. PICK cut \in Survivors :
          log' = [f \in File |-> SubSeq(log[f], 1, cut[f])] /\ synced' = cut
    BY <1>8 DEF PowerLoss
  <2>2. \A f \in File : cut[f] \in synced[f]..Len(log[f])
    BY DEF Survivors
  <2>. QED BY <1>8, <2>1, <2>2 DEF FileMove, LosesLines
<1>9. CASE \A f \in File : FileStep(f)
  BY <1>9 DEF FileMove
<1>. QED BY <1>1, <1>2, <1>3, <1>4, <1>5, <1>6, <1>7, <1>8, <1>9 DEF Next

(* Synced lines stay where they are.                                       *)
LEMMA SyncedLinesStay ==
  ASSUME Inv, [Next]_vars, NEW f \in File
  PROVE  /\ synced[f] <= synced'[f]
         /\ \A i \in 1..synced[f] : log'[f][i] = log[f][i]
<1>1. synced[f] \in Nat /\ log[f] \in Seq(Record) /\ synced[f] <= Len(log[f])
  BY DEF Inv, TypeOK, FileInv
<1>2. CASE SameLines(f)
  BY <1>1, <1>2 DEF SameLines
<1>3. CASE LosesLines(f)
  <2>1. /\ synced'[f] \in Nat /\ synced[f] <= synced'[f]
        /\ synced'[f] <= Len(log[f]) /\ Len(log[f]) \in Nat
    BY <1>1, <1>3 DEF LosesLines
  <2>2. \A i \in 1..synced[f] : i \in 1..synced'[f]
    BY <1>1, <2>1
  <2>3. \A i \in 1..synced'[f] : log'[f][i] = log[f][i]
    BY <1>1, <1>3, <2>1 DEF LosesLines
  <2>. QED BY <2>1, <2>2, <2>3
<1>4. ASSUME NEW t \in Thread, AddsLine(t, f)
      PROVE  /\ synced[f] <= synced'[f]
             /\ \A i \in 1..synced[f] : log'[f][i] = log[f][i]
  <2>1. pc[t] \in Appending
    BY <1>4 DEF AddsLine, Appending
  <2>2. Line(t) \in Record
    BY <2>1, AppendingFacts
  <2>3. log'[f] = Append(log[f], Line(t)) /\ synced'[f] = synced[f]
    BY <1>4 DEF AddsLine
  <2>. QED BY <1>1, <2>2, <2>3
<1>. QED BY <1>2, <1>3, <1>4, FilesMove DEF FileMove, FileStep

(* A claim that is on the disk stays there.                                *)
LEMMA DurableClaimStays ==
  ASSUME Inv, [Next]_vars, NEW f \in File, NEW k, DurableClaim(f, k)
  PROVE  DurableClaim(f, k)'
<1>1. PICK i \in 1..synced[f] : log[f][i] = Claim(k)
  BY DEF DurableClaim
<1>2. i \in 1..synced'[f] /\ log'[f][i] = Claim(k)
  <2>1. synced[f] \in Nat /\ synced'[f] \in Nat
    BY NextInv DEF Inv, TypeOK
  <2>. QED BY <1>1, <2>1, SyncedLinesStay
<1>. QED BY <1>2 DEF DurableClaim

-----------------------------------------------------------------------------
(* What a step can do to the outcome ledgers                               *)

(* Thread t writes its terminal for k to store s.                          *)
Records(t, s, k) ==
  /\ pc[t] = "record" /\ HostLedger # "null"
  /\ StoreOf[ProcessOf[t]] = s /\ key[t] = k
  /\ outcomes'[s][k] = term[t]

(* What a step does to the entry of k in store s: nothing, a grant, the    *)
(* end of the process the store lives in, or the record of a terminal.     *)
StoreMove(s, k) ==
  \/ outcomes'[s][k] = outcomes[s][k]
  \/ outcomes[s][k] = "absent" /\ outcomes'[s][k] = "granted"
  \/ HostLedger = "memory" /\ outcomes'[s][k] = "absent"
  \/ \E t \in Thread : Records(t, s, k)

(* A step that leaves the stores alone.                                    *)
LEMMA SameStores ==
  ASSUME UNCHANGED outcomes
  PROVE  \A s \in Store, k \in Key : StoreMove(s, k)
BY DEF StoreMove

(* OutcomeLedger::begin grants an absent key and changes nothing else.     *)
LEMMA GrantMove ==
  ASSUME Inv, NEW t \in Thread, Grant(t)
  PROVE  \A s \in Store, k \in Key : StoreMove(s, k)
<1>1. CASE UNCHANGED outcomes
  BY <1>1, SameStores
<1>2. CASE /\ Held(t) = "absent"
           /\ outcomes' = [outcomes EXCEPT ![StoreOf[ProcessOf[t]]][key[t]] = "granted"]
  <2> SUFFICES ASSUME NEW s \in Store, NEW k \in Key PROVE StoreMove(s, k)
    OBVIOUS
  <2>1. CASE s = StoreOf[ProcessOf[t]] /\ k = key[t]
    BY <1>2, <2>1 DEF Inv, TypeOK, StoreMove, Held
  <2>2. CASE s # StoreOf[ProcessOf[t]] \/ k # key[t]
    BY <1>2, <2>2 DEF Inv, TypeOK, StoreMove
  <2>. QED BY <2>1, <2>2
<1>. QED BY <1>1, <1>2 DEF Grant

(* OutcomeLedger::record writes the terminal of the call.                  *)
LEMMA RecordMove ==
  ASSUME Inv, NEW t \in Thread, pc[t] = "record", Recorded(t)
  PROVE  \A s \in Store, k \in Key : StoreMove(s, k)
<1>1. CASE UNCHANGED outcomes
  BY <1>1, SameStores
<1>2. CASE /\ HostLedger # "null"
           /\ outcomes' = [outcomes EXCEPT ![StoreOf[ProcessOf[t]]][key[t]] = term[t]]
  <2> SUFFICES ASSUME NEW s \in Store, NEW k \in Key PROVE StoreMove(s, k)
    OBVIOUS
  <2>1. CASE s = StoreOf[ProcessOf[t]] /\ k = key[t]
    BY <1>2, <2>1 DEF Inv, TypeOK, StoreMove, Records
  <2>2. CASE s # StoreOf[ProcessOf[t]] \/ k # key[t]
    BY <1>2, <2>2 DEF Inv, TypeOK, StoreMove
  <2>. QED BY <2>1, <2>2
<1>. QED BY <1>1, <1>2 DEF Recorded

(* A store that is lost with its process is one in memory.                 *)
LEMMA ForgetMove ==
  ASSUME NEW P, ForgetOutcomes(P)
  PROVE  \A s \in Store, k \in Key : StoreMove(s, k)
BY DEF ForgetOutcomes, StoreMove

(* No step of a call does anything else to the stores.                     *)
LEMMA StepStores ==
  ASSUME Inv, NEW t \in Thread, Step(t)
  PROVE  \A s \in Store, k \in Key : StoreMove(s, k)
<1>1. CASE Acquire(t) \/ AcquireFails(t) \/ WouldBlock(t) \/ Wake(t) \/ Repair(t)
  BY <1>1, SameStores DEF Acquire, AcquireFails, WouldBlock, Wake, Repair
<1>2. CASE ReadNothing(t) \/ ReadConflict(t) \/ ReadClaimOnly(t) \/ ReadTerminal(t)
  BY <1>2, SameStores DEF ReadNothing, ReadConflict, ReadClaimOnly, ReadTerminal
<1>3. CASE \/ AppendBody(t) \/ AppendNewline(t) \/ AppendSync(t) \/ RepairRetry(t)
           \/ AppendBodyFails(t) \/ AppendNewlineFails(t) \/ AppendSyncFails(t)
  BY <1>3, SameStores DEF AppendBody, AppendNewline, AppendSync, AppendBodyFails,
     AppendNewlineFails, AppendSyncFails, RepairRetry
<1>4. CASE BeginNew(t) \/ BeginRecovered(t) \/ BeginReconcile(t) \/ BeginFails(t)
  BY <1>4, GrantMove, SameStores DEF BeginNew, BeginRecovered, BeginReconcile, BeginFails
<1>5. CASE Capabilities(t) \/ Observe(t) \/ Sentinel(t)
  BY <1>5, SameStores DEF Capabilities, Observe, Sentinel, Precheck, FinishEarly, Settle
<1>6. CASE Dispatch(t) \/ DispatchOk(t) \/ DispatchUnknown(t) \/ DispatchRefused(t)
  BY <1>6, SameStores DEF Dispatch, DispatchOk, DispatchUnknown, DispatchRefused, Settle
<1>7. CASE Verify(t)
  BY <1>7, SameStores DEF Verify, Settle
<1>8. CASE RecordOutcome(t) \/ RecordFails(t)
  BY <1>8, SameStores, RecordMove DEF RecordOutcome, RecordFails
<1>. QED BY <1>1, <1>2, <1>3, <1>4, <1>5, <1>6, <1>7, <1>8 DEF Step

(* Nor does any other step.                                                *)
LEMMA StoresMove ==
  ASSUME Inv, [Next]_vars
  PROVE  \A s \in Store, k \in Key : StoreMove(s, k)
<1>1. CASE UNCHANGED vars
  BY <1>1, SameStores DEF vars
<1>2. ASSUME NEW t \in Thread, NEW k \in Key, Execute(t, k) PROVE UNCHANGED outcomes
  BY <1>2 DEF Execute
<1>3. ASSUME NEW t \in Thread, NEW o \in Op, Status(t, o) PROVE UNCHANGED outcomes
  BY <1>3 DEF Status
<1>4. ASSUME NEW t \in Thread, Cancel(t) \/ Expire(t) PROVE UNCHANGED outcomes
  BY <1>4 DEF Cancel, Expire
<1>5. ASSUME NEW t \in Thread, Step(t) PROVE \A s \in Store, k \in Key : StoreMove(s, k)
  BY <1>5, StepStores
<1>6. ASSUME NEW f \in File, NEW k \in Key, Land(f, k) PROVE UNCHANGED outcomes
  BY <1>6 DEF Land
<1>7. ASSUME NEW p \in Process, Kill(p) PROVE \A s \in Store, k \in Key : StoreMove(s, k)
  BY <1>7, ForgetMove DEF Kill
<1>8. CASE PowerLoss
  BY <1>8, ForgetMove DEF PowerLoss
<1>. QED BY <1>1, <1>2, <1>3, <1>4, <1>5, <1>6, <1>7, <1>8, SameStores DEF Next

(* The two entries that are not terminals.                                 *)
LEMMA NotHeld == "absent" \notin Terminal /\ "granted" \notin Terminal
BY DEF Terminal, Success, NoEffect, Unknown

(* What a store holds was held, or a call that shares it had it to record. *)

-----------------------------------------------------------------------------
(* What a step can do to a call                                            *)

(* Labels at which the call knows the last lines of its operation.         *)
Working == Inside \ {"repair", "read"}

(* The labels from the grant of the host to the dispatch.                  *)
Granted == Granting \ {"begin_new"}

(* The call stays where it is, with what it knows.                         *)
Unmoved(u) ==
  pc'[u] = pc[u] /\ key'[u] = key[u] /\ term'[u] = term[u] /\ site'[u] = site[u]

(* The call reads that no terminal line is the last word on its operation. *)
Learns(u) ==
  /\ pc[u] = "read" /\ UNCHANGED <<log, synced, acked>>
  /\ \A i \in Lines(FileOf(u), key'[u].op, "terminal") :
       IsLast(i, Lines(FileOf(u), key'[u].op, "terminal")) =>
         log[FileOf(u)][i].term = "interrupted"
  /\ Claiming(u)' => Lines(FileOf(u), key'[u].op, "claim") = {}
  /\ pc'[u] \notin Granted \union {"sync"}

(* The call goes on with its operation.                                    *)
Proceeds(u) ==
  /\ pc[u] \in Working /\ key'[u] = key[u]
  /\ pc'[u] = "sync" => AppendNewline(u)
  /\ Claiming(u)' => Claiming(u) /\ pc[u] # "sync"
  /\ pc'[u] \in Granted =>
       \/ pc[u] \in Granted
       \/ pc[u] = "begin_new" /\ Held(u) = "absent" /\ Grant(u) /\ UNCHANGED dispatches

(* What a step does to call u.                                             *)
CallMove(u) == pc'[u] \notin Working \/ Learns(u) \/ Proceeds(u) \/ Unmoved(u)

(* Calls end for the threads in T and stay as they are for all others.     *)
LEMMA LeftBehind ==
  ASSUME NEW T, Leave(T), NEW u \in Thread
  PROVE  Unmoved(u) \/ (u \in T /\ pc'[u] = "idle")
BY DEF Leave, Unmoved

(* The other calls stay where they are.                                    *)
LEMMA OthersRest ==
  ASSUME Inv, NEW t \in Thread, Step(t)
  PROVE  \A u \in Thread \ {t} : Unmoved(u)
<1>1. CASE Leave({t})
  BY <1>1, LeftBehind
<1>2. CASE \/ Acquire(t) \/ AcquireFails(t) \/ WouldBlock(t) \/ Wake(t) \/ Repair(t)
  BY <1>1, <1>2 DEF Acquire, AcquireFails, WouldBlock, Wake, Repair, ReturnNothing, Goto,
     Unmoved, Inv, TypeOK
<1>3. CASE ReadNothing(t) \/ ReadConflict(t) \/ ReadClaimOnly(t)
  BY <1>1, <1>3 DEF ReadNothing, ReadConflict, ReadClaimOnly, ReturnNothing, StartAppend,
     Goto, Unmoved, Inv, TypeOK
<1>4. CASE ReadTerminal(t)
  BY <1>1, <1>4 DEF ReadTerminal, ReturnUnsynced, Goto, Unmoved, Inv, TypeOK
<1>5. CASE AppendBody(t) \/ AppendNewline(t) \/ AppendSync(t)
  BY <1>1, <1>5 DEF AppendBody, AppendNewline, AppendSync, AppendDone, ReturnDurable, Goto,
     Unmoved, Inv, TypeOK
<1>6. CASE \/ AppendBodyFails(t) \/ AppendNewlineFails(t) \/ AppendSyncFails(t)
           \/ RepairRetry(t)
  BY <1>1, <1>6 DEF AppendBodyFails, AppendNewlineFails, AppendSyncFails, AppendFailed,
     RepairRetry, StartAppend, ReturnNothing, ReturnUnsynced, Goto, Unmoved, Inv, TypeOK
<1>7. CASE BeginNew(t) \/ BeginRecovered(t) \/ BeginReconcile(t) \/ BeginFails(t)
  BY <1>1, <1>7 DEF BeginNew, BeginRecovered, BeginReconcile, BeginFails, StartAppend,
     ReturnNothing, ReturnUnsynced, Goto, Unmoved, Inv, TypeOK
<1>8. CASE Capabilities(t) \/ Observe(t) \/ Sentinel(t)
  BY <1>8 DEF Capabilities, Observe, Sentinel, Precheck, FinishEarly, Settle, Goto,
     Unmoved, Inv, TypeOK
<1>9. CASE \/ Dispatch(t) \/ DispatchOk(t) \/ DispatchUnknown(t)
           \/ DispatchRefused(t) \/ Verify(t)
  BY <1>9 DEF Dispatch, DispatchOk, DispatchUnknown, DispatchRefused, Verify, Settle, Goto,
     Unmoved, Inv, TypeOK
<1>10. CASE RecordOutcome(t) \/ RecordFails(t)
  BY <1>1, <1>10 DEF RecordOutcome, RecordFails, ReturnNothing, Goto, Unmoved, Inv, TypeOK
<1>. QED BY <1>2, <1>3, <1>4, <1>5, <1>6, <1>7, <1>8, <1>9, <1>10 DEF Step

(* The call whose step it is.                                              *)
LEMMA OwnMove ==
  ASSUME Inv, NEW t \in Thread, Step(t)
  PROVE  CallMove(t)
<1> USE DEF CallMove, Working, Inside, ProgramCounter, Goto, StartAppend, Claiming,
        Appending, Granted, Granting
<1>1. CASE Leave({t})
  BY <1>1 DEF Leave
<1>2. CASE Acquire(t) \/ AcquireFails(t) \/ WouldBlock(t) \/ Wake(t) \/ Repair(t)
  BY <1>1, <1>2 DEF Acquire, AcquireFails, WouldBlock, Wake, Repair, ReturnNothing,
     Inv, TypeOK
<1>3. CASE ReadNothing(t)
  BY <1>1, <1>3 DEF ReadNothing, ReturnNothing, Learns, Inv, TypeOK, fileVars, ackVars
<1>4. CASE ReadConflict(t)
  BY <1>1, <1>4 DEF ReadConflict, ReturnNothing
<1>5. CASE ReadClaimOnly(t)
  <2>1. PICK i \in Lines(FileOf(t), key[t].op, "claim") :
          key' = [key EXCEPT ![t] = log[FileOf(t)][i].key]
    BY <1>5 DEF ReadClaimOnly, IsLast
  <2>2. key'[t].op = key[t].op
    BY <2>1 DEF Lines, Inv, TypeOK
  <2>3. Lines(FileOf(t), key'[t].op, "terminal") = {}
    BY <1>5, <2>2 DEF ReadClaimOnly
  <2>4. /\ pc[t] = "read" /\ pc'[t] = "begin_recovered"
        /\ UNCHANGED <<log, synced, acked>>
    BY <1>5 DEF ReadClaimOnly, Inv, TypeOK, fileVars, ackVars
  <2>. QED BY <2>3, <2>4 DEF Learns
<1>6. CASE ReadTerminal(t)
  <2>1. PICK i \in 1..Len(log[FileOf(t)]) :
          /\ IsLast(i, Lines(FileOf(t), key[t].op, "terminal"))
          /\ \/ /\ log[FileOf(t)][i].term = "interrupted"
                /\ key' = [key EXCEPT ![t] = log[FileOf(t)][i].key]
                /\ Goto(t, "begin_reconcile")
                /\ UNCHANGED ackVars
             \/ ReturnUnsynced(t, log[FileOf(t)][i].key, log[FileOf(t)][i].term)
    BY <1>6 DEF ReadTerminal
  <2>2. CASE ReturnUnsynced(t, log[FileOf(t)][i].key, log[FileOf(t)][i].term)
    BY <1>1, <2>2 DEF ReturnUnsynced
  <2>3. CASE /\ log[FileOf(t)][i].term = "interrupted"
             /\ key' = [key EXCEPT ![t] = log[FileOf(t)][i].key]
             /\ Goto(t, "begin_reconcile")
             /\ UNCHANGED ackVars
    <3>1. key'[t].op = key[t].op
      BY <2>1, <2>3 DEF Lines, IsLast, Inv, TypeOK
    <3>2. ASSUME NEW j \in Lines(FileOf(t), key[t].op, "terminal"),
                 IsLast(j, Lines(FileOf(t), key[t].op, "terminal"))
          PROVE  log[FileOf(t)][j].term = "interrupted"
      <4>1. i <= j /\ j <= i /\ i \in Nat /\ j \in Nat
        BY <2>1, <3>2 DEF IsLast, Lines
      <4>. QED BY <2>3, <4>1
    <3>3. /\ pc[t] = "read" /\ pc'[t] = "begin_reconcile"
          /\ UNCHANGED <<log, synced, acked>>
      BY <1>6, <2>3 DEF ReadTerminal, Inv, TypeOK, fileVars, ackVars
    <3>4. Learns(t)
      BY <3>1, <3>2, <3>3 DEF Learns
    <3>. QED BY <3>4
  <2>. QED BY <2>1, <2>2, <2>3
<1>7. CASE AppendBody(t) \/ AppendNewline(t)
  BY <1>7 DEF AppendBody, AppendNewline, Proceeds, Inv, TypeOK
<1>8. CASE AppendSync(t)
  BY <1>1, <1>8 DEF AppendSync, AppendDone, ReturnDurable, Proceeds, Inv, TypeOK
<1>9. CASE \/ AppendBodyFails(t) \/ AppendNewlineFails(t) \/ AppendSyncFails(t)
           \/ RepairRetry(t)
  BY <1>1, <1>9 DEF AppendBodyFails, AppendNewlineFails, AppendSyncFails, AppendFailed,
     RepairRetry, ReturnNothing, ReturnUnsynced, Proceeds, Inv, TypeOK
<1>10. CASE BeginNew(t) \/ BeginRecovered(t) \/ BeginReconcile(t) \/ BeginFails(t)
  BY <1>1, <1>10 DEF BeginNew, BeginRecovered, BeginReconcile, BeginFails,
     ReturnNothing, ReturnUnsynced, Proceeds, Inv, TypeOK, worldVars
<1>11. CASE Capabilities(t) \/ Observe(t) \/ Sentinel(t)
  BY <1>11 DEF Capabilities, Observe, Sentinel, Precheck, FinishEarly, Settle, Proceeds,
     Inv, TypeOK
<1>12. CASE \/ Dispatch(t) \/ DispatchOk(t) \/ DispatchUnknown(t)
            \/ DispatchRefused(t) \/ Verify(t)
  BY <1>12 DEF Dispatch, DispatchOk, DispatchUnknown, DispatchRefused, Verify, Settle,
     Proceeds, Inv, TypeOK
<1>13. CASE RecordOutcome(t) \/ RecordFails(t)
  BY <1>1, <1>13 DEF RecordOutcome, RecordFails, ReturnNothing, Proceeds, Inv, TypeOK,
     ThreadInv
<1>. QED BY <1>2, <1>3, <1>4, <1>5, <1>6, <1>7, <1>8, <1>9, <1>10, <1>11, <1>12, <1>13
     DEF Step

(* No step does anything else to a call.                                   *)
LEMMA CallsMove ==
  ASSUME Inv, [Next]_vars
  PROVE  \A u \in Thread : CallMove(u)
<1> SUFFICES ASSUME NEW u \in Thread PROVE CallMove(u)
  OBVIOUS
<1>1. CASE UNCHANGED vars
  BY <1>1 DEF vars, threadVars, CallMove, Unmoved
<1>2. ASSUME NEW t \in Thread,
             \/ \E k \in Key : Execute(t, k)
             \/ \E o \in Op : Status(t, o)
      PROVE  CallMove(u)
  BY <1>2 DEF Execute, Status, Goto, CallMove, Unmoved, Working, Inside, Inv, TypeOK
<1>3. ASSUME NEW t \in Thread, Cancel(t) \/ Expire(t) PROVE CallMove(u)
  BY <1>3 DEF Cancel, Expire, CallMove, Unmoved
<1>4. ASSUME NEW t \in Thread, Step(t) PROVE CallMove(u)
  BY <1>4, OthersRest, OwnMove DEF CallMove
<1>5. ASSUME NEW f \in File, NEW k \in Key, Land(f, k) PROVE CallMove(u)
  BY <1>5 DEF Land, threadVars, CallMove, Unmoved
<1>6. ASSUME NEW T, Leave(T) PROVE CallMove(u)
  BY <1>6, LeftBehind DEF CallMove, Working, Inside
<1>7. ASSUME NEW p \in Process, Kill(p) PROVE CallMove(u)
  BY <1>6, <1>7 DEF Kill
<1>8. CASE PowerLoss
  BY <1>6, <1>8 DEF PowerLoss
<1>. QED BY <1>1, <1>2, <1>3, <1>4, <1>5, <1>7, <1>8 DEF Next

(* The call tells its caller of a terminal it has just made durable.       *)
Acks(t) ==
  /\ pc[t] = "sync" /\ ~Claiming(t) /\ pc'[t] = "idle"
  /\ acked' = [acked EXCEPT ![FileOf(t)][key[t]] = @ \union {term[t]}]
  /\ log' = log /\ synced' = [synced EXCEPT ![FileOf(t)] = Len(log[FileOf(t)])]

(* Only a call that syncs its terminal acknowledges it.                    *)
LEMMA AcksMove ==
  ASSUME Inv, [Next]_vars
  PROVE  UNCHANGED acked \/ \E t \in Thread : Acks(t)
<1>1. CASE UNCHANGED vars
  BY <1>1 DEF vars, ackVars
<1>2. ASSUME NEW t \in Thread,
             \/ \E k \in Key : Execute(t, k)
             \/ \E o \in Op : Status(t, o)
             \/ Cancel(t) \/ Expire(t)
      PROVE  UNCHANGED acked
  BY <1>2 DEF Execute, Status, Cancel, Expire, ackVars
<1>3. ASSUME NEW t \in Thread, Step(t) PROVE UNCHANGED acked \/ Acks(t)
  <2>1. CASE Acquire(t) \/ AcquireFails(t) \/ WouldBlock(t) \/ Wake(t) \/ Repair(t)
    BY <2>1 DEF Acquire, AcquireFails, WouldBlock, Wake, Repair, ReturnNothing, ackVars
  <2>2. CASE ReadNothing(t) \/ ReadConflict(t) \/ ReadClaimOnly(t) \/ ReadTerminal(t)
    BY <2>2 DEF ReadNothing, ReadConflict, ReadClaimOnly, ReadTerminal, ReturnNothing,
       ReturnUnsynced, ackVars
  <2>3. CASE AppendSync(t)
    <3>1. CASE ReturnDurable(t) /\ site[t] # "claim"
      BY <2>3, <3>1 DEF AppendSync, ReturnDurable, Acks, Claiming, Leave
    <3>2. CASE UNCHANGED ackVars
      BY <3>2 DEF ackVars
    <3>. QED BY <2>3, <3>1, <3>2 DEF AppendSync, AppendDone
  <2>4. CASE \/ AppendBody(t) \/ AppendBodyFails(t) \/ AppendNewline(t)
             \/ AppendNewlineFails(t) \/ AppendSyncFails(t) \/ RepairRetry(t)
    BY <2>4 DEF AppendBody, AppendBodyFails, AppendNewline, AppendNewlineFails,
       AppendSyncFails, RepairRetry, AppendFailed, ReturnNothing, ReturnUnsynced, ackVars
  <2>5. CASE BeginNew(t) \/ BeginRecovered(t) \/ BeginReconcile(t) \/ BeginFails(t)
    BY <2>5 DEF BeginNew, BeginRecovered, BeginReconcile, BeginFails, ReturnNothing,
       ReturnUnsynced, ackVars
  <2>6. CASE Capabilities(t) \/ Observe(t) \/ Sentinel(t)
    BY <2>6 DEF Capabilities, Observe, Sentinel, Precheck, FinishEarly, Settle, ackVars
  <2>7. CASE \/ Dispatch(t) \/ DispatchOk(t) \/ DispatchUnknown(t)
             \/ DispatchRefused(t) \/ Verify(t)
    BY <2>7 DEF Dispatch, DispatchOk, DispatchUnknown, DispatchRefused, Verify, Settle,
       ackVars
  <2>8. CASE RecordOutcome(t) \/ RecordFails(t)
    BY <2>8 DEF RecordOutcome, RecordFails, ReturnNothing, ackVars
  <2>. QED BY <1>3, <2>1, <2>2, <2>3, <2>4, <2>5, <2>6, <2>7, <2>8 DEF Step
<1>4. ASSUME NEW f \in File, NEW k \in Key, Land(f, k) PROVE UNCHANGED acked
  BY <1>4 DEF Land, ackVars
<1>5. ASSUME NEW p \in Process, Kill(p) PROVE UNCHANGED acked
  BY <1>5 DEF Kill, ackVars
<1>6. CASE PowerLoss
  BY <1>6 DEF PowerLoss, ackVars
<1>. QED BY <1>1, <1>2, <1>3, <1>4, <1>5, <1>6 DEF Next

(* A call that works on a file keeps all others from adding lines to it.   *)
LEMMA OneWriter ==
  ASSUME Inv, NEW t \in Thread, NEW u \in Thread, FileOf(t) = FileOf(u),
         pc[t] \in Inside, pc[u] \in Inside
  PROVE  t = u
BY DEF Inv, ThreadInv

(* Two calls move together only when their processes die.                  *)
LEMMA OneAtATime ==
  ASSUME Inv, [Next]_vars, NEW u \in Thread, NEW v \in Thread,
         ~Unmoved(u), ~Unmoved(v), pc'[u] # "idle"
  PROVE  u = v
<1>1. CASE UNCHANGED vars
  BY <1>1 DEF vars, threadVars, Unmoved
<1>2. ASSUME NEW t \in Thread,
             \/ \E k \in Key : Execute(t, k)
             \/ \E o \in Op : Status(t, o)
      PROVE  u = v
  BY <1>2 DEF Execute, Status, Goto, Unmoved, Inv, TypeOK
<1>3. ASSUME NEW t \in Thread, Cancel(t) \/ Expire(t) PROVE u = v
  BY <1>3 DEF Cancel, Expire, Unmoved
<1>4. ASSUME NEW t \in Thread, Step(t) PROVE u = v
  BY <1>4, OthersRest
<1>5. ASSUME NEW f \in File, NEW k \in Key, Land(f, k) PROVE u = v
  BY <1>5 DEF Land, threadVars, Unmoved
<1>6. ASSUME NEW T, Leave(T) PROVE u = v
  BY <1>6, LeftBehind
<1>7. ASSUME NEW p \in Process, Kill(p) PROVE u = v
  BY <1>6, <1>7 DEF Kill
<1>8. CASE PowerLoss
  BY <1>6, <1>8 DEF PowerLoss
<1>. QED BY <1>1, <1>2, <1>3, <1>4, <1>5, <1>7, <1>8 DEF Next

-----------------------------------------------------------------------------
(* Known outcomes stay                                                     *)

(* The known terminal z of k is on the disk, and later readers find it.    *)
Kept(f, k, z) ==
  \E i \in 1..synced[f] :
    log[f][i] = Finish(k, z) /\ IsLast(i, Lines(f, k.op, "terminal"))

(* No known terminal of an operation with id o was made durable in f.      *)
Unkept(f, o) == \A k \in Key : k.op = o => acked[f][k] \subseteq Unknown

(* The line the call has written, and is about to sync, is its terminal.   *)
HasFinished(t) ==
  LET f == FileOf(t) IN
  Len(log[f]) > 0 /\ log[f][Len(log[f])] = Finish(key[t], term[t])

(* What is acknowledged is kept; a call at work has nothing to overwrite;  *)
(* and what it is about to acknowledge is the last line of the file.       *)
KeptInv ==
  /\ KnownStaysKnown
  /\ \A t \in Thread : pc[t] \in Working => Unkept(FileOf(t), key[t].op)
  /\ \A t \in Thread : (pc[t] = "sync" /\ ~Claiming(t)) => HasFinished(t)

(* A kept terminal is lost only to a call that adds a line about its       *)
(* operation.                                                              *)
LEMMA KeptStays ==
  ASSUME Inv, [Next]_vars, NEW f \in File, NEW k \in Key, NEW z \in Terminal,
         Kept(f, k, z),
         \A t \in Thread : AddsLine(t, f) => key[t].op # k.op
  PROVE  Kept(f, k, z)'
<1>1. PICK i \in 1..synced[f] :
        log[f][i] = Finish(k, z) /\ IsLast(i, Lines(f, k.op, "terminal"))
  BY DEF Kept
<1>2. /\ synced[f] \in Nat /\ synced'[f] \in Nat /\ log[f] \in Seq(Record)
      /\ log'[f] \in Seq(Record) /\ synced[f] <= Len(log[f]) /\ synced'[f] <= Len(log'[f])
  BY NextInv DEF Inv, TypeOK, FileInv
<1>3. i \in 1..synced'[f] /\ log'[f][i] = Finish(k, z)
  BY <1>1, <1>2, SyncedLinesStay
<1>4. ASSUME NEW j \in Lines(f, k.op, "terminal")' PROVE j \in Lines(f, k.op, "terminal")
  <2>1. j \in 1..Len(log'[f]) /\ log'[f][j].kind = "terminal" /\ log'[f][j].key.op = k.op
    BY <1>4 DEF Lines
  <2>2. CASE SameLines(f)
    BY <2>1, <2>2 DEF SameLines, Lines
  <2>3. CASE LosesLines(f)
    <3>1. synced'[f] \in 0..Len(log[f]) /\ log'[f] = SubSeq(log[f], 1, synced'[f])
      BY <1>2, <2>3 DEF LosesLines
    <3>2. j \in 1..Len(log[f]) /\ log'[f][j] = log[f][j]
      BY <1>2, <2>1, <3>1
    <3>. QED BY <2>1, <3>2 DEF Lines
  <2>4. ASSUME NEW t \in Thread, AddsLine(t, f)
        PROVE  j \in Lines(f, k.op, "terminal")
    <3>1. /\ pc[t] \in Appending /\ FileOf(t) = f
          /\ log'[f] = Append(log[f], Line(t)) /\ key[t].op # k.op
      BY <2>4 DEF AddsLine, Appending
    <3>2. Line(t) \in Record
      BY <3>1, AppendingFacts
    <3>3. Line(t).key = key[t]
      BY DEF Line, Claim, Finish
    <3>4. CASE j \in 1..Len(log[f])
      <4>1. log'[f][j] = log[f][j]
        BY <1>2, <3>1, <3>2, <3>4
      <4>. QED BY <2>1, <3>4, <4>1 DEF Lines
    <3>5. CASE j \notin 1..Len(log[f])
      <4>1. log'[f][j] = Line(t)
        BY <1>2, <2>1, <3>1, <3>2, <3>5
      <4>. QED BY <2>1, <3>1, <3>3, <4>1
    <3>. QED BY <3>4, <3>5
  <2>. QED BY <2>2, <2>3, <2>4, FilesMove DEF FileMove, FileStep
<1>5. i \in Lines(f, k.op, "terminal")'
  <2>1. i \in 1..Len(log'[f])
    BY <1>2, <1>3
  <2>. QED BY <1>3, <2>1 DEF Lines, Finish
<1>6. IsLast(i, Lines(f, k.op, "terminal"))'
  BY <1>1, <1>4, <1>5 DEF IsLast
<1>. QED BY <1>3, <1>6 DEF Kept

(* KnownStaysKnown, by the name of what it says of one terminal.           *)
LEMMA KeptForm ==
  KnownStaysKnown <=>
    \A f \in File, k \in Key : \A z \in acked[f][k] \ Unknown : Kept(f, k, z)
BY DEF KnownStaysKnown, Kept

(* A kept terminal stays kept, and a new one is the last line, now synced. *)
LEMMA KnownStaysKnownKeeps ==
  ASSUME Inv, KeptInv, [Next]_vars
  PROVE  KnownStaysKnown'
<1> SUFFICES ASSUME NEW f \in File, NEW k \in Key, NEW z \in acked'[f][k] \ Unknown
             PROVE  Kept(f, k, z)'
  BY DEF KnownStaysKnown, Kept
<1>1. acked \in [File -> [Key -> SUBSET Terminal]]
      /\ acked' \in [File -> [Key -> SUBSET Terminal]]
  BY NextInv DEF Inv, TypeOK
<1>2. z \in Terminal
  BY <1>1
<1>3. ASSUME z \in acked[f][k] PROVE Kept(f, k, z)'
  <2>1. Kept(f, k, z)
    BY <1>3, KeptForm DEF KeptInv
  <2>2. ASSUME NEW t \in Thread, AddsLine(t, f) PROVE key[t].op # k.op
    <3>1. pc[t] \in Working /\ FileOf(t) = f
      BY <2>2 DEF AddsLine, Working, Inside, ProgramCounter
    <3>. QED BY <1>3, <3>1 DEF KeptInv, Unkept
  <2>. QED BY <1>2, <2>1, <2>2, KeptStays
<1>4. ASSUME z \notin acked[f][k], NEW t \in Thread, Acks(t)
      PROVE  Kept(f, k, z)'
  <2>1. FileOf(t) \in File /\ key[t] \in Key
    BY <1>4, FileOfType, AppendingFacts DEF Acks, Appending
  <2>2. FileOf(t) = f /\ key[t] = k /\ term[t] = z
    BY <1>1, <1>4, <2>1 DEF Acks
  <2>3. Len(log[f]) > 0 /\ log[f][Len(log[f])] = Finish(k, z)
    BY <1>4, <2>2 DEF KeptInv, HasFinished, Acks
  <2>4. log' = log /\ synced'[f] = Len(log[f])
    BY <1>4, <2>1, <2>2 DEF Acks, Inv, TypeOK
  <2>5. Len(log[f]) \in Nat
    BY DEF Inv, TypeOK
  <2>6. Len(log[f]) \in Lines(f, k.op, "terminal")
    BY <2>3, <2>5 DEF Lines, Finish
  <2>7. IsLast(Len(log[f]), Lines(f, k.op, "terminal"))
    BY <2>5, <2>6 DEF IsLast, Lines
  <2>8. IsLast(Len(log[f]), Lines(f, k.op, "terminal"))'
    BY <2>4, <2>7 DEF IsLast, Lines
  <2>9. Len(log[f]) \in 1..synced'[f] /\ log'[f][Len(log[f])] = Finish(k, z)
    BY <2>3, <2>4, <2>5
  <2>10. \E i \in 1..synced'[f] :
           log'[f][i] = Finish(k, z) /\ IsLast(i, Lines(f, k.op, "terminal"))'
    BY <2>4, <2>8, <2>9
  <2>. QED BY <2>10 DEF Kept
<1>. QED BY <1>3, <1>4, AcksMove

(* A call at work has found no known outcome of its operation on the disk, *)
(* and no other call can put one there.                                    *)
LEMMA UnkeptKeeps ==
  ASSUME Inv, KeptInv, [Next]_vars, NEW u \in Thread, pc'[u] \in Working
  PROVE  Unkept(FileOf(u), key[u].op)'
<1> SUFFICES ASSUME NEW k \in Key, k.op = key'[u].op, NEW z \in acked'[FileOf(u)][k],
                    z \notin Unknown
             PROVE  FALSE
  BY FileRigid DEF Unkept
<1>0. FileOf(u) \in File
  BY FileOfType
<1>1. acked \in [File -> [Key -> SUBSET Terminal]]
  BY DEF Inv, TypeOK
<1>2. CASE Learns(u)
  <2>1. Kept(FileOf(u), k, z)
    BY <1>0, <1>2, KeptForm DEF KeptInv, Learns
  <2>2. PICK i \in 1..synced[FileOf(u)] :
          /\ log[FileOf(u)][i] = Finish(k, z)
          /\ IsLast(i, Lines(FileOf(u), k.op, "terminal"))
    BY <2>1 DEF Kept
  <2>3. i \in Lines(FileOf(u), key'[u].op, "terminal")
        /\ IsLast(i, Lines(FileOf(u), key'[u].op, "terminal"))
    BY <2>2 DEF IsLast
  <2>4. log[FileOf(u)][i].term = "interrupted"
    BY <1>2, <2>3 DEF Learns
  <2>5. z = "interrupted"
    BY <2>2, <2>4 DEF Finish
  <2>. QED BY <2>5 DEF Unknown
<1>3. CASE pc[u] \in Working /\ key'[u] = key[u]
  <2>1. z \notin acked[FileOf(u)][k]
    BY <1>3 DEF KeptInv, Unkept
  <2>2. PICK t \in Thread : Acks(t)
    BY <2>1, AcksMove
  <2>3. FileOf(t) = FileOf(u)
    BY <1>0, <1>1, <2>1, <2>2 DEF Acks
  <2>4. t = u
    BY <1>3, <2>2, <2>3, OneWriter DEF Acks, Working, Inside, ProgramCounter
  <2>. QED BY <2>2, <2>4 DEF Acks, Working, Inside
<1>. QED BY <1>2, <1>3, CallsMove DEF CallMove, Proceeds, Unmoved

(* The last line stays the one that the call is about to sync.             *)
LEMMA HasFinishedKeeps ==
  ASSUME Inv, KeptInv, [Next]_vars, NEW u \in Thread, pc'[u] = "sync", ~Claiming(u)'
  PROVE  HasFinished(u)'
<1>0. FileOf(u) \in File
  BY FileOfType
<1>1. CASE AppendNewline(u)
  <2>1. ~corrupt[FileOf(u)]
    BY <1>0 DEF Inv, FileInv
  <2>2. /\ pc[u] \in Appending /\ log[FileOf(u)] \in Seq(Record)
        /\ key'[u] = key[u] /\ term'[u] = term[u] /\ site'[u] = site[u]
        /\ log'[FileOf(u)] = Append(log[FileOf(u)], Line(u))
    BY <1>0, <1>1, <2>1 DEF AppendNewline, Appending, Inv, TypeOK
  <2>3. Line(u) = Finish(key'[u], term'[u]) /\ Line(u) \in Record
    BY <1>1, <2>2, AppendingFacts DEF Line, Claiming, Appending
  <2>4. /\ Len(log'[FileOf(u)]) > 0
        /\ log'[FileOf(u)][Len(log'[FileOf(u)])] = Line(u)
    BY <2>2, <2>3
  <2>. QED BY <2>3, <2>4, FileRigid DEF HasFinished
<1>2. CASE Unmoved(u)
  <2>1. pc[u] = "sync" /\ HasFinished(u)
    BY <1>2 DEF Unmoved, Claiming, KeptInv, Appending
  <2>2. ~PowerLoss
    BY DEF PowerLoss, Leave
  <2>3. ASSUME NEW t \in Thread, AddsLine(t, FileOf(u)) PROVE FALSE
    BY <2>1, <2>3, OneWriter DEF AddsLine, Inside, ProgramCounter
  <2>4. log'[FileOf(u)] = log[FileOf(u)]
    BY <1>0, <2>2, <2>3, FilesMove DEF FileStep, SameLines
  <2>. QED BY <1>2, <2>1, <2>4, FileRigid DEF HasFinished, Unmoved
<1>. QED BY <1>1, <1>2, CallsMove DEF CallMove, Proceeds, Learns, Working, Inside,
     ProgramCounter

(* Nothing is acknowledged at first.                                       *)
LEMMA InitKept == Init => KeptInv
BY DEF Init, KeptInv, KnownStaysKnown, Working, Inside

(* KeptInv is inductive, given Inv.                                        *)
LEMMA NextKept == Inv /\ KeptInv /\ [Next]_vars => KeptInv'
<1> SUFFICES ASSUME Inv, KeptInv, [Next]_vars PROVE KeptInv'
  OBVIOUS
<1>1. KnownStaysKnown'
  BY KnownStaysKnownKeeps
<1>2. \A t \in Thread : pc'[t] \in Working => Unkept(FileOf(t), key[t].op)'
  BY UnkeptKeeps
<1>3. \A t \in Thread : pc'[t] = "sync" /\ ~Claiming(t)' => HasFinished(t)'
  BY HasFinishedKeeps
<1>. QED BY <1>1, <1>2, <1>3 DEF KeptInv

(* A known terminal that execute or status made durable before returning   *)
(* it is the last terminal line of its operation in the synced part of the *)
(* file for good: no later call of the operation writes over it, and no    *)
(* power loss removes it.                                                  *)
THEOREM KnownOutcomesStay == Spec => []KnownStaysKnown
<1>1. Inv /\ KeptInv /\ [Next]_vars => (Inv /\ KeptInv)'
  BY NextInv, NextKept
<1>2. Inv /\ KeptInv => KnownStaysKnown
  BY DEF KeptInv
<1>. QED BY <1>1, <1>2, InitInv, InitKept, PTL DEF Spec

-----------------------------------------------------------------------------
(* One hash for an operation id                                            *)

(* The claims of an operation id in a file are all for one hash, and a     *)
(* call that is to write one has found none.                               *)
KeyInv ==
  /\ \A f \in File : \A i, j \in 1..Len(log[f]) :
       (log[f][i].kind = "claim" /\ log[f][j].kind = "claim"
          /\ log[f][i].key.op = log[f][j].key.op) => log[f][i].key = log[f][j].key
  /\ \A t \in Thread : (Claiming(t) /\ pc[t] # "sync") =>
       Lines(FileOf(t), key[t].op, "claim") = {}

(* A line of a ledger file after a step was there, or is the one a call    *)
(* has added at the end.                                                   *)
LEMMA LineOrigin ==
  ASSUME Inv, [Next]_vars, NEW f \in File, NEW i \in 1..Len(log'[f])
  PROVE  \/ i \in 1..Len(log[f]) /\ log'[f][i] = log[f][i]
         \/ \E t \in Thread : AddsLine(t, f) /\ log'[f][i] = Line(t)
                              /\ i = Len(log[f]) + 1
<1>1. log[f] \in Seq(Record) /\ synced[f] \in Nat
  BY DEF Inv, TypeOK
<1>2. CASE SameLines(f)
  BY <1>2 DEF SameLines
<1>3. CASE LosesLines(f)
  BY <1>1, <1>3 DEF LosesLines
<1>4. ASSUME NEW t \in Thread, AddsLine(t, f)
      PROVE  \/ i \in 1..Len(log[f]) /\ log'[f][i] = log[f][i]
             \/ log'[f][i] = Line(t) /\ i = Len(log[f]) + 1
  <2>1. pc[t] \in Appending /\ log'[f] = Append(log[f], Line(t))
    BY <1>4 DEF AddsLine, Appending
  <2>2. Line(t) \in Record
    BY <2>1, AppendingFacts
  <2>. QED BY <1>1, <2>1, <2>2
<1>. QED BY <1>2, <1>3, <1>4, FilesMove DEF FileMove, FileStep

(* KeyInv is inductive, given Inv: a call claims only what has no claim.   *)
LEMMA NextKey == Inv /\ KeyInv /\ [Next]_vars => KeyInv'
<1> SUFFICES ASSUME Inv, KeyInv, [Next]_vars PROVE KeyInv'
  OBVIOUS
<1>1. ASSUME NEW f \in File, NEW i \in 1..Len(log'[f]), NEW j \in 1..Len(log'[f]),
             log'[f][i].kind = "claim", log'[f][j].kind = "claim",
             log'[f][i].key.op = log'[f][j].key.op
      PROVE  log'[f][i].key = log'[f][j].key
  <2>1. ASSUME NEW t \in Thread, AddsLine(t, f), NEW n \in 1..Len(log'[f]),
               log'[f][n] = Line(t), log'[f][n].kind = "claim"
        PROVE  Lines(f, log'[f][n].key.op, "claim") = {}
    <3>1. Claiming(t) /\ pc[t] # "sync" /\ FileOf(t) = f
      BY <2>1 DEF AddsLine, Claiming, Appending, Line, Finish
    <3>2. log'[f][n].key = key[t]
      BY <2>1 DEF Line, Claim, Finish
    <3>. QED BY <3>1, <3>2 DEF KeyInv
  <2>2. CASE \E t \in Thread : AddsLine(t, f) /\ log'[f][i] = Line(t) /\ i = Len(log[f]) + 1
    <3>1. j \notin 1..Len(log[f]) \/ log'[f][j] # log[f][j]
      BY <1>1, <2>1, <2>2 DEF Lines
    <3>2. j = i
      BY <2>2, <3>1, LineOrigin
    <3>. QED BY <3>2
  <2>3. CASE \E t \in Thread : AddsLine(t, f) /\ log'[f][j] = Line(t) /\ j = Len(log[f]) + 1
    <3>1. i \notin 1..Len(log[f]) \/ log'[f][i] # log[f][i]
      BY <1>1, <2>1, <2>3 DEF Lines
    <3>2. j = i
      BY <2>3, <3>1, LineOrigin
    <3>. QED BY <3>2
  <2>4. CASE /\ i \in 1..Len(log[f]) /\ log'[f][i] = log[f][i]
             /\ j \in 1..Len(log[f]) /\ log'[f][j] = log[f][j]
    BY <1>1, <2>4 DEF KeyInv
  <2>. QED BY <2>2, <2>3, <2>4, LineOrigin
<1>2. ASSUME NEW u \in Thread, Claiming(u)', pc'[u] # "sync"
      PROVE  Lines(FileOf(u), key[u].op, "claim")' = {}
  <2>0. FileOf(u) \in File
    BY FileOfType
  <2>1. pc'[u] \in Inside /\ pc'[u] \in Working
    BY <1>2 DEF Claiming, Appending, Inside, Working, ProgramCounter
  <2>2. ~PowerLoss
    BY <2>1 DEF PowerLoss, Leave, Inside
  <2>3. ASSUME NEW t \in Thread, AddsLine(t, FileOf(u)), pc[u] \in Inside PROVE t = u
    BY <2>3, OneWriter DEF AddsLine, Inside, ProgramCounter
  <2>4. CASE Learns(u)
    <3>1. Lines(FileOf(u), key'[u].op, "claim") = {} /\ log' = log
      BY <1>2, <2>4 DEF Learns
    <3>. QED BY <3>1, FileRigid DEF Lines
  <2>5. CASE Claiming(u) /\ key'[u] = key[u] /\ pc[u] # "sync"
    <3>1. Lines(FileOf(u), key[u].op, "claim") = {}
      BY <2>5 DEF KeyInv
    <3>2. pc[u] \in Inside
      BY <2>5 DEF Claiming, Appending, Inside, ProgramCounter
    <3>3. log'[FileOf(u)] = log[FileOf(u)]
      BY <1>2, <2>0, <2>2, <2>3, <3>2, FilesMove DEF FileStep, SameLines,
         AddsLine
    <3>. QED BY <2>5, <3>1, <3>3, FileRigid DEF Lines
  <2>6. CASE Unmoved(u)
    BY <1>2, <2>5, <2>6 DEF Unmoved, Claiming
  <2>. QED BY <1>2, <2>1, <2>4, <2>5, <2>6, CallsMove DEF CallMove, Proceeds
<1>. QED BY <1>1, <1>2 DEF KeyInv

(* No file has a line at first.                                            *)
LEMMA InitKey == Init => KeyInv
BY DEF Init, KeyInv, Claiming, Appending

(* KeyInv holds in every reachable state.                                  *)
LEMMA SpecKey == Spec => [](Inv /\ KeyInv)
<1>1. Inv /\ KeyInv /\ [Next]_vars => (Inv /\ KeyInv)'
  BY NextInv, NextKey
<1>. QED BY <1>1, InitInv, InitKey, PTL DEF Spec

-----------------------------------------------------------------------------
(* One dispatch of a key across all files                                  *)

(* All processes consult one durable outcome ledger.                       *)
OneStore == HostLedger = "durable" /\ \A p, q \in Process : StoreOf[p] = StoreOf[q]

(* The outcome ledger has granted every key that was or may be dispatched, *)
(* to one call.                                                            *)
GrantedInv ==
  /\ \A f \in File, k \in Key, p \in Process :
       dispatches[f][k] > 0 => outcomes[StoreOf[p]][k] # "absent"
  /\ \A t \in Thread : pc[t] \in Granted =>
       /\ Held(t) # "absent"
       /\ \A f \in File : dispatches[f][key[t]] = 0
       /\ \A u \in Thread : pc[u] \in Granted /\ key[u] = key[t] => u = t
  /\ \A f, g \in File, k \in Key :
       dispatches[f][k] > 0 /\ dispatches[g][k] > 0 => f = g

(* Only Dispatch counts a dispatch.                                        *)
LEMMA DispatchesMove ==
  ASSUME Inv, [Next]_vars
  PROVE  UNCHANGED dispatches \/ \E t \in Thread : Dispatch(t)
<1>1. CASE UNCHANGED vars
  BY <1>1 DEF vars, worldVars
<1>2. ASSUME NEW t \in Thread,
             \/ \E k \in Key : Execute(t, k)
             \/ \E o \in Op : Status(t, o)
             \/ Cancel(t) \/ Expire(t)
      PROVE  UNCHANGED dispatches
  BY <1>2 DEF Execute, Status, Cancel, Expire, worldVars
<1>3. ASSUME NEW t \in Thread, Step(t) PROVE UNCHANGED dispatches \/ Dispatch(t)
  <2>1. CASE Acquire(t) \/ AcquireFails(t) \/ WouldBlock(t) \/ Wake(t) \/ Repair(t)
    BY <2>1 DEF Acquire, AcquireFails, WouldBlock, Wake, Repair, worldVars
  <2>2. CASE ReadNothing(t) \/ ReadConflict(t) \/ ReadClaimOnly(t) \/ ReadTerminal(t)
    BY <2>2 DEF ReadNothing, ReadConflict, ReadClaimOnly, ReadTerminal, worldVars
  <2>3. CASE \/ AppendBody(t) \/ AppendBodyFails(t) \/ AppendNewline(t)
             \/ AppendNewlineFails(t) \/ AppendSync(t) \/ AppendSyncFails(t)
             \/ RepairRetry(t)
    BY <2>3 DEF AppendBody, AppendBodyFails, AppendNewline, AppendNewlineFails,
       AppendSync, AppendSyncFails, RepairRetry, worldVars
  <2>4. CASE BeginNew(t) \/ BeginRecovered(t) \/ BeginReconcile(t) \/ BeginFails(t)
    BY <2>4 DEF BeginNew, BeginRecovered, BeginReconcile, BeginFails, worldVars
  <2>5. CASE Capabilities(t) \/ Observe(t) \/ Sentinel(t)
    BY <2>5 DEF Capabilities, Observe, Sentinel, Precheck, FinishEarly, Settle, worldVars
  <2>6. CASE DispatchOk(t) \/ DispatchUnknown(t) \/ DispatchRefused(t) \/ Verify(t)
    BY <2>6 DEF DispatchOk, DispatchUnknown, DispatchRefused, Verify, Settle
  <2>7. CASE RecordOutcome(t) \/ RecordFails(t)
    BY <2>7 DEF RecordOutcome, RecordFails, worldVars
  <2>. QED BY <1>3, <2>1, <2>2, <2>3, <2>4, <2>5, <2>6, <2>7 DEF Step
<1>4. ASSUME NEW f \in File, NEW k \in Key, Land(f, k) PROVE UNCHANGED dispatches
  BY <1>4 DEF Land
<1>5. ASSUME NEW p \in Process, Kill(p) PROVE UNCHANGED dispatches
  BY <1>5 DEF Kill, worldVars
<1>6. CASE PowerLoss
  BY <1>6 DEF PowerLoss
<1>. QED BY <1>1, <1>2, <1>3, <1>4, <1>5, <1>6 DEF Next

(* A durable outcome ledger forgets no key.                                *)
LEMMA GrantStays ==
  ASSUME Inv, [Next]_vars, HostLedger = "durable", NEW s \in Store, NEW k \in Key,
         outcomes[s][k] # "absent"
  PROVE  outcomes'[s][k] # "absent"
BY StoresMove, NotHeld DEF StoreMove, Records, Inv, ThreadInv

(* GrantedInv is inductive, given Inv, when all processes share a durable  *)
(* outcome ledger: a call is granted a key only if no other one was.       *)
LEMMA NextGranted ==
  ASSUME OneStore, Inv, GrantedInv, [Next]_vars
  PROVE  GrantedInv'
<1>1. \A f \in File, k \in Key : dispatches[f][k] \in Nat
  BY DEF Inv, TypeOK
<1>2. \A t \in Thread : /\ ProcessOf[t] \in Process
                        /\ pc[t] \in Granted => key[t] \in Key
  BY ConstantsAssumption DEF Inv, ThreadInv, Inside, ProgramCounter, Granted, Granting
<1>3. ASSUME NEW p \in Process, NEW q \in Process
      PROVE  StoreOf[p] \in Store /\ StoreOf[p] = StoreOf[q]
  BY ConstantsAssumption DEF OneStore
<1>4. ASSUME NEW u \in Thread, pc'[u] \in Granted
      PROVE  /\ key'[u] = key[u]
             /\ \/ pc[u] \in Granted
                \/ /\ pc[u] = "begin_new" /\ Held(u) = "absent" /\ Grant(u)
                   /\ UNCHANGED dispatches
  <2>1. pc'[u] \in Working
    BY <1>4 DEF Working, Inside, ProgramCounter, Granted, Granting
  <2>. QED BY <1>4, <2>1, CallsMove DEF CallMove, Learns, Proceeds, Unmoved
<1>5. ASSUME NEW f \in File, NEW k \in Key, dispatches'[f][k] > 0
      PROVE  \/ dispatches[f][k] > 0
             \/ \E t \in Thread : Dispatch(t) /\ FileOf(t) = f /\ key[t] = k
  <2>1. CASE UNCHANGED dispatches
    BY <1>5, <2>1
  <2>2. ASSUME NEW t \in Thread, Dispatch(t), ~(FileOf(t) = f /\ key[t] = k)
        PROVE  dispatches[f][k] > 0
    <3>1. dispatches' = [dispatches EXCEPT ![FileOf(t)][key[t]] = @ + 1]
      BY <2>2 DEF Dispatch
    <3>2. dispatches'[f][k] = dispatches[f][k]
      BY <2>2, <3>1 DEF Inv, TypeOK
    <3>. QED BY <1>5, <3>2
  <2>. QED BY <2>1, <2>2, DispatchesMove
<1>6. \A t \in Thread : Dispatch(t) => pc[t] \in Granted /\ pc'[t] = "executing"
  BY DEF Dispatch, Goto, Granted, Granting, Inv, TypeOK
<1>7. ASSUME NEW f \in File, NEW k \in Key, NEW p \in Process, dispatches'[f][k] > 0
      PROVE  outcomes'[StoreOf[p]][k] # "absent"
  <2>1. outcomes[StoreOf[p]][k] # "absent"
    BY <1>2, <1>3, <1>5, <1>6, <1>7 DEF GrantedInv, Held
  <2>. QED BY <1>3, <2>1, GrantStays DEF OneStore
<1>8. ASSUME NEW f \in File, NEW g \in File, NEW k \in Key,
             dispatches'[f][k] > 0, dispatches'[g][k] > 0
      PROVE  f = g
  <2>1. \A t \in Thread, h \in File :
          Dispatch(t) /\ key[t] = k => ~(dispatches[h][k] > 0)
    BY <1>1, <1>6 DEF GrantedInv
  <2>2. \A t, u \in Thread :
          Dispatch(t) /\ Dispatch(u) /\ key[t] = k /\ key[u] = k => t = u
    BY <1>6 DEF GrantedInv
  <2>. QED BY <1>5, <1>8, <2>1, <2>2 DEF GrantedInv
<1>9. ASSUME NEW u \in Thread, pc'[u] \in Granted
      PROVE  /\ Held(u)' # "absent"
             /\ \A f \in File : dispatches'[f][key'[u]] = 0
             /\ \A v \in Thread : pc'[v] \in Granted /\ key'[v] = key'[u] => v = u
  <2>0. key'[u] = key[u] /\ key[u] \in Key /\ StoreOf[ProcessOf[u]] \in Store
    <3>1. key'[u] \in Key
      BY <1>9, NextInv DEF Inv, ThreadInv, Inside, ProgramCounter, Granted, Granting
    <3>. QED BY <1>2, <1>3, <1>4, <1>9, <3>1
  <2>1. ASSUME NEW v \in Thread, pc[v] = "begin_new", Held(v) = "absent",
               NEW w \in Thread, pc[w] \in Granted, key[w] = key[v]
        PROVE  FALSE
    BY <1>2, <1>3, <2>1 DEF GrantedInv, Held
  <2>2. CASE pc[u] \in Granted
    <3>1. Held(u)' # "absent"
      <4>1. outcomes[StoreOf[ProcessOf[u]]][key[u]] # "absent"
        BY <2>2 DEF GrantedInv, Held
      <4>2. outcomes'[StoreOf[ProcessOf[u]]][key[u]] # "absent"
        BY <2>0, <4>1, GrantStays DEF OneStore
      <4>. QED BY <2>0, <4>2 DEF Held
    <3>2. ASSUME NEW f \in File PROVE dispatches'[f][key[u]] = 0
      <4>1. \A t \in Thread : Dispatch(t) => key[t] # key[u]
        BY <1>6, <1>9, <2>2 DEF GrantedInv, Granted, Granting
      <4>2. dispatches[f][key[u]] = 0
        BY <2>2 DEF GrantedInv
      <4>3. ~(dispatches'[f][key[u]] > 0)
        BY <1>5, <2>0, <4>1, <4>2
      <4>4. dispatches'[f][key[u]] \in Nat
        BY <2>0, NextInv DEF Inv, TypeOK
      <4>. QED BY <4>3, <4>4
    <3>3. ASSUME NEW v \in Thread, pc'[v] \in Granted, key'[v] = key[u] PROVE v = u
      BY <1>4, <2>1, <2>2, <3>3 DEF GrantedInv
    <3>. QED BY <2>0, <3>1, <3>2, <3>3
  <2>3. CASE /\ pc[u] = "begin_new" /\ Held(u) = "absent" /\ Grant(u)
             /\ UNCHANGED dispatches
    <3>1. Held(u)' # "absent"
      BY <2>0, <2>3 DEF Grant, Held, OneStore, Inv, TypeOK
    <3>2. ASSUME NEW f \in File PROVE dispatches'[f][key[u]] = 0
      BY <1>1, <1>2, <2>0, <2>3 DEF GrantedInv, Held
    <3>3. ASSUME NEW v \in Thread, pc'[v] \in Granted, key'[v] = key[u], v # u
          PROVE  FALSE
      <4>1. CASE pc[v] \in Granted
        BY <1>4, <2>1, <2>3, <3>3, <4>1
      <4>2. CASE pc[v] = "begin_new" /\ Grant(v) /\ Held(v) = "absent"
        <5>1. pc[u] = "begin_new" /\ pc'[u] # pc[u] /\ pc'[v] # pc[v]
          BY <1>9, <2>3, <3>3, <4>2 DEF Granted, Granting
        <5>. QED BY <1>9, <3>3, <5>1, OneAtATime DEF Unmoved, Granted, Granting
      <4>. QED BY <1>4, <3>3, <4>1, <4>2
    <3>. QED BY <2>0, <3>1, <3>2, <3>3
  <2>. QED BY <1>4, <1>9, <2>2, <2>3
<1>. QED BY <1>7, <1>8, <1>9 DEF GrantedInv

(* Nothing is dispatched or about to be at first.                          *)
LEMMA InitGranted == Init => GrantedInv
BY DEF Init, GrantedInv, Granted, Granting

(* With one durable outcome ledger for all processes, a request is         *)
(* dispatched through one ledger file at most: OutcomeLedger::begin grants *)
(* a key once, whichever ledger file it was claimed in.                    *)
THEOREM OncePerKey == Spec => []AtMostOncePerKey
<1>1. CASE OneStore
  <2>1. Init => Inv /\ GrantedInv
    BY InitInv, InitGranted
  <2>2. Inv /\ GrantedInv /\ [Next]_vars => (Inv /\ GrantedInv)'
    BY <1>1, NextInv, NextGranted
  <2>3. Inv /\ GrantedInv => AtMostOncePerKey
    BY DEF GrantedInv, AtMostOncePerKey
  <2>. QED BY <2>1, <2>2, <2>3, PTL DEF Spec
<1>2. CASE ~OneStore
  <2>1. AtMostOncePerKey
    BY <1>2 DEF AtMostOncePerKey, OneStore
  <2>2. AtMostOncePerKey'
    BY <1>2 DEF AtMostOncePerKey, OneStore
  <2>3. Init => AtMostOncePerKey
    BY <1>2 DEF AtMostOncePerKey, OneStore
  <2>4. AtMostOncePerKey /\ [Next]_vars => AtMostOncePerKey'
    BY <2>2
  <2>. QED BY <2>3, <2>4, PTL DEF Spec
<1>. QED BY <1>1, <1>2

-----------------------------------------------------------------------------
(* Progress                                                                *)

(* A lock is held by a call on its file that is at work.                   *)
HolderInv ==
  \A f \in File : lock[f] # None =>
    lock[f] \in Thread /\ FileOf(lock[f]) = f /\ pc[lock[f]] \in Inside

(* A call that ends releases its lock, and no other.                       *)
LEMMA LeaveReleases ==
  ASSUME HolderInv, NEW T, Leave(T)
  PROVE  HolderInv'
BY FileRigid DEF HolderInv, Leave

(* What a step of a call does to the locks.                                *)
Moves(t) ==
  \/ Leave({t})
  \/ pc'[t] \in Inside /\ lock' = lock
  \/ pc[t] \notin Inside /\ lock' = lock
  \/ pc'[t] \in Inside /\ lock' = [lock EXCEPT ![FileOf(t)] = t]

(* Every step of a call is one of these.                                   *)
LEMMA StepMoves ==
  ASSUME Inv, NEW t \in Thread, Step(t)
  PROVE  Moves(t)
<1> USE DEF Moves, Inside, ProgramCounter, Goto, StartAppend
<1>2. CASE Acquire(t) \/ AcquireFails(t) \/ WouldBlock(t) \/ Wake(t) \/ Repair(t)
  BY <1>2 DEF Acquire, AcquireFails, WouldBlock, Wake, Repair, ReturnNothing, Inv, TypeOK
<1>3. CASE ReadNothing(t) \/ ReadConflict(t) \/ ReadClaimOnly(t)
  BY <1>3 DEF ReadNothing, ReadConflict, ReadClaimOnly, ReturnNothing, Inv, TypeOK
<1>4. CASE ReadTerminal(t)
  BY <1>4 DEF ReadTerminal, ReturnUnsynced, Inv, TypeOK
<1>5. CASE AppendBody(t) \/ AppendNewline(t) \/ AppendSync(t)
  BY <1>5 DEF AppendBody, AppendNewline, AppendSync, AppendDone, ReturnDurable, Inv, TypeOK
<1>6. CASE \/ AppendBodyFails(t) \/ AppendNewlineFails(t) \/ AppendSyncFails(t)
           \/ RepairRetry(t)
  BY <1>6 DEF AppendBodyFails, AppendNewlineFails, AppendSyncFails, AppendFailed,
     RepairRetry, ReturnNothing, ReturnUnsynced, Inv, TypeOK
<1>7. CASE BeginNew(t) \/ BeginRecovered(t) \/ BeginReconcile(t) \/ BeginFails(t)
  BY <1>7 DEF BeginNew, BeginRecovered, BeginReconcile, BeginFails, ReturnNothing,
     ReturnUnsynced, Inv, TypeOK
<1>8. CASE Capabilities(t) \/ Observe(t) \/ Sentinel(t)
  BY <1>8 DEF Capabilities, Observe, Sentinel, Precheck, FinishEarly, Settle, Inv, TypeOK
<1>9. CASE \/ Dispatch(t) \/ DispatchOk(t) \/ DispatchUnknown(t)
           \/ DispatchRefused(t) \/ Verify(t)
  BY <1>9 DEF Dispatch, DispatchOk, DispatchUnknown, DispatchRefused, Verify, Settle,
     Inv, TypeOK
<1>10. CASE RecordOutcome(t) \/ RecordFails(t)
  BY <1>10 DEF RecordOutcome, RecordFails, ReturnNothing, Inv, TypeOK
<1>. QED BY <1>2, <1>3, <1>4, <1>5, <1>6, <1>7, <1>8, <1>9, <1>10 DEF Step

(* Every step keeps the holders at work.                                   *)
LEMMA NextHolder == Inv /\ HolderInv /\ [Next]_vars => HolderInv'
<1> SUFFICES ASSUME Inv, HolderInv, [Next]_vars PROVE HolderInv'
  OBVIOUS
<1>1. CASE UNCHANGED vars
  BY <1>1, FileRigid DEF vars, threadVars, HolderInv
<1>2. ASSUME NEW t \in Thread,
             \/ \E k \in Key : Execute(t, k)
             \/ \E o \in Op : Status(t, o)
      PROVE  HolderInv'
  <2>1. pc[t] = "idle" /\ lock' = lock /\ \A u \in Thread \ {t} : pc'[u] = pc[u]
    BY <1>2 DEF Execute, Status, Goto, Inv, TypeOK
  <2>2. "idle" \notin Inside
    BY DEF Inside
  <2>. QED BY <2>1, <2>2, FileRigid DEF HolderInv
<1>3. ASSUME NEW t \in Thread, Cancel(t) \/ Expire(t) PROVE HolderInv'
  BY <1>3, FileRigid DEF Cancel, Expire, HolderInv
<1>4. ASSUME NEW t \in Thread, Step(t) PROVE HolderInv'
  <2>1. \A u \in Thread \ {t} : pc'[u] = pc[u]
    BY <1>4, OthersRest DEF Unmoved
  <2>2. Moves(t)
    BY <1>4, StepMoves
  <2>3. CASE Leave({t})
    BY <2>3, LeaveReleases
  <2>4. CASE pc'[t] \in Inside /\ lock' = lock
    BY <2>1, <2>4, FileRigid DEF HolderInv
  <2>5. CASE pc[t] \notin Inside /\ lock' = lock
    BY <2>1, <2>5, FileRigid DEF HolderInv
  <2>6. CASE pc'[t] \in Inside /\ lock' = [lock EXCEPT ![FileOf(t)] = t]
    BY <2>1, <2>6, FileRigid, FileOfType DEF HolderInv, Inv, TypeOK
  <2>. QED BY <2>2, <2>3, <2>4, <2>5, <2>6 DEF Moves
<1>5. ASSUME NEW f \in File, NEW k \in Key, Land(f, k) PROVE HolderInv'
  BY <1>5, FileRigid DEF Land, threadVars, HolderInv
<1>6. ASSUME NEW p \in Process, Kill(p) PROVE HolderInv'
  BY <1>6, LeaveReleases DEF Kill
<1>7. CASE PowerLoss
  BY <1>7, LeaveReleases DEF PowerLoss
<1>. QED BY <1>1, <1>2, <1>3, <1>4, <1>5, <1>6, <1>7 DEF Next

(* Nobody waits for a lock that will not be released: its holder is a call *)
(* at work, whatever failed and whoever was killed (acquire_ledger_lock,   *)
(* LedgerLock).                                                            *)
THEOREM LocksAreHeldAtWork == Spec => []HoldersWork
<1>1. Init => HolderInv
  BY DEF Init, HolderInv
<1>2. HolderInv => HoldersWork
  BY DEF HolderInv, HoldersWork, Inside
<1>. QED BY <1>1, <1>2, SpecInv, NextHolder, PTL DEF Spec

(* The labels in the order of a call.                                      *)
LEMMA StepsLeftIs ==
  ASSUME NEW s \in Site
  PROVE  /\ StepsLeft("idle", s) = 0
         /\ StepsLeft("repair_retry", s) = 4
         /\ StepsLeft("verify", s) = 9
         /\ StepsLeft("executing", s) = 10
         /\ StepsLeft("dispatch", s) = 11
         /\ StepsLeft("sentinel", s) = 12
         /\ StepsLeft("observe", s) = 13
         /\ StepsLeft("capabilities", s) = 14
         /\ StepsLeft("begin_new", s) = 15
         /\ StepsLeft("begin_recovered", s) = 15
         /\ StepsLeft("begin_reconcile", s) = 15
         /\ StepsLeft("read", s) = 19
         /\ StepsLeft("repair", s) = 20
         /\ StepsLeft("lock", s) = 21
         /\ StepsLeft("wait", s) = 21
         /\ StepsLeft("sync", s) \in 1..16
         /\ StepsLeft("newline", s) = StepsLeft("sync", s) + 1
         /\ StepsLeft("append", s) = StepsLeft("sync", s) + 2
         /\ StepsLeft("record", s) = StepsLeft("sync", s) + 3
         /\ s = "claim" => StepsLeft("sync", s) = 16
         /\ s = "effect" => StepsLeft("sync", s) = 5
         /\ s \in {"final", "retry"} => StepsLeft("sync", s) = 1
BY DEF StepsLeft, Site


(* The step of a call leaves it fewer steps.                               *)
Lower(t) == StepsLeft(pc'[t], site'[t]) \in 0..StepsLeft(pc[t], site[t]) - 1

(* The end of a call does.                                                 *)
LEMMA Returning ==
  ASSUME Inv, NEW T, Leave(T), NEW t \in Thread \intersect T, pc[t] # "idle"
  PROVE  Lower(t)
<1>1. pc'[t] = "idle" /\ site'[t] \in Site
  BY DEF Leave, Site
<1>2. site[t] \in Site /\ pc[t] \in ProgramCounter \ {"idle"}
  BY DEF Inv, TypeOK
<1>3. StepsLeft(pc[t], site[t]) \in 1..21
  BY <1>2, StepsLeftIs DEF ProgramCounter, Site
<1>. QED BY <1>1, <1>3, StepsLeftIs DEF Lower

(* So does every step that the call takes itself, but those of the wait.   *)
LEMMA OwnStep ==
  ASSUME Inv, HolderInv, NEW t \in Thread, Step(t)
  PROVE  \/ Lower(t)
         \/ pc[t] = "lock" /\ pc'[t] = "wait" /\ lock[FileOf(t)] \notin {None, t}
         \/ pc[t] = "wait" /\ pc'[t] = "lock" /\ ~cancelled[t] /\ ~expired[t]
<1>0. /\ pc[t] \in ProgramCounter /\ site[t] \in Site
      /\ \A label : Goto(t, label) => pc'[t] = label
      /\ \A s : StartAppend(t, s) => pc'[t] = "append" /\ site'[t] = s
  BY DEF Inv, TypeOK, Goto, StartAppend
<1>1. ASSUME pc[t] # "idle", Leave({t}) PROVE Lower(t)
  BY <1>1, Returning
<1>2. CASE Acquire(t) \/ AcquireFails(t) \/ Repair(t)
  BY <1>0, <1>1, <1>2, StepsLeftIs DEF Acquire, AcquireFails, Repair, ReturnNothing, Lower
<1>3. CASE WouldBlock(t)
  <2>1. pc[t] \notin Inside
    BY <1>3 DEF WouldBlock, Inside
  <2>. QED BY <1>0, <1>3, <2>1, FileOfType DEF WouldBlock, HolderInv
<1>4. CASE Wake(t)
  BY <1>0, <1>1, <1>4 DEF Wake, ReturnNothing
<1>5. CASE ReadNothing(t) \/ ReadConflict(t) \/ ReadClaimOnly(t)
  <2>1. "claim" \in Site
    BY DEF Site
  <2>. QED
    BY <1>0, <1>1, <1>5, <2>1, StepsLeftIs DEF ReadNothing, ReadConflict, ReadClaimOnly,
       ReturnNothing, Lower
<1>6. CASE ReadTerminal(t)
  BY <1>0, <1>1, <1>6, StepsLeftIs DEF ReadTerminal, ReturnUnsynced, Lower
<1>7. CASE AppendBody(t) \/ AppendNewline(t) \/ AppendSync(t)
  <2>1. CASE AppendBody(t) \/ AppendNewline(t)
    <3>1. site'[t] = site[t]
      BY <2>1 DEF AppendBody, AppendNewline
    <3>2. PICK n \in 1..16 : n = StepsLeft("sync", site[t])
      BY <1>0, StepsLeftIs
    <3>3. /\ StepsLeft("newline", site[t]) = n + 1
          /\ StepsLeft("append", site[t]) = n + 2
      BY <1>0, <3>2, StepsLeftIs
    <3>4. \/ pc[t] = "append" /\ pc'[t] = "newline"
          \/ pc[t] = "newline" /\ pc'[t] = "sync"
      BY <1>0, <2>1 DEF AppendBody, AppendNewline
    <3>. QED BY <3>1, <3>2, <3>3, <3>4 DEF Lower
  <2>2. CASE AppendSync(t)
    BY <1>0, <1>1, <2>2, StepsLeftIs DEF AppendSync, AppendDone, ReturnDurable, Lower
  <2>. QED BY <1>7, <2>1, <2>2
<1>8. CASE AppendBodyFails(t) \/ AppendNewlineFails(t) \/ AppendSyncFails(t)
  <2>1. pc[t] \in Appending /\ AppendFailed(t)
    BY <1>8 DEF AppendBodyFails, AppendNewlineFails, AppendSyncFails, Appending
  <2>2. \/ Leave({t})
        \/ site[t] = "effect" /\ pc'[t] = "repair_retry" /\ site'[t] = site[t]
    BY <1>0, <2>1 DEF AppendFailed, ReturnNothing, ReturnUnsynced
  <2>3. pc[t] # "idle"
    BY <2>1 DEF Appending
  <2>4. CASE site[t] = "effect" /\ pc'[t] = "repair_retry" /\ site'[t] = site[t]
    <3>1. StepsLeft(pc[t], "effect") \in {5, 6, 7} /\ StepsLeft(pc'[t], "effect") = 4
      BY <1>0, <2>1, <2>4, StepsLeftIs DEF Appending
    <3>. QED BY <2>4, <3>1 DEF Lower
  <2>. QED BY <1>1, <2>2, <2>3, <2>4
<1>9. CASE RepairRetry(t)
  <2>1. "retry" \in Site
    BY DEF Site
  <2>. QED BY <1>0, <1>1, <1>9, <2>1, StepsLeftIs DEF RepairRetry, ReturnUnsynced, Lower
<1>10. CASE BeginNew(t) \/ BeginRecovered(t) \/ BeginReconcile(t) \/ BeginFails(t)
  <2>1. "final" \in Site
    BY DEF Site
  <2>2. /\ pc[t] \in {"begin_new", "begin_recovered", "begin_reconcile"}
        /\ \/ Leave({t})
           \/ pc'[t] = "append" /\ site'[t] = "final"
           \/ pc'[t] = "capabilities" /\ site'[t] = site[t]
    BY <1>0, <1>10 DEF BeginNew, BeginRecovered, BeginReconcile, BeginFails, ReturnNothing,
       ReturnUnsynced
  <2>3. CASE ~Leave({t})
    BY <1>0, <2>1, <2>2, <2>3, StepsLeftIs DEF Lower
  <2>. QED BY <1>1, <2>2, <2>3
<1>11. ASSUME NEW z, NEW s \in {"final", "effect"}, Settle(t, z, s)
       PROVE  pc'[t] = "record" /\ site'[t] \in Site /\ StepsLeft("record", site'[t]) \in 1..8
  <2>1. pc'[t] = "record" /\ site'[t] = s /\ s \in Site
    BY <1>0, <1>11 DEF Settle, Inv, TypeOK, Site
  <2>. QED BY <2>1, StepsLeftIs
<1>12. CASE Capabilities(t) \/ Observe(t) \/ Sentinel(t)
  BY <1>0, <1>11, <1>12, StepsLeftIs DEF Capabilities, Observe, Sentinel, Precheck,
     FinishEarly, Lower
<1>13. CASE Dispatch(t)
  BY <1>0, <1>13, StepsLeftIs DEF Dispatch, Lower
<1>14. CASE DispatchOk(t) \/ DispatchUnknown(t) \/ DispatchRefused(t)
  BY <1>0, <1>11, <1>14, StepsLeftIs DEF DispatchOk, DispatchUnknown, DispatchRefused, Lower
<1>15. CASE Verify(t)
  BY <1>0, <1>11, <1>15, StepsLeftIs DEF Verify, Lower
<1>16. CASE RecordOutcome(t) \/ RecordFails(t)
  BY <1>0, <1>1, <1>16, StepsLeftIs DEF RecordOutcome, RecordFails, ReturnNothing, Lower
<1>. QED BY <1>2, <1>3, <1>4, <1>5, <1>6, <1>7, <1>8, <1>9, <1>10, <1>12, <1>13, <1>14,
  <1>15, <1>16 DEF Step

(* execute and status take finitely many steps apart from the wait for the *)
(* lock, which goes on only while another call has it and, for execute, is *)
(* left at the boundary: every other step that changes where a call is     *)
(* lowers its count, whatever fails (Engine::execute, finish_after_effect).*)
THEOREM StepsAreCounted == Spec => StepsCount
<1>1. ASSUME Inv, HolderInv, [Next]_vars, NEW t \in Thread, pc[t] # "idle", pc'[t] # pc[t]
      PROVE  \/ Lower(t)
             \/ pc[t] = "lock" /\ pc'[t] = "wait" /\ lock[FileOf(t)] \notin {None, t}
             \/ pc[t] = "wait" /\ pc'[t] = "lock" /\ ~cancelled[t] /\ ~expired[t]
  <2>1. CASE UNCHANGED pc
    BY <1>1, <2>1
  <2>2. ASSUME NEW u \in Thread,
               \/ \E k \in Key : Execute(u, k)
               \/ \E o \in Op : Status(u, o)
        PROVE  FALSE
    BY <1>1, <2>2 DEF Execute, Status, Goto, Inv, TypeOK
  <2>3. ASSUME NEW u \in Thread, Step(u), u # t PROVE FALSE
    BY <1>1, <2>3, OthersRest DEF Unmoved
  <2>4. CASE Step(t)
    BY <1>1, <2>4, OwnStep
  <2>5. ASSUME NEW T, Leave(T) PROVE Lower(t)
    <3>1. t \in T
      BY <1>1, <2>5 DEF Leave
    <3>. QED BY <1>1, <2>5, <3>1, Returning
  <2>6. CASE \E p \in Process : Kill(p)
    BY <2>5, <2>6 DEF Kill
  <2>7. CASE PowerLoss
    BY <2>5, <2>7 DEF PowerLoss
  <2>8. \A u \in Thread : Cancel(u) \/ Expire(u) => UNCHANGED pc
    BY DEF Cancel, Expire
  <2>9. \A f \in File, k \in Key : Land(f, k) => UNCHANGED pc
    BY DEF Land, threadVars
  <2>10. CASE UNCHANGED vars
    BY <2>1, <2>10 DEF vars, threadVars
  <2>. QED BY <1>1, <2>1, <2>2, <2>3, <2>4, <2>6, <2>7, <2>8, <2>9, <2>10 DEF Next
<1>2. Inv /\ HolderInv /\ [Next]_vars =>
        [\A t \in Thread : pc[t] # "idle" /\ pc'[t] # pc[t] =>
           \/ StepsLeft(pc'[t], site'[t]) \in 0..StepsLeft(pc[t], site[t]) - 1
           \/ pc[t] = "lock" /\ pc'[t] = "wait" /\ lock[FileOf(t)] \notin {None, t}
           \/ pc[t] = "wait" /\ pc'[t] = "lock" /\ ~cancelled[t] /\ ~expired[t]]_vars
  BY <1>1 DEF Lower
<1>3. Init => HolderInv
  BY DEF Init, HolderInv
<1>. QED BY <1>2, <1>3, SpecInv, NextHolder, PTL DEF Spec, StepsCount

=============================================================================
