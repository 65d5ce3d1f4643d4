----------------------------- MODULE FilesProofs -----------------------------
(***************************************************************************)
(* Proofs about StateFiles and the LedgerFiles that it extends, for any    *)
(* operations, processes, observations and systems.  The ledger: while     *)
(* power loss does not meet other faults, what a call relies on when it    *)
(* dispatches or reports is secured on the disk (LedgerInv).  The other    *)
(* files: what was confirmed is on the disk, and a directory that is not   *)
(* finished has a call that is at it or was interrupted (StateInv).        *)
(***************************************************************************)
EXTENDS StateFiles, TLAPS

-----------------------------------------------------------------------------
(* The ledger: the invariant                                               *)

(* Power loss does not meet other faults (see LedgerFilesLost.cfg).        *)
PowerLossAlone == \A s \in Scenarios : "power" \in s => s = {"power"}

(* The power can fail in this behaviour.                                   *)
Powered == "power" \in faults

(* The ledger has a line of one of these states about an operation, and    *)
(* will have it whatever fails.                                            *)
Secured(o, states) ==
  \E i \in 1..Len(lines["ledger"]) :
    /\ lines["ledger"][i].op = o /\ lines["ledger"][i].state \in states
    /\ Powered => i <= synced["ledger"] /\ "ledger" \in entered

(* The states of a terminal line.                                          *)
Ending == {"finish", "retry"}

(* What the file of the current step is for.                               *)
FileInv ==
  /\ step = "read" => task = "lock"
  /\ step = "dispatch" => task = "executing"
  /\ step \in {"write", "sync"} => file \in LogFile
  /\ step # "idle" =>
       /\ task = "lock" => file = "lock"
       /\ task \in LedgerTask => file = "ledger"
       /\ task \in TrajectoryTask => file \in {"trajectory_lock", "trajectory"}

(* Every line of a file, and the file, will outlive a power loss.          *)
Settled(n) == synced[n] = Len(lines[n]) /\ (lines[n] # <<>> => n \in entered)

(* While the power can fail, only the step that adds a line or a file is   *)
(* ahead of the disk.                                                      *)
DiskInv ==
  /\ step \in {"write", "sync", "entry"} => file \in present
  /\ Powered =>
       /\ (step \in {"write", "sync"} /\ existed) => file \in entered
       /\ \/ present \subseteq entered
          \/ /\ step \in {"write", "sync", "entry"} /\ present \subseteq entered \union {file}
             /\ step # "entry" => ~existed
       /\ \A n \in LogFile :
            \/ Settled(n)
            \/ file = n /\ step = "sync"
            \/ file = n /\ step = "entry" /\ synced[n] = Len(lines[n])

(* What the trajectory has of an operation when a task is begun.           *)
Before(x) ==
  CASE x = "claim" -> {}
    [] x = "accepted" -> {"accepted"}
    [] x = "executing" -> {"accepted", "executing"}
    [] OTHER -> TrajectoryTask

(* A call goes on to its effect, or to its report, with the claim of its   *)
(* operation in the ledger, and to its effect only if there was none.      *)
CallInv ==
  /\ (task \in LedgerTask /\ step \in {"sync", "entry"}) =>
       /\ lines["ledger"] # <<>>
       /\ lines["ledger"][Len(lines["ledger"])] = [state |-> task, op |-> op]
  /\ step # "idle" =>
       /\ task \in TrajectoryTask \union Ending => Secured(op, {"claim"})
       /\ task = "terminal" => Secured(op, Ending)
       /\ task \in {"claim", "accepted", "executing"} =>
            /\ dispatches[op] = 0
            /\ \A i \in 1..Len(lines["trajectory"]) :
                 lines["trajectory"][i].op = op => lines["trajectory"][i].state \in Before(task)

(* What was dispatched or reported is in the ledger.                       *)
DoneInv ==
  /\ \A o \in Op : dispatches[o] <= 1 /\ (dispatches[o] > 0 => Secured(o, {"claim"}))
  /\ \A i \in 1..Len(lines["trajectory"]) :
       /\ lines["trajectory"][i].state \in TrajectoryTask
       /\ Secured(lines["trajectory"][i].op, {"claim"})
       /\ lines["trajectory"][i].state = "terminal" => Secured(lines["trajectory"][i].op, Ending)
  /\ \A i, j \in 1..Len(lines["trajectory"]) :
       (i < j /\ lines["trajectory"][i].op = lines["trajectory"][j].op) =>
         Sequence(lines["trajectory"][i].state) <= Sequence(lines["trajectory"][j].state)

(* The invariant of the ledger files.                                      *)
LedgerInv == FileInv /\ DiskInv /\ CallInv /\ DoneInv

-----------------------------------------------------------------------------
(* The ledger: what follows a task                                         *)

(* A task that ends leads to the next one.                                 *)
LEMMA TasksMove ==
  ASSUME TypeOK, TaskDone \/ TaskFailed
  PROVE  /\ step' \in {"idle", "open", "read", "dispatch"}
         /\ task' \in Task
         /\ file' \in LockFile \union LogFile
<1>1. /\ file \in LockFile \union LogFile /\ task \in Task
  BY DEF TypeOK
<1>2. ASSUME Reported PROVE step' \in {"idle", "open", "dispatch"} /\ task' \in Task
                            /\ file' \in LockFile \union LogFile
  BY <1>1, <1>2 DEF Reported, Begin, Await, Return, Finish, Task, TrajectoryTask, LedgerTask,
     LockFile, LogFile
<1>3. CASE TaskDone
  BY <1>1, <1>2, <1>3 DEF TaskDone, Begin, Await, Task, TrajectoryTask, LedgerTask, LockFile,
     LogFile
<1>4. CASE TaskFailed
  BY <1>1, <1>2, <1>4 DEF TaskFailed, Begin, Await, Return, Task, TrajectoryTask, LedgerTask,
     LockFile, LogFile
<1> QED
  BY <1>3, <1>4

(* A report that was made, or failed, leads to the effect or to the end.   *)
LEMMA ReportMoves ==
  ASSUME FileInv, CallInv, Reported, step # "idle", task \in TrajectoryTask,
         lines' = lines, op' = op, dispatches' = dispatches,
         \A s : Secured(op, s) => Secured(op, s)'
  PROVE  FileInv' /\ CallInv'
<1>1. CASE task = "accepted" /\ Begin("executing", "trajectory_lock")
  BY <1>1 DEF FileInv, CallInv, Begin, Before, TrajectoryTask, LedgerTask, LogFile, Ending
<1>2. CASE Finish
  BY <1>2 DEF FileInv, CallInv, Begin, Finish, TrajectoryTask, LedgerTask, LogFile, Ending
<1>3. CASE task = "executing" /\ Await("dispatch")
  BY <1>3 DEF FileInv, CallInv, Await, TrajectoryTask, LedgerTask, LogFile, Ending
<1>4. CASE task = "terminal" /\ Return
  BY <1>4 DEF FileInv, CallInv, Await, Return
<1> QED
  BY <1>1, <1>2, <1>3, <1>4 DEF Reported

(* A task that was done is in the ledger when the next one begins.         *)
LEMMA DoneMoves ==
  ASSUME TypeOK, FileInv, CallInv, TaskDone, step # "idle",
         lines' = lines, op' = op, dispatches' = dispatches,
         \A s : Secured(op, s) => Secured(op, s)',
         \A x \in LedgerTask : task = x => Secured(op, {x})'
  PROVE  FileInv' /\ CallInv'
<1>1. CASE task = "lock" /\ Await("read")
  BY <1>1 DEF FileInv, CallInv, Await, TrajectoryTask, LedgerTask, LogFile, Ending
<1>2. CASE task = "claim" /\ Begin("accepted", "trajectory_lock")
  <2>1. Secured(op, {"claim"})'
    BY <1>2 DEF LedgerTask
  <2> QED
    BY <1>2, <2>1 DEF FileInv, CallInv, Begin, Before, TrajectoryTask, LedgerTask, LogFile,
       Ending
<1>3. CASE task \in {"finish", "retry"} /\ Begin("terminal", "trajectory_lock")
  <2>1. Secured(op, Ending)'
    BY <1>3 DEF Secured, Ending, LedgerTask
  <2> QED
    BY <1>3, <2>1 DEF FileInv, CallInv, Begin, TrajectoryTask, LedgerTask, LogFile, Ending
<1>4. CASE task \in TrajectoryTask /\ file = "trajectory_lock" /\ Begin(task, "trajectory")
  BY <1>4 DEF FileInv, CallInv, Begin, TrajectoryTask, LedgerTask, LogFile, Ending
<1>5. CASE task \in TrajectoryTask /\ file = "trajectory" /\ Reported
  BY <1>5, ReportMoves
<1> QED
  BY <1>1, <1>2, <1>3, <1>4, <1>5 DEF TaskDone

(* Only the report of a failed task, and the second attempt to finish, go  *)
(* on.                                                                     *)
LEMMA FailureMoves ==
  ASSUME TypeOK, FileInv, CallInv, TaskFailed, step # "idle",
         lines' = lines, op' = op, dispatches' = dispatches,
         \A s : Secured(op, s) => Secured(op, s)'
  PROVE  FileInv' /\ CallInv'
<1>1. CASE Return
  BY <1>1 DEF FileInv, CallInv, Await, Return
<1>2. CASE task = "finish" /\ Begin("retry", "ledger")
  BY <1>2 DEF FileInv, CallInv, Begin, TrajectoryTask, LedgerTask, LogFile, Ending
<1>3. CASE task \in TrajectoryTask /\ Reported
  BY <1>3, ReportMoves
<1> QED
  BY <1>1, <1>2, <1>3 DEF TaskFailed

-----------------------------------------------------------------------------
(* The ledger: what lasts                                                  *)

(* A line that is secured stays where it is.                               *)
LEMMA SecuredStays ==
  ASSUME faults' = faults,
         \A i \in 1..Len(lines["ledger"]) :
          (Powered => i <= synced["ledger"] /\ "ledger" \in entered) =>
           /\ i \in 1..Len(lines["ledger"])' /\ lines["ledger"][i]' = lines["ledger"][i]
           /\ Powered => i <= synced["ledger"]' /\ ("ledger" \in entered)'
  PROVE  \A o, s : Secured(o, s) => Secured(o, s)'
<1> SUFFICES ASSUME NEW o, NEW s, Secured(o, s) PROVE Secured(o, s)'
  OBVIOUS
<1>1. Powered' = Powered
  BY DEF Powered
<1>2. PICK i \in 1..Len(lines["ledger"]) :
        /\ lines["ledger"][i].op = o /\ lines["ledger"][i].state \in s
        /\ Powered => i <= synced["ledger"] /\ "ledger" \in entered
  BY DEF Secured
<1> QED
  BY <1>1, <1>2 DEF Secured

(* So it does while the lines are not touched.                             *)
LEMMA SecuredKept ==
  ASSUME TypeOK, faults' = faults, lines' = lines, entered \subseteq entered',
         synced' = synced \/ \E n \in LogFile : synced' = [synced EXCEPT ![n] = Len(lines[n])]
  PROVE  \A o, s : Secured(o, s) => Secured(o, s)'
<1>1. synced["ledger"] \in 0..Len(lines["ledger"]) /\ Len(lines["ledger"]) \in Nat
  BY DEF TypeOK, LogFile
<1>2. synced'["ledger"] \in {synced["ledger"], Len(lines["ledger"])}
  <2>1. CASE synced' = synced
    BY <2>1
  <2>2. ASSUME NEW n \in LogFile, synced' = [synced EXCEPT ![n] = Len(lines[n])]
        PROVE  synced'["ledger"] \in {synced["ledger"], Len(lines["ledger"])}
    BY <2>2 DEF TypeOK, LogFile
  <2> QED
    BY <2>1, <2>2
<1> QED
  BY <1>1, <1>2, SecuredStays

-----------------------------------------------------------------------------
(* The ledger: the types                                                   *)

(* Every step keeps the types.                                             *)
LEMMA LedgerTypesKept == TypeOK /\ FileInv /\ [Next]_vars => TypeOK'
<1> SUFFICES ASSUME TypeOK, FileInv, [Next]_vars PROVE TypeOK'
  OBVIOUS
<1>1. CASE UNCHANGED vars
  BY <1>1 DEF vars, diskVars, callVars, TypeOK
<1> SUFFICES ASSUME Next, faults' = faults PROVE TypeOK'
  BY <1>1 DEF Next
<1>2. ASSUME NEW o \in Op, Call(o) PROVE TypeOK'
  BY <1>2 DEF Call, Begin, diskVars, TypeOK, LockFile, Task
<1>3. CASE Open
  <2>1. step' \in {"idle", "open", "read", "dispatch", "write", "entry"} /\ task' \in Task
        /\ file' \in LockFile \union LogFile
    BY <1>3, TasksMove DEF Open, Await, TypeOK
  <2> QED
    BY <1>3, <2>1 DEF Open, TypeOK
<1>4. CASE Write
  <2>1. [state |-> task, op |-> op] \in Line /\ file \in LogFile
    BY <1>4 DEF Write, TypeOK, FileInv, Line
  <2>2. PICK line \in Line : lines' = [lines EXCEPT ![file] = Append(@, line)]
    BY <1>4, <2>1 DEF Write
  <2>3. lines' \in [LogFile -> Seq(Line)]
    BY <2>1, <2>2 DEF TypeOK
  <2>4. ASSUME NEW n \in LogFile PROVE synced[n] <= Len(lines'[n])
    <3>1. lines[n] \in Seq(Line) /\ synced[n] <= Len(lines[n]) /\ synced[n] \in Nat
      BY DEF TypeOK
    <3>2. Len(Append(lines[n], line)) = Len(lines[n]) + 1 /\ Len(lines[n]) \in Nat
      BY <3>1
    <3>3. lines'[n] \in {lines[n], Append(lines[n], line)}
      BY <2>1, <2>2 DEF TypeOK
    <3> QED
      BY <3>1, <3>2, <3>3
  <2> QED
    BY <1>4, <2>3, <2>4 DEF Write, TypeOK
<1>5. CASE Sync
  <2>1. step' \in {"idle", "open", "read", "dispatch", "entry"} /\ task' \in Task
        /\ file' \in LockFile \union LogFile
    BY <1>5, TasksMove DEF Sync, Await, TypeOK
  <2>2. file \in LogFile /\ Len(lines[file]) \in Nat
    <3>1. file \in LogFile
      BY <1>5 DEF Sync, FileInv
    <3>2. lines[file] \in Seq(Line)
      BY <3>1 DEF TypeOK
    <3> QED
      BY <3>1, <3>2
  <2>3. synced' \in [LogFile -> Nat] /\ \A n \in LogFile : synced'[n] <= Len(lines[n])
    BY <1>5, <2>2 DEF Sync, TypeOK
  <2> QED
    BY <1>5, <2>1, <2>3 DEF Sync, TypeOK
<1>6. CASE SyncParent
  BY <1>6, TasksMove DEF SyncParent, TypeOK
<1>7. CASE Fails
  BY <1>7, TasksMove DEF Fails, diskVars, TypeOK
<1>8. CASE Read
  BY <1>8 DEF Read, Begin, Finish, Return, Await, diskVars, TypeOK, Task, LedgerTask, LogFile
<1>9. CASE Dispatch
  BY <1>9 DEF Dispatch, Finish, Begin, diskVars, TypeOK, Task, LedgerTask, LogFile
<1>10. CASE Kill
  BY <1>10 DEF Kill, Stop, Return, Await, diskVars, TypeOK
<1>11. CASE PowerLoss
  <2>1. PICK kept \in SUBSET present :
          /\ present' = kept /\ entered' = kept
          /\ synced' \in {cut \in [LogFile -> 0..Len(lines["ledger"]) + Len(lines["trajectory"])] :
               \A n \in LogFile :
                 cut[n] \in IF n \in kept THEN synced[n]..Len(lines[n]) ELSE {0}}
          /\ lines' = [n \in LogFile |-> SubSeq(lines[n], 1, synced'[n])]
    BY <1>11 DEF PowerLoss
  <2>2. \A n \in LogFile : /\ lines[n] \in Seq(Line) /\ synced'[n] \in Nat
                           /\ synced'[n] <= Len(lines[n])
    BY <2>1 DEF TypeOK
  <2>3. \A n \in LogFile : /\ SubSeq(lines[n], 1, synced'[n]) \in Seq(Line)
                           /\ Len(SubSeq(lines[n], 1, synced'[n])) = synced'[n]
    BY <2>2
  <2>4. synced' \in [LogFile -> Nat]
    BY <2>1, <2>2
  <2> QED
    BY <1>11, <2>1, <2>3, <2>4 DEF PowerLoss, Stop, Return, Await, TypeOK
<1> QED
  BY <1>2, <1>3, <1>4, <1>5, <1>6, <1>7, <1>8, <1>9, <1>10, <1>11 DEF Next

-----------------------------------------------------------------------------
(* The ledger: the steps                                                   *)

(* Without a new line or a dispatch, what was done is in the ledger.       *)
LEMMA DoneStays ==
  ASSUME DoneInv, lines' = lines, dispatches' = dispatches,
         \A o, s : Secured(o, s) => Secured(o, s)'
  PROVE  DoneInv'
BY DEF DoneInv, Ending

(* A step after which nothing is ahead of the disk.                        *)
LEMMA DiskRests ==
  ASSUME DiskInv, step \notin {"write", "sync", "entry"}, diskVars' = diskVars, faults' = faults,
         step' \notin {"write", "sync", "entry"}
  PROVE  DiskInv'
<1>1. Powered => present \subseteq entered /\ \A n \in LogFile : Settled(n)
  BY DEF DiskInv
<1> QED
  BY <1>1 DEF DiskInv, diskVars, Powered, Settled

(* A call starts from a disk that is up to date.                           *)
LEMMA CallKept ==
  ASSUME NEW o \in Op, TypeOK, LedgerInv, Call(o), faults' = faults
  PROVE  LedgerInv'
<1>1. /\ step = "idle" /\ step' = "open" /\ task' = "lock" /\ file' = "lock"
      /\ diskVars' = diskVars /\ dispatches' = dispatches
  BY DEF Call, Begin, diskVars
<1>2. DiskInv'
  BY <1>1, DiskRests DEF LedgerInv
<1>3. FileInv' /\ CallInv'
  BY <1>1 DEF FileInv, CallInv, LogFile, LedgerTask, TrajectoryTask, Ending
<1>4. DoneInv'
  <2>1. lines' = lines /\ entered' = entered /\ synced' = synced
    BY <1>1 DEF diskVars
  <2> QED
    BY <1>1, <2>1, SecuredKept, DoneStays DEF LedgerInv
<1> QED
  BY <1>2, <1>3, <1>4 DEF LedgerInv

(* The file of a task is there once it was opened.                         *)
LEMMA OpenKept ==
  ASSUME TypeOK, LedgerInv, Open, faults' = faults
  PROVE  LedgerInv'
<1>1. /\ step = "open" /\ existed' = (file \in present) /\ present' = present \union {file}
      /\ entered' = entered /\ lines' = lines /\ synced' = synced /\ op' = op
      /\ dispatches' = dispatches
  BY DEF Open
<1>2. /\ Powered => present \subseteq entered /\ \A n \in LogFile : Settled(n)
      /\ Powered' = Powered
  BY <1>1 DEF LedgerInv, DiskInv, Powered
<1>3. \A o, s : Secured(o, s) => Secured(o, s)'
  BY <1>1, SecuredKept
<1>4. DoneInv'
  BY <1>1, <1>3, DoneStays DEF LedgerInv
<1>5. CASE /\ Await(IF file \in LogFile THEN "write" ELSE "entry")
           /\ file \notin LogFile => file \notin present
  <2>1. task' = task /\ file' = file /\ step' = IF file \in LogFile THEN "write" ELSE "entry"
    BY <1>5 DEF Await
  <2>2. FileInv'
    BY <1>1, <2>1 DEF LedgerInv, FileInv
  <2>3. CallInv'
    <3>1. task \in LedgerTask => file \in LogFile
      BY <1>1 DEF LedgerInv, FileInv, LogFile
    <3> QED
      BY <1>1, <1>3, <2>1, <3>1 DEF LedgerInv, CallInv, Ending
  <2>4. DiskInv'
    BY <1>1, <1>2, <1>5, <2>1 DEF DiskInv, Settled
  <2> QED
    BY <1>4, <2>2, <2>3, <2>4 DEF LedgerInv
<1>6. CASE file \notin LogFile /\ file \in present /\ TaskDone
  <2>1. task \notin LedgerTask
    BY <1>1, <1>6 DEF LedgerInv, FileInv, LogFile
  <2>2. FileInv' /\ CallInv'
    BY <1>1, <1>3, <1>6, <2>1, DoneMoves DEF LedgerInv
  <2>3. step' \notin {"write", "sync", "entry"}
    BY <1>6, TasksMove
  <2>4. DiskInv'
    BY <1>1, <1>6, <2>3, DiskRests DEF LedgerInv, diskVars
  <2> QED
    BY <1>4, <2>2, <2>4 DEF LedgerInv
<1> QED
  BY <1>5, <1>6 DEF Open

(* The line of a task stands where the next step finds it, and says no     *)
(* more than the ledger does.                                              *)
LEMMA WriteKept ==
  ASSUME TypeOK, LedgerInv, Write, faults' = faults
  PROVE  LedgerInv'
<1>1. /\ step = "write" /\ step' = "sync" /\ task' = task /\ file' = file /\ op' = op
      /\ existed' = existed /\ present' = present /\ entered' = entered /\ synced' = synced
      /\ dispatches' = dispatches /\ Powered' = Powered
  BY DEF Write, Powered
<1>2. file \in LogFile /\ task \in LedgerTask \union TrajectoryTask
  BY <1>1 DEF LedgerInv, FileInv, TypeOK, Task, LogFile
<1>3. PICK line \in Line :
        /\ line.state = task /\ line.op = op /\ line = [state |-> task, op |-> op]
        /\ lines' = [lines EXCEPT ![file] = Append(lines[file], line)]
  BY <1>1 DEF Write, TypeOK, Line
<1>4. \A n \in LogFile : lines[n] \in Seq(Line) /\ Len(lines[n]) \in Nat
  BY DEF TypeOK
<1>5. \A n \in LogFile : n # file => lines'[n] = lines[n]
  BY <1>3 DEF TypeOK
<1>6. /\ lines'[file] = Append(lines[file], line)
      /\ Len(lines'[file]) = Len(lines[file]) + 1
      /\ \A i \in 1..Len(lines[file]) : lines'[file][i] = lines[file][i]
      /\ lines'[file][Len(lines'[file])] = line
      /\ lines'[file] # <<>>
  BY <1>2, <1>3, <1>4 DEF TypeOK
<1>7. \A o, s : Secured(o, s) => Secured(o, s)'
  <2>1. "ledger" \in LogFile
    BY DEF LogFile
  <2>2. \A i \in 1..Len(lines["ledger"]) : /\ i \in 1..Len(lines'["ledger"])
                                          /\ lines'["ledger"][i] = lines["ledger"][i]
    BY <1>4, <1>5, <1>6, <2>1
  <2> QED
    BY <1>1, <2>2, SecuredStays
<1>8. FileInv'
  BY <1>1 DEF LedgerInv, FileInv
<1>9. DiskInv'
  <2>1. Powered => \A n \in LogFile : n # file => Settled(n)
    BY <1>1 DEF LedgerInv, DiskInv
  <2>2. Powered => \A n \in LogFile : n # file => Settled(n)'
    BY <1>1, <1>5, <2>1 DEF Settled
  <2> QED
    BY <1>1, <2>2 DEF LedgerInv, DiskInv
<1>10. CASE file = "ledger"
  <2>1. lines'["trajectory"] = lines["trajectory"] /\ task \in LedgerTask
    BY <1>2, <1>5, <1>10, <1>1 DEF LogFile, LedgerInv, FileInv, TrajectoryTask, LedgerTask
  <2>2. DoneInv'
    BY <1>1, <1>7, <2>1 DEF LedgerInv, DoneInv, Ending
  <2>3. CallInv'
    BY <1>1, <1>3, <1>6, <1>7, <1>10, <2>1 DEF LedgerInv, CallInv, Ending
  <2> QED
    BY <1>8, <1>9, <2>2, <2>3 DEF LedgerInv
<1>11. CASE file = "trajectory"
  <2>1. task \in TrajectoryTask
    BY <1>1, <1>2, <1>11 DEF LedgerInv, FileInv, LedgerTask
  <2>2. DEFINE trail == lines["trajectory"]
               new == lines'["trajectory"]
  <2>3. /\ new[Len(new)] = line /\ Len(new) = Len(trail) + 1 /\ Len(trail) \in Nat
        /\ \A i \in 1..Len(trail) : new[i] = trail[i]
    BY <1>4, <1>6, <1>11 DEF LogFile
  <2>4. \A i \in 1..Len(new) : i \in 1..Len(trail) \/ i = Len(new)
    BY <2>3
  <2>5. \A i \in 1..Len(trail) : trail[i].op = op => trail[i].state \in Before(task)
    BY <1>1, <2>1 DEF LedgerInv, CallInv, DoneInv, TrajectoryTask, Before
  <2>6. CallInv'
    <3>1. \A i \in 1..Len(new) : new[i].op = op => new[i].state \in Before(task)
      BY <1>3, <2>1, <2>3, <2>4, <2>5 DEF Before, TrajectoryTask
    <3> HIDE DEF trail, new
    <3>2. \A i \in 1..Len(lines'["trajectory"]) :
            lines'["trajectory"][i].op = op => lines'["trajectory"][i].state \in Before(task)
      BY <3>1 DEF new
    <3> QED
      BY <1>1, <1>7, <2>1, <3>2 DEF LedgerInv, CallInv, Ending, TrajectoryTask, LedgerTask
  <2>7. DoneInv'
    <3>1. \A i \in 1..Len(new) :
            /\ new[i].state \in TrajectoryTask
            /\ Secured(new[i].op, {"claim"})
            /\ new[i].state = "terminal" => Secured(new[i].op, Ending)
      BY <1>1, <1>3, <2>1, <2>3, <2>4 DEF LedgerInv, DoneInv, CallInv
    <3>2. ASSUME NEW i \in 1..Len(new), NEW j \in 1..Len(new), i < j, new[i].op = new[j].op
          PROVE  Sequence(new[i].state) <= Sequence(new[j].state)
      <4>1. i \in 1..Len(trail) /\ new[i] = trail[i]
        BY <2>3, <3>2
      <4>2. CASE j \in 1..Len(trail)
        BY <2>3, <3>2, <4>1, <4>2 DEF LedgerInv, DoneInv
      <4>3. CASE j = Len(new)
        <5>1. /\ new[j].state = task /\ trail[i].state \in Before(task)
              /\ trail[i].state \in TrajectoryTask
          BY <1>3, <2>3, <2>5, <3>2, <4>1, <4>3 DEF LedgerInv, DoneInv
        <5> QED
          BY <2>1, <4>1, <5>1 DEF Before, Sequence, TrajectoryTask
      <4> QED
        BY <2>4, <3>2, <4>2, <4>3
    <3>3. \A i, o : (i \in 1..Len(new) /\ new[i].op = o) =>
            /\ Secured(o, {"claim"})'
            /\ new[i].state = "terminal" => Secured(o, Ending)'
      BY <1>7, <3>1 DEF Ending
    <3>4. ASSUME NEW i \in 1..Len(lines'["trajectory"])
          PROVE  /\ lines'["trajectory"][i].state \in TrajectoryTask
                 /\ Secured(lines["trajectory"][i].op, {"claim"})'
                 /\ lines'["trajectory"][i].state = "terminal"
                      => Secured(lines["trajectory"][i].op, Ending)'
      BY <3>1, <3>3
    <3>5. \A o \in Op : dispatches'[o] <= 1 /\ (dispatches'[o] > 0 => Secured(o, {"claim"})')
      BY <1>1, <1>7 DEF LedgerInv, DoneInv
    <3> HIDE DEF trail
    <3> QED
      BY <3>2, <3>4, <3>5 DEF DoneInv
  <2> QED
    BY <1>8, <1>9, <2>6, <2>7 DEF LedgerInv
<1> QED
  BY <1>2, <1>10, <1>11 DEF LogFile

(* A synced line is secured if its file was there before.                  *)
LEMMA SyncKept ==
  ASSUME TypeOK, LedgerInv, Sync, faults' = faults
  PROVE  LedgerInv'
<1>1. /\ step = "sync" /\ synced' = [synced EXCEPT ![file] = Len(lines[file])]
      /\ present' = present /\ entered' = entered /\ lines' = lines /\ existed' = existed
      /\ op' = op /\ dispatches' = dispatches /\ Powered' = Powered
  BY DEF Sync, Powered
<1>2. file \in LogFile /\ Len(lines[file]) \in Nat
  <2>1. file \in LogFile
    BY <1>1 DEF LedgerInv, FileInv
  <2>2. lines[file] \in Seq(Line)
    BY <2>1 DEF TypeOK
  <2> QED
    BY <2>1, <2>2
<1>3. synced'[file] = Len(lines[file]) /\ \A n \in LogFile : n # file => synced'[n] = synced[n]
  BY <1>1, <1>2 DEF TypeOK
<1>4. \A o, s : Secured(o, s) => Secured(o, s)'
  BY <1>1, <1>2, SecuredKept
<1>5. DoneInv'
  BY <1>1, <1>4, DoneStays DEF LedgerInv
<1>6. Powered => \A n \in LogFile : n # file => Settled(n)'
  BY <1>1, <1>3 DEF LedgerInv, DiskInv, Settled
<1>7. CASE existed /\ TaskDone
  <2> PICK f \in LogFile : f = file
    BY <1>2
  <2>1. Powered => present \subseteq entered /\ Settled(f)'
    BY <1>1, <1>3, <1>7 DEF LedgerInv, DiskInv, Settled
  <2>2. ASSUME NEW x \in LedgerTask, task = x PROVE Secured(op, {x})'
    <3>1. file = "ledger" /\ lines["ledger"] # <<>>
          /\ lines["ledger"][Len(lines["ledger"])] = [state |-> x, op |-> op]
      BY <1>1, <2>2 DEF LedgerInv, FileInv, CallInv
    <3>2. Len(lines["ledger"]) \in 1..Len(lines["ledger"])
      BY <1>2, <3>1 DEF TypeOK
    <3> QED
      BY <1>1, <1>3, <2>1, <3>1, <3>2 DEF Secured, Settled
  <2>3. FileInv' /\ CallInv'
    BY <1>1, <1>4, <1>7, <2>2, DoneMoves DEF LedgerInv
  <2>4. step' \notin {"write", "sync", "entry"}
    BY <1>7, TasksMove
  <2>5. DiskInv'
    BY <1>1, <1>6, <2>1, <2>4 DEF DiskInv
  <2> QED
    BY <1>5, <2>3, <2>5 DEF LedgerInv
<1>8. CASE ~existed /\ Await("entry")
  <2>1. step' = "entry" /\ task' = task /\ file' = file
    BY <1>8 DEF Await
  <2>2. FileInv' /\ CallInv'
    BY <1>1, <1>4, <2>1 DEF LedgerInv, FileInv, CallInv, Ending
  <2>3. DiskInv'
    BY <1>1, <1>2, <1>3, <1>6, <1>8, <2>1 DEF LedgerInv, DiskInv
  <2> QED
    BY <1>5, <2>2, <2>3 DEF LedgerInv
<1> QED
  BY <1>7, <1>8 DEF Sync

(* Otherwise the entry of the file secures it.                             *)
LEMMA SyncParentKept ==
  ASSUME TypeOK, LedgerInv, SyncParent, faults' = faults
  PROVE  LedgerInv'
<1>1. /\ step = "entry" /\ entered' = present /\ TaskDone /\ present' = present
      /\ lines' = lines /\ synced' = synced /\ existed' = existed /\ op' = op
      /\ dispatches' = dispatches /\ Powered' = Powered /\ entered \subseteq present
  BY DEF SyncParent, Powered, TypeOK
<1>2. \A o, s : Secured(o, s) => Secured(o, s)'
  BY <1>1, SecuredKept
<1>3. Powered => \A n \in LogFile : Settled(n)'
  BY <1>1 DEF LedgerInv, DiskInv, Settled
<1>4. ASSUME NEW x \in LedgerTask, task = x PROVE Secured(op, {x})'
  <2>1. /\ file = "ledger" /\ file \in LogFile /\ lines["ledger"] # <<>>
        /\ lines["ledger"][Len(lines["ledger"])] = [state |-> x, op |-> op]
    BY <1>1, <1>4 DEF LedgerInv, FileInv, CallInv, LogFile
  <2>2. lines["ledger"] \in Seq(Line)
    BY <2>1 DEF TypeOK
  <2>3. Len(lines["ledger"]) \in 1..Len(lines["ledger"])
    BY <2>1, <2>2
  <2> QED
    BY <1>1, <1>3, <2>1, <2>3 DEF Secured, Settled
<1>5. FileInv' /\ CallInv'
  BY <1>1, <1>2, <1>4, DoneMoves DEF LedgerInv
<1>6. DiskInv'
  <2>1. step' \notin {"write", "sync", "entry"}
    BY <1>1, TasksMove
  <2> QED
    BY <1>1, <1>3, <2>1 DEF DiskInv
<1> QED
  BY <1>1, <1>2, <1>5, <1>6, DoneStays DEF LedgerInv

(* An error leaves more than what is secured, and never meets power loss.  *)
LEMMA FailsKept ==
  ASSUME PowerLossAlone, TypeOK, LedgerInv, Fails, faults' = faults
  PROVE  LedgerInv'
<1>1. /\ step # "idle" /\ TaskFailed /\ lines' = lines /\ entered' = entered /\ synced' = synced
      /\ present' = present /\ op' = op /\ dispatches' = dispatches
  BY DEF Fails, diskVars
<1>2. ~Powered /\ Powered' = Powered
  BY DEF Fails, PowerLossAlone, TypeOK, Powered
<1>3. \A o, s : Secured(o, s) => Secured(o, s)'
  BY <1>1, SecuredKept
<1>4. FileInv' /\ CallInv'
  BY <1>1, <1>3, FailureMoves DEF LedgerInv
<1>5. DiskInv'
  BY <1>1, <1>2, TasksMove DEF DiskInv
<1> QED
  BY <1>1, <1>3, <1>4, <1>5, DoneStays DEF LedgerInv

(* A call that reads no claim is the first that can dispatch its operation *)
(* or report it.                                                           *)
LEMMA ReadKept ==
  ASSUME TypeOK, LedgerInv, Read, faults' = faults
  PROVE  LedgerInv'
<1>1. /\ step = "read" /\ diskVars' = diskVars /\ lines' = lines /\ entered' = entered
      /\ synced' = synced /\ op' = op /\ dispatches' = dispatches
  BY DEF Read, diskVars
<1>2. step' \in {"open", "idle"}
  BY DEF Read, Begin, Finish, Return, Await
<1>3. \A o, s : Secured(o, s) => Secured(o, s)'
  BY <1>1, SecuredKept
<1>4. DiskInv'
  BY <1>1, <1>2, DiskRests DEF LedgerInv
<1>5. DoneInv'
  BY <1>1, <1>3, DoneStays DEF LedgerInv
<1>6. Secured(op, {"claim"}) <=> Has({"claim"})
  <2>1. Powered => Settled("ledger")
    BY <1>1 DEF LedgerInv, DiskInv, LogFile
  <2>2. lines["ledger"] \in Seq(Line)
    BY DEF TypeOK, LogFile
  <2>3. Has({"claim"}) => lines["ledger"] # <<>>
    BY <2>2 DEF Has
  <2> QED
    BY <2>1, <2>2, <2>3 DEF Secured, Has, Settled
<1>7. FileInv' /\ CallInv'
  <2>1. CASE Return
    BY <1>2, <2>1 DEF Return, Await, FileInv, CallInv
  <2>2. CASE Has({"claim"}) /\ Finish
    BY <1>3, <1>6, <2>2, <1>1 DEF Finish, Begin, FileInv, CallInv, LogFile, LedgerTask,
       TrajectoryTask, Ending
  <2>3. CASE ~Has({"claim"}) /\ Begin("claim", "ledger")
    <3>1. op \in Op /\ dispatches[op] \in Nat
      BY DEF TypeOK
    <3>2. dispatches[op] = 0
      BY <1>6, <2>3, <3>1 DEF LedgerInv, DoneInv
    <3>3. \A i \in 1..Len(lines["trajectory"]) : lines["trajectory"][i].op # op
      BY <1>6, <2>3 DEF LedgerInv, DoneInv
    <3> QED
      BY <1>1, <2>3, <3>2, <3>3 DEF Begin, FileInv, CallInv, LogFile, LedgerTask, TrajectoryTask,
         Ending
  <2> QED
    BY <2>1, <2>2, <2>3 DEF Read
<1> QED
  BY <1>4, <1>5, <1>7 DEF LedgerInv

(* The first dispatch of an operation has its claim.                       *)
LEMMA DispatchKept ==
  ASSUME TypeOK, LedgerInv, Dispatch, faults' = faults
  PROVE  LedgerInv'
<1>1. /\ step = "dispatch" /\ step' = "open" /\ task' = "finish" /\ file' = "ledger"
      /\ diskVars' = diskVars /\ lines' = lines /\ entered' = entered /\ synced' = synced
      /\ op' = op /\ dispatches' = [dispatches EXCEPT ![op] = @ + 1]
  BY DEF Dispatch, Finish, Begin, diskVars
<1>2. dispatches[op] = 0 /\ Secured(op, {"claim"})
  BY <1>1 DEF LedgerInv, FileInv, CallInv, TrajectoryTask
<1>3. \A o, s : Secured(o, s) => Secured(o, s)'
  BY <1>1, SecuredKept
<1>4. DiskInv'
  BY <1>1, DiskRests DEF LedgerInv
<1>5. FileInv' /\ CallInv'
  BY <1>1, <1>2, <1>3 DEF FileInv, CallInv, LogFile, LedgerTask, TrajectoryTask, Ending
<1>6. DoneInv'
  <2>1. ASSUME NEW o \in Op
        PROVE  dispatches'[o] <= 1 /\ (dispatches'[o] > 0 => Secured(o, {"claim"})')
    <3>1. dispatches'[o] = IF o = op THEN 1 ELSE dispatches[o]
      BY <1>1, <1>2 DEF TypeOK
    <3> QED
      BY <1>2, <1>3, <3>1 DEF LedgerInv, DoneInv
  <2> QED
    BY <1>1, <1>3, <2>1 DEF LedgerInv, DoneInv, Ending
<1> QED
  BY <1>4, <1>5, <1>6 DEF LedgerInv

(* A killed process leaves the disk as it is.                              *)
LEMMA KillKept ==
  ASSUME PowerLossAlone, TypeOK, LedgerInv, Kill, faults' = faults
  PROVE  LedgerInv'
<1>1. /\ step' = "idle" /\ lines' = lines /\ entered' = entered /\ synced' = synced
      /\ present' = present /\ dispatches' = dispatches
  BY DEF Kill, Stop, Return, Await, diskVars
<1>2. ~Powered /\ Powered' = Powered
  BY DEF Kill, PowerLossAlone, TypeOK, Powered
<1>3. \A o, s : Secured(o, s) => Secured(o, s)'
  BY <1>1, SecuredKept
<1>4. FileInv' /\ CallInv' /\ DiskInv'
  BY <1>1, <1>2 DEF FileInv, CallInv, DiskInv
<1> QED
  BY <1>1, <1>3, <1>4, DoneStays DEF LedgerInv

(* What a power loss takes from the files is nothing that was secured.     *)
LEMMA PowerLossKept ==
  ASSUME TypeOK, LedgerInv, PowerLoss, faults' = faults
  PROVE  LedgerInv'
<1>1. /\ Powered /\ Powered' = Powered /\ step' = "idle" /\ dispatches' = dispatches
  BY DEF PowerLoss, Powered, Stop, Return, Await
<1>2. PICK kept \in SUBSET present :
        /\ entered \subseteq kept /\ present' = kept /\ entered' = kept
        /\ synced' \in {cut \in [LogFile -> 0..Len(lines["ledger"]) + Len(lines["trajectory"])] :
             \A n \in LogFile :
               cut[n] \in IF n \in kept THEN synced[n]..Len(lines[n]) ELSE {0}}
        /\ lines' = [n \in LogFile |-> SubSeq(lines[n], 1, synced'[n])]
  BY DEF PowerLoss
<1>3. \A n \in LogFile :
        /\ lines[n] \in Seq(Line) /\ synced'[n] \in Nat /\ synced'[n] <= Len(lines[n])
        /\ synced[n] \in Nat /\ (n \in entered => synced[n] <= synced'[n])
        /\ n \notin kept => synced'[n] = 0
  BY <1>2 DEF TypeOK
<1>4. \A n \in LogFile :
        /\ Len(lines'[n]) = synced'[n]
        /\ \A i \in 1..Len(lines'[n]) : lines'[n][i] = lines[n][i]
  BY <1>2, <1>3
<1>5. \A o, s : Secured(o, s) => Secured(o, s)'
  <2>1. "ledger" \in LogFile
    BY DEF LogFile
  <2>2. ASSUME NEW i \in 1..Len(lines["ledger"]), i <= synced["ledger"] /\ "ledger" \in entered
        PROVE  /\ i \in 1..Len(lines["ledger"])' /\ lines["ledger"][i]' = lines["ledger"][i]
               /\ i <= synced["ledger"]' /\ ("ledger" \in entered)'
    BY <1>2, <1>3, <1>4, <2>1, <2>2
  <2> QED
    BY <1>1, <2>2, SecuredStays
<1>6. FileInv' /\ CallInv'
  BY <1>1 DEF FileInv, CallInv
<1>7. DiskInv'
  <2>1. ASSUME NEW n \in LogFile PROVE Settled(n)'
    <3>1. n \notin kept => lines'[n] = <<>>
      BY <1>2, <1>3
    <3> QED
      BY <1>2, <1>4, <3>1 DEF Settled
  <2> QED
    BY <1>1, <1>2, <2>1 DEF DiskInv
<1>8. DoneInv'
  <2> DEFINE trail == lines["trajectory"]
             new == lines'["trajectory"]
  <2>1. \A i \in 1..Len(new) : i \in 1..Len(trail) /\ new[i] = trail[i]
    BY <1>3, <1>4 DEF LogFile
  <2>2. \A i, o : (i \in 1..Len(new) /\ new[i].op = o) =>
          /\ new[i].state \in TrajectoryTask
          /\ Secured(o, {"claim"})'
          /\ new[i].state = "terminal" => Secured(o, Ending)'
    BY <1>5, <2>1 DEF LedgerInv, DoneInv, Ending
  <2>3. \A i, j \in 1..Len(new) : (i < j /\ new[i].op = new[j].op) =>
          Sequence(new[i].state) <= Sequence(new[j].state)
    BY <2>1 DEF LedgerInv, DoneInv
  <2>4. \A o \in Op : dispatches'[o] <= 1 /\ (dispatches'[o] > 0 => Secured(o, {"claim"})')
    BY <1>1, <1>5 DEF LedgerInv, DoneInv
  <2> HIDE DEF trail
  <2> QED
    BY <2>2, <2>3, <2>4 DEF DoneInv
<1> QED
  BY <1>6, <1>7, <1>8 DEF LedgerInv

(* Every step keeps the invariant of the ledger.                           *)
LEMMA LedgerKept == PowerLossAlone /\ TypeOK /\ LedgerInv /\ [Next]_vars => LedgerInv'
<1> SUFFICES ASSUME PowerLossAlone, TypeOK, LedgerInv, [Next]_vars PROVE LedgerInv'
  OBVIOUS
<1>1. CASE UNCHANGED vars
  BY <1>1 DEF vars, diskVars, callVars, LedgerInv, FileInv, DiskInv, CallInv, DoneInv, Settled,
     Secured, Powered, Before, Ending
<1>2. CASE Next
  BY <1>2, CallKept, OpenKept, WriteKept, SyncKept, SyncParentKept, FailsKept, ReadKept,
     DispatchKept, KillKept, PowerLossKept DEF Next
<1> QED
  BY <1>1, <1>2

(* It holds of the empty directory.                                        *)
LEMMA LedgerBegins == Init => TypeOK /\ LedgerInv
<1> SUFFICES ASSUME Init PROVE TypeOK /\ LedgerInv
  OBVIOUS
<1>1. TypeOK
  <2>1. lines \in [LogFile -> Seq(Line)] /\ \A n \in LogFile : lines[n] = <<>> /\ synced[n] = 0
    BY DEF Init
  <2>2. \A n \in LogFile : synced[n] <= Len(lines[n])
    BY <2>1
  <2> QED
    BY <2>1, <2>2 DEF Init, TypeOK, Task, LockFile, LedgerTask, TrajectoryTask
<1>2. \A n \in LogFile : lines[n] = <<>> /\ Settled(n)
  BY DEF Init, Settled
<1>3. lines["trajectory"] = <<>>
  BY <1>2 DEF LogFile
<1>4. LedgerInv
  BY <1>2, <1>3 DEF Init, LedgerInv, FileInv, DiskInv, CallInv, DoneInv
<1> QED
  BY <1>1, <1>4

-----------------------------------------------------------------------------
(* The other files: the invariant                                          *)

(* The process is in a call.                                               *)
Busy(p) == at[p] # "idle"

(* Steps of ensure_directory, those of them for which Windows holds the    *)
(* lock of the initialisation, and steps that need the directories.        *)
Ensuring == {"wait", "again", "make", "restrict", "enter"}
Initialising == {"again", "make", "restrict", "enter"}
Writing == {"place", "sync", "rename", "settle"}

JobInv(p) ==
  /\ at[p] \in {"sync", "rename"} => Observes(p)
  /\ (Busy(p) /\ job[p] = "allow") => at[p] \in {"remove", "settle"}
  /\ at[p] = "remove" => job[p] = "allow"
  /\ at[p] = "idle" => job[p] = "deny"

(* A call knows the directories that it still has to make.                 *)
MakingInv(p) ==
  /\ at[p] \in Ensuring =>
       IF system = "windows" THEN missing[p] \in {{d} : d \in Directory}
       ELSE at[p] \notin {"wait", "again"} /\ Needs(p) \ missing[p] \subseteq there
  /\ at[p] \in {"restrict", "enter"} => missing[p] \subseteq there
  /\ at[p] = "make" /\ system # "windows" => missing[p] # {}
  /\ at[p] = "restrict" /\ missing[p] = {} => Observes(p)
  /\ at[p] = "enter" => missing[p] # {} /\ Outer(missing[p]) \in private
  /\ (at[p] \in Writing /\ job[p] # "allow") => Needs(p) \subseteq there

(* Windows lets one call in.                                               *)
WindowsInv ==
  IF system = "windows" THEN \A p \in Process : at[p] \in Initialising => initializer = p
  ELSE initializer = "nobody"

(* A directory that cannot be there without its promise: it was finished,  *)
(* or a call is at it, or was interrupted.                                 *)
Excused(d) == d \in abandoned \/ \E p \in Process : d \in Making(p)

DirectoryInv(d) ==
  IF d \in there
  THEN /\ d \in private \/ Excused(d)
       /\ system # "windows" => survives[d] = {TRUE} \/ Excused(d)
  ELSE survives[d] = {FALSE}

(* What was confirmed is on the disk.                                      *)
PromiseInv ==
  /\ \A o \in issued : o \in there \intersect whole /\ survives[o] = {TRUE}
  /\ denied => Restriction \in there /\ survives[Restriction] = {TRUE}
  /\ issued # {} => Directory \subseteq there
  /\ denied => "state" \in there
  /\ \A d \in Directory : (system = "windows" /\ (issued # {} \/ (denied /\ d = "state"))) =>
       survives[d] = {TRUE}

(* Calls work on observations of their own, and a restriction that nobody  *)
(* lifts meanwhile stays.                                                  *)
WritingInv(p) ==
  /\ (Busy(p) /\ Observes(p)) =>
       /\ job[p] \notin issued
       /\ \A q \in Process \ {p} : job[q] # job[p]
       /\ at[p] \in {"rename", "settle"} => job[p] \in whole
       /\ at[p] = "settle" => job[p] \in there
  /\ (Busy(p) /\ job[p] = "allow") =>
       /\ ~denied
       /\ \A q \in Process : (Busy(q) /\ job[q] = "deny") => q \in contested
  /\ (at[p] = "settle" /\ job[p] = "deny" /\ p \notin contested) => Restriction \in there

(* The invariant of the other files.                                       *)
StateInv ==
  /\ \A p \in Process : JobInv(p) /\ MakingInv(p) /\ WritingInv(p)
  /\ \A d \in Directory : DirectoryInv(d)
  /\ WindowsInv /\ PromiseInv

-----------------------------------------------------------------------------
(* The other files: names                                                  *)

(* The names of the files and of the jobs are different ones.              *)
LEMMA Names ==
  /\ Restriction \notin Directory \union Observation
  /\ Directory \intersect Observation = {}
  /\ {"deny", "allow"} \intersect Observation = {}
  /\ "root" \notin Observation \union Directory
  /\ "nobody" \notin Process
BY StateFilesAssumption DEF Restriction, Directory

(* Every name is in the directory that the calls think of.                 *)
LEMMA Parents ==
  /\ Parent("state") = "root" /\ Parent("observations") = "state" /\ Parent(Restriction) = "state"
  /\ Parent("root") = "root"
  /\ \A o \in Observation : Parent(o) = "observations"
BY StateFilesAssumption DEF Parent, Restriction, Directory

(* The outer one of some directories is one of them.                       *)
LEMMA OuterIsOne ==
  ASSUME NEW ds \in SUBSET Directory
  PROVE  /\ Outer(ds) \in Directory /\ (ds # {} => Outer(ds) \in ds)
         /\ \A d \in Directory : Outer({d}) = d
BY DEF Outer, Directory

(* Calls need directories.                                                 *)
LEMMA NeedsDirectories == \A p : Needs(p) \subseteq Directory
BY DEF Needs, Directory

-----------------------------------------------------------------------------
(* The other files: what a step leaves of other calls and of the disk      *)

(* A call does not notice the steps of the others.                         *)
LEMMA OthersKept ==
  ASSUME StateInv, NEW q \in Process, system' = system,
         at'[q] = at[q], job'[q] = job[q], missing'[q] = missing[q],
         Directory \intersect there \subseteq there', private \subseteq private',
         missing[q] \subseteq Directory
  PROVE  JobInv(q)' /\ MakingInv(q)'
<1>1. JobInv(q)'
  BY DEF StateInv, JobInv, Busy, Observes
<1>2. Needs(q)' = Needs(q) /\ Needs(q) \subseteq Directory
  BY NeedsDirectories DEF Needs, Observes
<1>3. MakingInv(q)'
  BY <1>2 DEF StateInv, MakingInv, Observes, Ensuring, Writing
<1> QED
  BY <1>1, <1>3

(* A directory stays excused until its call has finished it.               *)
LEMMA ExcusedStays ==
  ASSUME NEW p \in Process, NEW d, Excused(d), abandoned \subseteq abandoned',
         \A q \in Process \ {p} : Making(q) \subseteq Making(q)',
         d \in Making(p) => d \in Making(p)' \/ d \in abandoned'
  PROVE  Excused(d)'
BY DEF Excused

(* The others keep what they are making.                                   *)
LEMMA OthersMake ==
  ASSUME NEW q \in Process, at'[q] = at[q], missing'[q] = missing[q],
         missing[q] \subseteq Directory, Directory \intersect there \subseteq there'
  PROVE  Making(q) \subseteq Making(q)'
BY DEF Making

(* Directories while no name comes or goes on the disk.                    *)
LEMMA DirectoriesStay ==
  ASSUME StateTypeOK, StateInv, NEW p \in Process, system' = system,
         Directory \intersect there' = Directory \intersect there, private \subseteq private',
         \A d \in Directory : survives'[d] \in {survives[d], Certain(d, there)},
         abandoned \subseteq abandoned', Making(p) \subseteq Making(p)' \union abandoned',
         \A q \in Process \ {p} : at'[q] = at[q] /\ missing'[q] = missing[q]
  PROVE  \A d \in Directory : DirectoryInv(d)'
<1> SUFFICES ASSUME NEW d \in Directory PROVE DirectoryInv(d)'
  OBVIOUS
<1>1. \A q \in Process \ {p} : Making(q) \subseteq Making(q)'
  BY OthersMake DEF StateTypeOK
<1>2. Excused(d) => Excused(d)'
  BY <1>1, ExcusedStays
<1>3. d \in there' <=> d \in there
  OBVIOUS
<1>4. survives'[d] = survives[d] \/ survives'[d] = IF d \in there THEN {TRUE} ELSE {FALSE}
  BY DEF Certain
<1>5. DirectoryInv(d)
  BY DEF StateInv
<1> QED
  BY <1>2, <1>3, <1>4, <1>5 DEF DirectoryInv

(* A call that returns an error leaves what it was making to others.       *)
LEMMA EndsKept ==
  ASSUME StateTypeOK, StateInv, NEW p \in Process, CallEnds(p), at[p] # "idle",
         part' = part, system' = system, refused' \in BOOLEAN
  PROVE  StateTypeOK' /\ StateInv'
<1>1. /\ at' = [at EXCEPT ![p] = "idle"] /\ job' = [job EXCEPT ![p] = "deny"]
      /\ missing' = [missing EXCEPT ![p] = {}] /\ contested' = contested \ {p}
      /\ initializer' = IF initializer = p THEN "nobody" ELSE initializer
      /\ abandoned' = abandoned \union Making(p)
      /\ there' = there /\ private' = private /\ survives' = survives /\ whole' = whole
      /\ issued' = issued /\ denied' = denied
  BY DEF CallEnds, Leave, Unlock, disk
<1>2. /\ at'[p] = "idle" /\ job'[p] = "deny"
      /\ \A q \in Process \ {p} : at'[q] = at[q] /\ job'[q] = job[q] /\ missing'[q] = missing[q]
  BY <1>1 DEF StateTypeOK
<1>3. Making(p) \subseteq Directory
  BY DEF Making, StateTypeOK
<1>4. StateTypeOK'
  BY <1>1, <1>2, <1>3, Names DEF StateTypeOK
<1>5. \A d \in Directory : DirectoryInv(d)'
  BY <1>1, <1>2, DirectoriesStay
<1>6. ASSUME NEW q \in Process PROVE JobInv(q)' /\ MakingInv(q)' /\ WritingInv(q)'
  <2>1. CASE q = p
    BY <1>2, <2>1 DEF JobInv, MakingInv, WritingInv, Busy, Ensuring, Writing
  <2>2. CASE q # p
    <3>1. JobInv(q)' /\ MakingInv(q)'
      BY <1>1, <1>2, <2>2, OthersKept DEF StateTypeOK
    <3>2. WritingInv(q)'
      BY <1>1, <1>2, <2>2, Names DEF StateInv, WritingInv, Busy, Observes
    <3> QED
      BY <3>1, <3>2
  <2> QED
    BY <2>1, <2>2
<1>7. WindowsInv'
  BY <1>1, <1>2, Names DEF StateInv, WindowsInv, Initialising
<1>8. PromiseInv'
  BY <1>1 DEF StateInv, PromiseInv
<1> QED
  BY <1>4, <1>5, <1>6, <1>7, <1>8 DEF StateInv

-----------------------------------------------------------------------------
(* The other files: the steps before the files are touched                 *)

(* The types and the invariant of the other files.                         *)
Inv == StateTypeOK /\ StateInv

(* A step that only decides where the call goes on.                        *)
LEMMA MovesKept ==
  ASSUME Inv, NEW p \in Process, NEW x, NEW m \in SUBSET Directory,
         UNCHANGED <<part, system, disk, job, contested, told>>,
         at' = [at EXCEPT ![p] = x], missing' = [missing EXCEPT ![p] = m],
         at[p] \in {"look", "wait", "again", "place"}, job[p] # "allow",
         x \in Ensuring \union {"look", "place", "settle"},
         initializer' \in {"nobody"} \union {q \in Process : at'[q] \in Initialising},
         MakingInv(p)', WindowsInv',
         x = "settle" => ~Observes(p) /\ Restriction \in there
  PROVE  Inv'
<1> USE DEF Inv
<1>1. /\ at'[p] = x /\ missing'[p] = m /\ job' = job /\ system' = system /\ part' = part
      /\ \A q \in Process \ {p} : at'[q] = at[q] /\ missing'[q] = missing[q]
      /\ there' = there /\ private' = private /\ survives' = survives /\ whole' = whole
      /\ contested' = contested /\ abandoned' = abandoned /\ issued' = issued
      /\ denied' = denied /\ refused' = refused
  BY DEF StateTypeOK, disk, told
<1>2. StateTypeOK'
  BY <1>1 DEF StateTypeOK, Ensuring, Initialising
<1>3. Making(p) = {} /\ Making(p) \subseteq Making(p)'
  BY DEF Making
<1>4. \A d \in Directory : DirectoryInv(d)'
  BY <1>1, <1>3, DirectoriesStay
<1>5. ASSUME NEW q \in Process PROVE JobInv(q)' /\ MakingInv(q)' /\ WritingInv(q)'
  <2>1. WritingInv(q)'
    BY <1>1, Names DEF StateInv, WritingInv, Busy, Observes, Ensuring
  <2>2. CASE q = p
    BY <1>1, <2>1, <2>2 DEF StateInv, JobInv, Busy, Observes, Ensuring
  <2>3. CASE q # p
    BY <1>1, <2>1, <2>3, OthersKept DEF StateTypeOK
  <2> QED
    BY <2>2, <2>3
<1>6. PromiseInv'
  BY <1>1 DEF StateInv, PromiseInv
<1> QED
  BY <1>2, <1>4, <1>5, <1>6 DEF StateInv

(* The walk finds out what has to be made.                                 *)
LEMMA LookUnixKept ==
  ASSUME Inv, NEW p \in Process, LookUnix(p), system # "windows", UNCHANGED <<part, system>>
  PROVE  Inv'
<1> DEFINE gone == Needs(p) \ there
           x == IF gone # {} THEN "make" ELSE IF Observes(p) THEN "restrict" ELSE "place"
<1>1. at[p] = "look" /\ gone \in SUBSET Directory
  BY NeedsDirectories DEF LookUnix
<1>2. CASE CallEnds(p) /\ refused' = TRUE
  BY <1>1, <1>2, EndsKept DEF Inv
<1>3. CASE /\ missing' = [missing EXCEPT ![p] = gone]
           /\ Move(p, "look", x)
           /\ UNCHANGED <<disk, job, initializer, contested, told>>
  <2>1. /\ at' = [at EXCEPT ![p] = x] /\ at'[p] = x /\ missing'[p] = gone /\ job' = job
        /\ there' = there /\ initializer' = initializer
        /\ \A q \in Process \ {p} : at'[q] = at[q]
    BY <1>3 DEF Move, Inv, StateTypeOK, disk
  <2>2. job[p] # "allow"
    BY <1>1 DEF Inv, StateInv, JobInv, Busy
  <2>3. MakingInv(p)'
    BY <2>1 DEF MakingInv, Ensuring, Writing, Needs, Observes
  <2>4. initializer = "nobody" /\ WindowsInv'
    BY <2>1 DEF Inv, StateInv, WindowsInv
  <2>5. x \in Ensuring \union {"look", "place", "settle"} /\ x # "settle"
    BY DEF Ensuring
  <2> HIDE DEF x, gone
  <2> QED
    BY <1>1, <1>3, <2>1, <2>2, <2>3, <2>4, <2>5, MovesKept
<1> QED
  BY <1>2, <1>3 DEF LookUnix

(* On Windows it leads to the lock, or to the files.                       *)
LEMMA LookWindowsKept ==
  ASSUME Inv, NEW p \in Process, LookWindows(p), system = "windows", UNCHANGED <<part, system>>
  PROVE  Inv'
<1> DEFINE unfit == Needs(p) \ private
           x == IF unfit = {} THEN "place" ELSE "wait"
           m == IF unfit = {} THEN {} ELSE {Outer(unfit)}
<1>1. /\ at[p] = "look" /\ at' = [at EXCEPT ![p] = x] /\ missing' = [missing EXCEPT ![p] = m]
      /\ UNCHANGED <<disk, job, initializer, contested, told>>
  BY DEF LookWindows, Move
<1>2. unfit \in SUBSET Directory /\ Outer(unfit) \in Directory
  BY NeedsDirectories, OuterIsOne
<1>3. /\ at'[p] = x /\ missing'[p] = m /\ job' = job /\ there' = there /\ private' = private
      /\ initializer' = initializer /\ \A q \in Process \ {p} : at'[q] = at[q]
  BY <1>1 DEF Inv, StateTypeOK, disk
<1>4. job[p] # "allow"
  BY <1>1 DEF Inv, StateInv, JobInv, Busy
<1>5. unfit = {} => Needs(p) \subseteq there
  BY DEF Inv, StateTypeOK
<1>6. MakingInv(p)'
  BY <1>2, <1>3, <1>5 DEF MakingInv, Ensuring, Writing, Needs, Observes
<1>7. /\ WindowsInv'
      /\ initializer' \in {"nobody"} \union {q \in Process : at'[q] \in Initialising}
  BY <1>1, <1>3 DEF Inv, StateInv, StateTypeOK, WindowsInv, Initialising
<1>8. x \in Ensuring \union {"look", "place", "settle"} /\ x # "settle" /\ m \in SUBSET Directory
  BY <1>2 DEF Ensuring
<1> HIDE DEF x, m
<1> QED
  BY <1>1, <1>3, <1>4, <1>6, <1>7, <1>8, MovesKept

(* One call at a time gets the lock of the initialisation.                 *)
LEMMA WaitKept ==
  ASSUME Inv, NEW p \in Process, Wait(p), UNCHANGED <<part, system>>
  PROVE  Inv'
<1>1. /\ at[p] = "wait" /\ at' = [at EXCEPT ![p] = "again"] /\ initializer = "nobody"
      /\ initializer' = p /\ missing' = missing
      /\ UNCHANGED <<disk, job, contested, told>>
  BY DEF Wait, Move
<1>2. /\ at'[p] = "again" /\ missing[p] \in SUBSET Directory /\ job' = job /\ there' = there
      /\ missing' = [missing EXCEPT ![p] = missing[p]]
      /\ \A q \in Process \ {p} : at'[q] = at[q]
  BY <1>1 DEF Inv, StateTypeOK, disk
<1>3. job[p] # "allow"
  BY <1>1 DEF Inv, StateInv, JobInv, Busy
<1>4. system = "windows"
  BY <1>1 DEF Inv, StateInv, MakingInv, Ensuring
<1>5. MakingInv(p)'
  BY <1>1, <1>2, <1>4 DEF Inv, StateInv, MakingInv, Ensuring, Writing
<1>6. WindowsInv'
  BY <1>1, <1>2, <1>4, Names DEF Inv, StateInv, WindowsInv, Initialising
<1>7. initializer' \in {"nobody"} \union {q \in Process : at'[q] \in Initialising}
  BY <1>1, <1>2 DEF Initialising
<1>8. "again" \in Ensuring
  BY DEF Ensuring
<1> QED
  BY <1>1, <1>2, <1>3, <1>5, <1>6, <1>7, <1>8, MovesKept

(* Under the lock the call makes the directory, finds it made, or refuses  *)
(* it.                                                                     *)
LEMMA AgainKept ==
  ASSUME Inv, NEW p \in Process, Again(p), UNCHANGED <<part, system>>
  PROVE  Inv'
<1>1. /\ at[p] = "again" /\ missing[p] \in SUBSET Directory
  BY DEF Again, Inv, StateTypeOK
<1>2. system = "windows" /\ job[p] # "allow"
  BY <1>1 DEF Inv, StateInv, MakingInv, JobInv, Ensuring, Busy
<1>3. CASE CallEnds(p) /\ refused' = TRUE
  BY <1>1, <1>3, EndsKept DEF Inv
<1>4. CASE /\ Move(p, "again", "look") /\ Unlock(p)
           /\ UNCHANGED <<disk, job, missing, contested, told>>
  <2>1. /\ at' = [at EXCEPT ![p] = "look"] /\ at'[p] = "look"
        /\ missing' = [missing EXCEPT ![p] = missing[p]]
        /\ \A q \in Process \ {p} : at'[q] = at[q]
        /\ initializer' = IF initializer = p THEN "nobody" ELSE initializer
    BY <1>4 DEF Move, Unlock, Inv, StateTypeOK
  <2>2. MakingInv(p)'
    BY <2>1 DEF MakingInv, Ensuring, Writing
  <2>3. /\ WindowsInv'
        /\ initializer' \in {"nobody"} \union {q \in Process : at'[q] \in Initialising}
    BY <1>2, <2>1 DEF Inv, StateInv, StateTypeOK, WindowsInv, Initialising
  <2> QED
    BY <1>1, <1>2, <1>4, <2>1, <2>2, <2>3, MovesKept
<1>5. CASE /\ Move(p, "again", "make")
           /\ UNCHANGED <<disk, job, missing, initializer, contested, told>>
  <2>1. /\ at' = [at EXCEPT ![p] = "make"] /\ at'[p] = "make" /\ missing' = missing
        /\ missing' = [missing EXCEPT ![p] = missing[p]] /\ initializer' = initializer
        /\ \A q \in Process \ {p} : at'[q] = at[q]
    BY <1>5 DEF Move, Inv, StateTypeOK
  <2>2. MakingInv(p)'
    BY <1>1, <1>2, <2>1 DEF Inv, StateInv, MakingInv, Ensuring, Writing
  <2>3. /\ WindowsInv'
        /\ initializer' \in {"nobody"} \union {q \in Process : at'[q] \in Initialising}
    BY <1>1, <1>2, <2>1 DEF Inv, StateInv, StateTypeOK, WindowsInv, Initialising
  <2>4. "make" \in Ensuring
    BY DEF Ensuring
  <2> QED
    BY <1>1, <1>2, <1>5, <2>1, <2>2, <2>3, <2>4, MovesKept
<1> QED
  BY <1>3, <1>4, <1>5 DEF Again

(* A restriction that is there is synced again.                            *)
LEMMA FoundKept ==
  ASSUME Inv, NEW p \in Process, Found(p), UNCHANGED <<part, system>>
  PROVE  Inv'
<1>1. /\ at[p] = "place" /\ at' = [at EXCEPT ![p] = "settle"] /\ at'[p] = "settle"
      /\ ~Observes(p) /\ Restriction \in there
      /\ missing' = missing /\ missing' = [missing EXCEPT ![p] = missing[p]]
      /\ missing[p] \in SUBSET Directory
      /\ there' = there /\ job' = job /\ initializer' = initializer
      /\ \A q \in Process \ {p} : at'[q] = at[q]
      /\ UNCHANGED <<disk, job, missing, initializer, contested, told>>
  BY DEF Found, Move, Inv, StateTypeOK, disk
<1>2. job[p] # "allow"
  BY <1>1 DEF Inv, StateInv, JobInv, Busy
<1>3. MakingInv(p)'
  BY <1>1 DEF Inv, StateInv, MakingInv, Ensuring, Writing, Needs, Observes
<1>4. /\ WindowsInv'
      /\ initializer' \in {"nobody"} \union {q \in Process : at'[q] \in Initialising}
  BY <1>1 DEF Inv, StateInv, StateTypeOK, WindowsInv, Initialising
<1> QED
  BY <1>1, <1>2, <1>3, <1>4, MovesKept

-----------------------------------------------------------------------------
(* The other files: calls begin                                            *)

(* A new call overlaps no call for the same observation, and an allow no   *)
(* deny that would promise something.                                      *)
LEMMA StartKept ==
  ASSUME Inv, NEW p \in Process,
         \/ \E o \in Observation : StartPersist(p, o)
         \/ StartDeny(p)
         \/ StartAllow(p),
         UNCHANGED <<part, system>>
  PROVE  Inv'
<1> USE DEF Inv
<1>1. PICK x \in {"look", "place", "remove"}, j \in Observation \union {"deny", "allow"} :
        /\ at[p] = "idle" /\ at' = [at EXCEPT ![p] = x] /\ job' = [job EXCEPT ![p] = j]
        /\ j \in Observation => x = "look" /\ j \notin issued \union {job[q] : q \in Process}
        /\ j = "deny" => x \in {"look", "place"} /\ (x = "place" => "state" \in there)
        /\ j = "allow" => x = "remove"
        /\ UNCHANGED <<disk, missing, initializer, abandoned, issued, refused>>
        /\ denied' \in BOOLEAN /\ (denied' => denied /\ j # "allow")
        /\ contested' =
             CASE j \in Observation -> contested
               [] j = "deny" -> IF \E q \in Process : at[q] # "idle" /\ job[q] = "allow"
                                THEN contested \union {p} ELSE contested \ {p}
               [] j = "allow" -> contested \union {q \in Process : at[q] # "idle" /\ job[q] = "deny"}
  <2>1. CASE StartDeny(p)
    <3>1. denied' \in BOOLEAN /\ (denied' => denied /\ "deny" # "allow")
      BY <2>1 DEF StartDeny, told, StateTypeOK
    <3> QED
      BY <2>1, <3>1, Names DEF StartDeny, Move, told, StateTypeOK
  <2>2. CASE StartAllow(p)
    <3>1. denied' \in BOOLEAN /\ (denied' => denied /\ "allow" # "allow")
      BY <2>2 DEF StartAllow
    <3> QED
      BY <2>2, <3>1, Names DEF StartAllow, Move, told
  <2>3. ASSUME NEW o \in Observation, StartPersist(p, o)
        PROVE  \E x \in {"look", "place", "remove"}, j \in Observation \union {"deny", "allow"} :
                 /\ at[p] = "idle" /\ at' = [at EXCEPT ![p] = x] /\ job' = [job EXCEPT ![p] = j]
                 /\ j \in Observation =>
                      x = "look" /\ j \notin issued \union {job[q] : q \in Process}
                 /\ j = "deny" => x \in {"look", "place"} /\ (x = "place" => "state" \in there)
                 /\ j = "allow" => x = "remove"
                 /\ UNCHANGED <<disk, missing, initializer, abandoned, issued, refused>>
                 /\ denied' \in BOOLEAN /\ (denied' => denied /\ j # "allow")
                 /\ contested' =
                      CASE j \in Observation -> contested
                        [] j = "deny" -> IF \E q \in Process : at[q] # "idle" /\ job[q] = "allow"
                                         THEN contested \union {p} ELSE contested \ {p}
                        [] j = "allow" ->
                             contested \union {q \in Process : at[q] # "idle" /\ job[q] = "deny"}
    <3>1. denied' \in BOOLEAN /\ (denied' => denied /\ o # "allow")
      BY <2>3, Names DEF StartPersist, told, StateTypeOK
    <3> QED
      BY <2>3, <3>1, Names DEF StartPersist, Move, told
  <2> QED
    BY <2>1, <2>2, <2>3
<1>2. /\ at'[p] = x /\ job'[p] = j /\ missing' = missing /\ there' = there /\ private' = private
      /\ survives' = survives /\ whole' = whole /\ initializer' = initializer
      /\ issued' = issued /\ abandoned' = abandoned /\ refused' = refused
      /\ \A q \in Process \ {p} : at'[q] = at[q] /\ job'[q] = job[q]
      /\ denied' \in BOOLEAN /\ (denied' => denied /\ j # "allow")
      /\ initializer # p
  BY <1>1, Names DEF StateTypeOK, disk
<1>3. StateTypeOK'
  <2>1. contested' \subseteq Process
    BY <1>1, Names DEF StateTypeOK
  <2>2. at' \in [Process -> {"idle", "look", "wait", "again", "make", "restrict", "enter",
                             "place", "sync", "rename", "settle", "remove"}]
        /\ job' \in [Process -> Observation \union {"deny", "allow"}]
    BY <1>1 DEF StateTypeOK
  <2>3. initializer' \in {"nobody"} \union
          {q \in Process : at'[q] \in {"again", "make", "restrict", "enter"}}
    BY <1>2 DEF StateTypeOK
  <2> QED
    BY <1>2, <2>1, <2>2, <2>3 DEF StateTypeOK
<1>4. Making(p) = {}
  BY <1>1 DEF Making
<1>5. \A d \in Directory : DirectoryInv(d)'
  BY <1>2, <1>4, DirectoriesStay
<1>6. ASSUME NEW q \in Process PROVE JobInv(q)' /\ MakingInv(q)'
  <2>1. CASE q = p
    BY <1>1, <1>2, <2>1, Names DEF JobInv, MakingInv, Busy, Observes, Ensuring, Writing, Needs
  <2>2. CASE q # p
    BY <1>2, <2>2, OthersKept DEF StateTypeOK
  <2> QED
    BY <2>1, <2>2
<1>7. ASSUME NEW q \in Process PROVE WritingInv(q)'
  <2>1. ASSUME Busy(q)', Observes(q)'
        PROVE  /\ job'[q] \notin issued'
               /\ \A r \in Process \ {q} : job'[r] # job'[q]
               /\ at'[q] \in {"rename", "settle"} => job'[q] \in whole'
               /\ at'[q] = "settle" => job'[q] \in there'
    <3>1. CASE q = p
      BY <1>1, <1>2, <2>1, <3>1, Names DEF Busy, Observes
    <3>2. CASE q # p
      <4>1. Busy(q) /\ Observes(q)
        BY <1>2, <2>1, <3>2 DEF Busy, Observes
      <4>2. j # job[q]
        BY <1>1, <4>1, Names DEF Observes
      <4> QED
        BY <1>2, <3>2, <4>1, <4>2 DEF StateInv, WritingInv
    <3> QED
      BY <3>1, <3>2
  <2>2. ASSUME Busy(q)', job'[q] = "allow"
        PROVE  /\ ~denied'
               /\ \A r \in Process : (Busy(r)' /\ job'[r] = "deny") => r \in contested'
    <3>1. CASE q = p
      BY <1>1, <1>2, <2>2, <3>1, Names DEF Busy
    <3>2. CASE q # p
      BY <1>1, <1>2, <2>2, <3>2, Names DEF Busy, StateInv, WritingInv
    <3> QED
      BY <3>1, <3>2
  <2>3. (at'[q] = "settle" /\ job'[q] = "deny" /\ q \notin contested') => Restriction \in there'
    <3>1. q # p /\ q \notin contested' => q \notin contested
      BY <1>1, Names
    <3> QED
      BY <1>1, <1>2, <3>1 DEF StateInv, WritingInv
  <2> QED
    BY <2>1, <2>2, <2>3 DEF WritingInv, Busy
<1>8. WindowsInv'
  BY <1>1, <1>2 DEF StateInv, WindowsInv, Initialising
<1>9. PromiseInv'
  BY <1>2 DEF StateInv, PromiseInv
<1> QED
  BY <1>3, <1>5, <1>6, <1>7, <1>8, <1>9 DEF StateInv

-----------------------------------------------------------------------------
(* The other files: directories are made                                   *)

(* What can become of a name.                                              *)
LEMMA Fates ==
  /\ BOOLEAN \in (SUBSET BOOLEAN) \ {{}}
  /\ \A n, names : Certain(n, names) \in (SUBSET BOOLEAN) \ {{}}
<1>1. TRUE \in BOOLEAN
  OBVIOUS
<1>2. BOOLEAN # {}
  BY <1>1
<1> QED
  BY <1>2 DEF Certain

(* What was confirmed stays confirmed while entries only come to the disk. *)
LEMMA PromisesStay ==
  ASSUME StateTypeOK, PromiseInv, system' = system, issued' = issued, denied' => denied,
         issued \subseteq whole', there \subseteq there',
         \A n \in Name : n \in there => survives'[n] \in {survives[n], {TRUE}}
  PROVE  PromiseInv'
<1>1. /\ issued \subseteq Observation
      /\ Observation \union Directory \union {Restriction} \subseteq Name
  BY DEF StateTypeOK, Name
<1>2. "state" \in Directory
  BY DEF Directory
<1>3. ASSUME NEW o \in issued' PROVE o \in there' \intersect whole' /\ survives'[o] = {TRUE}
  BY <1>1 DEF PromiseInv
<1>4. denied' => Restriction \in there' /\ survives'[Restriction] = {TRUE} /\ "state" \in there'
  BY <1>1 DEF PromiseInv
<1>5. issued' # {} => Directory \subseteq there'
  BY DEF PromiseInv
<1>6. ASSUME NEW d \in Directory, system = "windows", issued' # {} \/ (denied' /\ d = "state")
      PROVE  survives'[d] = {TRUE}
  <2>1. d \in there /\ survives[d] = {TRUE} /\ d \in Name
    BY <1>1, <1>6 DEF PromiseInv
  <2> QED
    BY <2>1
<1> QED
  BY <1>3, <1>4, <1>5, <1>6 DEF PromiseInv

(* What the calls that write rely on stays.                                *)
LEMMA WritingsStay ==
  ASSUME StateInv, NEW p \in Process, at'[p] \notin {"rename", "settle"}, at[p] # "idle",
         \A q \in Process \ {p} : at'[q] = at[q],
         job' = job, contested' = contested, issued' = issued, denied' = denied, whole' = whole,
         there \subseteq there'
  PROVE  \A q \in Process : WritingInv(q)'
BY DEF StateInv, WritingInv, Busy, Observes

(* A new directory is excused by the call that made it.                    *)
LEMMA MakeKept ==
  ASSUME Inv, NEW p \in Process, Make(p), UNCHANGED <<part, system>>
  PROVE  Inv'
<1> USE DEF Inv
<1> DEFINE gone == missing[p] \ there
           d == Outer(gone)
           x == IF gone \subseteq {d} THEN "restrict" ELSE "make"
<1>1. /\ at[p] = "make" /\ at' = [at EXCEPT ![p] = x]
      /\ gone = {} => there' = there /\ survives' = survives
      /\ gone # {} => there' = there \union {d} /\ survives' = [survives EXCEPT ![d] = BOOLEAN]
      /\ private' = private /\ whole' = whole /\ job' = job /\ missing' = missing
      /\ initializer' = initializer /\ contested' = contested /\ abandoned' = abandoned
      /\ issued' = issued /\ denied' = denied /\ refused' = refused
  BY DEF Make, Move, Create, told
<1>2. /\ gone \in SUBSET Directory /\ missing[p] \in SUBSET Directory /\ d \in Directory
      /\ gone # {} => d \in gone
  BY OuterIsOne DEF StateTypeOK
<1>3. /\ at'[p] = x /\ \A q \in Process \ {p} : at'[q] = at[q]
  BY <1>1 DEF StateTypeOK
<1>4. /\ x \in {"restrict", "make"} /\ (x = "restrict" => missing[p] \subseteq there')
      /\ there \subseteq there'
  BY <1>1, <1>2
<1>5. \A n \in Name : n \in there => survives'[n] = survives[n]
  BY <1>1, <1>2 DEF StateTypeOK
<1>6. job[p] # "allow"
  BY <1>1 DEF StateInv, JobInv, Busy
<1>7. StateTypeOK'
  <2>1. there' \subseteq Name
    BY <1>1, <1>2 DEF StateTypeOK, Name
  <2>2. survives' \in [Name -> (SUBSET BOOLEAN) \ {{}}]
    BY <1>1, <1>2, Fates DEF StateTypeOK
  <2>3. initializer' \in {"nobody"} \union
          {q \in Process : at'[q] \in {"again", "make", "restrict", "enter"}}
    BY <1>1, <1>3, <1>4 DEF StateTypeOK
  <2>4. at' \in [Process -> {"idle", "look", "wait", "again", "make", "restrict", "enter",
                             "place", "sync", "rename", "settle", "remove"}]
    BY <1>1, <1>4 DEF StateTypeOK
  <2> QED
    BY <1>1, <1>4, <2>1, <2>2, <2>3, <2>4 DEF StateTypeOK
<1>8. Making(p)' = missing[p] \intersect there' /\ Making(p) = missing[p] \intersect there
  BY <1>1, <1>3, <1>4 DEF Making
<1>9. ASSUME NEW e \in Directory PROVE DirectoryInv(e)'
  <2>1. \A q \in Process \ {p} : Making(q) \subseteq Making(q)'
    BY <1>1, <1>3, <1>4, OthersMake DEF StateTypeOK
  <2>2. Excused(e) => Excused(e)'
    BY <1>1, <1>4, <1>8, <2>1, ExcusedStays
  <2>3. CASE gone # {} /\ e = d
    <3>1. Excused(e)'
      BY <1>1, <1>2, <1>8, <2>3 DEF Excused
    <3> QED
      BY <1>1, <2>3, <3>1 DEF DirectoryInv
  <2>4. CASE gone = {} \/ e # d
    <3>1. (e \in there' <=> e \in there) /\ survives'[e] = survives[e]
      BY <1>1, <1>2, <2>4 DEF StateTypeOK, Name
    <3> QED
      BY <1>1, <2>2, <3>1 DEF StateInv, DirectoryInv
  <2> QED
    BY <2>3, <2>4
<1>10. MakingInv(p)'
  <2>1. MakingInv(p)
    BY DEF StateInv
  <2>2. Needs(p)' = Needs(p)
    BY <1>1 DEF Needs, Observes
  <2>3. missing[p] # {}
    BY <1>1, <2>1 DEF MakingInv, Ensuring
  <2> HIDE DEF x, gone, d
  <2> QED
    BY <1>1, <1>3, <1>4, <2>1, <2>2, <2>3 DEF MakingInv, Ensuring, Writing
<1>11. ASSUME NEW q \in Process PROVE JobInv(q)' /\ MakingInv(q)'
  <2>1. CASE q = p
    BY <1>1, <1>3, <1>4, <1>6, <1>10, <2>1 DEF JobInv, Busy, Observes
  <2>2. CASE q # p
    BY <1>1, <1>3, <1>4, <2>2, OthersKept DEF StateTypeOK
  <2> QED
    BY <2>1, <2>2
<1>12. \A q \in Process : WritingInv(q)'
  BY <1>1, <1>3, <1>4, WritingsStay
<1>13. WindowsInv'
  BY <1>1, <1>3, <1>4 DEF StateInv, WindowsInv, Initialising
<1>14. PromiseInv'
  BY <1>1, <1>4, <1>5, PromisesStay DEF StateInv, PromiseInv
<1> QED
  BY <1>7, <1>9, <1>11, <1>12, <1>13, <1>14 DEF StateInv

(* A directory that was restricted is private.                             *)
LEMMA RestrictKept ==
  ASSUME Inv, NEW p \in Process, Restrict(p), UNCHANGED <<part, system>>
  PROVE  Inv'
<1> USE DEF Inv
<1> DEFINE d == Outer(missing[p])
           x == CASE missing[p] = {} -> "place"
                  [] system = "windows" /\ d = "state" -> "look"
                  [] OTHER -> "enter"
<1>1. /\ at[p] = "restrict" /\ at' = [at EXCEPT ![p] = x] /\ private' = private \union {d}
      /\ initializer' = IF at'[p] = "look" /\ initializer = p THEN "nobody" ELSE initializer
      /\ there' = there /\ survives' = survives /\ whole' = whole /\ job' = job
      /\ missing' = missing /\ contested' = contested /\ abandoned' = abandoned
      /\ issued' = issued /\ denied' = denied /\ refused' = refused
  BY DEF Restrict, Move, Unlock, told
<1>2. /\ missing[p] \in SUBSET Directory /\ d \in Directory /\ (missing[p] # {} => d \in missing[p])
  BY OuterIsOne DEF StateTypeOK
<1>3. /\ at'[p] = x /\ \A q \in Process \ {p} : at'[q] = at[q]
  BY <1>1 DEF StateTypeOK
<1>4. MakingInv(p) /\ JobInv(p)
  BY DEF StateInv
<1>5. /\ missing[p] \subseteq there /\ job[p] # "allow"
      /\ system = "windows" => missing[p] = {d}
      /\ system # "windows" => Needs(p) \ missing[p] \subseteq there
      /\ missing[p] = {} => Observes(p)
  <2>1. system = "windows" => \E e \in Directory : missing[p] = {e} /\ Outer(missing[p]) = e
    BY <1>1, <1>4, OuterIsOne DEF MakingInv, Ensuring
  <2> QED
    BY <1>1, <1>4, <2>1 DEF MakingInv, JobInv, Ensuring, Busy
<1>6. /\ x \in {"place", "look", "enter"} /\ (x = "place" => missing[p] = {} /\ system # "windows")
      /\ x = "look" => system = "windows"
      /\ x = "enter" => missing[p] # {}
  BY <1>5
<1>7. d \in there
  <2>1. CASE missing[p] # {}
    BY <1>2, <1>5, <2>1
  <2>2. CASE missing[p] = {}
    BY <1>5, <2>2 DEF Needs, Outer, Directory
  <2> QED
    BY <2>1, <2>2
<1> HIDE DEF x, d
<1>8. StateTypeOK'
  <2>1. initializer' \in {"nobody"} \union
          {q \in Process : at'[q] \in {"again", "make", "restrict", "enter"}}
    <3>1. initializer = p => system = "windows"
      BY Names DEF StateInv, WindowsInv
    <3> QED
      BY <1>1, <1>3, <1>6, <3>1 DEF StateTypeOK
  <2>2. at' \in [Process -> {"idle", "look", "wait", "again", "make", "restrict", "enter",
                             "place", "sync", "rename", "settle", "remove"}]
    BY <1>1, <1>6 DEF StateTypeOK
  <2> QED
    BY <1>1, <1>2, <1>7, <2>1, <2>2 DEF StateTypeOK
<1>9. Making(p) = missing[p] /\ (x = "enter" => Making(p)' = missing[p])
  BY <1>1, <1>3, <1>5 DEF Making
<1>10. ASSUME NEW e \in Directory PROVE DirectoryInv(e)'
  <2>1. \A q \in Process \ {p} : Making(q) \subseteq Making(q)'
    BY <1>1, <1>3, OthersMake DEF StateTypeOK
  <2>2. CASE x = "enter" \/ e \notin missing[p]
    <3>1. Excused(e) => Excused(e)'
      BY <1>1, <1>9, <2>1, <2>2, ExcusedStays
    <3> QED
      BY <1>1, <3>1 DEF StateInv, DirectoryInv
  <2>3. CASE x # "enter" /\ e \in missing[p]
    <3>1. system = "windows" /\ e = d
      BY <1>5, <1>6, <2>3
    <3> QED
      BY <1>1, <1>7, <3>1 DEF DirectoryInv
  <2> QED
    BY <2>2, <2>3
<1>11. MakingInv(p)'
  <2>1. Needs(p)' = Needs(p)
    BY <1>1 DEF Needs, Observes
  <2>2. x = "enter" => (Outer(missing[p]) \in private)'
    BY <1>1 DEF d
  <2>3. system = "windows" => missing'[p] \in {{e} : e \in Directory}
    BY <1>1, <1>2, <1>5
  <2> QED
    BY <1>1, <1>3, <1>5, <1>6, <2>1, <2>2, <2>3 DEF MakingInv, Ensuring, Writing
<1>12. ASSUME NEW q \in Process PROVE JobInv(q)' /\ MakingInv(q)'
  <2>1. CASE q = p
    BY <1>1, <1>3, <1>5, <1>6, <1>11, <2>1 DEF JobInv, Busy, Observes
  <2>2. CASE q # p
    BY <1>1, <1>3, <2>2, OthersKept DEF StateTypeOK
  <2> QED
    BY <2>1, <2>2
<1>13. \A q \in Process : WritingInv(q)'
  BY <1>1, <1>3, <1>6, WritingsStay
<1>14. WindowsInv'
  BY <1>1, <1>3, <1>6, Names DEF StateInv, WindowsInv, Initialising
<1>15. PromiseInv'
  BY <1>1, PromisesStay DEF StateInv, PromiseInv
<1> QED
  BY <1>8, <1>10, <1>12, <1>13, <1>14, <1>15 DEF StateInv

(* The call that made a directory syncs the one around it.                 *)
LEMMA EnterKept ==
  ASSUME Inv, NEW p \in Process, Enter(p), UNCHANGED <<part, system>>
  PROVE  Inv'
<1> USE DEF Inv
<1> DEFINE d == Outer(missing[p])
           x == IF missing[p] # {d} THEN "restrict"
                ELSE IF system = "windows" THEN "look" ELSE "place"
<1>1. /\ at[p] = "enter" /\ at' = [at EXCEPT ![p] = x]
      /\ survives' = [n \in Name |-> IF system = "windows" \/ Parent(n) = Parent(d)
                                     THEN Certain(n, there) ELSE survives[n]]
      /\ missing' = [missing EXCEPT ![p] = @ \ {d}]
      /\ initializer' = IF initializer = p THEN "nobody" ELSE initializer
      /\ there' = there /\ private' = private /\ whole' = whole /\ job' = job
      /\ contested' = contested /\ abandoned' = abandoned
      /\ issued' = issued /\ denied' = denied /\ refused' = refused
  BY DEF Enter, Move, Unlock, SyncEntries, told
<1>2. MakingInv(p) /\ JobInv(p)
  BY DEF StateInv
<1>3. /\ missing[p] \in SUBSET Directory /\ missing[p] # {} /\ d \in missing[p] /\ d \in private
      /\ missing[p] \subseteq there /\ job[p] # "allow"
      /\ system = "windows" => missing[p] = {d}
      /\ system # "windows" => Needs(p) \ missing[p] \subseteq there
  <2>1. system = "windows" => \E e \in Directory : missing[p] = {e} /\ Outer(missing[p]) = e
    BY <1>1, <1>2, OuterIsOne DEF MakingInv, Ensuring
  <2> QED
    BY <1>1, <1>2, <2>1, OuterIsOne DEF MakingInv, JobInv, Ensuring, Busy, StateTypeOK
<1>4. /\ at'[p] = x /\ missing'[p] = missing[p] \ {d}
      /\ \A q \in Process \ {p} : at'[q] = at[q] /\ missing'[q] = missing[q]
  BY <1>1 DEF StateTypeOK
<1>5. /\ x \in {"restrict", "look", "place"}
      /\ x = "restrict" => missing[p] # {d} /\ system # "windows"
      /\ x # "restrict" => missing[p] = {d}
      /\ x = "place" => system # "windows"
  BY <1>3
<1>6. \A n \in Name : survives'[n] \in {survives[n], Certain(n, there)}
  BY <1>1
<1>7. system # "windows" => survives'[d] = {TRUE}
  BY <1>1, <1>3 DEF Certain, Name
<1> HIDE DEF x, d
<1>8. StateTypeOK'
  <2>1. initializer' \in {"nobody"} \union
          {q \in Process : at'[q] \in {"again", "make", "restrict", "enter"}}
    BY <1>1, <1>4 DEF StateTypeOK
  <2>2. at' \in [Process -> {"idle", "look", "wait", "again", "make", "restrict", "enter",
                             "place", "sync", "rename", "settle", "remove"}]
    BY <1>1, <1>5 DEF StateTypeOK
  <2>3. survives' \in [Name -> (SUBSET BOOLEAN) \ {{}}]
    BY <1>1, Fates DEF StateTypeOK
  <2>4. missing' \in [Process -> SUBSET Directory]
    BY <1>1 DEF StateTypeOK
  <2> QED
    BY <1>1, <2>1, <2>2, <2>3, <2>4 DEF StateTypeOK
<1>9. Making(p) = missing[p] /\ missing[p] \ {d} \subseteq Making(p)'
  BY <1>1, <1>3, <1>4, <1>5 DEF Making
<1>10. ASSUME NEW e \in Directory PROVE DirectoryInv(e)'
  <2>1. \A q \in Process \ {p} : Making(q) \subseteq Making(q)'
    BY <1>1, <1>4, OthersMake DEF StateTypeOK
  <2>2. CASE e = d
    BY <1>1, <1>3, <1>7, <2>2 DEF DirectoryInv
  <2>3. CASE e # d
    <3>1. Excused(e) => Excused(e)'
      BY <1>1, <1>9, <2>1, <2>3, ExcusedStays
    <3>2. survives'[e] \in {survives[e], Certain(e, there)}
      BY <1>6 DEF Name
    <3> QED
      BY <1>1, <3>1, <3>2 DEF StateInv, DirectoryInv, Certain
  <2> QED
    BY <2>2, <2>3
<1>11. MakingInv(p)'
  <2>1. Needs(p)' = Needs(p)
    BY <1>1 DEF Needs, Observes
  <2> QED
    BY <1>1, <1>3, <1>4, <1>5, <2>1 DEF MakingInv, Ensuring, Writing
<1>12. ASSUME NEW q \in Process PROVE JobInv(q)' /\ MakingInv(q)'
  <2>1. CASE q = p
    BY <1>1, <1>3, <1>4, <1>5, <1>11, <2>1 DEF JobInv, Busy, Observes
  <2>2. CASE q # p
    BY <1>1, <1>4, <2>2, OthersKept DEF StateTypeOK
  <2> QED
    BY <2>1, <2>2
<1>13. \A q \in Process : WritingInv(q)'
  BY <1>1, <1>4, <1>5, WritingsStay
<1>14. WindowsInv'
  BY <1>1, <1>4, <1>5, Names DEF StateInv, WindowsInv, Initialising
<1>15. PromiseInv'
  BY <1>1, <1>6, PromisesStay DEF StateInv, PromiseInv, Certain
<1> QED
  BY <1>8, <1>10, <1>12, <1>13, <1>14, <1>15 DEF StateInv

-----------------------------------------------------------------------------
(* The other files: files are written                                      *)

(* The file that a call is about.                                          *)
FileOf(p) == IF Observes(p) THEN job[p] ELSE Restriction

(* A step of a call that has its directories: of the names only its own    *)
(* file comes or goes.                                                     *)
LEMMA FilesKept ==
  ASSUME Inv, NEW p \in Process, NEW x \in {"sync", "rename", "settle"},
         at[p] \in {"place", "sync", "rename", "remove"}, at' = [at EXCEPT ![p] = x],
         UNCHANGED <<part, system, private, job, missing, initializer, contested, told>>,
         \/ there' = there /\ survives' = survives
         \/ /\ there' = there \union {FileOf(p)} \/ there' = there \ {FileOf(p)}
            /\ survives' \in [Name -> (SUBSET BOOLEAN) \ {{}}]
            /\ \A n \in Name \ {FileOf(p)} : survives'[n] = survives[n],
         \/ whole' = whole
         \/ whole' = whole \ {FileOf(p)}
         \/ whole' = whole \union {FileOf(p)},
         whole' \subseteq Observation,
         JobInv(p)', WritingInv(p)', Observes(p) => issued \subseteq whole',
         ~Observes(p) => whole' = whole,
         ~Observes(p) => (~denied \/ (there' = there /\ survives' = survives)),
         ~Observes(p) => Restriction \in there' \/ job[p] = "allow",
         Observes(p) => there \subseteq there'
  PROVE  Inv'
<1> USE DEF Inv
<1>1. PICK f : f = FileOf(p)
  OBVIOUS
<1>2. /\ at'[p] = x /\ missing' = missing /\ job' = job /\ private' = private /\ system' = system
      /\ initializer' = initializer /\ contested' = contested /\ abandoned' = abandoned
      /\ issued' = issued /\ denied' = denied /\ refused' = refused /\ part' = part
      /\ \A q \in Process \ {p} : at'[q] = at[q]
  BY DEF StateTypeOK, told
<1>3. /\ f \in Observation \union {Restriction} /\ f \notin Directory /\ f \in Name
      /\ Observes(p) => f \in Observation /\ f = job[p]
      /\ ~Observes(p) => f = Restriction
  BY <1>1, Names DEF Observes, Name, FileOf
<1>4. /\ \/ there' = there /\ survives' = survives
         \/ /\ there' \in {there \union {f}, there \ {f}}
            /\ survives' \in [Name -> (SUBSET BOOLEAN) \ {{}}]
            /\ \A n \in Name \ {f} : survives'[n] = survives[n]
      /\ whole' = whole \/ whole' = whole \ {f} \/ whole' = whole \union {f}
  BY <1>1
<1>5. /\ \A n \in Name : n # f => survives'[n] = survives[n] /\ (n \in there' <=> n \in there)
      /\ Directory \intersect there' = Directory \intersect there
      /\ there' \subseteq Name
  BY <1>3, <1>4 DEF StateTypeOK
<1>6. StateTypeOK'
  <2>1. initializer' \in {"nobody"} \union
          {q \in Process : at'[q] \in {"again", "make", "restrict", "enter"}}
    BY <1>2 DEF StateTypeOK
  <2>2. at' \in [Process -> {"idle", "look", "wait", "again", "make", "restrict", "enter",
                             "place", "sync", "rename", "settle", "remove"}]
    BY <1>2 DEF StateTypeOK
  <2>3. survives' \in [Name -> (SUBSET BOOLEAN) \ {{}}]
    BY <1>2, <1>3, <1>4, Fates DEF StateTypeOK
  <2>4. private' \subseteq Directory \intersect there'
    BY <1>2, <1>5 DEF StateTypeOK
  <2> QED
    BY <1>2, <1>5, <1>4, <2>1, <2>2, <2>3, <2>4 DEF StateTypeOK
<1>7. Making(p) = {}
  BY DEF Making
<1>8. \A d \in Directory : DirectoryInv(d)'
  <2>1. \A d \in Directory : survives'[d] = survives[d]
    BY <1>3, <1>5 DEF Name
  <2> QED
    BY <1>2, <1>5, <1>4, <1>7, <2>1, DirectoriesStay
<1>9. ASSUME NEW q \in Process PROVE JobInv(q)' /\ MakingInv(q)'
  <2>1. CASE q = p
    <3>1. Needs(p)' = Needs(p) /\ Needs(p) \subseteq Directory
      BY <1>2, NeedsDirectories DEF Needs, Observes
    <3>2. (at[p] = "remove" \/ at[p] \in Writing) /\ (at[p] = "remove" => job[p] = "allow")
      BY DEF StateInv, JobInv, Writing
    <3> QED
      BY <1>2, <1>5, <1>4, <2>1, <3>1, <3>2 DEF StateInv, MakingInv, Ensuring, Writing
  <2>2. CASE q # p
    BY <1>2, <1>5, <1>4, <2>2, OthersKept DEF StateTypeOK
  <2> QED
    BY <2>1, <2>2
<1>10. ASSUME NEW q \in Process \ {p} PROVE WritingInv(q)'
  <2>1. CASE Observes(p)
    <3>1. Restriction \in there' <=> Restriction \in there
      BY <1>3, <1>5, <1>4, <2>1, Names DEF Name
    <3>2. (Busy(q) /\ Observes(q)) => job[q] # f
      BY <1>3, <2>1, Names DEF StateInv, WritingInv, Observes
    <3>3. (Busy(q) /\ Observes(q)) => (job[q] \in there => job[q] \in there')
                                      /\ (job[q] \in whole => job[q] \in whole')
      BY <3>2, <1>5, <1>4, <2>1 DEF Observes, Name
    <3> QED
      BY <1>2, <3>1, <3>3 DEF StateInv, WritingInv, Busy, Observes
  <2>2. CASE ~Observes(p)
    <3>1. Observes(q) => (job[q] \in there => job[q] \in there')
      BY <1>3, <1>5, <1>4, <2>2, Names DEF Observes, Name
    <3>2. (at[q] = "settle" /\ job[q] = "deny" /\ q \notin contested) => Restriction \in there'
      BY <1>2, <2>2 DEF StateInv, WritingInv, Busy
    <3> QED
      BY <1>2, <2>2, <3>1, <3>2 DEF StateInv, WritingInv, Busy, Observes
  <2> QED
    BY <2>1, <2>2
<1>11. WindowsInv'
  BY <1>2 DEF StateInv, WindowsInv, Initialising
<1>12. PromiseInv'
  <2>1. "state" \in Directory /\ Directory \subseteq Name /\ issued \subseteq Name
        /\ issued \subseteq Observation /\ Restriction \in Name
    BY DEF StateTypeOK, Directory, Name
  <2>2. f \notin issued
    <3>1. Observes(p) => job[p] \notin issued
      BY DEF StateInv, WritingInv, Busy
    <3> QED
      BY <1>3, <2>1, <3>1, Names
  <2>3. denied => Restriction \in there' /\ survives'[Restriction] = {TRUE}
    BY <1>3, <1>5, <1>4, <2>1, Names DEF StateInv, PromiseInv
  <2>4. \A o \in issued : o \in there' \intersect whole' /\ survives'[o] = {TRUE}
    BY <1>5, <2>1, <2>2 DEF StateInv, PromiseInv
  <2>5. \A d \in Directory : survives'[d] = survives[d] /\ (d \in there' <=> d \in there)
    BY <1>3, <1>5, <1>4, <2>1
  <2> QED
    BY <1>2, <2>1, <2>3, <2>4, <2>5 DEF StateInv, PromiseInv
<1> QED
  BY <1>6, <1>8, <1>9, <1>10, <1>11, <1>12 DEF StateInv

(* A restriction that is new was not promised.                             *)
LEMMA PlaceKept ==
  ASSUME Inv, NEW p \in Process, Place(p), UNCHANGED <<part, system>>
  PROVE  Inv'
<1>1. /\ FileOf(p) = Restriction /\ ~Observes(p) /\ Restriction \notin there /\ at[p] = "place"
      /\ at' = [at EXCEPT ![p] = "settle"] /\ at'[p] = "settle"
      /\ there' = there \union {Restriction}
      /\ survives' = [survives EXCEPT ![Restriction] = BOOLEAN] /\ whole' = whole /\ job' = job
      /\ contested' = contested
      /\ UNCHANGED <<part, system, private, job, missing, initializer, contested, told>>
  BY DEF Place, Move, FileOf, Create, Inv, StateTypeOK
<1>2. ~denied /\ whole \subseteq Observation
  BY <1>1 DEF Inv, StateInv, PromiseInv, StateTypeOK
<1>3. job[p] # "allow"
  BY <1>1 DEF Inv, StateInv, JobInv, Busy
<1>4. JobInv(p)' /\ WritingInv(p)'
  BY <1>1, <1>3 DEF JobInv, WritingInv, Busy, Observes
<1>5. /\ survives' \in [Name -> (SUBSET BOOLEAN) \ {{}}]
      /\ \A n \in Name \ {FileOf(p)} : survives'[n] = survives[n]
  BY <1>1, Fates DEF Inv, StateTypeOK
<1> QED
  BY <1>1, <1>2, <1>4, <1>5, FilesKept

(* An observation is written where nobody looks yet.                       *)
LEMMA FillKept ==
  ASSUME Inv, NEW p \in Process, Fill(p), UNCHANGED <<part, system>>
  PROVE  Inv'
<1>1. /\ FileOf(p) = job[p] /\ Observes(p) /\ at[p] = "place"
      /\ at' = [at EXCEPT ![p] = "sync"] /\ at'[p] = "sync"
      /\ whole' = whole \ {job[p]} /\ there' = there /\ survives' = survives /\ job' = job
      /\ contested' = contested /\ issued' = issued
      /\ UNCHANGED <<part, system, private, job, missing, initializer, contested, told>>
  BY DEF Fill, Move, FileOf, Inv, StateTypeOK, told
<1>2. /\ job[p] \notin issued /\ \A q \in Process \ {p} : job[q] # job[p]
      /\ issued \subseteq whole /\ whole \subseteq Observation
  BY <1>1 DEF Inv, StateInv, WritingInv, PromiseInv, Busy, StateTypeOK
<1>3. JobInv(p)' /\ WritingInv(p)'
  BY <1>1, <1>2, Names DEF JobInv, WritingInv, Busy, Observes
<1> QED
  BY <1>1, <1>2, <1>3, FilesKept

(* Its content is on the disk before its name.                             *)
LEMMA SyncContentKept ==
  ASSUME Inv, NEW p \in Process, SyncContent(p), UNCHANGED <<part, system>>
  PROVE  Inv'
<1>1. /\ at[p] = "sync" /\ at' = [at EXCEPT ![p] = "rename"] /\ at'[p] = "rename"
      /\ whole' = whole \union {job[p]} /\ there' = there /\ survives' = survives /\ job' = job
      /\ contested' = contested /\ issued' = issued
      /\ UNCHANGED <<part, system, private, job, missing, initializer, contested, told>>
  BY DEF SyncContent, Move, Inv, StateTypeOK, told
<1>2. Observes(p) /\ FileOf(p) = job[p]
  BY <1>1 DEF Inv, StateInv, JobInv, FileOf
<1>3. /\ job[p] \notin issued /\ \A q \in Process \ {p} : job[q] # job[p]
      /\ issued \subseteq whole /\ whole \subseteq Observation /\ job[p] \in Observation
  BY <1>1, <1>2 DEF Inv, StateInv, WritingInv, PromiseInv, Busy, StateTypeOK, Observes
<1>4. JobInv(p)' /\ WritingInv(p)'
  BY <1>1, <1>3, Names DEF JobInv, WritingInv, Busy, Observes
<1> QED
  BY <1>1, <1>2, <1>3, <1>4, FilesKept

(* And its name before it is returned.                                     *)
LEMMA RenameKept ==
  ASSUME Inv, NEW p \in Process, Rename(p), UNCHANGED <<part, system>>
  PROVE  Inv'
<1>1. /\ at[p] = "rename" /\ at' = [at EXCEPT ![p] = "settle"] /\ at'[p] = "settle"
      /\ there' = there \union {job[p]} /\ survives' = [survives EXCEPT ![job[p]] = BOOLEAN]
      /\ whole' = whole /\ job' = job /\ contested' = contested /\ issued' = issued
      /\ UNCHANGED <<part, system, private, job, missing, initializer, contested, told>>
  BY DEF Rename, Move, Create, Inv, StateTypeOK, told
<1>2. Observes(p) /\ FileOf(p) = job[p]
  BY <1>1 DEF Inv, StateInv, JobInv, FileOf
<1>3. /\ job[p] \notin issued /\ \A q \in Process \ {p} : job[q] # job[p]
      /\ issued \subseteq whole /\ whole \subseteq Observation /\ job[p] \in whole
  BY <1>1, <1>2 DEF Inv, StateInv, WritingInv, PromiseInv, Busy, StateTypeOK
<1>4. JobInv(p)' /\ WritingInv(p)'
  BY <1>1, <1>2, <1>3, Names DEF JobInv, WritingInv, Busy, Observes
<1>5. /\ survives' \in [Name -> (SUBSET BOOLEAN) \ {{}}]
      /\ \A n \in Name \ {FileOf(p)} : survives'[n] = survives[n]
  BY <1>1, <1>2, Fates DEF Inv, StateTypeOK
<1> QED
  BY <1>1, <1>2, <1>3, <1>4, <1>5, FilesKept

(* Whoever lifts the restriction has withdrawn the promise before.         *)
LEMMA RemoveKept ==
  ASSUME Inv, NEW p \in Process, Remove(p), UNCHANGED <<part, system>>
  PROVE  Inv'
<1>1. at[p] = "remove" /\ job[p] = "allow" /\ ~Observes(p) /\ FileOf(p) = Restriction
  BY Names DEF FileOf, Remove, Inv, StateInv, JobInv, Observes
<1>2. CASE Restriction \in there
  <2>1. /\ at' = [at EXCEPT ![p] = "settle"] /\ at'[p] = "settle"
        /\ there' = there \ {Restriction} /\ survives' = [survives EXCEPT ![Restriction] = BOOLEAN]
        /\ whole' = whole /\ job' = job /\ contested' = contested /\ denied' = denied
        /\ UNCHANGED <<part, system, private, job, missing, initializer, contested, told>>
    BY <1>2 DEF Remove, Move, Inv, StateTypeOK, told
  <2>2. /\ ~denied /\ whole \subseteq Observation
        /\ \A q \in Process : (Busy(q) /\ job[q] = "deny") => q \in contested
    BY <1>1 DEF Inv, StateInv, WritingInv, Busy, StateTypeOK
  <2>3. \A q \in Process : (Busy(q)' /\ job'[q] = "deny") => q \in contested'
    BY <1>1, <2>1, <2>2 DEF Busy, Inv, StateTypeOK
  <2>4. JobInv(p)' /\ WritingInv(p)'
    BY <1>1, <2>1, <2>2, <2>3, Names DEF JobInv, WritingInv, Busy, Observes
  <2>5. /\ survives' \in [Name -> (SUBSET BOOLEAN) \ {{}}]
        /\ \A n \in Name \ {FileOf(p)} : survives'[n] = survives[n]
    BY <1>1, <2>1, Fates DEF Inv, StateTypeOK
  <2> QED
    BY <1>1, <2>1, <2>2, <2>4, <2>5, FilesKept
<1>3. CASE Restriction \notin there
  <2>1. CallEnds(p) /\ UNCHANGED refused
    BY <1>3 DEF Remove
  <2>2. refused' \in BOOLEAN
    BY <2>1 DEF Inv, StateTypeOK
  <2> QED
    BY <1>1, <2>1, <2>2, EndsKept DEF Inv
<1> QED
  BY <1>2, <1>3

(* The call that confirms has synced what it confirms.                     *)
LEMMA SettleKept ==
  ASSUME Inv, NEW p \in Process, Settle(p), UNCHANGED <<part, system>>
  PROVE  Inv'
<1> USE DEF Inv
<1>1. /\ at[p] = "settle" /\ at' = [at EXCEPT ![p] = "idle"] /\ job' = [job EXCEPT ![p] = "deny"]
      /\ missing' = [missing EXCEPT ![p] = {}] /\ contested' = contested \ {p}
      /\ initializer' = IF initializer = p THEN "nobody" ELSE initializer
      /\ survives' = [n \in Name |-> IF system = "windows" \/ Parent(n) = Parent(FileOf(p))
                                     THEN Certain(n, there) ELSE survives[n]]
      /\ issued' = issued \union (Observation \intersect {job[p]})
      /\ there' = there /\ private' = private /\ whole' = whole /\ abandoned' = abandoned
      /\ refused' = refused
  BY DEF Settle, Leave, Unlock, SyncEntries, FileOf
<1>2. denied' \in BOOLEAN /\ (denied' <=> (denied \/ (job[p] = "deny" /\ p \notin contested)))
  BY DEF Settle, StateTypeOK
<1>3. /\ at'[p] = "idle" /\ job'[p] = "deny"
      /\ \A q \in Process \ {p} : at'[q] = at[q] /\ job'[q] = job[q] /\ missing'[q] = missing[q]
  BY <1>1 DEF StateTypeOK
<1>4. initializer # p /\ initializer' = initializer
  BY <1>1, Names DEF StateTypeOK
<1>5. \A n \in Name : survives'[n] \in {survives[n], Certain(n, there)}
  BY <1>1
<1>6. StateTypeOK'
  <2>1. initializer' \in {"nobody"} \union
          {q \in Process : at'[q] \in {"again", "make", "restrict", "enter"}}
    BY <1>1, <1>3, <1>4 DEF StateTypeOK
  <2>2. survives' \in [Name -> (SUBSET BOOLEAN) \ {{}}]
    BY <1>1, Fates DEF StateTypeOK
  <2> QED
    BY <1>1, <1>2, <2>1, <2>2 DEF StateTypeOK
<1>7. \A d \in Directory : DirectoryInv(d)'
  <2>1. Making(p) = {}
    BY <1>1 DEF Making
  <2>2. \A d \in Directory : survives'[d] \in {survives[d], Certain(d, there)}
    BY <1>5 DEF Name
  <2> QED
    BY <1>1, <1>3, <2>1, <2>2, DirectoriesStay
<1>8. ASSUME NEW q \in Process PROVE JobInv(q)' /\ MakingInv(q)' /\ WritingInv(q)'
  <2>1. CASE q = p
    BY <1>3, <2>1 DEF JobInv, MakingInv, WritingInv, Busy, Ensuring, Writing
  <2>2. CASE q # p
    <3>1. JobInv(q)' /\ MakingInv(q)'
      BY <1>1, <1>3, <2>2, OthersKept DEF StateTypeOK
    <3>2. (Busy(q) /\ Observes(q)) => job[q] \notin issued'
      BY <1>1, <2>2 DEF StateInv, WritingInv
    <3>3. (Busy(q) /\ job[q] = "allow") => ~denied'
      BY <1>1, <1>2 DEF StateInv, WritingInv, Busy
    <3>4. WritingInv(q)'
      BY <1>1, <1>3, <2>2, <3>2, <3>3, Names DEF StateInv, WritingInv, Busy, Observes
    <3> QED
      BY <3>1, <3>4
  <2> QED
    BY <2>1, <2>2
<1>9. WindowsInv'
  BY <1>1, <1>3, <1>4 DEF StateInv, WindowsInv, Initialising
<1>10. PromiseInv'
  <2>1. issued \union Directory \union {Restriction} \subseteq Name /\ "state" \in Directory
    BY DEF StateTypeOK, Directory, Name
  <2>2. \A n \in Name : n \in there => survives'[n] \in {survives[n], {TRUE}}
    BY <1>5 DEF Certain
  <2>3. \A n \in Name : (n \in there /\ Parent(n) = Parent(FileOf(p))) => survives'[n] = {TRUE}
    BY <1>1 DEF Certain
  <2>4. \A n \in Name : (n \in there /\ system = "windows") => survives'[n] = {TRUE}
    BY <1>1 DEF Certain
  <2>5. job[p] # "allow" => Needs(p) \subseteq there
    BY <1>1 DEF StateInv, MakingInv, Writing
  <2>6. /\ Observes(p) => job[p] \in there \intersect whole /\ FileOf(p) = job[p] /\ job[p] \in Name
                         /\ Needs(p) = Directory /\ job[p] # "allow"
        /\ (job[p] = "deny" /\ p \notin contested) =>
             Restriction \in there /\ FileOf(p) = Restriction /\ Needs(p) = {"state"}
    BY <1>1, Names DEF StateInv, WritingInv, Busy, Observes, FileOf, Needs, Name
  <2>7. ASSUME NEW o \in issued' PROVE o \in there' \intersect whole' /\ survives'[o] = {TRUE}
    <3>1. CASE o \in issued
      BY <1>1, <2>1, <2>2, <3>1 DEF StateInv, PromiseInv
    <3>2. CASE o \notin issued
      BY <1>1, <2>3, <2>6, <3>2 DEF Observes
    <3> QED
      BY <3>1, <3>2
  <2>8. ASSUME denied'
        PROVE  Restriction \in there' /\ survives'[Restriction] = {TRUE} /\ "state" \in there'
    <3>1. CASE denied
      BY <1>1, <2>1, <2>2, <3>1 DEF StateInv, PromiseInv
    <3>2. CASE ~denied
      BY <1>1, <1>2, <2>1, <2>3, <2>5, <2>6, <2>8, <3>2
    <3> QED
      BY <3>1, <3>2
  <2>9. ASSUME issued' # {} PROVE Directory \subseteq there'
    BY <1>1, <2>5, <2>6, <2>9 DEF StateInv, PromiseInv, Observes
  <2>10. ASSUME NEW d \in Directory, system = "windows", issued' # {} \/ (denied' /\ d = "state")
         PROVE  survives'[d] = {TRUE}
    BY <1>1, <2>1, <2>4, <2>8, <2>9, <2>10
  <2> QED
    BY <2>7, <2>8, <2>9, <2>10 DEF PromiseInv
<1> QED
  BY <1>6, <1>7, <1>8, <1>9, <1>10 DEF StateInv

(* A step that fails ends the call.                                        *)
LEMMA BreaksKept ==
  ASSUME Inv, NEW p \in Process, Breaks(p), UNCHANGED <<part, system>>
  PROVE  Inv'
<1>1. at[p] # "idle" /\ CallEnds(p) /\ refused' \in BOOLEAN
  BY DEF Breaks, Inv, StateTypeOK
<1> QED
  BY <1>1, EndsKept DEF Inv

(* A power loss keeps what was confirmed, and whoever was making what it   *)
(* leaves is known to be interrupted.                                      *)
LEMMA PowerFailsKept ==
  ASSUME Inv, PowerFails, UNCHANGED <<part, system>>
  PROVE  Inv'
<1> USE DEF Inv
<1>1. PICK kept \in SUBSET Name :
        /\ \A n \in Name : Certain(n, kept) \subseteq survives[n]
        /\ there' = {n \in kept : Parent(n) \in kept \union {"root"}
                                 /\ Parent(Parent(n)) \in kept \union {"root"}}
        /\ survives' = [n \in Name |-> Certain(n, there')]
        /\ private' \in SUBSET (private \intersect there')
        /\ abandoned' = abandoned \union ((private \intersect there') \ private')
                          \union UNION {Making(p) : p \in Process}
        /\ issued' = IF Directory \subseteq there' THEN issued ELSE {}
        /\ denied' = (denied /\ "state" \in there')
        /\ at' = [p \in Process |-> "idle"]
        /\ job' = [p \in Process |-> "deny"]
        /\ missing' = [p \in Process |-> {}]
        /\ initializer' = "nobody" /\ contested' = {}
        /\ whole' = whole /\ refused' = refused
  BY DEF PowerFails
<1>2. denied' \in BOOLEAN /\ (denied' => denied /\ "state" \in there')
  BY <1>1 DEF StateTypeOK
<1>3. \A n \in Name : /\ survives[n] = {TRUE} => n \in kept
                      /\ survives[n] = {FALSE} => n \notin kept
  BY <1>1 DEF Certain
<1>4. StateTypeOK'
  <2>1. survives' \in [Name -> (SUBSET BOOLEAN) \ {{}}] /\ there' \subseteq Name
    BY <1>1, Fates
  <2>2. \A p \in Process : Making(p) \subseteq Directory
    BY DEF Making, StateTypeOK
  <2>3. abandoned' \subseteq Directory /\ private' \subseteq Directory \intersect there'
    BY <1>1, <2>2 DEF StateTypeOK
  <2> QED
    BY <1>1, <1>2, <2>1, <2>3 DEF StateTypeOK
<1>5. \A p \in Process : JobInv(p)' /\ MakingInv(p)' /\ WritingInv(p)'
  BY <1>1 DEF JobInv, MakingInv, WritingInv, Busy, Ensuring, Writing
<1>6. ASSUME NEW d \in Directory PROVE DirectoryInv(d)'
  <2>1. d \in Name
    BY DEF Name
  <2>2. CASE d \notin there'
    BY <1>1, <2>1, <2>2 DEF DirectoryInv, Certain
  <2>3. CASE d \in there'
    <3>1. d \in there
      BY <1>1, <1>3, <2>1, <2>3 DEF StateInv, DirectoryInv
    <3>2. d \in private \/ Excused(d)
      BY <3>1 DEF StateInv, DirectoryInv
    <3>3. d \in private' \/ d \in abandoned'
      BY <1>1, <2>3, <3>2 DEF Excused
    <3>4. survives'[d] = {TRUE}
      BY <1>1, <2>1, <2>3 DEF Certain
    <3> QED
      BY <2>3, <3>3, <3>4 DEF DirectoryInv, Excused
  <2> QED
    BY <2>2, <2>3
<1>7. WindowsInv'
  BY <1>1 DEF WindowsInv, Initialising
<1>8. PromiseInv'
  <2>1. \A n \in Name : n \in there' => survives'[n] = {TRUE}
    BY <1>1 DEF Certain
  <2>2. "state" \in Directory /\ "observations" \in Directory /\ issued \subseteq Observation
        /\ Observation \union Directory \union {Restriction} \subseteq Name
    BY DEF Directory, Name, StateTypeOK
  <2>3. ASSUME NEW o \in issued' PROVE o \in there' \intersect whole'
    <3>1. o \in issued /\ Directory \subseteq there'
      BY <1>1
    <3>2. o \in kept /\ o \in whole
      BY <1>3, <2>2, <3>1 DEF StateInv, PromiseInv
    <3>3. "state" \in kept /\ "observations" \in kept
      BY <1>1, <2>2, <3>1
    <3> QED
      BY <1>1, <2>2, <3>1, <3>2, <3>3, Parents
  <2>4. denied' => Restriction \in there'
    <3>1. denied => Restriction \in kept
      BY <1>3, <2>2 DEF StateInv, PromiseInv
    <3>2. "state" \in there' => "state" \in kept
      BY <1>1
    <3> QED
      BY <1>1, <1>2, <3>1, <3>2, Parents
  <2>5. issued' # {} => Directory \subseteq there'
    BY <1>1
  <2> QED
    BY <1>2, <2>1, <2>2, <2>3, <2>4, <2>5, <1>4 DEF PromiseInv, StateTypeOK
<1> QED
  BY <1>4, <1>5, <1>6, <1>7, <1>8 DEF StateInv

-----------------------------------------------------------------------------
(* The theorems                                                            *)

(* Every step keeps the invariant of the other files.                      *)
LEMMA StateKept == Inv /\ StateNext => Inv'
<1> SUFFICES ASSUME Inv, StateNext PROVE Inv'
  OBVIOUS
<1>1. UNCHANGED <<part, system>>
  BY DEF StateNext
<1>2. ASSUME NEW p \in Process, Look(p) PROVE Inv'
  BY <1>1, <1>2, LookUnixKept, LookWindowsKept DEF Look
<1>3. ASSUME NEW p \in Process, Calls(p) PROVE Inv'
  BY <1>1, <1>2, <1>3, StartKept, WaitKept, AgainKept, MakeKept, RestrictKept, EnterKept,
     FoundKept, PlaceKept, FillKept, SyncContentKept, RenameKept, RemoveKept, SettleKept,
     BreaksKept DEF Calls
<1> QED
  BY <1>1, <1>3, PowerFailsKept DEF StateNext

(* It holds before there is any directory.                                 *)
LEMMA StateBegins == part \in {"ledger", "state"} /\ StateInit => Inv
<1> SUFFICES ASSUME part \in {"ledger", "state"}, StateInit PROVE Inv
  OBVIOUS
<1>1. \A p \in Process : at[p] = "idle" /\ job[p] = "deny" /\ Making(p) = {}
  BY DEF StateInit, Making
<1>2. \A n \in Name : survives[n] = {FALSE}
  BY DEF StateInit
<1>3. StateTypeOK
  <2>1. {FALSE} \in (SUBSET BOOLEAN) \ {{}}
    OBVIOUS
  <2> QED
    BY <2>1 DEF StateInit, StateTypeOK
<1>4. \A p \in Process : JobInv(p) /\ MakingInv(p) /\ WritingInv(p)
  BY <1>1 DEF JobInv, MakingInv, WritingInv, Busy, Ensuring, Writing
<1>5. \A d \in Directory : DirectoryInv(d)
  BY <1>2 DEF StateInit, DirectoryInv, Name
<1>6. WindowsInv /\ PromiseInv
  BY <1>1 DEF StateInit, WindowsInv, PromiseInv, Initialising
<1> QED
  BY <1>3, <1>4, <1>5, <1>6 DEF Inv, StateInv

(* The ledger has no part in it.                                           *)
LEMMA StateRests == Inv /\ UNCHANGED stateVars => Inv'
<1> SUFFICES ASSUME Inv, UNCHANGED stateVars PROVE Inv'
  OBVIOUS
<1>1. /\ part' = part /\ system' = system /\ there' = there /\ private' = private
      /\ survives' = survives /\ whole' = whole /\ at' = at /\ job' = job /\ missing' = missing
      /\ initializer' = initializer /\ contested' = contested /\ abandoned' = abandoned
      /\ issued' = issued /\ denied' = denied /\ refused' = refused
  BY DEF stateVars, disk, calls, told
<1>2. StateTypeOK'
  BY <1>1 DEF Inv, StateTypeOK
<1>3. \A p \in Process : JobInv(p)' /\ MakingInv(p)' /\ WritingInv(p)'
  BY <1>1 DEF Inv, StateInv, JobInv, MakingInv, WritingInv, Busy, Observes, Needs
<1>4. \A d \in Directory : DirectoryInv(d)'
  BY <1>1 DEF Inv, StateInv, DirectoryInv, Excused, Making
<1>5. WindowsInv' /\ PromiseInv'
  BY <1>1 DEF Inv, StateInv, WindowsInv, PromiseInv
<1> QED
  BY <1>2, <1>3, <1>4, <1>5 DEF Inv, StateInv

(* Whatever fails, a call works on the files of its task.                  *)
LEMMA FileKept == TypeOK /\ FileInv /\ [Next]_vars => FileInv'
<1> SUFFICES ASSUME TypeOK, FileInv, [Next]_vars PROVE FileInv'
  OBVIOUS
<1>1. CASE UNCHANGED vars
  BY <1>1 DEF vars, callVars, FileInv
<1>2. ASSUME Reported, step # "idle", task \in TrajectoryTask PROVE FileInv'
  BY <1>2 DEF Reported, Begin, Finish, Await, Return, FileInv, LedgerTask, TrajectoryTask, LogFile
<1>3. ASSUME TaskDone, step # "idle" PROVE FileInv'
  BY <1>2, <1>3 DEF TaskDone, Begin, Await, FileInv, LedgerTask, TrajectoryTask, LogFile
<1>4. ASSUME TaskFailed, step # "idle" PROVE FileInv'
  BY <1>2, <1>4 DEF TaskFailed, Begin, Await, Return, FileInv, LedgerTask, TrajectoryTask, LogFile
<1>5. ASSUME NEW o \in Op, Call(o) PROVE FileInv'
  BY <1>5 DEF Call, Begin, FileInv, LedgerTask, TrajectoryTask
<1>6. CASE Open
  BY <1>3, <1>6 DEF Open, Await, FileInv
<1>7. CASE Write
  BY <1>7 DEF Write, FileInv
<1>8. CASE Sync
  BY <1>3, <1>8 DEF Sync, Await, FileInv
<1>9. CASE SyncParent
  BY <1>3, <1>9 DEF SyncParent
<1>10. CASE Fails
  BY <1>4, <1>10 DEF Fails
<1>11. CASE Read
  BY <1>11 DEF Read, Begin, Finish, Return, Await, FileInv, LedgerTask, TrajectoryTask
<1>12. CASE Dispatch
  BY <1>12 DEF Dispatch, Finish, Begin, FileInv, LedgerTask, TrajectoryTask
<1>13. CASE Kill \/ PowerLoss
  BY <1>13 DEF Kill, PowerLoss, Stop, Return, Await, FileInv
<1> QED
  BY <1>1, <1>5, <1>6, <1>7, <1>8, <1>9, <1>10, <1>11, <1>12, <1>13 DEF Next

(* What holds in both parts, whichever a behaviour is about.               *)
FilesInv == TypeOK /\ FileInv /\ Inv

(* It holds at first,                                                      *)
LEMMA FilesBegin == FilesInit => FilesInv /\ LedgerInv
BY LedgerBegins, StateBegins DEF FilesInit, FilesInv, LedgerInv

(* and every step keeps it.                                                *)
LEMMA FilesKeep == FilesInv /\ [FilesNext]_<<vars, stateVars>> => FilesInv'
<1> SUFFICES ASSUME FilesInv, [FilesNext]_<<vars, stateVars>> PROVE FilesInv'
  OBVIOUS
<1>1. ([Next]_vars /\ UNCHANGED stateVars) \/ (StateNext /\ UNCHANGED vars)
  BY DEF FilesNext
<1> QED
  BY <1>1, LedgerTypesKept, FileKept, StateKept, StateRests DEF FilesInv

(* The state of the ledger files and of the other files keeps its types,   *)
(* whatever fails: a private directory is there, and the lock of the       *)
(* initialisation belongs to a call that is at it.                         *)
THEOREM FilesTypes == FilesSpec => []FilesTypeOK
<1>1. FilesInv => FilesTypeOK
  BY DEF FilesInv, Inv, FilesTypeOK
<1> QED
  BY <1>1, FilesBegin, FilesKeep, PTL DEF FilesSpec

(* What a call has confirmed lasts, for any number of processes and        *)
(* observations and on every system: a returned observation, a restriction *)
(* and the directories that hold them (persist_observation,                *)
(* persist_no_yolo_at, ensure_directory).                                  *)
THEOREM ConfirmationsLast == FilesSpec => []ConfirmedLasts
<1>1. ASSUME FilesInv PROVE ConfirmedLasts
  <2>1. issued \subseteq there \intersect whole /\ (denied => Restriction \in there)
    BY <1>1 DEF FilesInv, Inv, StateInv, PromiseInv
  <2>2. ASSUME NEW d \in Directory, issued # {} \/ (denied /\ d = "state")
        PROVE  survives[d] = {TRUE} \/ Excused(d)
    <3>1. d \in there
      BY <1>1, <2>2 DEF FilesInv, Inv, StateInv, PromiseInv
    <3> QED
      BY <1>1, <2>2, <3>1 DEF FilesInv, Inv, StateInv, PromiseInv, DirectoryInv
  <2> QED
    BY <2>1, <2>2 DEF ConfirmedLasts, Excused
<1> QED
  BY <1>1, FilesBegin, FilesKeep, PTL DEF FilesSpec

(* A directory is refused only after a call was interrupted at it, or      *)
(* where the umask lets the group write: the lock of the initialisation    *)
(* keeps the calls from each other's half made directories                 *)
(* (initialization_lock, validate_private_directory).                      *)
THEOREM RefusalsFollowCrashes == FilesSpec => []RefusedAfterCrash
<1>1. FilesInit => RefusedAfterCrash
  BY DEF FilesInit, StateInit, RefusedAfterCrash
<1>2. ASSUME FilesInv, RefusedAfterCrash, [FilesNext]_<<vars, stateVars>>
      PROVE  RefusedAfterCrash'
  <2>1. CASE UNCHANGED stateVars
    BY <1>2, <2>1 DEF stateVars, told, RefusedAfterCrash
  <2>2. CASE StateNext
    <3>1. system' = system
      BY <2>2 DEF StateNext
    <3>2. abandoned \subseteq abandoned'
      BY <2>2 DEF StateNext, Calls, PowerFails, CallEnds, StartPersist, StartDeny, StartAllow, Look,
         LookUnix, LookWindows, Wait, Again, Make, Restrict, Enter, Found, Place, Fill,
         SyncContent, Rename, Remove, Settle, Breaks, told
    <3>3. ASSUME NEW p \in Process, Again(p), refused' # refused PROVE abandoned' # {}
      <4>1. at[p] = "again" /\ CallEnds(p) /\ ~(missing[p] \subseteq private)
            /\ missing[p] \intersect there # {}
        BY <3>3 DEF Again, told
      <4>2. system = "windows"
        BY <1>2, <4>1 DEF FilesInv, Inv, StateInv, MakingInv, Ensuring
      <4>3. PICK d \in Directory : missing[p] = {d} /\ d \in there /\ d \notin private
        BY <1>2, <4>1, <4>2 DEF FilesInv, Inv, StateInv, MakingInv, Ensuring
      <4>4. Excused(d)
        BY <1>2, <4>3 DEF FilesInv, Inv, StateInv, DirectoryInv
      <4>5. ASSUME NEW q \in Process, d \in Making(q) PROVE FALSE
        <5>1. at[q] \in {"make", "restrict", "enter"}
          BY <4>5 DEF Making
        <5>2. initializer = q /\ initializer = p
          BY <1>2, <4>1, <4>2, <5>1 DEF FilesInv, Inv, StateInv, WindowsInv, Initialising
        <5> QED
          BY <4>1, <5>1, <5>2
      <4> QED
        BY <3>2, <4>4, <4>5 DEF Excused
    <3>4. refused' = refused \/ abandoned' # {} \/ system = "unix_group"
      BY <2>2, <3>3 DEF StateNext, Calls, PowerFails, CallEnds, StartPersist, StartDeny, StartAllow,
         Look, LookUnix, LookWindows, Wait, Make, Restrict, Enter, Found, Place, Fill,
         SyncContent, Rename, Remove, Settle, Breaks, told
    <3> QED
      BY <1>2, <3>1, <3>2, <3>4 DEF RefusedAfterCrash
  <2> QED
    BY <1>2, <2>1, <2>2 DEF FilesNext
<1> QED
  BY <1>1, <1>2, FilesBegin, FilesKeep, PTL DEF FilesSpec

(* The ledger's invariant needs the fault model as well.                   *)
LEMMA LedgersKeep ==
  PowerLossAlone /\ FilesInv /\ LedgerInv /\ [FilesNext]_<<vars, stateVars>> => LedgerInv'
<1> SUFFICES ASSUME FilesInv, [FilesNext]_<<vars, stateVars>>, PowerLossAlone, LedgerInv
             PROVE  LedgerInv'
  OBVIOUS
<1>1. [Next]_vars
  BY DEF FilesNext
<1> QED
  BY <1>1, LedgerKept DEF FilesInv

(* While power loss does not meet other faults, an operation is dispatched *)
(* at most once, whenever calls die and however often they are repeated:   *)
(* its claim is on the disk before, and the ledger file is (claim,         *)
(* append_durable, sync_parent).                                           *)
THEOREM DispatchesAreDurable == PowerLossAlone => (FilesSpec => []DurableAtMostOnce)
<1> SUFFICES ASSUME PowerLossAlone PROVE FilesSpec => []DurableAtMostOnce
  OBVIOUS
<1>1. LedgerInv => DurableAtMostOnce
  BY DEF LedgerInv, DoneInv, DurableAtMostOnce
<1>2. FilesInv /\ LedgerInv /\ [FilesNext]_<<vars, stateVars>> => LedgerInv'
  BY LedgersKeep
<1> QED
  BY <1>1, <1>2, FilesBegin, FilesKeep, PTL DEF FilesSpec

(* And the trajectory reports nothing that the ledger does not hold, in    *)
(* the order in which it happens (trajectory, append_durable).             *)
THEOREM TrajectoriesFollow == PowerLossAlone => (FilesSpec => []TrajectoryFollowsLedger)
<1> SUFFICES ASSUME PowerLossAlone PROVE FilesSpec => []TrajectoryFollowsLedger
  OBVIOUS
<1>1. LedgerInv => TrajectoryFollowsLedger
  BY DEF LedgerInv, DoneInv, TrajectoryFollowsLedger, Secured, Ending
<1>2. FilesInv /\ LedgerInv /\ [FilesNext]_<<vars, stateVars>> => LedgerInv'
  BY LedgersKeep
<1> QED
  BY <1>1, <1>2, FilesBegin, FilesKeep, PTL DEF FilesSpec

=============================================================================
