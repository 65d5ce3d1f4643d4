----------------------------- MODULE LedgerFiles -----------------------------
(***************************************************************************)
(* The files behind OperationLedger (src/src/lib.rs): the lock file, the   *)
(* ledger, the lock of the trajectory and the trajectory, all in one       *)
(* directory.  Engine takes the ledger file as given; here every file is   *)
(* created by the first call that needs it, and the directory entry of a   *)
(* new file survives a power loss for certain only after sync_parent.      *)
(*                                                                         *)
(* The execution lock lets one call in at a time, so there is one caller.  *)
(* A killed process is followed by another one.  Torn tails, deadlines and *)
(* outcome ledgers are in Engine.                                          *)
(***************************************************************************)
EXTENDS Naturals, Sequences, FiniteSets

CONSTANTS
  Op,         \* operation ids, each always presented with the same hash
  Scenarios   \* sets of faults that can happen together

ASSUME LedgerFilesAssumption == Scenarios \subseteq SUBSET {"io", "kill", "power"}

LockFile == {"lock", "trajectory_lock"}
LogFile == {"ledger", "trajectory"}

(* What a call is doing; "retry" is the second attempt of                  *)
(* finish_after_effect.  The last four are the states of a trajectory line. *)
LedgerTask == {"claim", "finish", "retry"}
TrajectoryTask == {"accepted", "executing", "terminal"}
Task == {"lock"} \union LedgerTask \union TrajectoryTask
Line == [state : Task, op : Op]

VARIABLES
  faults,      \* the faults that can happen in this behaviour
  present,     \* the files that exist
  entered,     \* those whose directory entry is known to be on the disk
  lines,       \* the lines of the ledger and of the trajectory
  synced,      \* how many of them are known to be on the disk
  step,        \* "idle", "read", "dispatch", or a step of the current task
  task,        \* what the call is doing
  file,        \* with which file
  existed,     \* whether the file existed when it was opened
  op,          \* the operation of the call
  effect,      \* this call has dispatched
  dispatches   \* how often each operation was dispatched

diskVars == <<present, entered, lines, synced>>
callVars == <<step, task, file, existed, op, effect>>
vars == <<faults, diskVars, callVars, dispatches>>

TypeOK ==
  /\ faults \in Scenarios
  /\ present \subseteq LockFile \union LogFile
  /\ entered \subseteq present
  /\ lines \in [LogFile -> Seq(Line)]
  /\ synced \in [LogFile -> Nat]
  /\ \A n \in LogFile : synced[n] <= Len(lines[n])
  /\ step \in {"idle", "open", "write", "sync", "entry", "read", "dispatch"}
  /\ task \in Task
  /\ file \in LockFile \union LogFile
  /\ existed \in BOOLEAN
  /\ op \in Op
  /\ effect \in BOOLEAN
  /\ dispatches \in [Op -> Nat]

Init ==
  /\ faults \in Scenarios
  /\ present = {}
  /\ entered = {}
  /\ lines = [n \in LogFile |-> <<>>]
  /\ synced = [n \in LogFile |-> 0]
  /\ step = "idle"
  /\ task = "lock"
  /\ file = "lock"
  /\ existed = FALSE
  /\ op \in Op
  /\ effect = FALSE
  /\ dispatches = [o \in Op |-> 0]

-----------------------------------------------------------------------------
(* What follows a task                                                     *)

Begin(x, n) == step' = "open" /\ task' = x /\ file' = n

Await(s) == step' = s /\ UNCHANGED <<task, file>>

Return == Await("idle")

(* finish appends the terminal line; a call without an effect may get here *)
(* from finish_early.                                                      *)
Finish == Begin("finish", "ledger")

(* The trajectory is written after the task it reports, whatever came of   *)
(* the attempt to write it.                                                *)
Reported ==
  \/ task = "accepted" /\ (Begin("executing", "trajectory_lock") \/ Finish)
  \/ task = "executing" /\ (Await("dispatch") \/ Finish)
  \/ task = "terminal" /\ Return

TaskDone ==
  \/ task = "lock" /\ Await("read")
  \/ task = "claim" /\ Begin("accepted", "trajectory_lock")
  \/ task \in {"finish", "retry"} /\ Begin("terminal", "trajectory_lock")
  \/ task \in TrajectoryTask /\ file = "trajectory_lock" /\ Begin(task, "trajectory")
  \/ task \in TrajectoryTask /\ file = "trajectory" /\ Reported

(* Mutant of TaskFailed: every error is ignored.                           *)
IgnoreError == TaskDone

(* An error ends the call, but not in finish_after_effect, which tries     *)
(* once more, and not in trajectory, whose result is ignored.              *)
TaskFailed ==
  \/ task \in {"lock", "claim", "retry"} /\ Return
  \/ task = "finish" /\ (IF effect THEN Begin("retry", "ledger") ELSE Return)
  \/ task \in TrajectoryTask /\ Reported

-----------------------------------------------------------------------------
(* A call                                                                  *)

Call(o) ==
  /\ step = "idle"
  /\ op' = o
  /\ effect' = FALSE
  /\ Begin("lock", "lock")
  /\ UNCHANGED <<diskVars, existed, dispatches>>

(* path.exists() and open with create.                                     *)
Open ==
  /\ step = "open"
  /\ existed' = (file \in present)
  /\ present' = present \union {file}
  /\ IF file \in LogFile THEN Await("write")
     ELSE IF file \notin present THEN Await("entry")
     ELSE TaskDone
  /\ UNCHANGED <<entered, lines, synced, op, effect, dispatches>>

Write ==
  /\ step = "write"
  /\ lines' = [lines EXCEPT ![file] = Append(@, [state |-> task, op |-> op])]
  /\ step' = "sync"
  /\ UNCHANGED <<present, entered, synced, task, file, existed, op, effect,
                 dispatches>>

(* sync_all; the directory is synced only by the call that created the     *)
(* file.                                                                   *)
Sync ==
  /\ step = "sync"
  /\ synced' = [synced EXCEPT ![file] = Len(lines[file])]
  /\ IF existed THEN TaskDone ELSE Await("entry")
  /\ UNCHANGED <<present, entered, lines, existed, op, effect, dispatches>>

(* Mutant of SyncParent: it does nothing.                                  *)
SyncNothing ==
  /\ step = "entry"
  /\ TaskDone
  /\ UNCHANGED <<diskVars, existed, op, effect, dispatches>>

(* sync_parent: every entry of the directory is on the disk.               *)
SyncParent ==
  /\ step = "entry"
  /\ entered' = present
  /\ TaskDone
  /\ UNCHANGED <<present, lines, synced, existed, op, effect, dispatches>>

Fails ==
  /\ step \in {"open", "write", "sync", "entry"}
  /\ "io" \in faults
  /\ TaskFailed
  /\ UNCHANGED <<diskVars, existed, op, effect, dispatches>>

(* The lines of the ledger about the operation of the call.                *)
Has(states) ==
  \E i \in 1..Len(lines["ledger"]) :
    lines["ledger"][i].op = op /\ lines["ledger"][i].state \in states

Ended == Has({"finish", "retry"})

(* An operation without a claim is claimed by execute and is nothing to    *)
(* status; a claim without a terminal is finished as unknown; a terminal   *)
(* is replayed.                                                            *)
Read ==
  /\ step = "read"
  /\ \/ ~Has({"claim"}) /\ (Begin("claim", "ledger") \/ Return)
     \/ Has({"claim"}) /\ ~Ended /\ Finish
     \/ Has({"claim"}) /\ Ended /\ Return
  /\ UNCHANGED <<diskVars, existed, op, effect, dispatches>>

Dispatch ==
  /\ step = "dispatch"
  /\ dispatches' = [dispatches EXCEPT ![op] = @ + 1]
  /\ effect' = TRUE
  /\ Finish
  /\ UNCHANGED <<diskVars, existed, op>>

-----------------------------------------------------------------------------
(* Faults                                                                  *)

Stop ==
  /\ step # "idle"
  /\ Return
  /\ UNCHANGED <<existed, op, effect, dispatches>>

Kill == "kill" \in faults /\ Stop /\ UNCHANGED diskVars

(* Files whose entry was not synced may be gone; of the others a prefix    *)
(* with at least the synced lines survives.                                *)
PowerLoss ==
  /\ "power" \in faults
  /\ Stop
  /\ \E kept \in SUBSET present :
       /\ entered \subseteq kept
       /\ present' = kept
       /\ entered' = kept
       /\ synced' \in {cut \in [LogFile -> 0..Len(lines["ledger"]) + Len(lines["trajectory"])] :
            \A n \in LogFile :
              cut[n] \in IF n \in kept THEN synced[n]..Len(lines[n]) ELSE {0}}
       /\ lines' = [n \in LogFile |-> SubSeq(lines[n], 1, synced'[n])]

Next ==
  /\ \/ \E o \in Op : Call(o)
     \/ Open \/ Write \/ Sync \/ SyncParent \/ Fails \/ Read \/ Dispatch
     \/ Kill \/ PowerLoss
  /\ UNCHANGED faults

Spec == Init /\ [][Next]_vars

-----------------------------------------------------------------------------
(* Properties                                                              *)

(* The protocol provides durable at-most-once dispatch.                    *)
DurableAtMostOnce == \A o \in Op : dispatches[o] <= 1

Sequence(state) == IF state = "accepted" THEN 0 ELSE IF state = "executing" THEN 1 ELSE 2

(* The trajectory reports nothing the ledger does not hold: an operation   *)
(* that was reported has a claim, and one that was reported as ended has a *)
(* terminal line.  And the sequence numbers of an operation never go back: *)
(* accepted, executing, terminal, though calls repeat and die in between.  *)
TrajectoryFollowsLedger ==
  LET trail == lines["trajectory"] IN
  /\ \A i \in 1..Len(trail) : \E j \in 1..Len(lines["ledger"]) :
       /\ lines["ledger"][j].op = trail[i].op
       /\ lines["ledger"][j].state \in
            IF trail[i].state = "terminal" THEN {"finish", "retry"} ELSE {"claim"}
  /\ \A i, j \in 1..Len(trail) :
       (i < j /\ trail[i].op = trail[j].op) =>
         Sequence(trail[i].state) <= Sequence(trail[j].state)

=============================================================================
