------------------------------- MODULE Engine -------------------------------
(***************************************************************************)
(* The core of praefectus: Engine::execute and Engine::status             *)
(* (src/src/lib.rs), the JSONL operation ledger they claim and finish      *)
(* operations in, the host's outcome ledger, and the executor that acts on *)
(* the desktop.                                                            *)
(*                                                                         *)
(* Threads call execute and status.  Threads belong to OS processes, and a *)
(* process opens one ledger file and one outcome store; several processes  *)
(* may share either.  The advisory lock serialises whatever shares a       *)
(* ledger file.  What is left concurrent, and is modelled step by step, is *)
(* cancellation, the deadline, processes with another ledger file but the  *)
(* same outcome store, I/O errors, killed processes and power loss.        *)
(*                                                                         *)
(* A request is abstracted to its key: the operation id and the hash of    *)
(* everything else in it.  A terminal acknowledgement is abstracted to     *)
(* what the code tells apart: which Terminal variant it is and, for        *)
(* OutcomeUnknown, whether its message is the interrupted-outcome message. *)
(***************************************************************************)
EXTENDS Naturals, Sequences, FiniteSets

CONSTANTS
  Thread,          \* callers of execute and status
  Process,         \* OS processes
  ProcessOf,       \* the process each thread runs in
  File,            \* operation ledger files
  LedgerOf,        \* the ledger file each process opens
  Store,           \* outcome ledgers of the host
  StoreOf,         \* the outcome ledger each process consults
  HostLedger,      \* "null", "memory" or "durable": the kind of outcome ledger
  Op,              \* operation ids
  Hash,            \* canonical action hashes
  VerifyHash,      \* hashes of requests that ask for verification
  GuardedHash,     \* hashes of background requests on a shared desktop
  Faults,          \* the faults that can happen
  None             \* stands for an absent operation id, hash or terminal

(* "io": a write, sync or truncate of the ledger fails.  "host": a call of *)
(* the outcome ledger fails.  "kill": a process dies.  "power": the whole  *)
(* machine stops and loses what was not synced.                            *)
FaultKind == {"io", "host", "kill", "power"}

ASSUME ConstantsAssumption ==
  /\ ProcessOf \in [Thread -> Process]
  /\ LedgerOf \in [Process -> File]
  /\ StoreOf \in [Process -> Store]
  /\ HostLedger \in {"null", "memory", "durable"}
  /\ VerifyHash \subseteq Hash
  /\ GuardedHash \subseteq Hash
  /\ Faults \subseteq FaultKind
  /\ None \notin Op \union Hash \union Thread

(* A MemoryOutcomeLedger lives in one process and dies with it.            *)
ASSUME MemoryAssumption ==
  HostLedger = "memory" =>
    \A p, q \in Process : StoreOf[p] = StoreOf[q] => p = q

(* The set of OutcomeKeys.                                                 *)
Key == [op : Op, hash : Hash]

Success == {"verified", "unverified"}

NoEffect == {"rejected", "failed", "cancelled", "expired"}

(* The three sources of Terminal::OutcomeUnknown: a claim or grant without *)
(* an outcome, a dispatch whose result could not be established, and a     *)
(* success that could not be made durable.                                 *)
Unknown == {"interrupted", "uncertain", "unpersisted"}

Terminal == Success \union NoEffect \union Unknown

(* A line of the ledger file.                                              *)
Claim(k) == [kind |-> "claim", key |-> k, term |-> None]
Finish(k, z) == [kind |-> "terminal", key |-> k, term |-> z]

Record == {Claim(k) : k \in Key} \union {Finish(k, z) : k \in Key, z \in Terminal}

(* What an outcome store holds for a key: Option<Option<Terminal>>.        *)
Entry == {"absent", "granted"} \union Terminal

VARIABLES
  (* the ledger files *)
  log,         \* the complete lines a reader sees
  synced,      \* how many of them are known to be on the disk
  torn,        \* the file ends in bytes without a newline
  corrupt,     \* a line in the middle does not parse
  lock,        \* the holder of the execution lock, or None
  (* the outcome ledger of the host *)
  outcomes,    \* what each store holds for each key
  (* the callers *)
  pc,          \* where the thread is
  call,        \* "execute" or "status"
  key,         \* what the call is about
  term,        \* the terminal to be written or returned
  site,        \* what the append in progress is for
  cancelled,   \* the CancellationToken of the call
  expired,     \* now_ms() has reached the effect deadline of the call
  (* the desktop *)
  world,       \* whether the effect of a key has happened
  dispatches,  \* how often Executor::dispatch was called for a key
  (* what callers were told *)
  told,        \* every terminal returned for a key
  acked        \* those returned right after they were made durable

fileVars == <<log, synced, torn, corrupt>>
threadVars == <<pc, call, key, term, site, cancelled, expired>>
worldVars == <<world, dispatches>>
ackVars == <<told, acked>>
vars == <<fileVars, lock, outcomes, threadVars, worldVars, ackVars>>

ProgramCounter ==
  {"idle", "lock", "wait", "repair", "read", "append", "newline", "sync",
   "begin_new", "begin_recovered", "begin_reconcile", "capabilities",
   "observe", "sentinel", "dispatch", "executing", "verify", "record",
   "repair_retry"}

Site == {"claim", "final", "effect", "retry"}

TypeOK ==
  /\ log \in [File -> Seq(Record)]
  /\ synced \in [File -> Nat]
  /\ torn \in [File -> BOOLEAN]
  /\ corrupt \in [File -> BOOLEAN]
  /\ lock \in [File -> Thread \union {None}]
  /\ outcomes \in [Store -> [Key -> Entry]]
  /\ pc \in [Thread -> ProgramCounter]
  /\ call \in [Thread -> {"execute", "status"}]
  /\ key \in [Thread -> [op : Op \union {None}, hash : Hash \union {None}]]
  /\ term \in [Thread -> Terminal \union {None}]
  /\ site \in [Thread -> Site]
  /\ cancelled \in [Thread -> BOOLEAN]
  /\ expired \in [Thread -> BOOLEAN]
  /\ world \in [File -> [Key -> {"none", "inflight", "done"}]]
  /\ dispatches \in [File -> [Key -> Nat]]
  /\ told \in [File -> [Key -> SUBSET Terminal]]
  /\ acked \in [File -> [Key -> SUBSET Terminal]]

NoKey == [op |-> None, hash |-> None]

Init ==
  /\ log = [f \in File |-> <<>>]
  /\ synced = [f \in File |-> 0]
  /\ torn = [f \in File |-> FALSE]
  /\ corrupt = [f \in File |-> FALSE]
  /\ lock = [f \in File |-> None]
  /\ outcomes = [s \in Store |-> [k \in Key |-> "absent"]]
  /\ pc = [t \in Thread |-> "idle"]
  /\ call = [t \in Thread |-> "execute"]
  /\ key = [t \in Thread |-> NoKey]
  /\ term = [t \in Thread |-> None]
  /\ site = [t \in Thread |-> "final"]
  /\ cancelled = [t \in Thread |-> FALSE]
  /\ expired = [t \in Thread |-> FALSE]
  /\ world = [f \in File |-> [k \in Key |-> "none"]]
  /\ dispatches = [f \in File |-> [k \in Key |-> 0]]
  /\ told = [f \in File |-> [k \in Key |-> {}]]
  /\ acked = [f \in File |-> [k \in Key |-> {}]]

-----------------------------------------------------------------------------
(* Helpers                                                                 *)

FileOf(t) == LedgerOf[ProcessOf[t]]
Held(t) == outcomes[StoreOf[ProcessOf[t]]][key[t]]

Goto(t, label) == pc' = [pc EXCEPT ![t] = label]

(* The calls of the threads in T are over: their locals go, and so does    *)
(* the LedgerLock a thread holds, on drop or with its process.             *)
Leave(T) ==
  /\ pc' = [t \in Thread |-> IF t \in T THEN "idle" ELSE pc[t]]
  /\ call' = [t \in Thread |-> IF t \in T THEN "execute" ELSE call[t]]
  /\ key' = [t \in Thread |-> IF t \in T THEN NoKey ELSE key[t]]
  /\ term' = [t \in Thread |-> IF t \in T THEN None ELSE term[t]]
  /\ site' = [t \in Thread |-> IF t \in T THEN "final" ELSE site[t]]
  /\ cancelled' = [t \in Thread |-> t \notin T /\ cancelled[t]]
  /\ expired' = [t \in Thread |-> t \notin T /\ expired[t]]
  /\ lock' = [f \in File |-> IF lock[f] \in T THEN None ELSE lock[f]]

(* The call returns Err, or Ok(None): no acknowledgement.                  *)
ReturnNothing(t) ==
  /\ Leave({t})
  /\ UNCHANGED ackVars

(* The call returns terminal z for key k, found in or lost by the ledger.  *)
ReturnUnsynced(t, k, z) ==
  /\ Leave({t})
  /\ told' = [told EXCEPT ![FileOf(t)][k] = @ \union {z}]
  /\ UNCHANGED acked

(* The call returns the terminal it has just made durable.                 *)
ReturnDurable(t) ==
  /\ Leave({t})
  /\ told' = [told EXCEPT ![FileOf(t)][key[t]] = @ \union {term[t]}]
  /\ acked' = [acked EXCEPT ![FileOf(t)][key[t]] = @ \union {term[t]}]

(* persistence_unknown_ack: only a success is turned into an unknown.      *)
PersistenceUnknown(z) == IF z \in Success THEN "unpersisted" ELSE z

(* The lines of file f about operation o, by kind.                         *)
Lines(f, o, kind) ==
  {i \in 1..Len(log[f]) : log[f][i].kind = kind /\ log[f][i].key.op = o}

IsLast(i, S) == i \in S /\ \A j \in S : j <= i

(* finish or claim starts to append the line for site s.                   *)
StartAppend(t, s) ==
  /\ Goto(t, "append")
  /\ site' = [site EXCEPT ![t] = s]

Line(t) == IF site[t] = "claim" THEN Claim(key[t]) ELSE Finish(key[t], term[t])

-----------------------------------------------------------------------------
(* Calls, cancellation and time                                            *)

(* A caller presents a request that validate_request and the authority     *)
(* verifier accept.                                                        *)
Execute(t, k) ==
  /\ pc[t] = "idle"
  /\ Goto(t, "lock")
  /\ key' = [key EXCEPT ![t] = k]
  /\ UNCHANGED <<fileVars, lock, outcomes, call, term, site, cancelled,
                 expired, worldVars, ackVars>>

(* A caller asks for the status of an operation id; it knows no hash.      *)
Status(t, o) ==
  /\ pc[t] = "idle"
  /\ Goto(t, "lock")
  /\ call' = [call EXCEPT ![t] = "status"]
  /\ key' = [key EXCEPT ![t] = [op |-> o, hash |-> None]]
  /\ UNCHANGED <<fileVars, lock, outcomes, term, site, cancelled, expired,
                 worldVars, ackVars>>

(* Another thread of the host cancels the call; status takes no token.     *)
Cancel(t) ==
  /\ pc[t] # "idle" /\ call[t] = "execute" /\ ~cancelled[t]
  /\ cancelled' = [cancelled EXCEPT ![t] = TRUE]
  /\ UNCHANGED <<fileVars, lock, outcomes, pc, call, key, term, site, expired,
                 worldVars, ackVars>>

(* The clock reaches min(deadline_at_ms, authority.expires_at_ms).         *)
Expire(t) ==
  /\ pc[t] # "idle" /\ call[t] = "execute" /\ ~expired[t]
  /\ expired' = [expired EXCEPT ![t] = TRUE]
  /\ UNCHANGED <<fileVars, lock, outcomes, pc, call, key, term, site,
                 cancelled, worldVars, ackVars>>

-----------------------------------------------------------------------------
(* The execution lock, and repair_tail                                     *)

Acquire(t) ==
  /\ pc[t] = "lock"
  /\ lock[FileOf(t)] = None
  /\ lock' = [lock EXCEPT ![FileOf(t)] = t]
  /\ Goto(t, "repair")
  /\ UNCHANGED <<fileVars, outcomes, call, key, term, site, cancelled, expired,
                 worldVars, ackVars>>

(* try_lock found the lock taken; execute sleeps, status blocks.           *)
WouldBlock(t) ==
  /\ pc[t] = "lock" /\ call[t] = "execute"
  /\ lock[FileOf(t)] # None
  /\ Goto(t, "wait")
  /\ UNCHANGED <<fileVars, lock, outcomes, call, key, term, site, cancelled,
                 expired, worldVars, ackVars>>

(* The lock file cannot be opened, synced or locked.                       *)
AcquireFails(t) ==
  /\ pc[t] = "lock" /\ "io" \in Faults
  /\ ReturnNothing(t)
  /\ UNCHANGED <<fileVars, outcomes, worldVars>>

(* Mutant of Wake: the wait for the lock ignores the boundary.             *)
WaitForever(t) ==
  /\ pc[t] = "wait"
  /\ Goto(t, "lock")
  /\ UNCHANGED <<fileVars, lock, outcomes, call, key, term, site, cancelled,
                 expired, worldVars, ackVars>>

(* After the sleep: give up at the boundary, or try again.                 *)
Wake(t) ==
  /\ pc[t] = "wait"
  /\ UNCHANGED <<fileVars, outcomes, worldVars>>
  /\ \/ /\ cancelled[t] \/ expired[t]
        /\ ReturnNothing(t)
     \/ /\ ~cancelled[t] /\ ~expired[t]
        /\ Goto(t, "lock")
        /\ UNCHANGED <<lock, call, key, term, site, cancelled, expired, ackVars>>

(* repair_jsonl_tail on a file whose lines all parse: cut the torn tail    *)
(* off and sync.                                                           *)
Repaired(f) ==
  /\ ~corrupt[f]
  /\ torn' = [torn EXCEPT ![f] = FALSE]
  /\ synced' = IF torn[f] THEN [synced EXCEPT ![f] = Len(log[f])] ELSE synced
  /\ UNCHANGED <<log, corrupt>>

(* repair_jsonl_tail fails on an invalid line, or on an I/O error before   *)
(* or after it cut the tail off; or records() cannot read the file.        *)
RepairFails(f) ==
  /\ \/ corrupt[f] /\ UNCHANGED torn
     \/ "io" \in Faults /\ torn' \in {torn, [torn EXCEPT ![f] = FALSE]}
  /\ UNCHANGED <<log, synced, corrupt>>

Repair(t) ==
  /\ pc[t] = "repair"
  /\ UNCHANGED <<outcomes, worldVars>>
  /\ \/ /\ Repaired(FileOf(t))
        /\ Goto(t, "read")
        /\ UNCHANGED <<lock, call, key, term, site, cancelled, expired, ackVars>>
     \/ /\ RepairFails(FileOf(t))
        /\ ReturnNothing(t)

-----------------------------------------------------------------------------
(* OperationLedger::claim and OperationLedger::status read the records     *)

(* No line about the operation: execute claims it, status returns None.    *)
ReadNothing(t) ==
  LET o == key[t].op IN
  /\ pc[t] = "read"
  /\ Lines(FileOf(t), o, "claim") = {}
  /\ Lines(FileOf(t), o, "terminal") = {}
  /\ \/ /\ call[t] = "execute"
        /\ StartAppend(t, "claim")
        /\ UNCHANGED <<lock, call, key, term, cancelled, expired, ackVars>>
     \/ /\ call[t] = "status"
        /\ ReturnNothing(t)
  /\ UNCHANGED <<fileVars, outcomes, worldVars>>

(* The operation was claimed for another hash: ProtocolError::Conflict.    *)
ReadConflict(t) ==
  LET f == FileOf(t) IN
  /\ pc[t] = "read" /\ call[t] = "execute"
  /\ \E i \in 1..Len(log[f]) :
       /\ IsLast(i, Lines(f, key[t].op, "claim"))
       /\ log[f][i].key # key[t]
  /\ ReturnNothing(t)
  /\ UNCHANGED <<fileVars, outcomes, worldVars>>

(* Mutant of ReadClaimOnly: an interrupted operation is started again.     *)
RestartInterrupted(t) ==
  /\ pc[t] = "read" /\ call[t] = "execute"
  /\ Lines(FileOf(t), key[t].op, "terminal") = {}
  /\ Claim(key[t]) \in {log[FileOf(t)][i] : i \in 1..Len(log[FileOf(t)])}
  /\ Goto(t, "begin_new")
  /\ UNCHANGED <<fileVars, lock, outcomes, call, key, term, site, cancelled,
                 expired, worldVars, ackVars>>

(* A claim without a terminal: ClaimResult::RecoveredUnknown.              *)
ReadClaimOnly(t) ==
  LET f == FileOf(t)
      o == key[t].op
  IN
  /\ pc[t] = "read"
  /\ Lines(f, o, "terminal") = {}
  /\ \E i \in 1..Len(log[f]) :
       /\ IsLast(i, Lines(f, o, "claim"))
       /\ call[t] = "execute" => log[f][i].key = key[t]
       /\ key' = [key EXCEPT ![t] = log[f][i].key]
  /\ Goto(t, "begin_recovered")
  /\ UNCHANGED <<fileVars, lock, outcomes, call, term, site, cancelled, expired,
                 worldVars, ackVars>>

(* Mutant of ReadTerminal: an operation that ended without an effect may   *)
(* be claimed again.                                                       *)
RetryNoEffect(t) ==
  LET f == FileOf(t) IN
  /\ pc[t] = "read" /\ call[t] = "execute"
  /\ \E i \in 1..Len(log[f]) :
       /\ IsLast(i, Lines(f, key[t].op, "terminal"))
       /\ log[f][i].key = key[t]
       /\ IF log[f][i].term \in NoEffect
          THEN /\ StartAppend(t, "claim")
               /\ UNCHANGED <<lock, call, key, term, cancelled, expired, ackVars>>
          ELSE ReturnUnsynced(t, key[t], log[f][i].term)
  /\ UNCHANGED <<fileVars, outcomes, worldVars>>

(* The last terminal decides: an interrupted outcome is reconciled with    *)
(* the host, any other one is replayed.                                    *)
ReadTerminal(t) ==
  LET f == FileOf(t)
      o == key[t].op
  IN
  /\ pc[t] = "read"
  /\ call[t] = "execute" =>
       \E i \in 1..Len(log[f]) :
         IsLast(i, Lines(f, o, "claim")) /\ log[f][i].key = key[t]
  /\ \E i \in 1..Len(log[f]) :
       LET line == log[f][i] IN
       /\ IsLast(i, Lines(f, o, "terminal"))
       /\ \/ /\ line.term = "interrupted"
             /\ key' = [key EXCEPT ![t] = line.key]
             /\ term' = [term EXCEPT ![t] = line.term]
             /\ Goto(t, "begin_reconcile")
             /\ UNCHANGED <<lock, call, site, cancelled, expired, ackVars>>
          \/ /\ line.term # "interrupted"
             /\ ReturnUnsynced(t, line.key, line.term)
  /\ UNCHANGED <<fileVars, outcomes, worldVars>>

-----------------------------------------------------------------------------
(* OperationLedger::append: the JSON, the newline, the sync                *)

(* What follows a successful append.                                       *)
AppendDone(t) ==
  \/ /\ site[t] = "claim"
     /\ Goto(t, "begin_new")
     /\ UNCHANGED <<lock, call, key, term, site, cancelled, expired, ackVars>>
  \/ /\ site[t] # "claim"
     /\ ReturnDurable(t)

(* What follows a failed one.  finish_after_effect repairs the tail and    *)
(* tries once more with a weaker terminal, and returns it either way.      *)
AppendFailed(t) ==
  \/ /\ site[t] \in {"claim", "final"}
     /\ ReturnNothing(t)
  \/ /\ site[t] = "effect"
     /\ term' = [term EXCEPT ![t] = PersistenceUnknown(@)]
     /\ Goto(t, "repair_retry")
     /\ UNCHANGED <<lock, call, key, site, cancelled, expired, ackVars>>
  \/ /\ site[t] = "retry"
     /\ ReturnUnsynced(t, key[t], term[t])

(* serde_json::to_writer: until the newline follows, the tail is torn.  On *)
(* a tail that already is torn the new line and the old bytes become one   *)
(* line that does not parse.                                               *)
AppendBody(t) ==
  LET f == FileOf(t) IN
  /\ pc[t] = "append"
  /\ torn' = [torn EXCEPT ![f] = TRUE]
  /\ corrupt' = [corrupt EXCEPT ![f] = @ \/ torn[f]]
  /\ Goto(t, "newline")
  /\ UNCHANGED <<log, synced, lock, outcomes, call, key, term, site, cancelled,
                 expired, worldVars, ackVars>>

AppendBodyFails(t) ==
  /\ pc[t] = "append" /\ "io" \in Faults
  /\ \E tail \in {torn[FileOf(t)], TRUE} :
       torn' = [torn EXCEPT ![FileOf(t)] = tail]
  /\ AppendFailed(t)
  /\ UNCHANGED <<log, synced, corrupt, outcomes, worldVars>>

AppendNewline(t) ==
  LET f == FileOf(t) IN
  /\ pc[t] = "newline"
  /\ log' = IF corrupt[f] THEN log ELSE [log EXCEPT ![f] = Append(@, Line(t))]
  /\ torn' = [torn EXCEPT ![f] = FALSE]
  /\ Goto(t, "sync")
  /\ UNCHANGED <<synced, corrupt, lock, outcomes, call, key, term, site,
                 cancelled, expired, worldVars, ackVars>>

AppendNewlineFails(t) ==
  /\ pc[t] = "newline" /\ "io" \in Faults
  /\ AppendFailed(t)
  /\ UNCHANGED <<fileVars, outcomes, worldVars>>

(* Mutant of AppendSync: the line is not synced.                           *)
SkipSync(t) ==
  /\ pc[t] = "sync"
  /\ AppendDone(t)
  /\ UNCHANGED <<fileVars, outcomes, worldVars>>

AppendSync(t) ==
  /\ pc[t] = "sync"
  /\ synced' = [synced EXCEPT ![FileOf(t)] = Len(log[FileOf(t)])]
  /\ AppendDone(t)
  /\ UNCHANGED <<log, torn, corrupt, outcomes, worldVars>>

AppendSyncFails(t) ==
  /\ pc[t] = "sync" /\ "io" \in Faults
  /\ AppendFailed(t)
  /\ UNCHANGED <<fileVars, outcomes, worldVars>>

(* Mutant of RepairRetry: the second attempt does not repair the tail.     *)
RetryUnrepaired(t) ==
  /\ pc[t] = "repair_retry"
  /\ StartAppend(t, "retry")
  /\ UNCHANGED <<fileVars, lock, outcomes, call, key, term, cancelled, expired,
                 worldVars, ackVars>>

(* The second half of finish_after_effect.                                 *)
RepairRetry(t) ==
  /\ pc[t] = "repair_retry"
  /\ UNCHANGED <<outcomes, worldVars>>
  /\ \/ /\ Repaired(FileOf(t))
        /\ StartAppend(t, "retry")
        /\ UNCHANGED <<lock, call, key, term, cancelled, expired, ackVars>>
     \/ /\ RepairFails(FileOf(t))
        /\ ReturnUnsynced(t, key[t], term[t])

-----------------------------------------------------------------------------
(* OutcomeLedger::begin                                                    *)

(* A store grants a key it knows nothing of; the null ledger stores        *)
(* nothing.                                                                *)
Grant(t) ==
  outcomes' = IF HostLedger # "null" /\ Held(t) = "absent"
              THEN [outcomes EXCEPT ![StoreOf[ProcessOf[t]]][key[t]] = "granted"]
              ELSE outcomes

(* Mutant of BeginNew: a fresh claim is dispatched whatever the host says. *)
IgnoreDecision(t) ==
  /\ pc[t] = "begin_new"
  /\ Grant(t)
  /\ Goto(t, "capabilities")
  /\ UNCHANGED <<fileVars, lock, call, key, term, site, cancelled, expired,
                 worldVars, ackVars>>

(* For a fresh claim: Dispatch goes on, Recorded and Interrupted end the   *)
(* call without an effect.                                                 *)
BeginNew(t) ==
  /\ pc[t] = "begin_new"
  /\ Grant(t)
  /\ \/ /\ Held(t) = "absent"
        /\ Goto(t, "capabilities")
        /\ UNCHANGED <<term, site>>
     \/ /\ Held(t) # "absent"
        /\ term' = [term EXCEPT ![t] =
                      IF Held(t) \in Terminal THEN Held(t) ELSE "interrupted"]
        /\ StartAppend(t, "final")
  /\ UNCHANGED <<fileVars, lock, call, key, cancelled, expired, worldVars, ackVars>>

(* Mutants of BeginRecovered: the decision is taken for a terminal, or the *)
(* operation for one that never began.                                     *)
RecoverAs(t, z) ==
  /\ pc[t] = "begin_recovered"
  /\ Grant(t)
  /\ term' = [term EXCEPT ![t] = z]
  /\ StartAppend(t, "final")
  /\ UNCHANGED <<fileVars, lock, call, key, cancelled, expired, worldVars, ackVars>>

RecoverAsHeld(t) == RecoverAs(t, Held(t))
RecoverAsCancelled(t) == RecoverAs(t, "cancelled")

(* For a claim that was found without a terminal: never a dispatch, even   *)
(* if the host grants it.                                                  *)
BeginRecovered(t) ==
  /\ pc[t] = "begin_recovered"
  /\ Grant(t)
  /\ term' = [term EXCEPT ![t] =
                IF Held(t) \in Terminal THEN Held(t) ELSE "interrupted"]
  /\ StartAppend(t, "final")
  /\ UNCHANGED <<fileVars, lock, call, key, cancelled, expired, worldVars, ackVars>>

(* reconcile_interrupted: a recorded outcome replaces the interrupted one. *)
BeginReconcile(t) ==
  /\ pc[t] = "begin_reconcile"
  /\ Grant(t)
  /\ \/ /\ Held(t) \in Terminal
        /\ term' = [term EXCEPT ![t] = Held(t)]
        /\ StartAppend(t, "final")
        /\ UNCHANGED <<lock, call, key, cancelled, expired, ackVars>>
     \/ /\ Held(t) \notin Terminal
        /\ ReturnUnsynced(t, key[t], term[t])
  /\ UNCHANGED <<fileVars, worldVars>>

(* The host's ledger answers Err, having granted the key or not.           *)
BeginFails(t) ==
  /\ pc[t] \in {"begin_new", "begin_recovered", "begin_reconcile"}
  /\ HostLedger = "durable" /\ "host" \in Faults
  /\ Grant(t) \/ UNCHANGED outcomes
  /\ ReturnNothing(t)
  /\ UNCHANGED <<fileVars, worldVars>>

-----------------------------------------------------------------------------
(* Before the effect                                                       *)

(* The terminal is known; it goes to the host's ledger and to the file as  *)
(* one after an effect (site "effect") or without one (site "final").      *)
Settle(t, z, s) ==
  /\ term' = [term EXCEPT ![t] = z]
  /\ site' = [site EXCEPT ![t] = s]
  /\ Goto(t, "record")
  /\ UNCHANGED <<fileVars, lock, outcomes, call, key, cancelled, expired,
                 dispatches, ackVars>>

(* finish_early with terminal z.                                           *)
FinishEarly(t, z) == Settle(t, z, "final") /\ UNCHANGED world

(* A step up to the dispatch: the boundary is checked first, then the step *)
(* may refuse the action, and otherwise the next step follows.             *)
Precheck(t, here, next, Refusals) ==
  /\ pc[t] = here
  /\ \/ cancelled[t] /\ FinishEarly(t, "cancelled")
     \/ ~cancelled[t] /\ expired[t] /\ FinishEarly(t, "expired")
     \/ /\ ~cancelled[t] /\ ~expired[t]
        /\ \E z \in Refusals : FinishEarly(t, z)
     \/ /\ ~cancelled[t] /\ ~expired[t]
        /\ Goto(t, next)
        /\ UNCHANGED <<fileVars, lock, outcomes, call, key, term, site,
                       cancelled, expired, worldVars, ackVars>>

(* Session isolation, Executor::capabilities, strict_action_capability and *)
(* the background check.                                                   *)
Capabilities(t) == Precheck(t, "capabilities", "observe", {"rejected", "failed"})

(* observe_with_boundary and resolve_with_boundary, through protocol_failure. *)
Observe(t) == Precheck(t, "observe", "sentinel", {"rejected", "failed"})

(* The last boundary check, and the first context sample of a guarded      *)
(* background request.                                                     *)
Sentinel(t) ==
  Precheck(t, "sentinel", "dispatch",
           IF key[t].hash \in GuardedHash THEN {"rejected"} ELSE {})

-----------------------------------------------------------------------------
(* The effect                                                              *)

(* Executor::dispatch is called; from here on the effect can happen.       *)
Dispatch(t) ==
  /\ pc[t] = "dispatch"
  /\ dispatches' = [dispatches EXCEPT ![FileOf(t)][key[t]] = @ + 1]
  /\ world' = [world EXCEPT ![FileOf(t)][key[t]] =
                 IF @ = "none" THEN "inflight" ELSE @]
  /\ Goto(t, "executing")
  /\ UNCHANGED <<fileVars, lock, outcomes, call, key, term, site, cancelled,
                 expired, ackVars>>

(* The desktop acts, possibly after the caller gave up or died.            *)
Land(f, k) ==
  /\ world[f][k] = "inflight"
  /\ world' = [world EXCEPT ![f][k] = "done"]
  /\ UNCHANGED <<fileVars, lock, outcomes, threadVars, dispatches, ackVars>>

(* Mutant of DispatchUnknown: a call that failed is reported as one        *)
(* without an effect.                                                      *)
UnknownAsFailed(t) ==
  /\ pc[t] = "executing"
  /\ UNCHANGED world
  /\ Settle(t, "failed", "final")

(* dispatch returns Ok: the effect has happened, which ExecutorContract    *)
(* says of every executor, as it does of the next two answers.             *)
DispatchOk(t) ==
  /\ pc[t] = "executing"
  /\ world[FileOf(t)][key[t]] = "done"
  /\ UNCHANGED world
  /\ \/ /\ cancelled[t] \/ expired[t]
        /\ Settle(t, "uncertain", "effect")
     \/ /\ ~cancelled[t] /\ ~expired[t]
        /\ Goto(t, "verify")
        /\ UNCHANGED <<fileVars, lock, outcomes, call, key, term, site,
                       cancelled, expired, dispatches, ackVars>>

(* dispatch returns EffectKnowledge::Unknown: it may yet happen.           *)
DispatchUnknown(t) ==
  /\ pc[t] = "executing"
  /\ UNCHANGED world
  /\ Settle(t, "uncertain", "effect")

(* dispatch returns any other error: there is no effect, by the executor's *)
(* contract.  NoEffect is reported as the boundary if one was reached.     *)
DispatchRefused(t) ==
  /\ pc[t] = "executing"
  /\ world[FileOf(t)][key[t]] = "inflight"
  /\ world' = [world EXCEPT ![FileOf(t)][key[t]] = "none"]
  /\ \/ Settle(t, "cancelled", "final")
     \/ Settle(t, "expired", "final")
     \/ ~cancelled[t] /\ ~expired[t] /\ Settle(t, "rejected", "final")

(* The context sample, the observation and the verification after the     *)
(* effect.                                                                 *)
Verify(t) ==
  /\ pc[t] = "verify"
  /\ UNCHANGED world
  /\ \/ /\ cancelled[t] \/ expired[t] \/ key[t].hash \in VerifyHash \union GuardedHash
        /\ Settle(t, "uncertain", "effect")
     \/ /\ ~cancelled[t] /\ ~expired[t]
        /\ Settle(t, IF key[t].hash \in VerifyHash THEN "verified" ELSE "unverified",
                  "effect")

-----------------------------------------------------------------------------
(* After the effect                                                        *)

(* What the store holds once OutcomeLedger::record has written.            *)
Recorded(t) ==
  outcomes' = IF HostLedger = "null" THEN outcomes
              ELSE [outcomes EXCEPT ![StoreOf[ProcessOf[t]]][key[t]] = term[t]]

RecordOutcome(t) ==
  /\ pc[t] = "record"
  /\ Recorded(t)
  /\ Goto(t, "append")
  /\ UNCHANGED <<fileVars, lock, call, key, term, site, cancelled, expired,
                 worldVars, ackVars>>

(* record answers Err, having written or not.                              *)
RecordFails(t) ==
  /\ pc[t] = "record"
  /\ HostLedger = "durable" /\ "host" \in Faults
  /\ Recorded(t) \/ UNCHANGED outcomes
  /\ \/ /\ site[t] = "effect"
        /\ term' = [term EXCEPT ![t] = PersistenceUnknown(@)]
        /\ Goto(t, "append")
        /\ UNCHANGED <<lock, call, key, site, cancelled, expired, ackVars>>
     \/ /\ site[t] = "final"
        /\ ReturnNothing(t)
  /\ UNCHANGED <<fileVars, worldVars>>

-----------------------------------------------------------------------------
(* Faults                                                                  *)

(* The outcome ledgers that live in the processes of P are gone.           *)
ForgetOutcomes(P) ==
  outcomes' = [s \in Store |->
                 IF HostLedger = "memory" /\ \E p \in P : StoreOf[p] = s
                 THEN [k \in Key |-> "absent"] ELSE outcomes[s]]

(* A process is killed.  The kernel keeps its files and drops its locks.   *)
Kill(p) ==
  /\ "kill" \in Faults
  /\ \E t \in Thread : ProcessOf[t] = p /\ pc[t] # "idle"
  /\ Leave({t \in Thread : ProcessOf[t] = p})
  /\ ForgetOutcomes({p})
  /\ UNCHANGED <<fileVars, worldVars, ackVars>>

(* The machine stops.  Of every file some prefix that includes the synced  *)
(* lines survives, and after it the file may end in a part of the first    *)
(* lost line or in a tail whose truncation was not synced.                 *)
Survivors ==
  {cut \in [File -> UNION {synced[f]..Len(log[f]) : f \in File}] :
     \A f \in File : cut[f] \in synced[f]..Len(log[f])}

PowerLoss ==
  /\ "power" \in Faults
  /\ \E t \in Thread : pc[t] # "idle"
  /\ \E cut \in Survivors :
       /\ log' = [f \in File |-> SubSeq(log[f], 1, cut[f])]
       /\ synced' = cut
       /\ torn' \in [File -> BOOLEAN]
       /\ \A f \in File : torn'[f] => torn[f] \/ cut[f] < Len(log[f]) \/ "io" \in Faults
  /\ Leave(Thread)
  /\ ForgetOutcomes(Process)
  /\ world' = [f \in File |-> [k \in Key |->
                 IF world[f][k] = "inflight" THEN "none" ELSE world[f][k]]]
  /\ UNCHANGED <<corrupt, dispatches, ackVars>>

-----------------------------------------------------------------------------

(* The steps of a call that the thread or the executor takes by itself.    *)
Step(t) ==
  \/ Acquire(t) \/ AcquireFails(t) \/ WouldBlock(t) \/ Wake(t) \/ Repair(t)
  \/ ReadNothing(t) \/ ReadConflict(t) \/ ReadClaimOnly(t) \/ ReadTerminal(t)
  \/ AppendBody(t) \/ AppendBodyFails(t) \/ AppendNewline(t)
  \/ AppendNewlineFails(t) \/ AppendSync(t) \/ AppendSyncFails(t)
  \/ RepairRetry(t)
  \/ BeginNew(t) \/ BeginRecovered(t) \/ BeginReconcile(t) \/ BeginFails(t)
  \/ Capabilities(t) \/ Observe(t) \/ Sentinel(t)
  \/ Dispatch(t) \/ DispatchOk(t) \/ DispatchUnknown(t) \/ DispatchRefused(t)
  \/ Verify(t) \/ RecordOutcome(t) \/ RecordFails(t)

Next ==
  \/ \E t \in Thread :
       \/ \E k \in Key : Execute(t, k)
       \/ \E o \in Op : Status(t, o)
       \/ Cancel(t) \/ Expire(t) \/ Step(t)
  \/ \E f \in File, k \in Key : Land(f, k)
  \/ \E p \in Process : Kill(p)
  \/ PowerLoss

Spec == Init /\ [][Next]_vars

(* Threads run, executors return and time passes.  Nothing is assumed of   *)
(* callers, of the desktop, or of who gets the lock next.                  *)
Fairness == \A t \in Thread : WF_vars(Step(t)) /\ WF_vars(Expire(t))

FairSpec == Spec /\ Fairness

-----------------------------------------------------------------------------
(* Properties                                                              *)

(* An operation id is dispatched at most once through one ledger file,     *)
(* whatever is retried, recovered, killed or lost, and whatever hashes it  *)
(* is presented with: the durable at-most-once dispatch of execute.        *)
AtMostOncePerLedger ==
  \A f \in File, k1, k2 \in Key :
    /\ dispatches[f][k1] <= 1
    /\ (k1.op = k2.op /\ dispatches[f][k1] > 0 /\ dispatches[f][k2] > 0) => k1 = k2

(* With a durable outcome ledger that all processes share, a key is        *)
(* dispatched at most once even across ledger files: OutcomeLedger::begin  *)
(* grants it once.                                                         *)
AtMostOncePerKey ==
  (HostLedger = "durable" /\ \A p, q \in Process : StoreOf[p] = StoreOf[q]) =>
    \A f, g \in File, k \in Key :
      (dispatches[f][k] > 0 /\ dispatches[g][k] > 0) => f = g

(* A dispatched operation has a claim that a reader of the ledger finds,   *)
(* so that status never answers None for something that may have run.      *)
DispatchIsClaimed ==
  \A f \in File, k \in Key :
    dispatches[f][k] > 0 => \E i \in 1..Len(log[f]) : log[f][i] = Claim(k)

(* The ledger files whose callers share outcomes: terminals flow between   *)
(* files only through a durable outcome ledger.                            *)
Scope(f) ==
  {f} \union {g \in File :
    HostLedger = "durable" /\ \E p, q \in Process :
      LedgerOf[p] = f /\ LedgerOf[q] = g /\ StoreOf[p] = StoreOf[q]}

(* A caller that is told a terminal without an effect is told the truth    *)
(* for good: the effect has not happened and will not, though the call may *)
(* be repeated, recovered or reconciled later, through this file or one    *)
(* that shares outcomes with it.  A caller that is told Succeeded is told  *)
(* of an effect that happened.  Two callers that are told known terminals  *)
(* are told the same one: replay and reconciliation never contradict what  *)
(* was said.                                                               *)
TruthfulTerminals ==
  \A f \in File, k \in Key :
    /\ told[f][k] \cap NoEffect # {} => \A g \in Scope(f) : world[g][k] = "none"
    /\ told[f][k] \cap Success # {} => \E g \in Scope(f) : world[g][k] = "done"
    /\ \A g \in Scope(f), y, z \in Terminal \ Unknown :
         (y \in told[f][k] /\ z \in told[g][k]) => y = z

(* A known terminal that was written before it was returned is what every  *)
(* later reader of the ledger finds, also after a power loss: the last     *)
(* terminal line of its operation, within the synced part of the file.     *)
KnownStaysKnown ==
  \A f \in File, k \in Key :
    \A z \in acked[f][k] \ Unknown :
      \E i \in 1..synced[f] :
        /\ log[f][i] = Finish(k, z)
        /\ IsLast(i, Lines(f, k.op, "terminal"))

(* No write path appends to a torn tail: repair_tail runs between a failed *)
(* append and the next one, so the ledger never fails closed on a line of  *)
(* its own making.                                                         *)
NeverCorrupt == \A f \in File : ~corrupt[f]

(* Status and replay return a terminal that is durable: whoever is told a  *)
(* known terminal can find it in the ledger from then on.                  *)
ToldIsDurable ==
  \A f \in File, k \in Key :
    \A z \in told[f][k] \ Unknown :
      \E i \in 1..Len(log[f]) : log[f][i] = Finish(k, z)

(* The outcome ledger and the file never hold two known terminals that     *)
(* differ for one key.                                                     *)
HostAgrees ==
  \A f \in File, p \in Process, k \in Key, z \in Terminal \ Unknown :
    LET held == outcomes[StoreOf[p]][k] IN
    (LedgerOf[p] = f /\ held \in Terminal \ Unknown
       /\ \E i \in 1..Len(log[f]) : log[f][i] = Finish(k, z)) => held = z

(* The steps a call has left at a label: those of the append it is in,     *)
(* after which there may be more, and those up to it.                      *)
StepsLeft(label, s) ==
  LET after == CASE s = "claim" -> 15 [] s = "effect" -> 4 [] OTHER -> 0
  IN CASE label = "idle" -> 0
       [] label = "sync" -> after + 1
       [] label = "newline" -> after + 2
       [] label = "append" -> after + 3
       [] label = "record" -> after + 4
       [] label = "repair_retry" -> 4
       [] label = "verify" -> 9
       [] label = "executing" -> 10
       [] label = "dispatch" -> 11
       [] label = "sentinel" -> 12
       [] label = "observe" -> 13
       [] label = "capabilities" -> 14
       [] label \in {"begin_new", "begin_recovered", "begin_reconcile"} -> 15
       [] label = "read" -> 19
       [] label = "repair" -> 20
       [] label \in {"lock", "wait"} -> 21

(* Every step of a call brings it nearer to its return, whatever fails: no *)
(* append is tried more than twice, and nothing is begun again.  The only  *)
(* exception is the wait for the lock, which goes on only while another    *)
(* call has the lock and the boundary is not reached.  With HoldersWork    *)
(* this is why execute returns, as far as a safety property can say it.    *)
StepsCount ==
  [][\A t \in Thread : pc[t] # "idle" /\ pc'[t] # pc[t] =>
       \/ StepsLeft(pc'[t], site'[t]) \in 0..StepsLeft(pc[t], site[t]) - 1
       \/ pc[t] = "lock" /\ pc'[t] = "wait" /\ lock[FileOf(t)] \notin {None, t}
       \/ pc[t] = "wait" /\ pc'[t] = "lock" /\ ~cancelled[t] /\ ~expired[t]]_vars

(* Nobody waits for a lock that will not be released: whoever has the lock *)
(* of a ledger file is a call on that file which is at work, and waits for *)
(* no other lock.  Killed and failed calls leave none behind.              *)
HoldersWork ==
  \A f \in File : lock[f] # None =>
    /\ FileOf(lock[f]) = f
    /\ pc[lock[f]] \in ProgramCounter \ {"idle", "lock", "wait"}

(* Seen from its callers, execute is the atomic engine of AtMostOnce: no   *)
(* lock, ledger line, retry, kill or power loss shows, except as an        *)
(* unknown outcome.  Not so where outcomes of one ledger file reach the    *)
(* callers of another through a durable outcome ledger.                    *)
Promise == INSTANCE AtMostOnce WITH
  dispatched <- [f \in File |-> [k \in Key |-> dispatches[f][k] > 0]],
  effect <- world

KeepsPromise == Promise!Spec

(* Every call of execute returns: the wait for the lock ends at the        *)
(* deadline at the latest, and nothing after it waits for another call.    *)
ExecuteReturns ==
  \A t \in Thread :
    (pc[t] # "idle" /\ call[t] = "execute") ~> pc[t] = "idle"

=============================================================================
