# Formal models of praefectus

praefectus executes one computer-use action at a time on behalf of a host:
it validates and authorises a request, claims it in a ledger file, acts on the
desktop or on a browser page, verifies what happened, and answers with exactly
one terminal acknowledgement. Its promises are about what can be *said*
afterwards: an operation is never dispatched twice, "no effect" is said only of
what has not happened and never will, "verified" only of what was seen, and
whatever is in doubt is `outcome_unknown`. The modules in this directory state
these promises and check them against models of the code, from the model's tool
call down to single input events; the theorems hold for instances of every size.

All source references are to `src/src/lib.rs` unless another file is named.

## 1. Inventory

### The parts and how they interact

```
 model ── tool call ──> Hermes / OpenClaw plugin ── request ──> bridge process of the host
 user  ── command line (one-shot execute, status, capabilities) ──┐    │
 host  ── execute / execute_batch / status / cancel ──────────────┴─> Engine ──> OutcomeLedger
                                        │  │
                     claim, finish,     │  │ capabilities, observe, resolve,
                     status, lock       │  │ dispatch
                                        v  v
                           OperationLedger  Executor: NativeExecutor | CdpExecutor
                           (files)                     │                   │
                                          macOS AX, Windows UIA,     TungsteniteChannel
                                          Linux AT-SPI, input          (browser)
                                                       │
                             state directory: observations, input policy (no-yolo)
```

| Component | Source | State | Operations | What is hard | What makes it correct |
|---|---|---|---|---|---|
| Engine | 4389-4840 | none of its own: ledger, outcome ledger, desktop | `execute`, `status`, `CancellationToken::cancel` | crashes between claim, effect and terminal; cancellation and deadline at every step; several processes | at most one dispatch per operation; truthful, stable terminals; every call returns |
| `execute_batch` | 4816-4840 | the acknowledgements so far | one batch | an action that was dispatched and not verified | nothing is begun on top of an unverified action |
| OperationLedger | 6585-7084, 8050-8066 | ledger, lock file, trajectory, trajectory lock | `claim`, `finish`, `finish_after_effect`, `status`, `reconcile_interrupted`, `repair_tail`, `append`, `trajectory` | torn writes, failed syncs, power loss, creation of files, contended lock | a durable claim precedes each dispatch; the file always stays readable; the trajectory follows the ledger |
| OutcomeLedger | 4156-4260 | what the host knows of an outcome key | `begin`, `record` | failures of the host; a memory ledger dies with its process | one grant per key; agrees with the file |
| RequestGate | 4256-4336, 7086-7399 | none | validation of a request, grant and signature, canonical hash | a grant that expires before or after the deadline | nothing invalid gets to the claim; no success after the grant |
| Verification, context, receipts | 4855-4949, 7435-7498, 8085-8190 | none | comparison of observations, receipts, context samples | absent or moved targets; the user and the effect move the focus | verified only if the expectation held |
| ObservationStore | 7590-8235 | persisted coordinate and element observations | store, load, expire | concurrent writers, kills, power loss | a target that was handed out can be resolved later |
| Input policy file | 1136-1250 | a file that is there or not | `persist_no_yolo_at`, `persistent_no_yolo` | two processes, kills, power loss | a restriction that was confirmed lasts |
| CdpExecutor, TungsteniteChannel | `cdp.rs` | WebSocket, command ids, generation counter, latest observation | observe, read, invoke, set_value, scroll | late answers, navigation between commands, threads on one channel | outcome truthful; effect only in the observed document |
| Input synthesis | 1057-2220, 5286-6500, `linux_input.rs` | pressed keys | click, move, drag, scroll, press, type_text, hotkey, paste, commands of macOS | interruption between events, events that fail or are refused | outcome truthful; input stops soon; nothing stays pressed |
| NativeExecutor on macOS | 4951-6258, 8236-8390, `macos_capture.rs` | observed elements | invoke, set_value, select_text, secondary action, AX scroll | the tree changes between observation and effect | effect only on the recorded element |
| Linux AT-SPI | `linux_atspi.rs` | generations, bus connection | observe, invoke, set_value | bounded traversal, timeouts | as above |
| Windows UIA | `windows_uia.rs`, `windows_capture.rs` | worker thread | observe, invoke, set_value | worker that hangs | as above |
| Windows private state | `windows_acl.rs` | directories, lock of the initialisation | create, restrict, lock, sync | concurrent processes, kills between creation and restriction | a directory in the making is not taken for a foreign one |
| Semantic observations | `semantic.rs` | none | `validate`, `target`, `resolve`, `route_action` | forests that are none; observations that replace each other and expire | what is found is what was named |
| CLI | `main.rs` | none | one-shot `execute`, `observe`, `status`, `capabilities` | | what it prints is what the engine said |
| Plugins | `plugins/hermes`, `plugins/openclaw` | none | the tools execute, status, capabilities | timeouts of a child process; two more programs that judge receipts | a lost answer is reported as unsafe to retry; no outcome is hidden |

### Hard behaviours

`PROJECT.json` lists them as hazards at the lines where they bite. In short:
a process that dies between the durable claim and the durable terminal; torn
lines and syncs that fail; the second attempt to write a terminal after an
effect; two engines that share only an outcome ledger; cancellation after the
effect; a caller that gives up while its engine goes on; a grant that expires
on the way; answers of the browser that come after their command has timed out;
navigation between the last check and the effect; elements that change while they
are observed, found again or verified; observations that are numbered and stored
in different orders; directories that are half made while another process needs
them; input that is interrupted, refused or fails between two events; receipts
that one program writes and another refuses.

## 2. Modules

| Module | Models | Used with |
|---|---|---|
| `Engine` | `Engine::execute` and `status`, `OperationLedger`, the three outcome ledgers, the executor seen from the engine | `MCEngine`, four configurations |
| `AtMostOnce` | what the engine promises its callers, as an atomic abstract specification | instantiated by `Engine` (`Promise`) |
| `ExecutorContract` | what an executor promises the engine of its dispatches, as an abstract specification | instantiated by `Cdp`, `Accessibility` and `NativeInput` (`Contract`) |
| `EngineProofs` | theorems about dispatch, claims and known terminals in `Engine`, and their proofs | `Engine`, `TLAPS` |
| `EngineTruth` | the proofs that terminals are true and agree, and that `Engine` implements `AtMostOnce` | `EngineProofs` |
| `LedgerFiles` | creation, directory entries and power loss of the four files of a ledger, and the trajectory | extended by `StateFiles`; one configuration of its own |
| `StateFiles` | the other files: persisted observations, the input policy, and their directories on unix and Windows | `MCFiles`, one configuration |
| `FilesProofs` | theorems about `LedgerFiles` and `StateFiles` and their proofs | `StateFiles`, `TLAPS` |
| `Receipts` | routes, capability facts, receipts, and who accepts which: engine, plugins, command line | extended by `Bridge` |
| `Bridge` | the callers of the engine (plugins, command line, batch) with the terminals, verification and context that `Engine` leaves out | `MCBridge`, one configuration |
| `BridgeProofs` | theorems about `Bridge` and their proofs | `Bridge`, `TLAPS` |
| `BridgeTruth` | the proofs that what callers are told is true, was granted and seen, and reaches them | `BridgeProofs` |
| `Cdp` | the browser backend: channel, observation, dispatch | composed by `Pages` |
| `Semantic` | what a reader of observations finds in them | composed by `Pages` |
| `Pages` | `Cdp`, which makes observations of pages, beside `Semantic`, which reads observations | `MCCdp`, one configuration |
| `PagesProofs` | theorems about `Cdp` and `Semantic` and their proofs | `Pages`, `TLAPS` |
| `NativeInput` | synthesised input on macOS, Windows, X11 and the desktop portal | two configurations |
| `InputProofs` | theorems about `NativeInput` and their proofs | `NativeInput`, `TLAPS` |
| `Accessibility` | observation of, resolution of and effects on elements through AX, UI Automation and AT-SPI | `MCAccessibility`, two configurations |
| `AccessibilityProofs` | theorems about `Accessibility` and their proofs | `Accessibility`, `TLAPS` |

The engine is modelled twice, at two distances. `Engine` has every line of the
ledger file and every fault, and takes a terminal as little more than its
variant; `Bridge` keeps of the ledger only the last claim and terminal of an
operation, and has what `Engine` abstracts: who calls, what was asked for, what
the desktop looked like, and what the receipt says.

### Engine

A thread runs `execute` or `status` step by step; its program counter names the
code it is in: `lock`/`wait` are `acquire_ledger_lock`, `repair` is
`repair_tail`, `read` the loop over the records in `claim` and `status`,
`append`/`newline`/`sync` the three calls of `OperationLedger::append`,
`begin_*` the three places that call `OutcomeLedger::begin`, `capabilities`,
`observe` and `sentinel` the steps up to the dispatch with the check of
cancellation and deadline that precedes each, `dispatch`/`executing` the call of
the executor, `verify` everything between its Ok and the terminal, `record` the
call of `record_outcome`, and `repair_retry` the second half of
`finish_after_effect`.

The ledger file is a sequence of complete lines (`log`), of which a prefix is on
the disk (`synced`), and may end in bytes without a newline (`torn`). Bytes
written after a torn tail make a line that does not parse (`corrupt`). Every
write, sync and truncation may fail, with or without having happened. A power
loss keeps some prefix that contains the synced one. `Kill` ends the threads of
one process, whose locks the kernel drops. The desktop carries out a dispatched
action at some time (`Land`), also after the call that asked for it has ended.

What is abstracted: a request is its operation id and the hash of everything
else; a terminal is its variant, and for `OutcomeUnknown` which of its three
origins it has, because `reconcile_interrupted` looks for the interrupted
message; validation and authority come before the first step; what an
observation, a capability query or a verification finds is a free choice
(`Bridge` computes it).

Assumed of an executor, because its trait and `EffectKnowledge` say so: Ok means that
the effect has happened, `EffectKnowledge::Unknown` that it may have or may yet happen,
every other error that it has not and will not. `ExecutorContract` states this, and
the three models of executors are proved to implement it (section 4), with two
exceptions: the scroll of AX (section 3), and the success of input whose failed events
are ignored, which says only that the call is over (`ExecutorContract` below). The clock is
taken to be monotone.

### AtMostOnce

No locks, lines or crashes: an operation may be dispatched if it was not and
nobody was told how it ended; an answer "no effect" is possible only if there is
none and none is on its way, "success" only after the effect, and known answers
agree. `Engine` maps `dispatched` to its dispatch counters and `effect` to
`world`; all other steps stutter.

### ExecutorContract

No providers, channels or boundaries: a call of `dispatch` touches the desktop any
number of times, before it returns or after, and tells the engine once what it knows,
"ok" (a `DispatchReceipt`), "none" (a `DispatchError` with `NoEffect`,
`CancelledBeforeEffect` or `ExpiredBeforeEffect`) or "unknown". After "none" it never
touches anything, and "ok" is told only of what it has touched. These are the guards of
`DispatchOk` and `DispatchRefused` in `Engine` and of their counterparts in `Bridge`.
`Cdp` and `Accessibility` map `touched` to the calls with an effect and `told` to the
answers of calls that act; calls that only observe or read change neither.
`NativeInput` maps them to its one call, which has touched the desktop once an event was
posted; the step that posts the last event also ends the call, hence `Tell` may touch.
A success where failures of events are ignored is mapped to "unknown", because it says
no more.

### LedgerFiles

`Engine` takes the ledger file to exist. `LedgerFiles` starts with an empty
directory: each of the lock file, the ledger, the trajectory's lock and the
trajectory is created by the first call that needs it, and the entry of a new
file is on the disk only after `sync_parent`. A call is a sequence of tasks
(take the lock, append the claim, append to the trajectory, ...), each of which
goes through `open`, `write`, `sync` and `entry`. There is one caller, because
the lock lets one call in at a time; a killed process is followed by another.
Torn tails and outcome ledgers are left to `Engine`.

### StateFiles

A process persists an observation (`persist_observation`: `Fill`, `SyncContent`,
`Rename`, `Settle`), restricts global input or lifts the restriction
(`persist_no_yolo_at`: `Found`, `Place`, `Remove`, `Settle`); before that,
`ensure_directory` looks for its directories (`Look`), makes what is missing
(`Make`), sets its permissions (`Restrict`) and syncs the directory around it
(`Enter`). On Windows `initialize_managed_state` does this under a lock of its
own (`Wait`, `Again`). Nothing else is locked, so that the processes meet at every
step. A name that was created or removed may or may not survive a power loss
(`survives`) until the directory that has it is synced; a directory that survives
may come back without its permissions. `Breaks` is a step that fails and a process
that is killed alike: what was done stays. A directory is private or not; access
control lists themselves are not modelled. On Windows the sync of a directory
writes and flushes a file in it, and NTFS, whose log is in order, is assumed to
have written everything before that.

`FilesSpec` puts both together: a behaviour is about the ledgers or about the
other files (`part`), which share no state.

### Receipts and Bridge

`Receipts` is without state. It says which delivery route a request, a claim and
an executor have (`RequestRoute`, `ClaimRoute`, `Facts`), what receipt the engine
writes in doubt (`EmptyReceipt`, `RecoveredUnknown`, `InterruptedAck`), which
requests it validates (`Validates`), and, from the sources of the two plugins, which
requests they forward and which acknowledgements and capabilities they accept. The
two plugins agree in most of that and differ in some, which the operators keep
apart (`HermesReceipt` and `OpenClawReceipt`, and so on).

`Bridge` composes these rules with the calls. A setup names the client, the
platform, the isolation, what may be asked for, and three circumstances: whether
accessibility is permitted, whether the ledger has a claim of an older version, and
whether the engine runs in a child of the bridge process. A call goes from `gate`
(validation and grant) through `lock`, `read` (claim, replay or recovery),
`prepare` (deadline, isolation, capability, first observation), `context` (first
sample), `dispatch` and `executing`, `returned` (second sample), `after` (second
observation and verification) to the terminal and back to the caller, who judges
the answer (`Judge`, `Show`). `GiveUp` is a plugin whose 30 s are over or whose
process failed; it kills the process group, which on Windows does not reach an
engine in a child. `Crash` ends the engine anywhere, an append may fail with the
line in the file, `Tick` makes the deadline or the grant expire, `Change` is the
user or another program, and `Land` the effect, which may disturb the focus and
comes whether or not anybody still waits. `held` remembers of each effect whether
its target has had the wanted value since.

The bridge process is code of the host; it is modelled as what the plugins need of
it: it adds identity and authority, calls the engine and prints the answer.

### Cdp

Each operation is a fixed sequence of commands (`Program`); every command is sent
and its answer read under the mutex of the channel. The browser takes commands
off the wire in order, at any time, and the page changes between them: it
navigates, the target changes its role or name, its geometry changes, or it
becomes or stops being actionable. The id check of `cdp_command_result`, the
late answers that stay behind after a timeout, the rules of `effect_command` for
what is reported after a failure, the numbering of an observation and its storing
in two steps, and the lookup of a target in the stored observation are as in the
code. `Refuse` stands for everything that ends a call before its next command: a
cancelled token, the deadline, `verify_process`, a request that was not sent. A
browser that exits is one that obeys no more commands.

### Semantic

A reader is handed observations, of its own or as text from somewhere
(`observe` and `execute` of the command line), so that `Given` includes lists
that no observation of praefectus has: circles of parents, missing parents,
duplicate tags and identifiers; its times may lie in the future or too far apart,
and it may claim the identity of the one before (`number` is what
`provenance_hash` covers, and the elements are not covered). The reader makes a
target of an element (`Point`) and asks later, perhaps in another observation, for
that element or for a route to it (`Ask`). `Validate`, `BuildMapping`, `Resolve` and
`Route` compute what the code computes; elements that are malformed by themselves
are left out.

### NativeInput

An action is a sequence of units, the parts between which
`check_partial_dispatch` and its like are called (one click of several, one chunk
of a text, one step of a drag); a unit is a sequence of strokes, whose remaining
events are lost when one of them fails; a stroke is a sequence of events. The
definitions `Click`, `Chord`, `Chunk`, `Clear`, `Paste`, `Scroll` say what each
backend posts, and `Strict` whose failure ends the action and whose is ignored.
`BeginCommand` starts a command of `dispatch_auxiliary` on macOS, which neither asks
for capabilities nor reads the policy. While the action goes on, the token may be
cancelled or the deadline pass (one flag: the code treats them alike after the
first event), another process may change the policy on global input, and events may
fail; over X11 and the portal a failed event may have been posted all the same.

### Accessibility

One module models the three accessibility backends, because they differ only in
which looks they take and in which order. A call goes through a sequence of named
steps (`Atspi`, `Uia`, `Ax`), each a look at the desktop or at a recorded
observation: `lock` is the mutex of `NativeExecutor::linux_atspi`, `load` the
memory or the private file, `display` and `window` the comparison with the recorded
geometry, process and window, `place` the way to the element (validate_live_descendant,
resolve_runtime_path, mac_element_at_path), `face` the fingerprint, `allowed` the
recorded actionability, `ready` and `actions` the live one, `focus` and `named` the
focused target, and `perform` the request to the provider. The desktop may change
between any two steps, Praefectus may restart, and a provider may obey at any time
after the request, also when the call has given up; it may answer with an error or
FALSE whether it obeyed or not. `Refuse` stands for cancellation, the deadline, the
expiry of an observation and every failure of a provider.

What is abstracted: the desktop is one target element and what surrounds it; each
aspect (display geometry, process, window, place, fingerprint, action list) has
versions, numbered as they come, and `Looks` says what each version looks like. The
code compares hashes, bounds and titles by value (`linux_atspi.rs` 855, 968, 1040;
`windows_uia.rs` 775, 789), so the model's comparisons only ask whether two versions
look `Alike`, and an aspect that changes and changes back is taken for the old one.
The properties speak of the versions, which no look can see.
The id of an observation is the number of the call that made it: the code hashes
a generation counter with time and process. The traversal of a tree, its budgets
and the search for a second element with the same fingerprint are left out, as are
cloaked windows and the value of an element. AX is known to have weaker checks in
two places, which the properties name: it does not compare the displays and the
window again after it has read the tree (`SameBeforeAndAfter`), and its fingerprint does
not cover the actions (`StaleIsNoticed`).

## 3. What the runs check

| Run | Question | Answer |
|---|---|---|
| `engine_crash` | Two processes, one ledger file, no outcome ledger; I/O errors, kills and power loss at every step | One dispatch per operation; its claim is in the file; terminals are truthful and agree; a known terminal that was made durable before it was returned is found ever after; the file never becomes unreadable |
| `engine_host` | Two processes with a file each and one durable outcome ledger that may fail | One dispatch per key over both files; their terminals agree with the outcome ledger, and so with each other |
| `engine_memory` | Two threads of one process with a `MemoryOutcomeLedger`, which dies with the process; I/O errors and kills, fair scheduling | `Engine` implements `AtMostOnce`; every `execute` returns, because the wait for the lock ends at the deadline at the latest |
| `engine_status` | Is what `status` and replay return durable? | No, see finding 2 |
| `files` | Ledgers: creation and writing of the four files, either with I/O errors and kills while the machine stays up, or with power loss and no other failure. Other files: two processes, every fault at every step | At-most-once dispatch holds, and the trajectory follows the ledger in order (`TrajectoryFollowsLedger`); what a call has confirmed lasts (`ConfirmedLasts`); a directory is refused only if an interrupted call left it or the umask lets the group write (`RefusedAfterCrash`) |
| `files_lost` | Failures of the ledger followed by a power loss | At-most-once does not hold, see finding 1 |
| `bridge` | Two calls of each client, with timeouts, crashes, errors of the ledger, expiry and a desktop that changes | What callers are told is true, also about whether a retry is safe (`ToldIsTrue`); success is what was granted, in time and undisturbed (`SuccessIsGranted`); verified means seen, and a batch goes on only then (`VerifiedWasSeen`); plugins refuse no outcome but those named in section 6 (`OutcomesAreTold`) and forward only valid requests (`ForwardedIsValid`); no abandoned call dispatches (`DispatchIsAwaited`); the lock is freed by the plugins' timers (`LockIsFreed`) |
| `cdp` | Three calls of two threads, any of the five operations, and a page that changes at any point; answers come late or never. A reader of observations, good and bad ones | Outcomes are truthful, effects stay in the document the target was taken from, observations do not mix documents, the backend implements `ExecutorContract` (`KeepsContract`), and no call depends on an answer to go on (`NobodyIsStuck`); readers find exactly what was named (`FoundIsNamed`), and only in forests (`OnlyForests`) |
| `native_input` | Every action and backend with interruption, policy changes and failing events | "No effect" is true, and success of strictly checked actions is complete (`TruthfulOutcomes`); at most one more unit follows an interruption; nothing stays pressed |
| `native_policy` | Is a refusal by the policy always reported as no effect? | No, see finding 3 |
| `accessibility` | Two threads, each operation of each accessibility backend, up to two changes of the desktop or restarts at any point, of which the second can undo the first; providers that answer late, wrongly or never | Outcomes are truthful; what changed before a call began and stays changed is noticed before its effect (`StaleIsNoticed`); displays, process and window looked as an observation says both before and after its fingerprint was taken (`SameBeforeAndAfter`); targets are refused only for a reason, also after later observations and restarts; the lock is released (in `TypeOK`) |
| `accessibility_keys` | Are keys for the focused element of an observation accepted while nothing changes? | No, on Linux and Windows never, see finding 4 |

Every property of a passing run is broken by a mutant of a mapped definition
(the definitions whose comment says "Mutant of"), each a plausible slip in the
code: a dropped sync, a retry without repair, a recovered claim that is started
again, a grant whose expiry is looked at once, a timeout that keeps the channel, a
circle of parents that only the smallest is noticed of, an off-by-one in what
counts as partial.

### Bounds, and why they are enough

* Engine: two threads or processes, one operation id, two hashes where conflicts
  matter. Lock, claim and recovery concern two parties and one operation:
  different operations interact only through the lock and the order of lines,
  and a third caller finds what a second left behind. Calls are not bounded, so
  recovery of a recovery is covered; nor are faults. The ledger cannot grow
  beyond a claim and the terminals that reconciliation can add. `EngineProofs`
  and `EngineTruth` remove the bounds for every safety property and for the
  refinement. `engine_memory`, which checks
  liveness and the refinement, has one hash; conflicts are in `engine_crash`.
* LedgerFiles: two operations, because the first creates the files and the second
  relies on them. Calls and faults are not bounded. `Scenarios` says which faults
  come together: finding 1 is what happens when a failure precedes a power loss.
  `FilesProofs` has any number of operations.
* StateFiles: two processes, since whatever is half done is half done by one and
  found by another, and a killed process is followed by a new call of the same
  name; two observations, so that one can be persisted while another has been
  issued; three systems. Calls that fail and power losses are not bounded, but an
  observation is issued once. `FilesProofs` has any number of processes and
  observations.
* Bridge: `MaxCalls` = 2, a call and one that finds what it left: for a plugin the
  same operation again or a query of it, for the command line and a batch another
  operation. Eight setups: each client, each platform, both isolations and an unknown
  one, and the circumstances named above; `changes` = 1 where the desktop is
  verified against without a plugin (each doubles the run), otherwise the effects are
  the only changes. Only one of deadline and grant expires; the code looks at the
  earlier of the two. `BridgeProofs` and
  `BridgeTruth` remove all of these bounds for every property but `LockIsFreed`.
* Cdp: `MaxCalls` = 3, an observation and two calls that depend on it, the first
  of which can leave a late answer behind; `MaxChanges` = 1. Documents, roles and
  views never return to an earlier value, so a second change can only make more
  comparisons fail; a target that stops being actionable and becomes so again is
  tested once more by the effect function itself. With `MaxChanges` = 2 and without
  `read` the run of `Cdp` alone has 5.7 million states and the same result.
  `PagesProofs` removes these bounds for every property.
* Semantic: `Age` = 1 and three moments, so that an observation can be yet to come,
  good, and stale; two observations, the one a target was made of and another. The
  lists have up to three elements, which is what a circle needs that an element leads
  into without being part of it. `PagesProofs` has any lists, times and number of
  observations, and lists of any length.
* NativeInput: one call at a time. `MaxCount` = 2 units distinguish the first,
  whose interruption is no effect, from the next, whose interruption is unknown.
  `DragSteps` = 2 stands for the 24 steps of a drag. A chunk of a text is one
  plain and one shifted character. `MaxFlips` = 2 lets the policy be restricted
  and lifted again. `InputProofs` removes the bounds for every property.
* Accessibility: `MaxCalls` = 3, an observation, a second observation that replaces
  it in memory, and a call that depends on the first; or an observation and two
  calls that act on its target. `MaxChanges` = 2, and the second change of an aspect
  looks as before the first (`Undone`), so that something changes and is back
  between two looks; a process, known by its start time, does not come back.
  `MaxEvents` = 4 bounds both together: three calls with one change between them, or
  two, an observation and what is done with it, with two changes. That is enough for
  a change and its return to fall on both sides of a fingerprint: with it, the claim
  that an observation describes one moment is violated, which is why
  `SameBeforeAndAfter` does not make it. The run has 870,000 states; `MaxEvents` = 5
  takes too long. It leaves out the keys of AT-SPI and UIA (finding 4), `set_value`
  of AX, which takes the steps of `invoke`, and `scroll` of AX:
  `mac_semantic_scroll` (8256) reports no effect when the first
  AXUIElementPerformAction fails or times out, although the application may have
  scrolled or still may, and with it `TruthfulOutcomes` fails. `AccessibilityProofs`
  removes the bounds, and restores what the run leaves out wherever a property holds
  of it.

### Fairness

* `Engine!Fairness`: a thread that can take a step takes one, an executor that was
  called answers, and the clock reaches the deadline of an `execute`. Nothing is
  assumed of callers, of the desktop, of cancellation or of who gets the lock
  next: `acquire_ledger_lock` polls with a sleep, and `ExecuteReturns` holds
  because it gives up at the deadline. `status` blocks without a deadline and is
  not claimed to return (the repository's README says so).
* `Bridge`: weak fairness of `GiveUp(c) \/ Accept(c)` for each call, which is the
  timer of the plugins (Hermes waits with a timeout, `cli.ts` has `setTimeout`) and
  the reading of what an exited process has printed. Nothing is assumed of the
  engine, of the executor or of the desktop: `LockIsFreed` is about an executor that
  hangs.
* `Cdp` has no fairness: `NobodyIsStuck` says in every state that a call can go on by
  itself, or waits for the channel while its holder can, and `StepsCount` that each of
  its steps leaves it fewer; both are proved (section 4). If the scheduler runs every
  thread and the mutex of the channel lets each of them have its turn, calls return.
* `StateFiles`, `Semantic`, `NativeInput` and `Accessibility` are checked for safety
  only.

`CHECK_DEADLOCK FALSE` is set for `Bridge`, `Cdp` and `Accessibility`, whose calls are
bounded, and for `NativeInput`, whose behaviours end with their one call.

## 4. What is proved

Every safety property of the passing runs is a theorem, for every value of the
constants, and so are the refinements of `AtMostOnce` and of `ExecutorContract`. A theorem
with a hypothesis says so; each hypothesis is one without which the property fails. The
inductive invariants, and the theorems that no run lists (`KeepsContract` of
`Accessibility` and `NativeInput`, `StepsCount`, `HoldersWork`), were checked by TLC on the instances of section 3 before they were proved.

### Engine

For any threads, processes, ledger files, outcome stores, operations and hashes, any
assignment of these to each other, any kind of outcome ledger and any combination of
faults (`ConstantsAssumption` of `Engine`):

| Theorem | Statement |
|---|---|
| `TypeCorrect` | `Spec => []TypeOK` |
| `AtMostOnceDispatch` | `Spec => []AtMostOncePerLedger` |
| `DispatchesAreClaimed` | `Spec => []DispatchIsClaimed` |
| `LedgerStaysReadable` | `Spec => []NeverCorrupt` |
| `KnownOutcomesStay` | `Spec => []KnownStaysKnown` |
| `OncePerKey` | `Spec => []AtMostOncePerKey` |
| `LocksAreHeldAtWork` | `Spec => []HoldersWork` |
| `StepsAreCounted` | `Spec => StepsCount` |
| `TerminalsAreTruthful` (in `EngineTruth`) | `StoresFollowFiles => (Spec => []TruthfulTerminals)` |
| `HostAndFileAgree` (in `EngineTruth`) | `StoresFollowFiles => (Spec => []HostAgrees)` |
| `EngineKeepsPromise` (in `EngineTruth`) | `HostLedger # "durable" => (Spec => KeepsPromise)` |

`AtMostOncePerLedger` is not inductive. A thread that is about to dispatch must
know that nobody dispatched before, which it concludes from not having found a
claim. For that conclusion every dispatched operation must have a claim where no
fault can remove it, namely in the synced prefix (`FileInv`), the claim must be
readable, which needs that no append follows a torn tail (`Clean`, `~corrupt`), and
nobody may dispatch between the reading and the claim, which is the lock
(`ThreadInv`). The conjunction of these is `Inv`; one lemma per action shows that
the action keeps it, `StepInv` and `NextInv` put them together, and `SpecInv` is
the theorem the others follow from. Most actions need one of four frame
lemmas: `QuietStep` (touches no file), `InsideStep` (touches only the file whose
lock is held), `LocalStep` (moves a label), `PlainReturn`.

Three more invariants rest on `Inv`. `KeptInv`: a known terminal that was returned after
its sync is the last terminal of its operation and in the synced prefix, a call at work
has none to overwrite, and the line that a call is about to sync is its own. `KeyInv`: the
claims of an operation id in a file have one hash. `GrantedInv`, for a durable outcome
ledger that all processes share: `begin` grants a key once, so that the calls past it and
the dispatches behind it are, over all files, one.

`LocksAreHeldAtWork` and `StepsAreCounted` are the part of `ExecuteReturns` that is about
safety, for instances of every size. A lock that is held is held by a call on its file that
is at work and waits for nothing (`HolderInv`, which every step keeps because it either
leaves the locks alone, takes the free one, or ends the call and releases its own,
`StepMoves`). `StepsLeft` counts down from the lock to the return: after the append of a claim there is
everything up to the terminal, after a failed append of a terminal at most one more, and no
step leads back. The exception is the wait for the lock, which a call of
`execute` leaves at its boundary.

`EngineTruth` is about what is said of an outcome. A known terminal can be found in what
callers were told, in a line of the file, in a call that is about to write or
return it, and in the outcome ledger; it is then `Said`. A step carries a
terminal from one of these places to another, and only a call at work on the
operation (`Active`) says a new one. `TruthInv` is that what is said is true and one
(`SaidInv`) and nothing can dispatch the operation any more (`Closed`); that a call at
work is the only one, at a time when nothing known is said (`ActiveInv`); that a call
which found no claim may still go on only if that is so (`FreshInv`); and what the desktop
has of an effect (`WorldInv`). `Scope` is the files over which terminals must agree: the
file itself, or all that share a durable outcome ledger.

`StoresFollowFiles` says that processes which open one ledger file consult one outcome
ledger if it is durable. Nothing in the code makes a host do so: if p1 and p2 share a
file but not the outcome ledger, and p2 and p3 the outcome ledger but not the file, p1
and p3 may both dispatch an operation, and p2 finds the outcome of either. The promise of
one dispatch per file (`AtMostOnceDispatch`) does not need the hypothesis.

`EngineKeepsPromise` shows that `Init` implies the initial states of `AtMostOnce` and that
every step is one of its steps or changes nothing it sees: the dispatch of a call is
`Dispatch`, the landing of an effect is `Land`, and a return that tells a terminal is the
answer of it, which is where `TruthInv` is used; a failed executor or a power loss withdraws
what was under way; all else stutters. It is for engines without a durable outcome
ledger: with one, the answer of one file may be the outcome of another, and `AtMostOnce`
is about each file. `MemoryAssumption` (a store of memory belongs to one process) is used throughout
`EngineTruth`: what a call finds in such a store was said through its own file.

### Bridge

For any set of setups (every client, platform, isolation and set of requests) and any
number of calls (`BridgeAssumption`):

| Theorem | Statement |
|---|---|
| `BridgeTypeCorrect` | `Spec => []TypeOK` |
| `ForwardedAreValid` | `Spec => []ForwardedIsValid` |
| `DispatchesAreAwaited` | `Spec => DispatchIsAwaited` |
| `ToldAreTrue` (in `BridgeTruth`) | `Spec => []ToldIsTrue` |
| `SuccessesAreGranted` (in `BridgeTruth`) | `Spec => []SuccessIsGranted` |
| `VerifiedWereSeen` (in `BridgeTruth`) | `Spec => []VerifiedWasSeen` |
| `AnswersAreTold` (in `BridgeTruth`) | `Spec => []OutcomesAreTold` |

`TypeOK` alone is not inductive, because a claim that a terminal is recovered from
must have the parts a receipt has: `TypeInv` adds which records a ledger entry and
a call can have at each program counter. One lemma per action keeps it, most of them
through `AnswerKeepsTypes`, `WriteKeeps`, `FinishKeepsTypes` and
`WithTerminalKeepsTypes`. The next two theorems follow from `AwaitInv`: a call whose
engine can be reached and still runs has no answer yet (`Waits`), and its request,
if it came through a plugin, is one that `validate_request` accepts (`Forwards`).
`Forwards` rests on `ProposalIsValid`, which compares the two plugins' rules with
the engine's for every request. `EngineMoves` shows that no step of the engine
touches requests or answers except by ending the call, and `OnlyDispatch` that
nothing but `Dispatch` hands an action to the desktop.

`BridgeTruth` proves the properties that a caller depends on. `ToldIsTrue` speaks of the
answer and of the desktop, between which there are the ledger, the call and the lock,
so `TruthInv` says of each what it knows of the effect: a terminal in the ledger is
true, and an operation without an entry is untouched (`OpTruth`); a call behind its
claim has the lock, the claim has no terminal, and the label says whether the effect
may have begun, has happened or never will (`LabelTruth`); and an
operation of the command line or of a batch, which no other call works for, is
untouched until its call is behind the claim (`OwnTruth`). "Will never happen" is
`Final`: nothing happened, nothing is under way, and the operation has a terminal, or
its only call has ended. That it stays so (`FinalStays`) is where the lock and the
claim matter: `Dispatch` needs a claim without a terminal. The rest is one lemma per
action; `OtherTruth` covers all other calls in each of them, `EndTruth`,
`FinishTruth` and `WorkTruth` are shared by most.

`GrantInv` carries the evidence of a success from the desktop to the terminal: what an
effect was like when it happened (`DeedInv`), which sample of the context a call has at
each label (`SampleInv`), in which order the deadline, the effect and the samples came
(`OrderInv`), and that a terminal which claims success or verification has all of it
(`Backed`). Recovered and replayed terminals are copies of what was backed when it was
written. `TakenInv` is about receipts: every terminal in the ledger (`EntryTaken`), in a
call (`CallTaken`) and in an answer (`ToldTaken`) is one that the client of its operation
takes, or one of the four exceptions of section 6.

### LedgerFiles and StateFiles

For any operations, processes, observations and systems:

| Theorem | Statement |
|---|---|
| `FilesTypes` | `FilesSpec => []FilesTypeOK`; among the types, that the lock of the initialisation belongs to a call that still initialises |
| `DispatchesAreDurable` | `PowerLossAlone => (FilesSpec => []DurableAtMostOnce)` |
| `TrajectoriesFollow` | `PowerLossAlone => (FilesSpec => []TrajectoryFollowsLedger)` |
| `ConfirmationsLast` | `FilesSpec => []ConfirmedLasts` |
| `RefusalsFollowCrashes` | `FilesSpec => []RefusedAfterCrash` |

`PowerLossAlone` says that the power does not fail in a behaviour with other faults. It is
finding 1, seen from the other side: `files_lost` is the run without it.

`LedgerInv` says what is on the disk at each step of an append. While the power can fail, a
file or a line is ahead of the disk only in the step that adds it (`DiskInv`). A
call goes on with its claim `Secured`, that is in a line that no fault takes away, and goes
on to the effect only if there was none (`CallInv`); what was dispatched or reported is
secured as well (`DoneInv`), and the trajectory has of an operation only what comes
`Before` the report that is being made.

`StateInv` has one part per process and one per directory: where a process is in its job
and what it has made (`JobInv`, `MakingInv`, `WritingInv`); that a directory which is
missing, not private or not on the disk has a call that is at it or was interrupted
(`DirectoryInv`, `Excused`); and that what was issued is whole and has its entry
(`PromiseInv`). `StateFilesAssumption` keeps the names of observations apart from those of
directories and of the policy.

### Cdp

For any threads and operations, and any number of calls and changes of the page:

| Theorem | Statement |
|---|---|
| `PageTypes` | `Spec => []TypeOK` (with `Semantic`, `BothTypeCorrect`: `PageSpec => []PageTypeOK`) |
| `OutcomesAreTruthful` | `Spec => []TruthfulOutcomes` |
| `EffectsAreInNamedDocument` | `Spec => []EffectInNamedDocument` |
| `ObservationsAreOfOneDocument` | `Spec => []OneDocument` |
| `BrowserKeepsContract` | `Spec => KeepsContract` |
| `CallsGoOn` | `Spec => []NobodyIsStuck` |
| `StepsAreCounted` | `Spec => StepsCount` |

Two invariants, one on top of the other. `PageInv` says which call holds the channel and is
waited for (`Shapes`, `Placed`), that identifiers and numbers tell commands and calls apart
(`Numbered`), and that what an observation gathers comes from ever newer documents, so that
it is of one if the first and the last part are (`Generations`, `Moments`, `Targets`).
`EffectsInv` says where the one effect command of a call is: it was not sent (`Unsent`), is
on its way or was dropped, or landed, once (`Once`), in the document that the command named
(`Documents`), and what its sender knows of that (`Awaited`, `ReadBack`, `Reported`).
The programs are constants, and what the proofs need of them (`ProgramFacts`: one effect,
last or before its read-back) is proved from their definitions.

`BrowserKeepsContract` maps every step to one of `ExecutorContract` or to none: an effect
that lands is `Touch`, since `Reported` says that a call which told "none" has none under
way; the end of an effecting call is `Tell`, whose truth is `Reported` in the next state;
everything else changes neither. `CallsGoOn` follows from `PageInv` alone: the channel, if
it is not free, is held by a call that waits, and that may give up. `NobodyIsStuck` is
stated with the conditions of the actions (`MaySend`, `MayGiveUp`, `MayNumber`, `MayStore`)
in place of ENABLED: the actions have these as guards and assign to every variable else.
`StepsAreCounted` needs that a call sends each command of its program once; `StepsLeft`
is the number of sends, answers and storing steps that are still before it.

### Accessibility

For any threads, any set of operations of the three backends, and any number of calls,
changes and restarts:

| Theorem | Statement |
|---|---|
| `AccessTypes` | `Spec => []TypeOK` |
| `StaleTargetsAreNoticed` | `Spec => StaleIsNoticed` |
| `ObservationsAreFramed` | `Spec => SameBeforeAndAfter` |
| `WhatNeverReturnsIsOfOneMoment` | For an aspect of which no two versions look alike: `Spec => [][...]_vars`, what an observation that is returned saw of it is what there was when the element was fingerprinted |
| `AnswersAreTruthful` | `ScrollsElsewhere`: `Spec => []TruthfulOutcomes` |
| `RefusalsHaveReasons` | `KeysOfAx`: `Spec => []RefusedWithReason` |
| `ProvidersKeepContract` | `ScrollsElsewhere`: `Spec => KeepsContract` |

Nothing is assumed of `Looks`: an aspect may return to an earlier look as often as it likes.
What a comparison that succeeds shows is that the aspect looked, at that moment, as it was
observed. The versions only go up, so that moment lies between the beginning of the call and
the effect (`StaleIsNoticed`), or, for the two looks around a fingerprint, before and after
it (`SameBeforeAndAfter`). Both are proved as properties of the step that requests an effect
or returns an observation (`Noticed`, `Framed`). Where versions never look alike, as those
of a process, before and after are the same, which is `WhatNeverReturnsIsOfOneMoment`.
`AccessInv` turns what a call has passed of its program into what it knows (`LookInv`, with
`ActInv` for calls that act on a target, `BorrowInv` for keys that make an observation of
their own, and `ObserveInv`); requests and effects belong to steps behind their call
(`RequestInv`), and what it answers follows from both (`AnswerInv`). `ProgramSteps` has what
is needed of the programs: that every effect comes behind a comparison of display, window,
place and face, and that an observation is sampled again behind its fingerprints. It is
proved by writing out all seventeen programs.

`ScrollsElsewhere` leaves out the scroll of AX, whose first page is reported as no effect
whatever became of it (section 3). `KeysOfAx` leaves out the keys of AT-SPI and UIA, which
are never accepted (finding 4). The theorems need their hypotheses because the
properties fail of these operations; the other three cover them.

`ProvidersKeepContract` rests on `AnswerInv` as the proof for the browser does on
`Reported`: a request that was answered with "none" is not under way, so that a provider
which obeys late touches the desktop for a call that was not told so.

### Semantic

For any lists of elements, number of observations, age and times
(`SemanticAssumption`):

| Theorem | Statement |
|---|---|
| `ReaderTypeCorrect` | `SemanticSpec => []` the types of `Semantic` |
| `FoundAreNamed` | `SemanticSpec => []FoundIsNamed` |
| `OnlyForestsAreSearched` | `SemanticSpec => []OnlyForests` |

`FoundIsNamed` becomes inductive with the types of what the reader has (`TypeInv`) and
with the fact that a target has the identifier and the fingerprint of what was named
(`NamedInv`); the lemma that does the work is `ResolveTypes`, which needs that a list
which `build_mapping` accepts has no identifier twice (`GoodIsDistinct`).

`OnlyForests` relates the walk of `build_mapping`, which goes from an element through its
parents and remembers whom it has seen (`Climbs`), to the definition of a forest: every
nonempty set of elements has one whose parent is not in it. An induction over the walk is
out of reach (below); the proof puts a set between the two. `Above` is the least set that
has an identifier and the parent of each of its members. The walk ends exactly if "none",
the parent of a root, is above the element (`ClimbsIs`); a set of elements without a root
would be closed and have no "none" in it, and the elements that never reach "none" are such
a set (`GoodAreForests`). That the recursive function has a value at all is shown by giving
one (`WalkExists`); it is the only one, because each step leaves fewer identifiers to be
seen (`WalkIsUnique`).

### NativeInput

For any set of backends and faults, any counts, any number of steps of a drag and of changes
of the policy (`InputAssumption`):

| Theorem | Statement |
|---|---|
| `NativeTypes` | `Spec => []TypeOK` |
| `InputStopsSoon` | `Spec => []StopsSoon` |
| `KeysAreReleased` | `Spec => []NothingStaysDown` |
| `OutcomesOfInput` | `Spec => []TruthfulOutcomes` |
| `InputKeepsContract` | `Spec => KeepsContract` |

First the programs: `UnitsAre` says of every action on every backend how many units it has
and that each is `Good`, that is `Balanced` (whatever a stroke presses is released behind it,
in the same stroke, or in a later one if no failure from there on ends the action) or `Open`
(the two cases of X11, and a drag, whose button is released by its last unit). Then what is
left of a unit: posting an event or losing a stroke keeps the rest balanced, and a release
that is `Owed` is posted, stays owed, or is lost (`BalancedShorter`, `OwedStays`, `OwedOrLost`).

`InputInv` has a part per property. What is down is owed by the strokes still to be posted,
or its release was lost (`DownInv`); what was posted after the interruption is of one unit,
which is the current one while its events are posted (`LateInv`); a report of no effect is
made only at the first event (`NoneInv`); and where every failure ends an action nothing is
lost in one that goes on (`LostInv`). `CountInv` is on top of it: what was posted is then
exactly what comes before the current unit, stroke and event, so that a success posted all
`Places`. The number of events is stated as the size of a set because of this proof; a sum
over the units would be recursive.

### Only model-checked

Liveness under fairness is out of the prover's reach: `ExecuteReturns` of `Engine` and
`LockIsFreed` of `Bridge` are checked by TLC on the instances of section 3; what is safety
in the first is proved. ENABLED is as well, which is why `NobodyIsStuck` is stated with the
conditions of the actions. Induction over data is not available to the proofs; where a
recursion or a count of events would have needed it (`OnlyForests`, the counts of
`NativeInput`) they speak of sets instead.

## 5. Findings

1. **A ledger can vanish** (`files_lost`, 6873). `append` syncs the directory only
   if the file did not exist when it started. If the call that creates the ledger
   fails or dies before `sync_parent`, no later append syncs the directory; claims
   are acknowledged and operations dispatched from a file that a power loss may
   remove, after which they are dispatched again. README.md:24 promises durable
   at-most-once dispatch. The directory sync of the trajectory usually hides this,
   but its errors are ignored.
2. **What `status` returns need not be durable** (`engine_status`, 6793). A terminal
   line whose sync failed, or whose writer died before it, is returned by `status`
   and by replay without a sync. A power loss can then turn it into
   `outcome_unknown`. README.md:16 says that `status` returns the durable terminal.
3. **A refusal can be reported as unknown** (`native_policy`, 1270). On macOS the
   policy on global input is read again for each event. If it is restricted after
   the check of `dispatch` and before the first event, a click that posted nothing
   is reported as an unknown outcome. README.md:66 says that refusals are never
   reported as such.
4. **Keys never reach an element on Linux and Windows** (`accessibility_keys`, 5364
   and 5396). `dispatch_semantic` compares the requested target with
   `focused_target()`, which makes a new observation; targets are equal only if they
   name the same observation, so `type_text`, `press`, `paste`, `hotkey` and `scroll` at
   an element are always refused as not focused. `windows_uia::scroll` is never
   called, because the same test comes first. README.md:52 lists these actions for all
   platforms, and semantic scrolling for Windows.

## 6. Limits, and what is not modelled

### What the properties leave out, and why

The properties name their exceptions. These are things the code does that no
document of the repository contradicts, met while modelling:

* `OutcomesAreTold`, `Exception`: four answers of the engine that both plugins or one
  of them refuse, so that the tool reports `praefectus_error`.
  `empty_receipt` (8106) gives a click on macOS the route `per_process_event`, which
  Hermes does not know for a click; a claim made with an unknown isolation and without
  a terminal is recovered with the context `not_applicable` and an isolation
  `unknown`, which is neither a recovery receipt nor a complete one; the same holds of
  a claim of an older version that is presented again through `execute` in interactive
  mode (through `status` it is accepted); and the capabilities of macOS always
  include `application` (5065), which both plugins refuse, so that the tool
  `capabilities` never works there.
* `ToldIsTrue` about retries is for `execute`: errors of the tools `status` and
  `capabilities` carry no `retry_safe` at all.
* `DispatchIsAwaited` and `LockIsFreed` are for `Reaches`: on Windows a tool that gives
  up kills the bridge process only (`__init__.py:162`, `cli.ts:39`), and an engine in a
  child of it goes on. What the caller is told stays true.
* `ConfirmedLasts` lets a power loss take a directory while the call that made it is
  busy or if it was interrupted: only the call that found a directory missing syncs
  the one around it (7961). On Windows nothing syncs the entry of the state directory
  itself before something is created in it. `persist_no_yolo_at` (1206) checks only
  that the parent is a directory, and `persistent_no_yolo` (1136) answers "not
  restricted" on Windows when the path cannot be locked.
* `RefusedAfterCrash`: a directory that was made and not restricted when its process
  was killed is refused by every later call on Windows (`windows_acl.rs:196`), and
  under a umask of 002 (8005) also on unix, there even while its maker is at work.
* `NothingStaysDown` excludes X11, where the keys of a text are never released
  (`linux_input.rs:383`) and a scroll releases the wrong button (633).
* `OnlyForests` and `FoundIsNamed` are about what the reader was given:
  `provenance_hash` (`semantic.rs:126`) does not cover the elements, so that a target
  resolves in a list that was altered if the element itself was not.

* `StaleIsNoticed` and `SameBeforeAndAfter` are about looks, not about moments: hashes,
  bounds and titles are compared by value (`linux_atspi.rs` 855, 968, 1040;
  `windows_uia.rs` 775, 789). Displays, a window or an element that change and change
  back between two looks go unnoticed, in an observation as in the way to a target, and
  a fingerprint may be taken in between. AX takes only one look.

### Known to be outside

* Stale but harmless orders: of two concurrent observations of the browser the older
  may be stored last, after which targets of the newer are refused (`cdp.rs:449`);
  after one timeout every later command reads the answer before its own and fails,
  since the channel never drains (`cdp.rs:266`); a dispatch does not look at the
  expiry of its observation again (`cdp.rs:1383`). `Cdp` has the first two; nothing
  untrue is reported.
* Nothing serialises the input of engines with different ledger files (6379); keys on
  macOS go to whatever has the focus when they are posted (5300); an element may change
  between the last comparison and the call of its provider (`windows_uia.rs:1008`).
  These are windows the interfaces of the systems leave open.
* A command of macOS is waited for without a deadline (5466); `LockIsFreed` is why
  that ends for callers of a plugin.
* The operation ids of the one-shot command line are made up for each call and printed
  with the answer, so that a command that was killed cannot be asked about.

### Not modelled

* Data without a bearing on the properties: sizes and formats of texts, hashes and
  identifiers, the bytes that are signed and their encoding, redaction of messages,
  parsing of trees and probes, key maps, screen captures, parsing of arguments and
  printing.
* The discovery of a browser endpoint and the ownership checks of its process, the
  identity of the X server, lists of surfaces, COM initialisation, the traversal of
  trees with their budgets: long sequences of calls of the operating system that end
  a call with an error or give one value to it; in the models they are `Refuse` and
  free choices.
* Access control lists, and other users of the machine.
* Hosts whose processes share a ledger file but not their durable outcome ledger, as
  far as the truth of terminals is concerned (section 4, `StoresFollowFiles`).
* Expiry and eviction of old observation files.
* Examples and tests.

## 7. Plan

1. Expiry and eviction of persisted observations, with readers.
2. `Bridge` as a refinement of `AtMostOnce`, for the terminals and callers it has.
3. The first page of an AX scroll (section 3) as a run of its own, if a document comes to
   promise what the code does not do there.
