------------------------------ MODULE MCBridge ------------------------------
(* Small instances of Bridge: the callers, machines and requests.          *)
EXTENDS Bridge

Ask(action, mode, verification) ==
  [action |-> action, mode |-> mode, verification |-> verification, target |-> "element"]

Invoke == Ask("invoke", "background_only", "none")
InvokeHere == Ask("invoke", "interactive", "none")
Click == Ask("click", "interactive", "none")
SetValue == Ask("set_value", "background_only", "value_hash")
WrongHash == Ask("set_value", "interactive", "other_hash")

On(client, platform, isolation, requests) ==
  [client |-> client, platform |-> platform, isolation |-> isolation,
   requests |-> requests, changes |-> 0, permitted |-> TRUE, apart |-> FALSE, legacy |-> FALSE]

Shared == "shared_desktop"

SomeSetups ==
  {On("hermes", "macos", Shared, {Click, Invoke, WrongHash}),
   On("hermes", "browser", "host_isolated", {SetValue, Invoke}),
   On("openclaw", "linux", Shared, {SetValue, Click}),
   [On("cli", "linux", Shared, {SetValue, Click}) EXCEPT !.changes = 1],
   [On("batch", "browser", "host_isolated", {SetValue, Invoke, WrongHash})
      EXCEPT !.changes = 1],
   [On("openclaw", "macos", "unknown", {Invoke, InvokeHere}) EXCEPT !.permitted = FALSE],
   [On("hermes", "linux", Shared, {Invoke, InvokeHere}) EXCEPT !.legacy = TRUE],
   [On("openclaw", "windows", "host_isolated", {Invoke}) EXCEPT !.apart = TRUE]}

=============================================================================
