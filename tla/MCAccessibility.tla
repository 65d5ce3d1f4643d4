--------------------------- MODULE MCAccessibility ---------------------------
(* Accessibility with the operations the callers use.                      *)
EXTENDS Accessibility, TLC

CONSTANTS t1, t2

Twins == Permutations({t1, t2})

(* Every operation of every backend, without keys on AT-SPI and UIA (see   *)
(* AccessibilityKeys.cfg), scroll on AX, whose report of a first page is   *)
(* not truthful, and set_value on AX, which takes the steps of invoke.     *)
Working ==
  UNION {{b} \X DOMAIN Program[b] : b \in Backend}
    \ {<<"atspi", "keys">>, <<"uia", "keys">>, <<"ax", "scroll">>, <<"ax", "set_value">>}

Keys == {"atspi", "uia", "ax"} \X {"observe", "keys"}

(* A second change of an aspect undoes the first, but a process that ended *)
(* does not come back: it is known by its id and its start time.           *)
Undone ==
  [a \in Aspect |-> [v \in Version |-> IF a = "process" THEN v ELSE v % 2]]

=============================================================================
