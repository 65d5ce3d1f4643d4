-------------------------------- MODULE MCCdp --------------------------------
(***************************************************************************)
(* Pages with two interchangeable threads and small lists of               *)
(* elements: three elements that are a forest, that have circles of one,   *)
(* two or three parents, or that lead into one; one element with either    *)
(* fingerprint that lacks a flag or none; and two elements with the same   *)
(* tag or identifier.                                                      *)
(***************************************************************************)
EXTENDS Pages, TLC

CONSTANTS t1, t2

Twins == Permutations({t1, t2})

E(tag, id, parent, print, flags) ==
  [tag |-> tag, id |-> id, parent |-> parent, print |-> print, flags |-> flags]

Lists ==
  {<<E("e0", "a", p[1], "p", Flag), E("e1", "b", p[2], "p", Flag),
     E("e2", "c", p[3], "p", Flag)>> : p \in
       {"b", "none"} \X {"a", "c", "none"} \X {"a", "c", "none"}}
  \union {<<E("e0", "a", "none", print, flags)>> : print \in {"p", "q"}, flags \in
       {Flag} \union {Flag \ {f} : f \in Flag}}
  \union {<<E("e0", "a", "none", "p", Flag), E(tag, id, "none", "p", Flag)>> :
            tag \in {"e0", "e1"}, id \in {"a", "b"}}

=============================================================================
