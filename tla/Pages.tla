-------------------------------- MODULE Pages --------------------------------
(***************************************************************************)
(* Cdp, which makes observations of pages, and Semantic, the reader of     *)
(* observations.  The two share no state, so that a behaviour is about one *)
(* of them (part).                                                         *)
(***************************************************************************)
EXTENDS Cdp, Semantic

VARIABLE part

PageInit == part \in {"browser", "reader"} /\ Init /\ SemanticInit

PageNext ==
  /\ \/ part = "browser" /\ Next /\ UNCHANGED semanticVars
     \/ part = "reader" /\ SemanticNext /\ UNCHANGED vars
  /\ UNCHANGED part

PageSpec == PageInit /\ [][PageNext]_<<part, vars, semanticVars>>

(* The types of both parts.                                                *)
PageTypeOK == TypeOK /\ SemanticTypeOK

=============================================================================
