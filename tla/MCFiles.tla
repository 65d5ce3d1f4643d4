------------------------------ MODULE MCFiles ------------------------------
(***************************************************************************)
(* StateFiles for TLC.  Processes are alike, and so are observations.      *)
(***************************************************************************)
EXTENDS StateFiles, TLC

Symmetry == Permutations(Process) \union Permutations(Observation)

=============================================================================
