---------------------------- MODULE MCStateLoop ----------------------------
(***************************************************************************)
(* Instance for TLC: two workers, two restarts.                            *)
(***************************************************************************)
EXTENDS StateLoop, TLC

Symmetry == Permutations(Workers)
=============================================================================
