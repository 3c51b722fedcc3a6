----------------------------- MODULE MCRuntime ------------------------------
(* Instances of Runtime for TLC: apps that carry the runtime and a plain lxe. *)
EXTENDS Runtime, TLC

CONSTANTS app1, app2, plain

Symmetry == Permutations(Carrier)
=============================================================================
