------------------------------ MODULE MCKongSync ------------------------------
(* Instances of KongSync for TLC: see README.md. *)
EXTENDS KongSync, TLC

Symmetry == Permutations(Callers)
=============================================================================
