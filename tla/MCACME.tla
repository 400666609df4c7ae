------------------------------- MODULE MCACME -------------------------------
(***************************************************************************)
(* Instances of ACME for TLC. Callers and certificates are interchangeable *)
(* as far as safety goes; no symmetry is used where liveness is checked.   *)
(***************************************************************************)
EXTENDS ACME, TLC

Symmetry == Permutations(Web) \cup Permutations(Certs)
=============================================================================
