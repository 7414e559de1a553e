----------------------------- MODULE MCInstances -----------------------------
(***************************************************************************)
(* Instances on a few processes.  Processes are told apart by name only,   *)
(* so permuting them is sound for invariants.                              *)
(***************************************************************************)
EXTENDS Instances, TLC

Symmetry == Permutations(Procs)
=============================================================================
