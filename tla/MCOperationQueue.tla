-------------------------- MODULE MCOperationQueue --------------------------
(* Small instances of OperationQueue for TLC. *)
EXTENDS OperationQueue, TLC

Symmetry == Permutations(Users) \cup Permutations(Agents)
=============================================================================
