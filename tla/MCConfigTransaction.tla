------------------------ MODULE MCConfigTransaction ------------------------
(* Instances of ConfigTransaction for TLC. *)
EXTENDS ConfigTransaction, TLC

\* Clients differ only in their names.
Symmetry == Permutations(Clients)
=============================================================================
