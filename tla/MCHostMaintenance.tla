-------------------------- MODULE MCHostMaintenance --------------------------
(* Instances of HostMaintenance for TLC. *)
EXTENDS HostMaintenance

Anything == Failures
=============================================================================
