-------------------------- MODULE MCRealtimeChannel --------------------------
(* Instances of RealtimeChannel for TLC. *)
EXTENDS RealtimeChannel
=============================================================================
