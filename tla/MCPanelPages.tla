---------------------------- MODULE MCPanelPages ----------------------------
(* Instances of PanelPages for TLC. *)
EXTENDS PanelPages
=============================================================================
