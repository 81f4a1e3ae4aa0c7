------------------------------- MODULE MCPipe -------------------------------
(* Instances of XvPipe for TLC. *)
EXTENDS XvPipe
=============================================================================
