---------------------------- MODULE MCToolServer ----------------------------
(* An instance of ToolServer for TLC. *)
EXTENDS ToolServer
=============================================================================
