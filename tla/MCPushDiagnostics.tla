-------------------------- MODULE MCPushDiagnostics --------------------------
(* Instances of PushDiagnostics for TLC: a file that is edited back and forth. *)
EXTENDS PushDiagnostics

CONSTANTS t1, t2
=============================================================================
