--------------------------- MODULE MCEditorProtocol ---------------------------
(* An instance of EditorProtocol for TLC: diagnostics of two files that do not *)
(* fit the cache together, and a quickfix that may write both.                 *)
EXTENDS EditorProtocol, TLC

CONSTANTS f1, f2, r1, r2, r3

Actions == r1 :> "diagnostics.get" @@ r2 :> "diagnostics.get" @@ r3 :> "quickfix.apply"
Named == r1 :> f1 @@ r2 :> f2 @@ r3 :> f1
=============================================================================
