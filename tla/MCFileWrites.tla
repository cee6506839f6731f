---------------------------- MODULE MCFileWrites ----------------------------
(* Instances of FileWrites for TLC. *)
EXTENDS FileWrites

CONSTANTS f1, f2, s1, s2, c1, c2, c3, c4

\* A tool formats a file that the editor fixes in the same session and diagnoses
\* without one.
TwoWriters ==
  [kind |-> (c1 :> "format" @@ c2 :> "quickfix" @@ c3 :> "diagnose"),
   file |-> (c1 :> f1 @@ c2 :> f1 @@ c3 :> f1),
   session |-> (c1 :> s1 @@ c2 :> s1 @@ c3 :> None)]
Kinds == TwoWriters.kind
Named == TwoWriters.file
Actors == TwoWriters.session
Escalating == [c \in Calls |-> IF c = c1 THEN "workspace-write" ELSE None]

\* One rename of a file.
RenameKind == [c \in Calls |-> "rename"]
RenameFile == [c \in Calls |-> f1]
RenameActor == [c \in Calls |-> s1]
RenameAsks == [c \in Calls |-> None]
=============================================================================
