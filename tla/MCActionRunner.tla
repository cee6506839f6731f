--------------------------- MODULE MCActionRunner ---------------------------
(* Instances of ActionRunner for TLC. *)
EXTENDS ActionRunner, TLC

CONSTANTS c1, c2, c3, old, full, extended, f1

\* A rename, diagnostics of the same file, and a symbol search by name.
Ops == c1 :> "rename" @@ c2 :> "diagnostics" @@ c3 :> "workspaceSymbol"
Named == c1 :> f1 @@ c2 :> f1 @@ c3 :> NoFile
\* Diagnostics, formatting and code actions of one file.
Actions == c1 :> "codeAction" @@ c2 :> "diagnostics"
OneFile == [c \in Calls |-> f1]

\* The published seam has no action in its vocabulary; the proposed extension
\* has three.
Vocabulary ==
  old :> {}
  @@ full :> {"rename", "diagnostics", "workspaceSymbol", "codeAction"}
  @@ extended :> {"diagnostics", "formatDocument", "completion"}

Extensions == f1 :> "ts" @@ NoFile :> ""
Ancestors == f1 :> <<"app", "root">> @@ NoFile :> <<>>

Entry(claims, maps, markers) == [claims |-> claims, maps |-> maps, markers |-> markers]

\* No entry; a marker that outranks the order, next to one of another language;
\* a glob that outranks both; entries without markers.
ServerTables ==
  {<<>>,
   <<Entry({}, {"ts"}, <<"package">>), Entry({}, {"ts"}, <<"deno">>), Entry({}, {"py"}, <<"deno">>)>>,
   <<Entry({}, {"py"}, <<"deno">>), Entry({}, {"ts"}, <<>>), Entry({}, {"ts"}, <<"deno">>)>>,
   <<Entry({}, {"ts"}, <<"deno">>), Entry({f1}, {"py"}, <<>>)>>,
   <<Entry({}, {"py"}, <<>>), Entry({}, {"ts"}, <<>>)>>}

MarkerFiles == {<<"app", "package">>, <<"app", "deno">>, <<"root", "package">>}
NoMarkerFiles == {}
=============================================================================
