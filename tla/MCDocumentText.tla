---------------------------- MODULE MCDocumentText ----------------------------
(* An instance of DocumentText for TLC: the empty document, and documents with *)
(* a wide code point before, after and on both sides of a newline.             *)
EXTENDS DocumentText

Texts == <<"first", "second", "third">>

Files ==
  { <<>>, <<"newline">>, <<"high", "low", "char">>, <<"char", "newline">>,
    <<"newline", "accent", "high", "low">>, <<"high", "low", "newline", "high", "low">>,
    <<"accent", "newline", "newline">>, <<"char", "high", "low", "newline", "accent">> }
=============================================================================
