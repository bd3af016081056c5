-------------------------- MODULE MCPreserveOutput --------------------------
(* Instances of PreserveOutput for TLC: texts with characters of one to     *)
(* three bytes and newlines among them.                                     *)
EXTENDS PreserveOutput

MCTexts ==
  { <<>>,
    <<"first", "newline", "first", "first", "newline", "first">>,
    <<"first", "rest", "newline", "first", "rest", "rest">>,
    <<"newline", "newline", "first", "rest", "first">> }
=============================================================================
