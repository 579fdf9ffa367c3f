---------------------------- MODULE MCSqlParser -----------------------------
(* Two words, one of them in two spellings.                                *)
EXTENDS SqlParser

MCNames == {<<"a", 1>>, <<"a", 2>>, <<"b", 1>>}
=============================================================================
