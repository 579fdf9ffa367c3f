------------------------------- MODULE MCRepl -------------------------------
(* The REPL; the instance is given by the .cfg alone.                      *)
EXTENDS Repl
=============================================================================
