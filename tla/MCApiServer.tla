---------------------------- MODULE MCApiServer -----------------------------
(* The server; every instance is given by the .cfg alone.                  *)
EXTENDS ApiServer
=============================================================================
