--------------------------- MODULE MCClientCalls ---------------------------
(***************************************************************************)
(* Instances of ClientCalls and ServerEvents for TLC.                      *)
(***************************************************************************)
EXTENDS ServerEvents, ApiCalls

BehindOrAhead == {-2, 1}
=============================================================================
