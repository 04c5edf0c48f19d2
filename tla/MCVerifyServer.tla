--------------------------- MODULE MCVerifyServer ---------------------------
(***************************************************************************)
(* VerifyServer for TLC.                                                   *)
(***************************************************************************)
EXTENDS VerifyServer
=============================================================================
