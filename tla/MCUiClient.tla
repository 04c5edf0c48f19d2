----------------------------- MODULE MCUiClient -----------------------------
(***************************************************************************)
(* UiClient for TLC.                                                       *)
(***************************************************************************)
EXTENDS UiClient
=============================================================================
