---------------------------- MODULE MCFrameRelay ----------------------------
(***************************************************************************)
(* FrameRelay for TLC.                                                     *)
(***************************************************************************)
EXTENDS FrameRelay
=============================================================================
