-------------------------- MODULE MCMicFrameSender --------------------------
(***************************************************************************)
(* Small instances of MicFrameSender.                                      *)
(***************************************************************************)
EXTENDS MicFrameSender
=============================================================================
