------------------------ MODULE MCUtteranceCollector ------------------------
(***************************************************************************)
(* Small instances of UtteranceCollector.                                  *)
(***************************************************************************)
EXTENDS UtteranceCollector

CONSTANTS v1, v2  \* VAD providers
=============================================================================
