------------------------ MODULE MCBrowserVoiceClient ------------------------
(***************************************************************************)
(* Small instances of BrowserVoiceClient.                                  *)
(***************************************************************************)
EXTENDS BrowserVoiceClient
=============================================================================
