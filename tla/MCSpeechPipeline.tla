-------------------------- MODULE MCSpeechPipeline --------------------------
(***************************************************************************)
(* Small instances of SpeechPipeline.                                      *)
(***************************************************************************)
EXTENDS SpeechPipeline, TLC

CONSTANTS ws,     \* the receive loop of the WebSocket session
          admin,  \* a coroutine of the application outside that loop
          b1, b2

\* The receive loop alone.  "audio" differs from "text" in how ASR fails, and
\* is left to the other instances.
SerialOps == [c \in {ws} |-> Ops \ {"reload_keep", "audio"}]

\* Both stream turns, say two sessions on one pipeline; the second also sets
\* prompts, reads histories, cancels and reloads.
ControlPlaneOps == ws :> {"audio"}
                @@ admin :> {"text", "reload", "reload_keep", "cancel", "prompt", "peek"}

\* One mode, with the operations that the instance above leaves out.
OneModeOps == ws :> {"text", "continue"}
           @@ admin :> {"reload", "reload_keep", "cancel", "clear"}

ReloadOps == ws :> {"text"} @@ admin :> {"reload", "cancel"}

CancelOps == [c \in {ws} |-> {"text", "cancel"}]

\* Each reload builds a bundle that was never used before.
FreshBundles == b1 :> {b2} @@ b2 :> {}
=============================================================================
