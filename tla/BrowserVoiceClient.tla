------------------------- MODULE BrowserVoiceClient -------------------------
(***************************************************************************)
(* The browser client of js/browser-voice-client.js: every event of the    *)
(* server goes to the player and then to the guard, which reads the drain  *)
(* of that player.  The microphone is in MicFrameSender.                   *)
(*                                                                         *)
(* The server is a source of events: for every text chunk it speaks a      *)
(* tts.first_chunk and tts.audio, the last of them marked final, until the *)
(* speech ends, fails or is cancelled.                                     *)
(***************************************************************************)
EXTENDS TtsAudioPlayer, SpeakerEchoGuard

CONSTANTS Stuck,        \* the guard has a remainingMs that never reaches zero
          Unmarked,     \* speech may end with nothing that says so
          ClientOps,    \* the methods the application calls
          MaxSpeeches,  \* bound: text chunks spoken
          MaxTurns,     \* bound: turns finished
          MaxAhead      \* bound: ticks of audio that are ahead of the speaker

ASSUME ClientAssumption ==
    /\ Stuck \in BOOLEAN
    /\ Unmarked \in BOOLEAN
    /\ ClientOps \subseteq {"stop", "close"}
    /\ MaxSpeeches \in Nat
    /\ MaxTurns \in Nat
    /\ MaxAhead \in Nat
    /\ TailDelay > Coalesce
    /\ Fallback > Coalesce + MaxCoalesce

VARIABLES
    listening,  \* the message handler is attached
    closed,     \* close was called
    stream,     \* the rate of the speech that is streamed, or NoContext
    speeches,   \* text chunks that may still be spoken
    turns,      \* turns that may still finish
    silenced    \* history: no speech has followed the last tts.cancelled

clientVars == <<listening, closed>>
serverVars == <<stream, speeches, turns>>
vars == <<playerVars, guardVars, clientVars, serverVars, silenced>>

Init ==
    /\ PlayerInit
    /\ GuardInit
    /\ listening = TRUE
    /\ closed = FALSE
    /\ stream = NoContext
    /\ speeches = MaxSpeeches
    /\ turns = MaxTurns
    /\ silenced = FALSE

\* _remainingPlaybackMs, of the attached player or of a callback.
RemainingPlayback(p) == IF Stuck THEN 1 ELSE RemainingMs(p)

\* An event that nobody handles, or that leaves player and guard alone.
Unheard == UNCHANGED <<playerVars, guardVars, silenced>>

-----------------------------------------------------------------------------
(* Events of the server *)

\* tts.first_chunk
FirstChunk(rate) ==
    /\ stream = NoContext /\ speeches > 0
    /\ stream' = rate
    /\ speeches' = speeches - 1
    /\ IF listening THEN EnterSuppressed /\ silenced' = FALSE /\ UNCHANGED playerVars
                    ELSE Unheard
    /\ UNCHANGED <<turns, clientVars>>

\* tts.audio
Audio(size, final) ==
    /\ stream # NoContext
    /\ RemainingMs(player) + player.bytes + size <= MaxAhead
    /\ IF listening
       THEN /\ PlayerOnAudio(size, final, stream)
            /\ GuardOnAudio(final, RemainingPlayback(player'))
            /\ silenced' = FALSE
       ELSE Unheard
    /\ stream' = IF final THEN NoContext ELSE stream
    /\ UNCHANGED <<speeches, turns, clientVars>>

\* tts.cancelled, when a task was active: it streamed or had not begun to.
SpeechCancelled ==
    /\ speeches' \in 0 .. speeches
    /\ stream # NoContext \/ speeches' < speeches
    /\ IF listening
       THEN /\ PlayerCancel
            /\ ScheduleResume(RemainingPlayback(player'))
            /\ silenced' = TRUE
       ELSE Unheard
    /\ stream' = NoContext
    /\ UNCHANGED <<turns, clientVars>>

\* tts.error, before the first chunk or after it.
SpeechFails ==
    /\ \/ stream # NoContext /\ UNCHANGED speeches
       \/ stream = NoContext /\ speeches > 0 /\ speeches' = speeches - 1
    /\ stream' = NoContext
    /\ IF listening
       THEN /\ ScheduleResume(RemainingPlayback(player))
            /\ UNCHANGED <<playerVars, silenced>>
       ELSE Unheard
    /\ UNCHANGED <<turns, clientVars>>

\* turn.finished, which does not wait for the speech of the turn.
TurnFinished ==
    /\ turns > 0
    /\ turns' = turns - 1
    /\ IF listening
       THEN /\ ScheduleResume(RemainingPlayback(player))
            /\ UNCHANGED <<playerVars, silenced>>
       ELSE Unheard
    /\ UNCHANGED <<stream, speeches, clientVars>>

(***************************************************************************)
(* The speech is over and no event says so: the last full buffer of a      *)
(* provider left nothing for a chunk marked final, or the task was         *)
(* cancelled by a provider swap.                                           *)
(***************************************************************************)
EndsUnmarked ==
    /\ Unmarked
    /\ stream # NoContext
    /\ stream' = NoContext
    /\ UNCHANGED <<playerVars, guardVars, speeches, turns, clientVars, silenced>>

-----------------------------------------------------------------------------
(* Timers and the clock *)

Flushes ==
    /\ FlushFires
    /\ UNCHANGED <<guardVars, clientVars, serverVars, silenced>>

TailTimer ==
    /\ TailFires(RemainingPlayback(player))
    /\ UNCHANGED <<playerVars, clientVars, serverVars, silenced>>

FallbackTimer ==
    /\ FallbackFires
    /\ UNCHANGED <<playerVars, clientVars, serverVars, silenced>>

Tick ==
    /\ PlayerTick
    /\ GuardTick
    /\ UNCHANGED <<clientVars, serverVars, silenced>>

-----------------------------------------------------------------------------
(* Calls of the application *)

\* stop: the player and the guard are left as they are.
Stop ==
    /\ "stop" \in ClientOps /\ listening
    /\ listening' = FALSE
    /\ UNCHANGED <<playerVars, guardVars, closed, serverVars, silenced>>

Start ==
    /\ ~listening /\ ~closed
    /\ listening' = TRUE
    /\ UNCHANGED <<playerVars, guardVars, closed, serverVars, silenced>>

Close ==
    /\ "close" \in ClientOps /\ ~closed
    /\ closed' = TRUE
    /\ listening' = FALSE
    /\ PlayerCancel
    /\ Resume
    /\ UNCHANGED <<serverVars, silenced>>

-----------------------------------------------------------------------------
ServerEvent ==
    \/ \E r \in Rates : FirstChunk(r)
    \/ \E n \in Sizes, f \in BOOLEAN : Audio(n, f)
    \/ SpeechCancelled
    \/ SpeechFails
    \/ TurnFinished
    \/ EndsUnmarked

Next ==
    \/ ServerEvent
    \/ Flushes \/ TailTimer \/ FallbackTimer \/ Tick
    \/ Stop \/ Start \/ Close

\* What ends a speech that is streamed.
SpeechEnds ==
    /\ stream # NoContext
    /\ \/ \E n \in Sizes : Audio(n, TRUE)
       \/ SpeechCancelled
       \/ SpeechFails
       \/ EndsUnmarked

(***************************************************************************)
(* Time passes, due timers run, and every speech ends: a provider's stream *)
(* is finite, raises, or is cancelled.                                     *)
(***************************************************************************)
Fairness ==
    /\ WF_vars(Tick)
    /\ WF_vars(Flushes) /\ WF_vars(TailTimer) /\ WF_vars(FallbackTimer)
    /\ WF_vars(SpeechEnds)

Spec == Init /\ [][Next]_vars
FairSpec == Spec /\ Fairness

-----------------------------------------------------------------------------
(* Properties *)

\* The guard's purpose (speaker-echo-guard.js:5-8): no frame is sent while the
\* speaker can be heard, whatever was coalesced, scheduled late, left on a
\* replaced context or cut short, and whichever of its timers lets frames go.
EchoShut == Audible => guard # "idling"

\* Barge-in (tts-audio-player.js:102-107): once a tts.cancelled was handled
\* nothing is heard until newer speech comes, neither what was scheduled on
\* this context or a former one nor what still waited for the flush timer.
SilentAfterCancel == silenced => ~Audible

\* While the sample rate stays, what is scheduled plays without a gap and
\* without two sources at once, and remainingMs is exactly its end
\* (tts-audio-player.js:170-183, 260-268), cancellations included.
Seamless ==
    LET End(s) == s.wait + s.left
    IN  /\ \A s \in player.sources :
            /\ End(s) <= RemainingMs(player)
            /\ s.wait = 0 \/ \E t \in player.sources : End(t) = s.wait
            /\ \A t \in player.sources \ {s} : End(s) <= t.wait \/ End(t) <= s.wait
        /\ RemainingMs(player) = 0
             \/ \E s \in player.sources : End(s) = RemainingMs(player)

\* A guard that shut the microphone opens it again (speaker-echo-guard.js:286-287).
MicReopens == guard # "idling" ~> guard = "idling"

\* What the buffer holds is played or discarded: chunks of a stream that
\* never brings a final one are not kept back (tts-audio-player.js:220-223).
BufferDrains == player.bytes > 0 ~> player.bytes = 0
=============================================================================
