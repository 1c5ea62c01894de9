------------------------- MODULE UtteranceCollector -------------------------
(***************************************************************************)
(* AudioUtteranceCollector of converse_framework/utterance_collector.py    *)
(* and the speech detection of SileroVADProvider (providers/silero.py).    *)
(*                                                                         *)
(* The receive loop feeds one frame at a time to ingest_frame; other       *)
(* coroutines of the application may swap the VAD, change the              *)
(* configuration or unload a model whenever ingest_frame is suspended.     *)
(*                                                                         *)
(* A frame is its number, audio is a sequence of frames, a VAD probability *)
(* is one of three levels and the energy of an utterance one of three.     *)
(* Durations are counted in frames, and a frame is no longer than a VAD    *)
(* window (30 and 32 ms by default), so that it completes at most one.     *)
(***************************************************************************)
EXTENDS Naturals, Sequences

CONSTANTS Modes,         \* conversation modes
          Vads,          \* VAD providers
          FirstVad,      \* the VAD the collector is built with
          Rejecting,     \* VADs configured for another sample rate
          PreFrames,     \* pre_speech_frames
          MaxUtterance,  \* max_utterance_frames
          Hangover,      \* hangover_ms, in windows
          MinSpeech,     \* min_speech_duration_ms, in frames
          LowEnergyMax,  \* reject_low_energy_max_duration_ms, in frames
          AppOps,        \* what the other coroutines and the callbacks do
          MaxFrames,     \* bound: frames ever ingested
          MaxTrim,       \* bound: frames trimmed from either end
          MaxUpdates     \* bound: operations and raising callbacks

ASSUME CollectorAssumption ==
    /\ FirstVad \in Vads
    /\ Rejecting \subseteq Vads
    /\ PreFrames \in Nat \ {0}
    /\ MaxUtterance \in Nat \ {0}
    /\ Hangover \in Nat \ {0}
    /\ MinSpeech \in Nat
    /\ LowEnergyMax \in Nat
    /\ MaxFrames \in Nat
    /\ MaxTrim \in Nat
    /\ MaxUpdates \in Nat
    /\ AppOps \subseteq {"vad", "config", "unload", "raise"}
    /\ Modes # {}

VARIABLES
    frames,     \* number of frames ingested
    pre,        \* _pre_buffer
    buf,        \* _utterance_buffer
    recording,  \* _recording
    recMode,    \* _recording_mode
    vad,        \* _vad
    speaking,   \* speaking[v]: _speaking of VAD v
    silence,    \* silence[v]: _silence_ms of VAD v
    model,      \* model[v]: its model, absent, loaded or failed to load
    rx,         \* the locals of ingest_frame
    updates,    \* number of operations of the other coroutines, and of
                \* callbacks that raised
    onset,      \* history: frame, mode and VAD of the last start
    voiced,     \* history: the frames that completed a window of speech
    out         \* history: the utterances handed to the callback

vars == <<frames, pre, buf, recording, recMode, vad, speaking, silence,
          model, rx, updates, onset, voiced, out>>
detector == <<speaking, silence>>
history == <<onset, voiced>>

NoMode == "none"
Idle == [pc |-> "idle", mode |-> NoMode, pcm |-> <<>>]
Goto(pc) == rx' = [rx EXCEPT !.pc = pc]

Init ==
    /\ frames = 0
    /\ pre = <<>> /\ buf = <<>>
    /\ recording = FALSE
    /\ recMode = NoMode
    /\ vad = FirstVad
    /\ speaking = [v \in Vads |-> FALSE]
    /\ silence = [v \in Vads |-> 0]
    /\ model = [v \in Vads |-> "absent"]
    /\ rx = Idle
    /\ updates = 0
    /\ onset = [frame |-> 0, mode |-> NoMode, vad |-> FirstVad]
    /\ voiced = {}
    /\ out = <<>>

-----------------------------------------------------------------------------
(* Ingest *)

\* Appending to a deque drops its oldest element when it is full.
Push(queue, f) ==
    IF Len(queue) < PreFrames THEN Append(queue, f) ELSE Append(Tail(queue), f)

\* ingest_frame up to the call of the VAD, with what becomes of _recording.
Ingest(m, goesOn) ==
    LET f == frames + 1 IN
    /\ rx.pc = "idle"
    /\ frames < MaxFrames
    /\ frames' = f
    /\ pre' = Push(pre, f)
    /\ buf' = IF recording THEN Append(buf, f) ELSE buf
    /\ recording' = (recording /\ goesOn)
    /\ rx' = [Idle EXCEPT !.pc = "vad", !.mode = m]
    /\ UNCHANGED <<recMode, vad, detector, model, updates, history, out>>

\* Mutant: an utterance may be of any length.
IngestFrameUnlimited(m) == Ingest(m, TRUE)

\* An utterance that is too long is not recorded any further; what was
\* recorded stays until the VAD ends it.
IngestFrame(m) == Ingest(m, Len(buf) < MaxUtterance)

-----------------------------------------------------------------------------
(* The VAD hears a frame *)

\* process_frame of a VAD that has its model, or loads it now.
Hears ==
    /\ rx.pc = "vad"
    /\ vad \notin Rejecting
    /\ model[vad] # "failed"
    /\ model' = [model EXCEPT ![vad] = "loaded"]

\* A window at or above the threshold starts speech.  The mode is taken, then
\* the hook and the cancel callback run.
SpeechStarts ==
    /\ Hears
    /\ ~speaking[vad]
    /\ speaking' = [speaking EXCEPT ![vad] = TRUE]
    /\ silence' = [silence EXCEPT ![vad] = 0]
    /\ recMode' = rx.mode
    /\ voiced' = voiced \cup {frames}
    /\ onset' = [frame |-> frames, mode |-> rx.mode, vad |-> vad]
    /\ Goto("barge_in")
    /\ UNCHANGED <<frames, pre, buf, recording, vad, updates, out>>

SpeechGoesOn ==
    /\ Hears
    /\ speaking[vad]
    /\ silence' = [silence EXCEPT ![vad] = 0]
    /\ voiced' = voiced \cup {frames}
    /\ rx' = Idle
    /\ UNCHANGED <<frames, pre, buf, recording, recMode, vad, speaking,
                   updates, onset, out>>

\* A window below the negative threshold adds to the silence.
SilenceGrows ==
    /\ Hears
    /\ speaking[vad]
    /\ silence[vad] + 1 < Hangover
    /\ silence' = [silence EXCEPT ![vad] = @ + 1]
    /\ rx' = Idle
    /\ UNCHANGED <<frames, pre, buf, recording, recMode, vad, speaking,
                   updates, history, out>>

\* The utterance is taken off the buffer, with what becomes of _recording.
EndSpeech(goesOn) ==
    /\ Hears
    /\ speaking[vad]
    /\ speaking' = [speaking EXCEPT ![vad] = FALSE]
    /\ silence' = [silence EXCEPT ![vad] = 0]
    /\ recording' = goesOn
    /\ buf' = <<>>
    /\ rx' = [rx EXCEPT !.pc = "gates", !.pcm = buf]
    /\ UNCHANGED <<frames, pre, recMode, vad, updates, history, out>>

\* Mutant: the first quiet window ends speech.
SpeechEndsEarly == EndSpeech(FALSE)

\* Mutant: the end of speech leaves _recording as it is.
SpeechEndsRecording == silence[vad] + 1 >= Hangover /\ EndSpeech(recording)

\* The silence reaches the hangover.
SpeechEnds == silence[vad] + 1 >= Hangover /\ EndSpeech(FALSE)

\* No window is complete, or it changes nothing: it is between the thresholds,
\* or below them while nobody speaks.
NothingHeard ==
    /\ Hears
    /\ rx' = Idle
    /\ UNCHANGED <<frames, pre, buf, recording, recMode, vad, detector,
                   updates, history, out>>

\* The model is not there and cannot be loaded: no events, now and later.
Deaf ==
    /\ rx.pc = "vad"
    /\ model[vad] # "loaded"
    /\ model' = [model EXCEPT ![vad] = "failed"]
    /\ rx' = Idle
    /\ UNCHANGED <<frames, pre, buf, recording, recMode, vad, detector,
                   updates, history, out>>

\* A VAD for another sample rate raises ValueError once it has its model.
RejectsFrame ==
    /\ rx.pc = "vad"
    /\ vad \in Rejecting
    /\ model[vad] # "failed"
    /\ model' = [model EXCEPT ![vad] = "loaded"]
    /\ rx' = Idle
    /\ UNCHANGED <<frames, pre, buf, recording, recMode, vad, detector,
                   updates, history, out>>

-----------------------------------------------------------------------------
(* Utterances *)

\* Something that the application does, or a callback of its that raises.
Update(op) ==
    /\ op \in AppOps
    /\ updates < MaxUpdates
    /\ updates' = updates + 1

\* Hook and cancellation have returned: the utterance begins with audio.
Begin(audio) ==
    /\ rx.pc = "barge_in"
    /\ buf' = audio
    /\ recording' = TRUE
    /\ rx' = Idle
    /\ UNCHANGED <<frames, pre, recMode, vad, detector, model, updates,
                   history, out>>

\* Mutant: what the pre-speech buffer holds is left out.
BeginRecordingBare == Begin(<<>>)

\* The utterance begins with what the pre-speech buffer holds now.
BeginRecording == Begin(pre)

\* The hook or the cancellation raises to the caller of ingest_frame.
BargeInFails ==
    /\ rx.pc = "barge_in"
    /\ Update("raise")
    /\ rx' = Idle
    /\ UNCHANGED <<frames, pre, buf, recording, recMode, vad, detector,
                   model, history, out>>

(***************************************************************************)
(* _apply_rejection_gates.  The energy of an utterance is below            *)
(* reject_utterance_rms ("silent"), below reject_low_energy_rms ("faint"), *)
(* or "clear".                                                             *)
(***************************************************************************)
Energies == {"silent", "faint", "clear"}

Rejected(pcm, energy) ==
    \/ Len(pcm) < MinSpeech
    \/ Len(pcm) <= LowEnergyMax /\ energy # "clear"
    \/ energy = "silent"

\* trim_pcm16_silence drops quiet frames at both ends.  A clear utterance has
\* a frame that is not quiet; a faint one may have none.
Trimmed(pcm, energy) ==
    {s \in {SubSeq(pcm, i + 1, Len(pcm) - j) : i, j \in 0 .. MaxTrim} : s # <<>>}
        \cup (IF energy = "clear" THEN {} ELSE {<<>>})

RejectUtterance ==
    /\ rx.pc = "gates"
    /\ \/ rx.pcm = <<>>
       \/ \E energy \in Energies :
             Rejected(rx.pcm, energy) \/ <<>> \in Trimmed(rx.pcm, energy)
    /\ rx' = Idle
    /\ UNCHANGED <<frames, pre, buf, recording, recMode, vad, detector,
                   model, updates, history, out>>

\* The callback is awaited: it handles the whole turn, or raises.
DispatchUtterance ==
    /\ rx.pc = "gates"
    /\ rx.pcm # <<>>
    /\ \E energy \in Energies :
          /\ ~Rejected(rx.pcm, energy)
          /\ \E pcm \in Trimmed(rx.pcm, energy) :
                /\ pcm # <<>>
                /\ out' = Append(out, [pcm |-> pcm, raw |-> rx.pcm, mode |-> recMode,
                                       onset |-> onset])
    /\ Goto("turn")
    /\ UNCHANGED <<frames, pre, buf, recording, recMode, vad, detector,
                   model, updates, history>>

TurnReturns ==
    /\ rx.pc = "turn"
    /\ rx' = Idle
    /\ UNCHANGED <<frames, pre, buf, recording, recMode, vad, detector,
                   model, updates, history, out>>

-----------------------------------------------------------------------------
(* Other coroutines *)

\* update_vad_provider; while recording it raises and changes nothing.
UpdateVadProvider(v) ==
    /\ Update("vad")
    /\ ~recording
    /\ vad' = v
    /\ pre' = <<>>
    /\ UNCHANGED <<frames, buf, recording, recMode, detector, model, rx,
                   history, out>>

\* update_config; while recording it raises and changes nothing.  The settings
\* it replaces are the constants, which stay.
UpdateConfig ==
    /\ Update("config")
    /\ ~recording
    /\ pre' = <<>>
    /\ buf' = <<>>
    /\ UNCHANGED <<frames, recording, recMode, vad, detector, model, rx, history, out>>

\* unload of a VAD keeps whether it was hearing speech.
UnloadVad(v) ==
    /\ Update("unload")
    /\ model' = [model EXCEPT ![v] = "absent"]
    /\ UNCHANGED <<frames, pre, buf, recording, recMode, vad, detector, rx,
                   history, out>>

-----------------------------------------------------------------------------
Next ==
    \/ \E m \in Modes : IngestFrame(m)
    \/ SpeechStarts \/ SpeechGoesOn \/ SilenceGrows \/ SpeechEnds
    \/ NothingHeard \/ Deaf \/ RejectsFrame
    \/ BeginRecording \/ BargeInFails \/ RejectUtterance \/ DispatchUtterance \/ TurnReturns
    \/ \E v \in Vads : UpdateVadProvider(v) \/ UnloadVad(v)
    \/ UpdateConfig

Spec == Init /\ [][Next]_vars

-----------------------------------------------------------------------------
(* Properties *)

Consecutive(s) == \A i \in 1 .. Len(s) - 1 : s[i + 1] = s[i] + 1
FramesIn(s) == {s[i] : i \in 1 .. Len(s)}

(***************************************************************************)
(* What ASR gets is an uninterrupted stretch of the microphone, and the    *)
(* utterance it was cut from contains the frame in which speech was heard  *)
(* to start and goes out in the mode of that frame, as long as nothing was *)
(* swapped, reconfigured or raised: a swap empties the pre-speech buffer.  *)
(***************************************************************************)
UtterancesWhole ==
    updates = 0 =>
        \A i \in 1 .. Len(out) :
            /\ Consecutive(out[i].pcm)
            /\ out[i].onset.frame \in FramesIn(out[i].raw)
            /\ out[i].mode = out[i].onset.mode

(***************************************************************************)
(* No speech is transcribed twice: utterances share at most frames without *)
(* speech.  The pre-speech buffer is not cleared when an utterance ends,   *)
(* so this rests on a buffer of at most one frame more than the hangover.  *)
(***************************************************************************)
SpeechHeardOnce ==
    \A i, j \in 1 .. Len(out) : i # j =>
        FramesIn(out[i].pcm) \cap FramesIn(out[j].pcm) \cap voiced = {}

(***************************************************************************)
(* Between frames, an utterance is being recorded only while the VAD hears *)
(* speech, so that it will end, and up to the latest frame; when the VAD   *)
(* hears speech that is not recorded, the utterance was too long.          *)
(* A callback that raises, or a VAD that is swapped in, undoes this.       *)
(***************************************************************************)
RecordingLive ==
    rx.pc = "idle" /\ updates = 0 =>
        /\ recording => /\ speaking[vad]
                        /\ onset.frame \in FramesIn(buf) /\ frames \in FramesIn(buf)
        /\ speaking[vad] /\ ~recording => Len(buf) > MaxUtterance

(***************************************************************************)
(* Memory is bounded, whatever other coroutines do: the utterance buffer   *)
(* holds at most one frame more than the longest utterance, or what the    *)
(* pre-speech buffer gave it.                                              *)
(***************************************************************************)
BuffersBounded ==
    /\ Len(pre) <= PreFrames
    /\ Len(buf) <= MaxUtterance + 1 \/ Len(buf) <= PreFrames + 1
=============================================================================
