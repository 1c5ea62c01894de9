------------------------------ MODULE AudioWire ------------------------------
(***************************************************************************)
(* The audio formats of converse_framework/audio_utils.py, along the way   *)
(* of the audio: microphone frames are packed by the client as binary or   *)
(* JSON messages, validated and unpacked by the server, joined to an       *)
(* utterance, trimmed of silence and converted for the ASR provider; the   *)
(* output of a TTS provider is converted to PCM.                           *)
(*                                                                         *)
(* A sample is a signed number of two bytes, and a byte a number below     *)
(* Byte, which is 256 in the code.  A float is a multiple of 1/FullScale.  *)
(* Of the metadata of a message only the fields that are not as they       *)
(* should be count.                                                        *)
(***************************************************************************)
EXTENDS Integers, Sequences, SequencesExt, FiniteSets

CONSTANTS Byte,        \* number of values of a byte
          FrameLength, \* samples of a frame
          Captured,    \* what the microphone brings: sequences of samples
          Modes,       \* names of modes, as sequences of bytes, maybe empty
          Default,     \* default_mode of the session
          QuietBelow,  \* rms_threshold, as an energy
          Made,        \* what a TTS provider makes: sequences of floats
          MaxFrames    \* bound: frames of an utterance

FullScale == (Byte * Byte) \div 2
Samples == -FullScale .. FullScale - 1

VARIABLES
    collected,    \* frames that the collector has been given
    originals,    \* history: the frames of the client that should be there
    answer,       \* what became of the latest message or conversion
    transcribed,  \* the latest utterance, as captured and as the ASR server has it
    spoken        \* the latest synthesized audio, as made and as it is sent

wireVars == <<collected, originals, answer, transcribed, spoken>>

Init ==
    /\ collected = <<>> /\ originals = <<>>
    /\ answer = "none"
    /\ transcribed = [captured |-> <<>>, got |-> <<>>]
    /\ spoken = [made |-> <<>>, sent |-> <<>>]

\* The two bytes of each sample, the low one first.
Bytes(samples) ==
    [k \in 1 .. 2 * Len(samples) |->
        LET unsigned == samples[(k + 1) \div 2] % (Byte * Byte)
        IN  IF k % 2 = 1 THEN unsigned % Byte ELSE unsigned \div Byte]

\* Conversion to int16, which wraps around.
Int16(n) == ((n + FullScale) % (Byte * Byte)) - FullScale

\* Mutant of Signed: the samples are read as unsigned numbers.
Unsigned(n) == n

\* dtype "<i2"
Signed(n) == Int16(n)

SamplesOf(bytes) ==
    [i \in 1 .. Len(bytes) \div 2 |-> Signed(bytes[2 * i - 1] + Byte * bytes[2 * i])]

-----------------------------------------------------------------------------
(* Messages *)

\* encodeBinaryAudioFrameV1 and the JSON message of _sendFrame.
Pack(format, pcm, mode) ==
    IF format = "binary"
    THEN [format |-> format, wrong |-> {}, mode |-> <<>>, modeLength |-> Len(mode),
          body |-> mode \o Bytes(pcm)]
    ELSE [format |-> format, wrong |-> {}, mode |-> mode, modeLength |-> 0,
          body |-> Bytes(pcm)]

\* Fields that a client of another version or configuration sets otherwise.
Fields(format) ==
    IF format = "binary"
    THEN {"header", "magic", "version", "kind", "sample_rate", "channels", "frame_ms"}
    ELSE {"encoding", "sequence", "base64", "sample_rate", "channels", "frame_ms"}

\* A message that is not what Pack makes of a frame: a field is different or
\* null, or the end of the message is cut off or not its own.
Malformed(packet) ==
    {[packet EXCEPT !.wrong = {f}] : f \in Fields(packet.format)}
    \cup {[packet EXCEPT !.wrong = {"null"}] : f \in {"json"} \cap {packet.format}}
    \cup {[packet EXCEPT !.body = Front(@)], [packet EXCEPT !.body = Append(@, 0)]}
    \cup (IF packet.format = "json" THEN {[packet EXCEPT !.body = <<>>]}
          ELSE {[packet EXCEPT !.modeLength = n] :
                   n \in {packet.modeLength + 1, Len(packet.body) + 1,
                          packet.modeLength - 1} \ {-1}}
               \cup {[packet EXCEPT !.body = [@ EXCEPT ![1] = Byte - 1]] :
                         m \in {1} \cap {packet.modeLength}})

\* The byte Byte - 1 stands for those that are not UTF-8.
Utf8(bytes) == \A i \in DOMAIN bytes : bytes[i] # Byte - 1

\* _validate_audio_frame_metadata, with the checks before and after it.
AsExpected(packet) == packet.wrong = {}

\* Mutant of WholeFrame: a short frame will do.
WholeFrameOrLess(data) == Len(data) <= 2 * FrameLength

\* _make_audio_frame
WholeFrame(data) == Len(data) = 2 * FrameLength

Rejected == [ok |-> FALSE]
MakeFrame(data, mode) ==
    IF WholeFrame(data) THEN [ok |-> TRUE, data |-> data, mode |-> mode] ELSE Rejected

\* parse_binary_audio_frame; an empty mode is the session's to choose.
ParseBinary(packet) ==
    LET mode == SubSeq(packet.body, 1, packet.modeLength)
    IN  IF AsExpected(packet) /\ Len(packet.body) >= packet.modeLength /\ Utf8(mode)
        THEN MakeFrame(SubSeq(packet.body, packet.modeLength + 1, Len(packet.body)),
                       IF mode = <<>> THEN Default ELSE mode)
        ELSE Rejected

\* parse_audio_frame; the session has taken the mode out of the message.
ParseJson(packet) ==
    IF AsExpected(packet) /\ packet.body # <<>> THEN MakeFrame(packet.body, packet.mode)
    ELSE Rejected

Parse(packet) == IF packet.format = "binary" THEN ParseBinary(packet) ELSE ParseJson(packet)

\* _handle_audio_frame and _handle_binary_audio_frame: a frame goes to the
\* collector, a malformed one is answered; int(None) is no ValueError.
Handle(packet) ==
    LET frame == Parse(packet)
    IN  /\ collected' = IF frame.ok THEN Append(collected, frame) ELSE collected
        /\ answer' = CASE frame.ok -> "none"
                       [] "null" \in packet.wrong -> "TypeError"
                       [] OTHER -> "audio.frame_error"
    /\ UNCHANGED <<transcribed, spoken>>

\* What the client means by an empty mode is the default one; in JSON the
\* session takes it for a mode of that name, which is left out here.
Send(format, pcm, mode) ==
    /\ Len(collected) < MaxFrames
    /\ format = "json" => mode # <<>>
    /\ Handle(Pack(format, pcm, mode))
    /\ originals' = Append(originals, [ok |-> TRUE, data |-> Bytes(pcm),
                                       mode |-> IF mode = <<>> THEN Default ELSE mode])

SendMalformed(format, pcm, mode) ==
    /\ Len(collected) < MaxFrames
    /\ \E packet \in Malformed(Pack(format, pcm, mode)) : Handle(packet)
    /\ UNCHANGED originals

-----------------------------------------------------------------------------
(* Conversions *)

\* pcm_s16le_to_float32
PcmToFloat(bytes) == SamplesOf(bytes)

Clip(x) == IF x < -FullScale THEN -FullScale ELSE IF x > FullScale THEN FullScale ELSE x

\* Mutant of Scale: the positive side is multiplied by 32768 too.
ScaleAlike(x) == x

\* The positive side is multiplied by 32767, and the fraction dropped.
Scale(x) == IF x < 0 THEN x ELSE (x * (FullScale - 1)) \div FullScale

\* float_audio_to_pcm_s16le_bytes
FloatToPcm(floats) ==
    Bytes([i \in DOMAIN floats |-> Int16(Scale(Clip(floats[i])))])

\* float_audio_to_wav_bytes; no audio makes no file.
FloatToWav(floats) ==
    IF floats = <<>> THEN [riff |-> FALSE, width |-> 0, pcm |-> <<>>]
    ELSE [riff |-> TRUE, width |-> 2, pcm |-> FloatToPcm(floats)]

\* wav_bytes_to_pcm_s16le: a file that is none is no audio, a file of another
\* width an error.
WavToPcm(file) ==
    IF ~file.riff THEN [ok |-> TRUE, pcm |-> <<>>]
    ELSE [ok |-> file.width = 2, pcm |-> IF file.width = 2 THEN file.pcm ELSE <<>>]

\* compute_pcm16_level: the RMS level, as an energy.
Level(data) == FoldSeq(LAMBDA s, sum : s * s + sum, 0, SamplesOf(data))
Quiet(data) == Level(data) < QuietBelow

\* Mutant of Trim: the frames that are not quiet are joined.
LoudOnly(data) == SelectSeq(data, LAMBDA frame : ~Quiet(frame))

\* trim_pcm16_silence: the quiet frames at the beginning and at the end go.
Trim(data) ==
    LET loud == {i \in DOMAIN data : ~Quiet(data[i])}
    IN  IF loud = {} THEN <<>>
        ELSE SubSeq(data, CHOOSE i \in loud : \A j \in loud : i <= j,
                          CHOOSE i \in loud : \A j \in loud : j <= i)

\* An utterance ends: it is trimmed, and what is left of it goes to the server
\* of an ASR provider as a WAV file (audio_cpp.py:509, openai_compat.py:293).
Transcribe ==
    /\ collected # <<>>
    /\ LET data(frames) == [i \in DOMAIN frames |-> frames[i].data]
           pcm == FlattenSeq(Trim(data(collected)))
       IN  transcribed' = [captured |-> data(originals),
                           got |-> SamplesOf(FloatToWav(PcmToFloat(pcm)).pcm)]
    /\ collected' = <<>> /\ originals' = <<>>
    /\ answer' = "none"
    /\ UNCHANGED spoken

\* A TTS provider has made audio and converts it (kokoro_onnx.py:247).
Synthesize(floats) ==
    /\ spoken' = [made |-> floats, sent |-> SamplesOf(FloatToPcm(floats))]
    /\ answer' = "none"
    /\ UNCHANGED <<collected, originals, transcribed>>

\* A speech server has made audio and sent a file (audio_cpp.py:328), or
\* something else.
Relay(floats, riff, width) ==
    /\ LET pcm == WavToPcm([FloatToWav(floats) EXCEPT !.riff = @ /\ riff, !.width = width])
       IN  IF pcm.ok /\ pcm.pcm # <<>>
           THEN /\ spoken' = [made |-> floats, sent |-> SamplesOf(pcm.pcm)]
                /\ answer' = "none"
           ELSE /\ answer' = IF pcm.ok THEN "no audio" ELSE "ValueError"
                /\ UNCHANGED spoken
    /\ UNCHANGED <<collected, originals, transcribed>>

Next ==
    \/ \E format \in {"binary", "json"}, pcm \in Captured, mode \in Modes :
        Send(format, pcm, mode) \/ SendMalformed(format, pcm, mode)
    \/ Transcribe
    \/ \E floats \in Made :
        \/ Synthesize(floats)
        \/ \E riff \in BOOLEAN, width \in {1, 2} : Relay(floats, riff, width)

Spec == Init /\ [][Next]_wireVars

-----------------------------------------------------------------------------
(* Properties *)

\* The variables have their types; what is sent is a number of two bytes.
TypeOK ==
    /\ \A i \in DOMAIN collected :
        /\ collected[i].mode \in Modes \cup {Default}
        /\ \A k \in DOMAIN collected[i].data : collected[i].data[k] \in 0 .. Byte - 1
    /\ answer \in {"none", "audio.frame_error", "TypeError", "ValueError", "no audio"}
    /\ \A i \in DOMAIN transcribed.got : transcribed.got[i] \in Samples
    /\ \A i \in DOMAIN spoken.sent : spoken.sent[i] \in Samples

\* The collector gets every frame that was packed, byte for byte and with its
\* mode, in either format, and nothing else: no message that is malformed,
\* mislabelled, cut or padded yields a frame.
FramesIntact == collected = originals

Near(s, t) == t = s \/ (s > 0 /\ t = s - 1)

\* What an ASR server transcribes is what was captured, from the first to the
\* last loud frame with all there is between them, and no sample is off by
\* more than one step.
HeardAsCaptured ==
    LET n == Len(transcribed.captured)
        span(i, j) == SamplesOf(FlattenSeq(SubSeq(transcribed.captured, i, j)))
    IN  \/ transcribed.got = <<>> /\ \A i \in 1 .. n : Quiet(transcribed.captured[i])
        \/ \E i \in 1 .. n : \E j \in i .. n :
              /\ \A k \in 1 .. n : ~Quiet(transcribed.captured[k]) => k \in i .. j
              /\ ~Quiet(transcribed.captured[i]) /\ ~Quiet(transcribed.captured[j])
              /\ Len(transcribed.got) = Len(span(i, j))
              /\ \A k \in DOMAIN transcribed.got : Near(span(i, j)[k], transcribed.got[k])

\* Loud audio never wraps around: what is louder when it is made is not
\* softer when it is sent, and what is in phase stays so, even beyond 1.0.
SpokenAsMade ==
    LET made == spoken.made
        sent == spoken.sent
    IN  /\ Len(sent) = Len(made)
        /\ \A i, j \in DOMAIN made : made[i] <= made[j] => sent[i] <= sent[j]
        /\ \A i \in DOMAIN made : made[i] * sent[i] >= 0
=============================================================================
