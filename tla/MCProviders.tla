----------------------------- MODULE MCProviders -----------------------------
(***************************************************************************)
(* Small instances of the provider modules and of the audio formats, side  *)
(* by side: they share no state, so a behaviour is one of the module that  *)
(* `which` names, and the others stay where they begin.                    *)
(***************************************************************************)
EXTENDS Integers, Sequences, FiniteSets

CONSTANTS Loads, Utterances, Workers,
          Streams, Assets, Pieces, MaxChunks,
          Jobs, Voices, MaxPieces, Coalesce, MaxChanges,
          Calls, Models, Model, NoModel,
          Requests, Offers, Wanted,
          Posts, Moves,
          Turns, Names, Swaps,
          Byte, FrameLength, Captured, Modes, Default, QuietBelow, Made, MaxFrames,
          Which  \* the modules that take part

VARIABLES
    which,
    asks, threads, whisper,
    streams, loaders, disk, content, kokoro, raced,
    pocket, lock, jobs, queue, heard, loop, changes, mixed,
    server, conn, calls, files, trouble,
    service, health, requests, failing,
    whisperd, moves, endpoint, unwell, posts, guessed, checked,
    llamad, swaps, useHealth, resolved, client, open, turns,
    collected, originals, answer, transcribed, spoken

FW == INSTANCE FasterWhisper
KO == INSTANCE KokoroOnnxProofs
PO == INSTANCE PocketTts
AC == INSTANCE AudioCpp
OA == INSTANCE OpenAICompat
WC == INSTANCE WhisperCpp
LC == INSTANCE LlamaCpp
AW == INSTANCE AudioWire

\* A Kokoro model has files, and they come in pieces; the audio of both TTS
\* providers does too.
ASSUME KokoroSizes == KO!Sizes
ASSUME PocketSizes == MaxPieces \in Nat /\ Coalesce \in Nat \ {0}

\* A thread of Pocket TTS is not called what nobody is.
ASSUME NamedJobs == "none" \notin Jobs

\* The server of whisper.cpp is replaced, and that of llama.cpp given another
\* model, some number of times; the calls of llama.cpp are finitely many.
ASSUME MovesBound == Moves \in Nat
ASSUME LlamaSizes == IsFiniteSet(Turns) /\ Swaps \in Nat

\* A sample has two bytes, and a frame some length; the names of modes are
\* UTF-8.
ASSUME WireSizes ==
    /\ Byte \in Nat \ {0} /\ Byte % 2 = 0 /\ FrameLength \in Nat \ {0}
    /\ \A pcm \in Captured : pcm \in Seq(AW!Samples) /\ Len(pcm) = FrameLength
    /\ \A mode \in Modes : mode \in Seq(0 .. Byte - 2)
    /\ \A floats \in Made : floats \in Seq(Int)

OneAsset == <<"kokoro-v1.0.int8.onnx">>

\* Samples of four bits: a quiet frame, and the loudest.
SomeFrames == {<<1, -1>>, <<-8, 7>>}
SomeModes == {<<>>, <<1>>}
ChatMode == <<2, 0>>

\* Every float from -1.5 to 1.5 in one piece of audio, and none in another.
SomeAudio == {[i \in 1 .. 25 |-> i - 13], <<>>}

whisperVars == <<asks, threads, whisper>>
kokoroVars == <<streams, loaders, disk, content, kokoro, raced>>
pocketVars == <<pocket, lock, jobs, queue, heard, loop, changes, mixed>>
audioVars == <<server, conn, calls, files, trouble>>
openaiVars == <<service, health, requests, failing>>
whispercppVars == <<whisperd, moves, endpoint, unwell, posts, guessed, checked>>
llamaVars == <<llamad, swaps, useHealth, resolved, client, open, turns>>
wireVars == <<collected, originals, answer, transcribed, spoken>>

vars == <<which, whisperVars, kokoroVars, pocketVars, audioVars, openaiVars,
          whispercppVars, llamaVars, wireVars>>

\* Where a provider that takes no part may begin in several ways, it begins in
\* one.
Init ==
    /\ which \in Which
    /\ FW!Init /\ KO!Init /\ PO!Init /\ AC!Init /\ OA!Init /\ WC!Init /\ LC!Init /\ AW!Init
    /\ which # "faster-whisper" => whisper.installed
    /\ which # "pocket-tts" => pocket.voice = CHOOSE v \in Voices : TRUE
    /\ which # "audio-cpp" => server = [health |-> "none", models |-> {}]
    /\ which # "openai-compatible" => service = [up |-> FALSE, models |-> {}]
    /\ which # "whisper-cpp" => whisperd = [up |-> FALSE, has |-> {WC!Inference}]
    /\ which # "llamacpp" => /\ llamad = [name |-> CHOOSE n \in Names : TRUE,
                                          strict |-> FALSE]
                             /\ useHealth

StillButFW == UNCHANGED <<kokoroVars, pocketVars, audioVars, openaiVars,
                          whispercppVars, llamaVars, wireVars>>
StillButKO == UNCHANGED <<whisperVars, pocketVars, audioVars, openaiVars,
                          whispercppVars, llamaVars, wireVars>>
StillButPO == UNCHANGED <<whisperVars, kokoroVars, audioVars, openaiVars,
                          whispercppVars, llamaVars, wireVars>>
StillButAC == UNCHANGED <<whisperVars, kokoroVars, pocketVars, openaiVars,
                          whispercppVars, llamaVars, wireVars>>
StillButOA == UNCHANGED <<whisperVars, kokoroVars, pocketVars, audioVars,
                          whispercppVars, llamaVars, wireVars>>
StillButWC == UNCHANGED <<whisperVars, kokoroVars, pocketVars, audioVars,
                          openaiVars, llamaVars, wireVars>>
StillButLC == UNCHANGED <<whisperVars, kokoroVars, pocketVars, audioVars,
                          openaiVars, whispercppVars, wireVars>>
StillButAW == UNCHANGED <<whisperVars, kokoroVars, pocketVars, audioVars,
                          openaiVars, whispercppVars, llamaVars>>

Next ==
    /\ \/ which = "faster-whisper" /\ FW!Next /\ StillButFW
       \/ which = "kokoro-onnx" /\ KO!Next /\ StillButKO
       \/ which = "pocket-tts" /\ PO!Next /\ StillButPO
       \/ which = "audio-cpp" /\ AC!Next /\ StillButAC
       \/ which = "openai-compatible" /\ OA!Next /\ StillButOA
       \/ which = "whisper-cpp" /\ WC!Next /\ StillButWC
       \/ which = "llamacpp" /\ LC!Next /\ StillButLC
       \/ which = "audio" /\ AW!Next /\ StillButAW
    /\ UNCHANGED which

Spec == Init /\ [][Next]_vars /\ FW!Fairness /\ PO!Fairness

-----------------------------------------------------------------------------
(* The properties, where the modules state them *)

\* Every variable has its type.
TypeOK ==
    /\ FW!TypeOK /\ KO!TypeOK /\ PO!TypeOK /\ AC!TypeOK /\ OA!TypeOK /\ WC!TypeOK
    /\ LC!TypeOK /\ AW!TypeOK

\* A call of faster-whisper raises only for a fault of its own.
OwnFaultsOnly == FW!OwnFaultsOnly

\* timeout_s bounds every call of faster-whisper, whatever hangs.
AsksEnd == FW!AsksEnd

\* A published Kokoro asset is whole unless two threads raced for it.
PublishedWhole == KO!PublishedWhole

\* A stream of speech passes on all its audio, once and in order.
SpokenWhole == KO!SpokenWhole /\ PO!SpokenWhole

\* Pocket TTS speaks with the voice and quantization that are selected.
SpeaksSelected == PO!SpeaksSelected

\* The event loop that waits for the Pocket TTS lock goes on.
LoopResumes == PO!LoopResumes

\* The files for audiocpp_server live exactly as long as they are needed.
FileLife == AC!FileLife

\* A server that is reported ready has earned it since it last failed, but for
\* malformed answers.
ReadyEarned == AC!ReadyEarned /\ OA!ReadyEarned

\* whisper.cpp posts to an endpoint it has found to exist.
ResolvedExposed == WC!ResolvedExposed

\* The HTTP clients of the LLM provider are closed or in use.
ClientsKept == LC!ClientsKept

\* A stale model name heals.
RefusalsCease == LC!RefusalsCease

\* Frames that were packed arrive, and nothing else does.
FramesIntact == AW!FramesIntact

\* What an ASR server hears is what was captured, trimmed of silence.
HeardAsCaptured == AW!HeardAsCaptured

\* Synthesized audio never wraps around.
SpokenAsMade == AW!SpokenAsMade
=============================================================================
