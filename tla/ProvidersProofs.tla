--------------------------- MODULE ProvidersProofs ---------------------------
(***************************************************************************)
(* Theorems about the providers, for any number of calls, threads and jobs *)
(* and any models, voices and servers, as theorems about MCProviders: a    *)
(* behaviour of the instances side by side is a behaviour of each of them. *)
(* Each provider has its inductive invariant and a section of its own, and *)
(* so have the formats in which audio goes to and from them; what is       *)
(* proved of Kokoro ONNX stands in KokoroOnnxProofs.                       *)
(***************************************************************************)
EXTENDS MCProviders, FiniteSetTheorems, SequenceTheorems, WellFoundedInduction, TLAPS

LEMMA WhisperIsOne == Spec => FW!Spec
<1>1. Init => FW!Init
  BY DEF Init
<1>2. [Next]_vars => [FW!Next]_(FW!whisperVars)
  BY DEF Next, vars, whisperVars, FW!whisperVars, StillButKO, StillButPO, StillButAC,
         StillButOA, StillButWC, StillButLC, StillButAW
<1> QED
  BY <1>1, <1>2, PTL DEF Spec, FW!Spec

LEMMA KokoroIsOne == Spec => KO!Spec
<1>1. Init => KO!Init
  BY DEF Init
<1>2. [Next]_vars => [KO!Next]_(KO!kokoroVars)
  BY DEF Next, vars, kokoroVars, KO!kokoroVars, StillButFW, StillButPO, StillButAC,
         StillButOA, StillButWC, StillButLC, StillButAW
<1> QED
  BY <1>1, <1>2, PTL DEF Spec, KO!Spec

LEMMA PocketIsOne == Spec => PO!Spec
<1>1. Init => PO!Init
  BY DEF Init
<1>2. [Next]_vars => [PO!Next]_(PO!pocketVars)
  BY DEF Next, vars, pocketVars, PO!pocketVars, StillButFW, StillButKO, StillButAC,
         StillButOA, StillButWC, StillButLC, StillButAW
<1> QED
  BY <1>1, <1>2, PTL DEF Spec, PO!Spec

LEMMA AudioCppIsOne == Spec => AC!Spec
<1>1. Init => AC!Init
  BY DEF Init
<1>2. [Next]_vars => [AC!Next]_(AC!audioVars)
  BY DEF Next, vars, audioVars, AC!audioVars, StillButFW, StillButKO, StillButPO,
         StillButOA, StillButWC, StillButLC, StillButAW
<1> QED
  BY <1>1, <1>2, PTL DEF Spec, AC!Spec

LEMMA OpenAIIsOne == Spec => OA!Spec
<1>1. Init => OA!Init
  BY DEF Init
<1>2. [Next]_vars => [OA!Next]_(OA!openaiVars)
  BY DEF Next, vars, openaiVars, OA!openaiVars, StillButFW, StillButKO, StillButPO,
         StillButAC, StillButWC, StillButLC, StillButAW
<1> QED
  BY <1>1, <1>2, PTL DEF Spec, OA!Spec

LEMMA WhisperCppIsOne == Spec => WC!Spec
<1>1. Init => WC!Init
  BY DEF Init
<1>2. [Next]_vars => [WC!Next]_(WC!whispercppVars)
  BY DEF Next, vars, whispercppVars, WC!whispercppVars, StillButFW, StillButKO, StillButPO,
         StillButAC, StillButOA, StillButLC, StillButAW
<1> QED
  BY <1>1, <1>2, PTL DEF Spec, WC!Spec

LEMMA LlamaIsOne == Spec => LC!Spec
<1>1. Init => LC!Init
  BY DEF Init
<1>2. [Next]_vars => [LC!Next]_(LC!llamaVars)
  BY DEF Next, vars, llamaVars, LC!llamaVars, StillButFW, StillButKO, StillButPO,
         StillButAC, StillButOA, StillButWC, StillButAW
<1> QED
  BY <1>1, <1>2, PTL DEF Spec, LC!Spec

LEMMA WireIsOne == Spec => AW!Spec
<1>1. Init => AW!Init
  BY DEF Init
<1>2. [Next]_vars => [AW!Next]_(AW!wireVars)
  BY DEF Next, vars, wireVars, AW!wireVars, StillButFW, StillButKO, StillButPO,
         StillButAC, StillButOA, StillButWC, StillButLC
<1> QED
  BY <1>1, <1>2, PTL DEF Spec, AW!Spec

-----------------------------------------------------------------------------
(* faster-whisper, for any number of calls and of threads *)

(***************************************************************************)
(* A function that has passed _ensure_model finds a model from then on, or *)
(* something has happened since that was to fail it; and what has failed   *)
(* had its reason.                                                         *)
(***************************************************************************)
ModelOrFault ==
    \A a \in FW!Asks :
        threads[a] \in {"loaded", "inferring"} /\ ~whisper.model => asks[a].fault

FailedForFault == \A a \in FW!Asks : threads[a] = "failed" => asks[a].fault

WhisperInv == FW!TypeOK /\ ModelOrFault /\ FailedForFault /\ FW!OwnFaultsOnly

-----------------------------------------------------------------------------
(* What the operators preserve *)

\* Faulty adds faults to calls whose function runs, and takes none away.
LEMMA FaultyAdds ==
    ASSUME FW!TypeOK, NEW hit
    PROVE  /\ FW!Faulty(hit) \in
                [FW!Asks -> [at : {"idle", "waiting", "returned", "raised", "timed_out"},
                             fault : BOOLEAN]]
           /\ \A a \in FW!Asks :
                /\ FW!Faulty(hit)[a].at = asks[a].at
                /\ FW!Faulty(hit)[a].fault = (asks[a].fault \/ a \in hit \cap FW!Working)
BY DEF FW!TypeOK, FW!Faulty

-----------------------------------------------------------------------------
(* The invariant is inductive *)

LEMMA WhisperInitInv ==
    ASSUME FW!Init
    PROVE  WhisperInv
BY DEF FW!Init, WhisperInv, FW!TypeOK, ModelOrFault, FailedForFault, FW!OwnFaultsOnly

\* The model is lost, and every call whose function runs may fail of it.
LEMMA UnloadInv ==
    ASSUME WhisperInv, FW!Unload
    PROVE  WhisperInv'
<1>1. FW!TypeOK
  BY DEF WhisperInv
<1>2. FW!TypeOK'
  BY <1>1, FaultyAdds DEF FW!Unload, FW!TypeOK
<1>3. \A a \in FW!Asks :
        /\ asks'[a].at = asks[a].at
        /\ asks'[a].fault = (asks[a].fault \/ a \in FW!Working)
  BY <1>1, FaultyAdds DEF FW!Unload
<1>4. threads' = threads
  BY DEF FW!Unload
<1> QED
  BY <1>2, <1>3, <1>4 DEF WhisperInv, ModelOrFault, FailedForFault, FW!OwnFaultsOnly, FW!Working

\* A loading that raises is the fault of its call.
LEMMA LoadRaisesInv ==
    ASSUME WhisperInv, NEW a \in FW!Asks, FW!LoadRaises(a)
    PROVE  WhisperInv'
<1>1. FW!TypeOK /\ threads[a] = "loading" /\ a \in FW!Working
  BY DEF WhisperInv, FW!LoadRaises, FW!Thread, FW!Working
<1>2. FW!TypeOK'
  BY <1>1, FaultyAdds DEF FW!LoadRaises, FW!Thread, FW!TypeOK
<1>3. \A b \in FW!Asks :
        /\ asks'[b].at = asks[b].at
        /\ asks'[b].fault = (asks[b].fault \/ b = a)
  BY <1>1, FaultyAdds DEF FW!LoadRaises
<1>4. \A b \in FW!Asks : b # a => threads'[b] = threads[b]
  BY <1>1 DEF FW!LoadRaises, FW!Thread, FW!TypeOK
<1>5. whisper'.model = whisper.model
  BY <1>1 DEF FW!LoadRaises, FW!TypeOK
<1> QED
  BY <1>2, <1>3, <1>4, <1>5 DEF WhisperInv, ModelOrFault, FailedForFault, FW!OwnFaultsOnly

LEMMA LoadSucceedsInv ==
    ASSUME WhisperInv, NEW a \in FW!Asks, FW!LoadSucceeds(a)
    PROVE  WhisperInv'
BY DEF WhisperInv, FW!TypeOK, FW!LoadSucceeds, FW!Thread, ModelOrFault, FailedForFault,
       FW!OwnFaultsOnly

\* The inference finds the model gone, which was a fault, or raises itself.
LEMMA InferInv ==
    ASSUME WhisperInv, NEW a \in FW!Asks, FW!Infer(a)
    PROVE  WhisperInv'
<1>1. FW!TypeOK /\ threads[a] = "inferring" /\ a \in FW!Working
  BY DEF WhisperInv, FW!Infer, FW!Thread, FW!Working
<1>2. CASE asks' = FW!Faulty({a})
  <2>1. /\ whisper' = whisper
        /\ \/ threads' = [threads EXCEPT ![a] = "failed"]
           \/ threads' = [threads EXCEPT ![a] = IF whisper.model THEN "done" ELSE "failed"]
    BY DEF FW!Infer, FW!Thread
  <2>2. \A b \in FW!Asks :
          /\ asks'[b].at = asks[b].at
          /\ asks'[b].fault = (asks[b].fault \/ b = a)
    BY <1>1, <1>2, FaultyAdds
  <2>3. \A b \in FW!Asks : b # a => threads'[b] = threads[b]
    BY <1>1, <2>1 DEF FW!TypeOK
  <2>4. /\ asks' \in [FW!Asks -> [at : {"idle", "waiting", "returned", "raised", "timed_out"},
                              fault : BOOLEAN]]
        /\ whisper' = whisper
    BY <1>1, <1>2, <2>1, FaultyAdds
  <2>5. FW!TypeOK'
    BY <1>1, <2>1, <2>4 DEF FW!TypeOK
  <2> QED
    BY <2>2, <2>3, <2>4, <2>5 DEF WhisperInv, ModelOrFault, FailedForFault, FW!OwnFaultsOnly
<1>3. CASE UNCHANGED <<asks, whisper>>
           /\ threads' = [threads EXCEPT ![a] = IF whisper.model THEN "done" ELSE "failed"]
  BY <1>1, <1>3 DEF WhisperInv, FW!TypeOK, ModelOrFault, FailedForFault, FW!OwnFaultsOnly
<1> QED
  BY <1>2, <1>3 DEF FW!Infer, FW!Thread

LEMMA WhisperNextInv ==
    ASSUME WhisperInv, [FW!Next]_(FW!whisperVars)
    PROVE  WhisperInv'
<1> USE DEF WhisperInv
<1>1. CASE FW!Unload
  BY <1>1, UnloadInv
<1>2. CASE FW!Probe
  BY <1>2 DEF FW!Probe, FW!TypeOK, ModelOrFault, FailedForFault, FW!OwnFaultsOnly
<1>3. ASSUME NEW a \in FW!Asks, FW!Load(a)
      PROVE  WhisperInv'
  BY <1>3 DEF FW!Load, FW!Begins, FW!TypeOK, ModelOrFault, FailedForFault, FW!OwnFaultsOnly
<1>4. ASSUME NEW a \in FW!Asks, FW!TranscribeAudio(a)
      PROVE  WhisperInv'
  BY <1>4 DEF FW!TranscribeAudio, FW!Begins, FW!TypeOK, ModelOrFault, FailedForFault,
              FW!OwnFaultsOnly
<1>5. ASSUME NEW a \in FW!Asks, FW!Resume(a)
      PROVE  WhisperInv'
  BY <1>5 DEF FW!Resume, FW!TypeOK, ModelOrFault, FailedForFault, FW!OwnFaultsOnly
<1>6. ASSUME NEW a \in FW!Asks, FW!Timeout(a)
      PROVE  WhisperInv'
  BY <1>6 DEF FW!Timeout, FW!TimesOut, FW!TypeOK, ModelOrFault, FailedForFault, FW!OwnFaultsOnly
<1>7. ASSUME NEW a \in FW!Asks, FW!Begin(a)
      PROVE  WhisperInv'
  BY <1>7 DEF FW!Begin, FW!Thread, FW!TypeOK, ModelOrFault, FailedForFault, FW!OwnFaultsOnly
<1>8. ASSUME NEW a \in FW!Asks, FW!EnsureModel(a)
      PROVE  WhisperInv'
  BY <1>8 DEF FW!EnsureModel, FW!NeedsModel, FW!Thread, FW!TypeOK, ModelOrFault, FailedForFault,
              FW!OwnFaultsOnly
<1>9. ASSUME NEW a \in FW!Asks, FW!LoadSucceeds(a) \/ FW!LoadRaises(a) \/ FW!Infer(a)
      PROVE  WhisperInv'
  BY <1>9, LoadSucceedsInv, LoadRaisesInv, InferInv
<1>10. ASSUME NEW a \in FW!Asks, FW!CheckModel(a)
       PROVE  WhisperInv'
  BY <1>10 DEF FW!CheckModel, FW!Thread, FW!TypeOK, ModelOrFault, FailedForFault,
               FW!OwnFaultsOnly
<1>11. CASE UNCHANGED FW!whisperVars
  BY <1>11 DEF FW!whisperVars, FW!TypeOK, ModelOrFault, FailedForFault, FW!OwnFaultsOnly
<1> QED
  BY <1>1, <1>2, <1>3, <1>4, <1>5, <1>6, <1>7, <1>8, <1>9, <1>10, <1>11 DEF FW!Next

LEMMA WhisperStays == Spec => []WhisperInv
<1>1. FW!Init => WhisperInv
  BY WhisperInitInv
<1>2. WhisperInv /\ [FW!Next]_(FW!whisperVars) => WhisperInv'
  BY WhisperNextInv
<1> QED
  BY <1>1, <1>2, WhisperIsOne, PTL DEF FW!Spec

\* A call of faster-whisper raises only for a fault of its own: not for the
\* timeouts and errors of other calls, which _load_error keeps, whatever
\* threads of theirs go on (faster_whisper.py:104-167).
THEOREM FaultsStayOwn == Spec => []OwnFaultsOnly
<1>1. WhisperInv => OwnFaultsOnly
  BY DEF WhisperInv, OwnFaultsOnly
<1> QED
  BY <1>1, WhisperStays, PTL


-----------------------------------------------------------------------------
(***************************************************************************)
(* audio.cpp. A call has a file exactly while it is at a point that needs  *)
(* one, and what a status says was noted after the last thing that went    *)
(* wrong.                                                                  *)
(***************************************************************************)

\* A call that has not sent its request says so, and one that is not the
\* transcription of an utterance has no file.
AudioFiled ==
    \A c \in Calls :
        /\ calls[c].at \in {"idle", "health", "models", "started", "queued"} => ~calls[c].sent
        /\ calls[c].at \in {"idle", "health", "models", "started", "speech"} => c \notin files
        /\ calls[c].at \in {"queued", "transcript"} => c \in files

\* The kind of a call in progress is that of the provider that was called.
AudioKinds ==
    \A c \in Calls :
        /\ calls[c].at \in {"health", "models"} => calls[c].kind \in AC!Providers
        /\ calls[c].at \in {"started", "speech"} => calls[c].kind = "tts"
        /\ calls[c].at \in {"queued", "transcript"} => calls[c].kind = "asr"

AudioInv == AC!TypeOK /\ AudioFiled /\ AudioKinds /\ AC!FileLife /\ AC!ReadyEarned

-----------------------------------------------------------------------------
(* The status that is noted *)

AudioConns == [AC!Providers -> [ready : BOOLEAN, error : BOOLEAN]]
AudioTroubles == [AC!Providers -> SUBSET AC!Troubles]

\* A check notes what it found, a request that it failed.
LEMMA AudioNoted ==
    ASSUME conn \in AudioConns, trouble \in AudioTroubles,
           NEW kind \in AC!Providers, NEW ok \in BOOLEAN
    PROVE  /\ [conn EXCEPT ![kind] = [ready |-> ok, error |-> ~ok]] \in AudioConns
           /\ [conn EXCEPT ![kind].error = TRUE] \in AudioConns
           /\ \A t \in AC!Troubles :
                [trouble EXCEPT ![kind] = trouble[kind] \cup {t}] \in AudioTroubles
           /\ AC!Note(kind, ok) => conn' \in AudioConns
           /\ AC!Recall(kind, ok) => trouble' \in AudioTroubles
           /\ "failed" \in AC!Troubles /\ "malformed" \in AC!Troubles
<1>1. \A t \in AC!Troubles :
        [trouble EXCEPT ![kind] = trouble[kind] \cup {t}] \in AudioTroubles
  BY DEF AudioTroubles
<1>2. "failed" \in AC!Troubles /\ "malformed" \in AC!Troubles
  BY DEF AC!Troubles
<1>3. [trouble EXCEPT ![kind] = {}] \in AudioTroubles
  BY DEF AudioTroubles
<1>4. AC!Recall(kind, ok) => trouble' \in AudioTroubles
  <2>1. CASE ok
    BY <2>1, <1>3 DEF AC!Recall
  <2>2. CASE ~ok
    BY <2>2, <1>1, <1>2 DEF AC!Recall
  <2> QED
    BY <2>1, <2>2
<1>5. [conn EXCEPT ![kind] = [ready |-> ok, error |-> ~ok]] \in AudioConns
  BY DEF AudioConns
<1>6. [conn EXCEPT ![kind].error = TRUE] \in AudioConns
  BY DEF AudioConns
<1>7. AC!Note(kind, ok) => conn' \in AudioConns
  BY <1>5 DEF AC!Note
<1> QED
  BY <1>1, <1>2, <1>4, <1>5, <1>6, <1>7

-----------------------------------------------------------------------------
(* The files *)

AudioCall == [kind : AC!Providers \cup {"none"}, sent : BOOLEAN,
             at : {"idle", "health", "models", "started", "speech", "queued",
                   "transcript"} \cup AC!Ended]

\* Only call c has changed, and it is now at this point.
AudioBecomes(c, kind, label, sent) ==
    /\ calls' \in [Calls -> AudioCall]
    /\ \A d \in Calls \ {c} : calls'[d] = calls[d]
    /\ calls'[c].kind = kind /\ calls'[c].at = label /\ calls'[c].sent = sent

\* Init and each step keep the part of the invariant that is about files.
AudioFilesInv == AC!TypeOK /\ AudioKinds /\ AudioFiled /\ AC!FileLife

LEMMA AudioInitInv ==
    ASSUME AC!Init
    PROVE  AudioInv
BY DEF AC!Init, AudioInv, AC!TypeOK, AudioFiled, AudioKinds, AC!FileLife, AC!ReadyEarned,
       AC!Providers, AC!Ended,
       AC!FileName, AC!TtsReady, AC!AsrReady

\* A call that has no file ends, or goes on, without one.
LEMMA AudioMovesOn ==
    ASSUME AudioFilesInv, NEW c \in Calls, NEW kind \in AC!Providers \cup {"none"},
           NEW label, NEW sent \in BOOLEAN,
           AudioBecomes(c, kind, label, sent),
           files' = files, server' \in AC!Servers,
           conn' \in AudioConns,
           trouble' \in AudioTroubles,
           \/ label \in {"health", "models"} /\ kind \in AC!Providers
           \/ label \in {"started", "speech"} /\ kind = "tts"
           \/ label \in AC!Ended,
           label \in {"health", "models", "started"} => ~sent,
           c \notin files
    PROVE  AudioFilesInv'
<1>1. AC!TypeOK'
  BY DEF AudioFilesInv, AC!TypeOK, AudioBecomes, AudioCall, AudioConns, AudioTroubles
<1> QED
  BY <1>1 DEF AudioBecomes, AudioFilesInv, AudioKinds, AudioFiled, AC!FileLife, AC!Ended,
              AC!FileName

\* A transcription writes its file, sends its request, and ends; from the
\* request on the file is removed at the end.
LEMMA AudioHands ==
    ASSUME AudioFilesInv, NEW c \in Calls, NEW label, NEW sent \in BOOLEAN,
           AudioBecomes(c, "asr", label, sent),
           server' \in AC!Servers,
           conn' \in AudioConns,
           trouble' \in AudioTroubles,
           \/ label = "queued" /\ ~sent /\ files' = files \cup {c}
           \/ label = "transcript" /\ files' = files /\ c \in files
           \/ label \in AC!Ended /\ ~sent /\ files' = files
           \/ label \in AC!Ended /\ files' = files \ {c}
    PROVE  AudioFilesInv'
<1>1. AC!TypeOK'
  BY DEF AudioFilesInv, AC!TypeOK, AudioBecomes, AudioCall, AudioConns, AudioTroubles, AC!FileName
<1>2. \A d \in Calls \ {c} : d \in files' <=> d \in files
  OBVIOUS
<1> QED
  BY <1>1, <1>2 DEF AudioBecomes, AudioFilesInv, AudioKinds, AudioFiled, AC!FileLife, AC!Ended,
                    AC!FileName, AC!Providers

LEMMA AudioFilesNext ==
    ASSUME AudioFilesInv, [AC!Next]_(AC!audioVars)
    PROVE  AudioFilesInv'
<1>0. /\ server \in AC!Servers
      /\ conn \in AudioConns
      /\ trouble \in AudioTroubles
      /\ calls \in [Calls -> AudioCall]
      /\ \A c \in Calls : /\ calls[c].kind \in AC!Providers \cup {"none"}
                          /\ calls[c].sent \in BOOLEAN
  BY DEF AudioFilesInv, AC!TypeOK, AudioCall, AudioConns, AudioTroubles
<1>1. CASE AC!ServerChanges
  BY <1>1 DEF AC!ServerChanges, AudioFilesInv, AC!TypeOK, AudioKinds, AudioFiled, AC!FileLife
<1>2. ASSUME NEW c \in Calls, NEW kind \in AC!Providers, AC!Check(c, kind)
      PROVE  AudioFilesInv'
  <2>1. /\ c \notin files /\ ~calls[c].sent
        /\ \E label \in {"returned", "health"} :
              AudioBecomes(c, kind, label, FALSE)
    BY <1>0, <1>2
       DEF AudioBecomes, AudioCall, AC!Ended, AC!Providers, AC!Check, AC!Begin, AudioFilesInv,
           AudioFiled, AC!TypeOK
  <2>2. /\ conn' \in AudioConns
        /\ trouble' \in AudioTroubles
        /\ server' = server /\ files' = files
    BY <1>0, <1>2, AudioNoted DEF AC!Check
  <2> QED
    BY <1>0, <2>1, <2>2, AudioMovesOn DEF AC!Ended
<1>3. ASSUME NEW c \in Calls, AC!Health(c)
      PROVE  AudioFilesInv'
  <2>0. PICK label \in {"models", "returned", "raised"} :
            calls' = [calls EXCEPT ![c].at = label]
    BY <1>3 DEF AC!Health, AC!Stumbles, AC!Goto
  <2>1. /\ c \notin files /\ ~calls[c].sent /\ calls[c].kind \in AC!Providers
        /\ AudioBecomes(c, calls[c].kind, label, FALSE)
    BY <1>0, <1>3, <2>0 DEF AudioBecomes, AudioCall, AC!Ended, AC!Health, AudioFilesInv,
                            AudioFiled, AudioKinds
  <2>2. /\ conn' \in AudioConns
        /\ trouble' \in AudioTroubles
        /\ server' = server /\ files' = files
    BY <1>0, <1>3, <2>1, AudioNoted DEF AC!Health, AC!Stumbles
  <2> QED
    BY <1>0, <2>1, <2>2, AudioMovesOn DEF AC!Ended
<1>4. ASSUME NEW c \in Calls, AC!Listed(c)
      PROVE  AudioFilesInv'
  <2>1. /\ c \notin files /\ ~calls[c].sent /\ calls[c].kind \in AC!Providers
        /\ AudioBecomes(c, calls[c].kind, "returned", FALSE)
    BY <1>0, <1>4
       DEF AudioBecomes, AudioCall, AC!Ended, AC!Providers, AC!Listed, AC!Goto, AudioFilesInv,
           AudioFiled,
           AudioKinds, AC!TypeOK
  <2>2. /\ conn' \in AudioConns
        /\ trouble' \in AudioTroubles
        /\ server' = server /\ files' = files
    BY <1>0, <1>4, <2>1, AudioNoted
       DEF AC!Listed, AC!TtsChecked, AC!AsrChecked, AC!Providers
  <2> QED
    BY <1>0, <2>1, <2>2, AudioMovesOn DEF AC!Ended
<1>5. ASSUME NEW c \in Calls, AC!Speak(c)
      PROVE  AudioFilesInv'
  <2>1. /\ c \notin files
        /\ AudioBecomes(c, "tts", "started", FALSE)
    BY <1>0, <1>5
       DEF AudioBecomes, AudioCall, AC!Ended, AC!Providers, AC!Speak, AC!Begin, AudioFilesInv,
           AudioFiled, AC!TypeOK
  <2> QED
    BY <1>0, <1>5, <2>1, AudioMovesOn DEF AC!Speak, AC!Providers
<1>6. ASSUME NEW c \in Calls, AC!RequestSpeech(c)
      PROVE  AudioFilesInv'
  <2>1. /\ c \notin files /\ ~calls[c].sent /\ calls[c].kind = "tts"
        /\ \/ AudioBecomes(c, "tts", "raised", FALSE)
           \/ AudioBecomes(c, "tts", "speech", TRUE)
    BY <1>0, <1>6
       DEF AudioBecomes, AudioCall, AC!Ended, AC!Providers, AC!RequestSpeech, AC!Goto,
           AudioFilesInv,
           AudioFiled, AudioKinds, AC!TypeOK
  <2> QED
    BY <1>0, <1>6, <2>1, AudioMovesOn DEF AC!RequestSpeech, AC!Ended, AC!Providers
<1>7. ASSUME NEW c \in Calls, AC!SpeechAnswered(c)
      PROVE  AudioFilesInv'
  <2>0. PICK label \in {"returned", "raised"} : calls' = [calls EXCEPT ![c].at = label]
    BY <1>7 DEF AC!SpeechAnswered, AC!Fails, AC!Stumbles, AC!Goto
  <2>1. /\ c \notin files /\ calls[c].kind = "tts"
        /\ AudioBecomes(c, "tts", label, calls[c].sent)
    BY <1>0, <1>7, <2>0 DEF AudioBecomes, AudioCall, AC!Ended, AC!Providers,
                            AC!SpeechAnswered, AudioFilesInv, AudioFiled, AudioKinds
  <2>2. /\ conn' \in AudioConns
        /\ trouble' \in AudioTroubles
        /\ server' = server /\ files' = files
    BY <1>0, <1>7, <2>1, AudioNoted
       DEF AC!SpeechAnswered, AC!Fails, AC!Stumbles, AC!Providers
  <2> QED
    BY <1>0, <2>1, <2>2, AudioMovesOn DEF AC!Ended, AC!Providers
<1>8. ASSUME NEW c \in Calls, AC!Transcribe(c)
      PROVE  AudioFilesInv'
  <2>1. /\ ~calls[c].sent
        /\ \/ /\ AudioBecomes(c, "asr", "raised", FALSE)
              /\ files' = files
           \/ /\ AudioBecomes(c, "asr", "queued", FALSE)
              /\ files' = files \cup {c}
    BY <1>0, <1>8
       DEF AudioBecomes, AudioCall, AC!Ended, AC!Providers, AC!Transcribe, AC!Begin,
           AC!FileName,
           AudioFilesInv, AudioFiled, AC!TypeOK
  <2> QED
    BY <1>0, <1>8, <2>1, AudioHands DEF AC!Transcribe, AC!Ended
<1>9. ASSUME NEW c \in Calls, AC!RequestTranscript(c)
      PROVE  AudioFilesInv'
  <2>1. /\ c \in files
        /\ AudioBecomes(c, "asr", "transcript", TRUE)
    BY <1>0, <1>9
       DEF AudioBecomes, AudioCall, AC!Ended, AC!Providers, AC!RequestTranscript, AudioFilesInv,
           AudioFiled, AudioKinds, AC!TypeOK
  <2> QED
    BY <1>0, <1>9, <2>1, AudioHands DEF AC!RequestTranscript
<1>10. ASSUME NEW c \in Calls, AC!TranscriptAnswered(c)
       PROVE  AudioFilesInv'
  <2>1. /\ calls[c].kind = "asr" /\ files' = files \ {c}
        /\ \E label \in {"returned", "raised"} :
              AudioBecomes(c, "asr", label, calls[c].sent)
    BY <1>0, <1>10
       DEF AudioBecomes, AudioCall, AC!Ended, AC!Providers, AC!TranscriptAnswered, AC!Fails,
           AC!Goto, AC!RemoveFile, AC!FileName, AudioFilesInv, AudioKinds, AC!TypeOK
  <2>2. /\ conn' \in AudioConns
        /\ trouble' \in AudioTroubles
        /\ server' = server
    BY <1>0, <1>10, <2>1, AudioNoted DEF AC!TranscriptAnswered, AC!Fails, AC!Providers
  <2> QED
    BY <1>0, <2>1, <2>2, AudioHands DEF AC!Ended
<1>11. ASSUME NEW c \in Calls, AC!Cancel(c)
       PROVE  AudioFilesInv'
  <2>1. /\ AudioBecomes(c, calls[c].kind, "cancelled", calls[c].sent)
        /\ server' = server /\ conn' = conn /\ trouble' = trouble
    BY <1>0, <1>11 DEF AudioBecomes, AudioCall, AC!Ended, AC!Providers, AC!Cancel, AC!Goto,
                       AC!TypeOK, AudioFilesInv
  <2>2. CASE calls[c].at = "transcript"
    <3>1. calls[c].kind = "asr" /\ files' = files \ {c}
      BY <1>11, <2>2 DEF AC!Cancel, AC!RemoveFile, AC!FileName, AudioFilesInv, AudioKinds
    <3> QED
      BY <1>0, <2>1, <3>1, AudioHands DEF AC!Ended
  <2>3. CASE calls[c].at = "queued"
    <3>1. calls[c].kind = "asr" /\ files' = files /\ ~calls[c].sent
      BY <1>11, <2>3 DEF AC!Cancel, AudioFilesInv, AudioKinds, AudioFiled
    <3> QED
      BY <1>0, <2>1, <3>1, AudioHands DEF AC!Ended
  <2>4. CASE calls[c].at \in {"started", "speech", "health", "models"}
    <3>1. c \notin files /\ files' = files
      BY <1>11, <2>4 DEF AC!Cancel, AudioFilesInv, AudioFiled
    <3> QED
      BY <1>0, <2>1, <3>1, AudioMovesOn DEF AC!Ended
  <2> QED
    BY <1>11, <2>2, <2>3, <2>4 DEF AC!Cancel
<1>12. CASE UNCHANGED AC!audioVars
  BY <1>12 DEF AC!audioVars, AudioFilesInv, AC!TypeOK, AudioKinds, AudioFiled, AC!FileLife
<1> QED
  BY <1>1, <1>2, <1>3, <1>4, <1>5, <1>6, <1>7, <1>8, <1>9, <1>10, <1>11, <1>12
     DEF AC!Next

-----------------------------------------------------------------------------
(* The status *)

LEMMA AudioReadyNext ==
    ASSUME AudioFilesInv, AC!ReadyEarned, [AC!Next]_(AC!audioVars)
    PROVE  AC!ReadyEarned'
<1>0. /\ conn \in [AC!Providers -> [ready : BOOLEAN, error : BOOLEAN]]
      /\ trouble \in AudioTroubles
      /\ "asr" \in AC!Providers /\ "tts" \in AC!Providers
      /\ \A k \in AC!Providers : k = "asr" \/ k = "tts"
  BY DEF AudioFilesInv, AC!TypeOK, AC!Providers, AudioTroubles
<1> DEFINE Earned(k) == conn[k].ready /\ ~conn[k].error => "failed" \notin trouble[k]
<1>1. AC!ReadyEarned <=> Earned("tts") /\ Earned("asr")
  BY DEF AC!ReadyEarned, AC!TtsReady, AC!AsrReady
<1>2. AC!ReadyEarned' <=> Earned("tts")' /\ Earned("asr")'
  BY DEF AC!ReadyEarned, AC!TtsReady, AC!AsrReady
<1>3. ASSUME NEW c \in Calls, NEW kind \in AC!Providers, AC!Check(c, kind)
      PROVE  AC!ReadyEarned'
  BY <1>0, <1>1, <1>2, <1>3 DEF AC!Check, AudioTroubles
<1>4. ASSUME NEW c \in Calls, AC!Health(c)
      PROVE  AC!ReadyEarned'
  <2>1. calls[c].kind \in AC!Providers
    BY <1>4 DEF AC!Health, AudioFilesInv, AudioKinds
  <2> QED
    BY <1>0, <1>1, <1>2, <1>4, <2>1
       DEF AC!Health, AC!Note, AC!Recall, AC!Stumbles, AudioTroubles
<1>5. ASSUME NEW c \in Calls, AC!Listed(c)
      PROVE  AC!ReadyEarned'
  <2>1. calls[c].kind \in AC!Providers
    BY <1>5 DEF AC!Listed, AudioFilesInv, AudioKinds
  <2>2. PICK ok \in BOOLEAN : /\ conn' = [conn EXCEPT ![calls[c].kind] =
                                                [ready |-> ok, error |-> ~ok]]
                              /\ trouble' = [trouble EXCEPT ![calls[c].kind] =
                                    IF ok THEN {} ELSE trouble[calls[c].kind] \cup {"failed"}]
    BY <1>0, <1>5, <2>1 DEF AC!Listed, AC!TtsChecked, AC!AsrChecked, AC!Note, AC!Recall
  <2> QED
    BY <1>0, <1>1, <1>2, <2>1, <2>2 DEF AudioTroubles
<1>6. ASSUME NEW c \in Calls, AC!SpeechAnswered(c)
      PROVE  AC!ReadyEarned'
  <2>1. calls[c].kind = "tts"
    BY <1>6 DEF AC!SpeechAnswered, AudioFilesInv, AudioKinds
  <2> QED
    BY <1>0, <1>1, <1>2, <1>6, <2>1
       DEF AC!SpeechAnswered, AC!Fails, AC!Stumbles, AudioTroubles
<1>7. ASSUME NEW c \in Calls, AC!TranscriptAnswered(c)
      PROVE  AC!ReadyEarned'
  <2>1. calls[c].kind = "asr"
    BY <1>7 DEF AC!TranscriptAnswered, AudioFilesInv, AudioKinds
  <2> QED
    BY <1>0, <1>1, <1>2, <1>7, <2>1 DEF AC!TranscriptAnswered, AC!Fails, AudioTroubles
<1>8. ASSUME UNCHANGED <<conn, trouble>>
      PROVE  AC!ReadyEarned'
  BY <1>8 DEF AC!ReadyEarned, AC!TtsReady, AC!AsrReady
<1>9. ASSUME NEW c \in Calls,
             \/ AC!Speak(c) \/ AC!RequestSpeech(c) \/ AC!Transcribe(c) \/ AC!RequestTranscript(c)
             \/ AC!Cancel(c)
      PROVE  AC!ReadyEarned'
  BY <1>8, <1>9 DEF AC!Speak, AC!RequestSpeech, AC!Transcribe, AC!RequestTranscript, AC!Cancel
<1> QED
  BY <1>3, <1>4, <1>5, <1>6, <1>7, <1>8, <1>9 DEF AC!Next, AC!ServerChanges, AC!audioVars

LEMMA AudioCppStays == Spec => []AudioInv
<1>1. AC!Init => AudioInv
  BY AudioInitInv
<1>2. AudioInv /\ [AC!Next]_(AC!audioVars) => AudioInv'
  BY AudioFilesNext, AudioReadyNext DEF AudioInv, AudioFilesInv
<1> QED
  BY <1>1, <1>2, AudioCppIsOne, PTL DEF AC!Spec

\* The file of an utterance is there while the server may read it, and gone
\* once a request that was sent has ended, whatever became of it and of every
\* other call (audio_cpp.py:506-539).
THEOREM FilesLiveAndGo == Spec => []FileLife
<1>1. AudioInv => FileLife
  BY DEF AudioInv, FileLife
<1> QED
  BY <1>1, AudioCppStays, PTL


-----------------------------------------------------------------------------
(***************************************************************************)
(* The OpenAI-compatible providers: the status of a kind is earned, which  *)
(* takes no more than that a call under way is of one of the two kinds.    *)
(***************************************************************************)

\* A call under way is one of the ASR or of the TTS provider.
OfKind ==
    \A r \in Requests :
        requests[r].at \in {"list", "started", "transcript", "speech"} =>
            requests[r].kind \in OA!Audio

\* What is ready is of a kind that has not failed since.
EarnedBy(kind) == health[kind].ready /\ ~health[kind].error => "failed" \notin failing[kind]

\* What holds of the OpenAI-compatible providers at each step.
OpenAIInv == OA!TypeOK /\ OfKind /\ \A kind \in OA!Audio : EarnedBy(kind)

OpenAICall == [kind : OA!Audio \cup {"none"},
               at : {"idle", "list", "started", "transcript", "speech",
                     "returned", "raised", "cancelled"},
               got : {"nothing", "text", "audio"}]

LEMMA OpenAIInitInv ==
    ASSUME OA!Init
    PROVE  OpenAIInv
<1>1. OA!TypeOK
  BY DEF OA!Init, OA!TypeOK
<1> QED
  BY <1>1 DEF OA!Init, OpenAIInv, OfKind, EarnedBy, OA!Audio

\* A call goes on or ends, and the status of its provider says so.
LEMMA RequestInv ==
    ASSUME OpenAIInv, NEW r \in Requests, NEW call \in OpenAICall,
           requests' = [requests EXCEPT ![r] = call],
           call.at \in {"list", "started", "transcript", "speech"} => call.kind \in OA!Audio,
           UNCHANGED <<service, health, failing>>
    PROVE  OpenAIInv'
<1>1. OA!TypeOK' /\ \A q \in Requests \ {r} : requests'[q] = requests[q] /\ requests'[r] = call
  BY DEF OpenAIInv, OA!TypeOK, OpenAICall
<1>2. OfKind'
  BY <1>1 DEF OpenAIInv, OA!TypeOK, OfKind
<1> QED
  BY <1>1, <1>2 DEF OpenAIInv, EarnedBy

\* An exchange ends a call and is noted: as a failure, or, by a check, as it is;
\* or it is malformed, and what was noted stays.
LEMMA NotedInv ==
    ASSUME OpenAIInv, NEW r \in Requests, NEW label \in {"returned", "raised"},
           requests' = [requests EXCEPT ![r].at = label],
           NEW kind \in OA!Audio, NEW note \in [ready : BOOLEAN, error : BOOLEAN],
           health' = [health EXCEPT ![kind] = note],
           service' = service,
           NEW known \in SUBSET OA!Troubles,
           failing' = [failing EXCEPT ![kind] = known],
           \/ note.error
           \/ "failed" \notin known
           \/ note = health[kind] /\ known \subseteq failing[kind] \cup {"malformed"}
    PROVE  OpenAIInv'
<1>1. requests' \in [Requests -> OpenAICall]
  BY DEF OpenAIInv, OA!TypeOK, OpenAICall
<1>2. /\ health' \in [OA!Audio -> [ready : BOOLEAN, error : BOOLEAN]]
      /\ failing' \in [OA!Audio -> SUBSET OA!Troubles]
  BY DEF OpenAIInv, OA!TypeOK
<1>3. OA!TypeOK'
  BY <1>1, <1>2 DEF OpenAIInv, OA!TypeOK, OpenAICall
<1>4. \A q \in Requests : /\ requests'[q].kind = requests[q].kind
                          /\ requests'[q].at \in {requests[q].at, "returned", "raised"}
  BY DEF OpenAIInv, OA!TypeOK
<1>5. OfKind'
  BY <1>4 DEF OpenAIInv, OfKind
<1>6. EarnedBy(kind)'
  BY DEF OpenAIInv, OA!TypeOK, EarnedBy
<1>7. \A k \in OA!Audio \ {kind} : EarnedBy(k)'
  BY DEF OpenAIInv, OA!TypeOK, EarnedBy
<1> QED
  BY <1>3, <1>5, <1>6, <1>7 DEF OpenAIInv

LEMMA OpenAINextInv ==
    ASSUME OpenAIInv, [OA!Next]_(OA!openaiVars)
    PROVE  OpenAIInv'
<1>0. /\ requests \in [Requests -> OpenAICall]
      /\ health \in [OA!Audio -> [ready : BOOLEAN, error : BOOLEAN]]
      /\ failing \in [OA!Audio -> SUBSET OA!Troubles]
      /\ \A r \in Requests :
            requests[r].at \in {"list", "started", "transcript", "speech"} =>
                requests[r].kind \in OA!Audio
  BY DEF OpenAIInv, OA!TypeOK, OfKind, OpenAICall
<1>1. CASE OA!ServiceChanges
  BY <1>1 DEF OA!ServiceChanges, OpenAIInv, OA!TypeOK, OfKind, EarnedBy
<1>2. ASSUME NEW r \in Requests, NEW kind \in OA!Audio, NEW label \in {"list", "started"},
             OA!Begin(r, kind, label)
      PROVE  OpenAIInv'
  <2> DEFINE call == [requests[r] EXCEPT !.kind = kind, !.at = label]
  <2>1. call \in OpenAICall /\ call.kind = kind
    BY <1>0 DEF OpenAICall
  <2>2. requests' = [requests EXCEPT ![r] = call] /\ UNCHANGED <<service, health, failing>>
    BY <1>2 DEF OA!Begin
  <2> HIDE DEF call
  <2> QED
    BY <2>1, <2>2, RequestInv
<1>8. ASSUME NEW r \in Requests, OA!Stumbles(r), requests[r].kind \in OA!Audio,
             service' = service
      PROVE  OpenAIInv'
  <2> DEFINE kind == requests[r].kind
             note == health[kind]
             known == failing[kind] \cup {"malformed"}
  <2>1. note \in [ready : BOOLEAN, error : BOOLEAN] /\ known \in SUBSET OA!Troubles
    BY <1>0, <1>8 DEF OA!Troubles
  <2>2. /\ health' = [health EXCEPT ![kind] = note]
        /\ failing' = [failing EXCEPT ![kind] = known]
    BY <1>0, <1>8 DEF OA!Stumbles
  <2>3. note = health[kind] /\ known \subseteq failing[kind] \cup {"malformed"}
    OBVIOUS
  <2>4. requests' = [requests EXCEPT ![r].at = "raised"] /\ kind \in OA!Audio
    BY <1>8 DEF OA!Stumbles, OA!Goto
  <2> HIDE DEF note, known, kind
  <2> QED
    BY <1>8, <2>1, <2>2, <2>3, <2>4, NotedInv
<1>3. ASSUME NEW r \in Requests, OA!Check(r)
      PROVE  OpenAIInv'
  <2>1. requests[r].kind \in OA!Audio
    BY <1>0, <1>3 DEF OA!Check
  <2> DEFINE kind == requests[r].kind
  <2>2. CASE OA!Stumbles(r)
    BY <1>3, <1>8, <2>1, <2>2 DEF OA!Check
  <2>3. CASE /\ OA!Checked(kind) /\ OA!Goto(r, "returned")
             /\ failing' = [failing EXCEPT ![kind] =
                              IF OA!Unusable(kind) THEN failing[kind] \cup {"failed"} ELSE {}]
    <3> DEFINE note == [ready |-> ~OA!Unusable(kind), error |-> OA!Unusable(kind)]
               known == IF OA!Unusable(kind) THEN failing[kind] \cup {"failed"} ELSE {}
    <3>1. note \in [ready : BOOLEAN, error : BOOLEAN]
      BY DEF OA!Unusable
    <3>2. known \in SUBSET OA!Troubles
      BY <1>0, <2>1 DEF OA!Troubles
    <3>3. /\ health' = [health EXCEPT ![kind] = note]
          /\ failing' = [failing EXCEPT ![kind] = known]
      BY <2>3 DEF OA!Checked
    <3>4. note.error \/ "failed" \notin known
      OBVIOUS
    <3>5. requests' = [requests EXCEPT ![r].at = "returned"] /\ service' = service
      BY <1>3, <2>3 DEF OA!Check, OA!Goto
    <3>6. kind \in OA!Audio
      BY <2>1
    <3> HIDE DEF note, known, kind
    <3> QED
      BY <3>1, <3>2, <3>3, <3>4, <3>5, <3>6, NotedInv
  <2> QED
    BY <1>3, <2>2, <2>3 DEF OA!Check
<1>4. ASSUME NEW r \in Requests, OA!Fails(r), requests[r].kind \in OA!Audio, service' = service
      PROVE  OpenAIInv'
  <2> DEFINE note == [health[requests[r].kind] EXCEPT !.error = TRUE]
  <2>1. note \in [ready : BOOLEAN, error : BOOLEAN] /\ note.error
    BY <1>0, <1>4
  <2> DEFINE known == failing[requests[r].kind] \cup {"failed"}
  <2>2. /\ health' = [health EXCEPT ![requests[r].kind] = note]
        /\ failing' = [failing EXCEPT ![requests[r].kind] = known]
    BY <1>4 DEF OA!Fails
  <2>3. known \in SUBSET OA!Troubles
    BY <1>0, <1>4 DEF OA!Troubles
  <2> HIDE DEF note, known
  <2> QED
    BY <1>4, <2>1, <2>2, <2>3, NotedInv DEF OA!Fails, OA!Goto
<1>5. ASSUME NEW r \in Requests, OA!Send(r) \/ OA!Cancel(r)
      PROVE  OpenAIInv'
  <2>1. requests[r].kind \in OA!Audio /\ UNCHANGED <<service, health, failing>>
    BY <1>0, <1>5 DEF OA!Send, OA!Cancel
  <2>2. PICK label \in {"transcript", "speech", "cancelled"} :
            requests' = [requests EXCEPT ![r] = [requests[r] EXCEPT !.at = label]]
    BY <1>5 DEF OA!Send, OA!Cancel, OA!Goto
  <2> DEFINE call == [requests[r] EXCEPT !.at = label]
  <2>3. call \in OpenAICall /\ call.kind = requests[r].kind
    BY <1>0 DEF OpenAICall
  <2> HIDE DEF call
  <2> QED
    BY <2>1, <2>2, <2>3, RequestInv DEF call
<1>6. ASSUME NEW r \in Requests, OA!Transcript(r) \/ OA!Speech(r)
      PROVE  OpenAIInv'
  <2>1. requests[r].kind \in OA!Audio /\ service' = service
    BY <1>0, <1>6 DEF OA!Transcript, OA!Speech
  <2>2. CASE OA!Fails(r)
    BY <1>4, <2>1, <2>2
  <2>4. CASE OA!Stumbles(r)
    BY <1>8, <2>1, <2>4
  <2>3. CASE ~OA!Fails(r) /\ ~OA!Stumbles(r)
    <3>1. PICK got \in {"text", "audio", "nothing"} :
              requests' = [requests EXCEPT ![r] =
                              [requests[r] EXCEPT !.at = "returned", !.got = got]]
      BY <1>6, <2>3 DEF OA!Transcript, OA!Speech
    <3>2. UNCHANGED <<health, failing>>
      BY <1>6, <2>3 DEF OA!Transcript, OA!Speech
    <3> DEFINE call == [requests[r] EXCEPT !.at = "returned", !.got = got]
    <3>3. call \in OpenAICall /\ call.kind = requests[r].kind
      BY <1>0 DEF OpenAICall
    <3> HIDE DEF call
    <3> QED
      BY <2>1, <3>1, <3>2, <3>3, RequestInv DEF call
  <2> QED
    BY <2>2, <2>3, <2>4
<1>7. CASE UNCHANGED OA!openaiVars
  BY <1>7 DEF OA!openaiVars, OpenAIInv, OA!TypeOK, OfKind, EarnedBy
<1> QED
  BY <1>1, <1>2, <1>3, <1>5, <1>6, <1>7 DEF OA!Next

LEMMA OpenAIStays == Spec => []OpenAIInv
<1>1. OA!Init => OpenAIInv
  BY OpenAIInitInv
<1>2. OpenAIInv /\ [OA!Next]_(OA!openaiVars) => OpenAIInv'
  BY OpenAINextInv
<1> QED
  BY <1>1, <1>2, OpenAIIsOne, PTL DEF OA!Spec

\* The status of a provider of audio.cpp or of an OpenAI-compatible server says
\* "ready" only if the last check found the server and the model, and nothing has
\* failed since, except by a malformed answer, which is raised but not noted
\* (audio_cpp.py:107, 222-248, 328, openai_compat.py:110, 175-198, 492).
THEOREM ReadyStaysEarned == Spec => []ReadyEarned
<1>1. AudioInv /\ OpenAIInv => ReadyEarned
  BY DEF AudioInv, OpenAIInv, EarnedBy, OA!Audio, OA!ReadyEarned, OA!AsrReady, OA!TtsReady,
         ReadyEarned
<1> QED
  BY <1>1, AudioCppStays, OpenAIStays, PTL


-----------------------------------------------------------------------------
(***************************************************************************)
(* whisper.cpp. What is remembered of the endpoints, and what a call has   *)
(* found of them so far, is right as long as no guess was made and no      *)
(* server replaced another.                                                *)
(***************************************************************************)

\* The type of a call; it tries both endpoints or the second.
PostType ==
    [at : {"idle", "health", "resolving", "queued", "posted", "returned", "raised"},
     try : {<<>>, <<WC!OpenAI>>, <<WC!Inference, WC!OpenAI>>},
     to : WC!Endpoints \cup {WC!Unknown}]

\* A guess not made: what is remembered, and what is to be posted to, exists,
\* and if /inference has been tried, it does not.
Found ==
    /\ endpoint # WC!Unknown => endpoint \in whisperd.has
    /\ \A p \in Posts :
        /\ posts[p].at \in {"queued", "posted"} => posts[p].to \in whisperd.has
        /\ posts[p].at = "resolving" /\ posts[p].try = <<WC!OpenAI>> =>
              WC!Inference \notin whisperd.has

\* That it is right is an invariant, given the types; a server has an endpoint.
WhisperCppInv ==
    /\ WC!TypeOK
    /\ posts \in [Posts -> PostType]
    /\ whisperd.has # {}
    /\ ~guessed /\ ~checked => Found

LEMMA WhisperCppInitInv ==
    ASSUME WC!Init
    PROVE  WhisperCppInv
<1>1. posts \in [Posts -> PostType]
  BY DEF WC!Init, PostType
<1>2. \A p \in Posts : posts[p].at = "idle" /\ posts[p].to = WC!Unknown
  BY DEF WC!Init
<1>3. WC!TypeOK
  <2>1. whisperd \in [up : BOOLEAN, has : SUBSET WC!Endpoints] /\ moves \in 0 .. Moves
    BY MovesBound DEF WC!Init
  <2>2. /\ endpoint \in WC!Endpoints \cup {WC!Unknown} /\ unwell \in BOOLEAN
        /\ guessed \in BOOLEAN /\ checked \in BOOLEAN
    BY DEF WC!Init
  <2> QED
    BY <1>2, <2>1, <2>2 DEF WC!TypeOK
<1> QED
  BY <1>1, <1>2, <1>3 DEF WC!Init, WhisperCppInv, Found

\* Call p goes on, and what it knows of the endpoints is right.
LEMMA PostInv ==
    ASSUME WhisperCppInv, NEW p \in Posts, NEW post \in PostType,
           posts' = [posts EXCEPT ![p] = post],
           post.at = "resolving" => post.try # <<>>,
           endpoint' \in WC!Endpoints \cup {WC!Unknown}, unwell' \in BOOLEAN,
           guessed' \in BOOLEAN, checked' \in BOOLEAN,
           guessed => guessed', checked => checked',
           whisperd' = whisperd, moves' = moves,
           ~guessed' /\ ~checked' =>
              /\ endpoint' # WC!Unknown => endpoint' \in whisperd.has
              /\ post.at \in {"queued", "posted"} => post.to \in whisperd.has
              /\ post.at = "resolving" /\ post.try = <<WC!OpenAI>> =>
                    WC!Inference \notin whisperd.has
    PROVE  WhisperCppInv'
<1>1. /\ \A q \in Posts \ {p} : posts'[q] = posts[q]
      /\ posts'[p] = post /\ posts' \in [Posts -> PostType]
  BY DEF WhisperCppInv
<1>2. WC!TypeOK'
  BY <1>1 DEF WhisperCppInv, WC!TypeOK, PostType
<1>3. ~guessed' /\ ~checked' => Found'
  BY <1>1 DEF WhisperCppInv, Found
<1> QED
  BY <1>1, <1>2, <1>3 DEF WhisperCppInv

\* The tails of what is tried: /inference is tried first.
LEMMA Tries ==
    /\ Head(<<WC!OpenAI>>) = WC!OpenAI /\ Tail(<<WC!OpenAI>>) = <<>>
    /\ Head(<<WC!Inference, WC!OpenAI>>) = WC!Inference
    /\ Tail(<<WC!Inference, WC!OpenAI>>) = <<WC!OpenAI>>
    /\ <<WC!OpenAI>> # <<>> /\ <<WC!Inference, WC!OpenAI>> # <<>>
    /\ <<WC!Inference, WC!OpenAI>> # <<WC!OpenAI>>
    /\ WC!Inference # WC!OpenAI /\ WC!Unknown \notin WC!Endpoints
  BY DEF WC!Inference, WC!OpenAI, WC!Unknown, WC!Endpoints

LEMMA WhisperCppNextInv ==
    ASSUME WhisperCppInv, [WC!Next]_(WC!whispercppVars)
    PROVE  WhisperCppInv'
<1>0. /\ posts \in [Posts -> PostType] /\ guessed \in BOOLEAN /\ checked \in BOOLEAN
      /\ endpoint \in WC!Endpoints \cup {WC!Unknown} /\ unwell \in BOOLEAN
      /\ whisperd.has \subseteq WC!Endpoints /\ whisperd.has # {}
  BY DEF WhisperCppInv, WC!TypeOK
<1>1. CASE WC!ServerMoves
  <2>1. /\ whisperd' \in [up : BOOLEAN, has : SUBSET WC!Endpoints] /\ whisperd'.has # {}
        /\ moves' \in 0 .. Moves /\ guessed' \in BOOLEAN
    BY <1>0, <1>1, MovesBound DEF WC!ServerMoves, WhisperCppInv, WC!TypeOK
  <2>2. ~guessed' => ~guessed /\ whisperd'.has = whisperd.has
    BY <1>0, <1>1 DEF WC!ServerMoves
  <2>3. UNCHANGED <<endpoint, unwell, posts, checked>>
    BY <1>1 DEF WC!ServerMoves
  <2>4. WC!TypeOK'
    BY <2>1, <2>3 DEF WhisperCppInv, WC!TypeOK
  <2> QED
    BY <2>1, <2>2, <2>3, <2>4 DEF WhisperCppInv, Found
<1>2. ASSUME NEW p \in Posts, WC!Unload(p) \/ WC!Check(p)
      PROVE  WhisperCppInv'
  <2>1. PICK post \in PostType : /\ posts' = [posts EXCEPT ![p] = post]
                                 /\ post.at = "health"
    <3> DEFINE post == [posts[p] EXCEPT !.at = "health"]
    <3>1. posts' = [posts EXCEPT ![p] = post]
      BY <1>2 DEF WC!Unload, WC!Check, WC!Goto
    <3>2. post \in PostType /\ post.at = "health"
      BY <1>0 DEF PostType
    <3> QED
      BY <3>1, <3>2
  <2>2. /\ endpoint' \in {endpoint, WC!Unknown}
        /\ UNCHANGED <<whisperd, moves, unwell, guessed, checked>>
    BY <1>2 DEF WC!Unload, WC!Check, WC!history
  <2> QED
    BY <1>0, <2>1, <2>2, PostInv DEF WhisperCppInv, Found
<1>3. ASSUME NEW p \in Posts, WC!Health(p)
      PROVE  WhisperCppInv'
  <2>1. PICK post \in PostType : /\ posts' = [posts EXCEPT ![p] = post]
                                 /\ post.at = "returned"
    <3> DEFINE post == [posts[p] EXCEPT !.at = "returned"]
    <3>1. posts' = [posts EXCEPT ![p] = post]
      BY <1>3 DEF WC!Health, WC!Goto
    <3>2. post \in PostType /\ post.at = "returned"
      BY <1>0 DEF PostType
    <3> QED
      BY <3>1, <3>2
  <2>2. /\ UNCHANGED <<whisperd, moves, guessed>>
        /\ unwell' \in BOOLEAN
        /\ \/ checked' = TRUE /\ endpoint' = WC!Inference
           \/ checked' = checked /\ endpoint' = WC!Unknown
    BY <1>3 DEF WC!Health
  <2>3. /\ checked' \in BOOLEAN /\ guessed' \in BOOLEAN
        /\ endpoint' \in WC!Endpoints \cup {WC!Unknown}
        /\ checked => checked'
        /\ ~checked' => endpoint' = WC!Unknown
    <3>1. guessed' = guessed /\ endpoint' \in WC!Endpoints \cup {WC!Unknown}
      BY <2>2 DEF WC!Endpoints
    <3>2. CASE checked' = TRUE
      BY <1>0, <3>1, <3>2
    <3>3. CASE checked' = checked /\ endpoint' = WC!Unknown
      BY <1>0, <3>1, <3>3
    <3> QED
      BY <2>2, <3>2, <3>3
  <2> QED
    BY <1>0, <2>1, <2>2, <2>3, PostInv
<1>4. ASSUME NEW p \in Posts, WC!Transcribe(p)
      PROVE  WhisperCppInv'
  <2>1. UNCHANGED <<whisperd, moves, endpoint, unwell, guessed, checked>>
    BY <1>4 DEF WC!Transcribe, WC!history
  <2>2. CASE endpoint # WC!Unknown
    <3> DEFINE post == [at |-> "queued", try |-> <<>>, to |-> endpoint]
    <3>1. post \in PostType /\ posts' = [posts EXCEPT ![p] = post]
      BY <1>0, <1>4, <2>2 DEF WC!Transcribe, PostType
    <3> QED
      BY <1>0, <2>1, <2>2, <3>1, PostInv DEF WhisperCppInv, Found
  <2>3. CASE endpoint = WC!Unknown
    <3> DEFINE post == [at |-> "resolving", try |-> <<WC!Inference, WC!OpenAI>>,
                        to |-> WC!Unknown]
    <3>1. post \in PostType /\ posts' = [posts EXCEPT ![p] = post]
      BY <1>0, <1>4, <2>3 DEF WC!Transcribe, PostType
    <3> QED
      BY <1>0, <2>1, <2>3, <3>1, Tries, PostInv
  <2> QED
    BY <2>2, <2>3
<1>5. ASSUME NEW p \in Posts, NEW found \in WC!Endpoints, WC!Resolve(p, found),
             UNCHANGED <<whisperd, moves, unwell, checked>>, guessed' \in BOOLEAN,
             guessed => guessed', ~guessed' /\ ~checked => found \in whisperd.has
      PROVE  WhisperCppInv'
  <2> DEFINE post == [at |-> "queued", try |-> <<>>, to |-> found]
  <2>1. post \in PostType /\ posts' = [posts EXCEPT ![p] = post] /\ endpoint' = found
    BY <1>5 DEF WC!Resolve, PostType
  <2> QED
    BY <1>0, <1>5, <2>1, PostInv
<1>6. ASSUME NEW p \in Posts, posts[p].at = "resolving",
             posts' = [posts EXCEPT ![p].try = <<WC!OpenAI>>],
             UNCHANGED <<whisperd, moves, endpoint, unwell, checked>>, guessed' \in BOOLEAN,
             guessed => guessed', ~guessed' /\ ~checked => WC!Inference \notin whisperd.has
      PROVE  WhisperCppInv'
  <2> DEFINE post == [posts[p] EXCEPT !.try = <<WC!OpenAI>>]
  <2>1. /\ post \in PostType /\ posts' = [posts EXCEPT ![p] = post]
        /\ post.at = "resolving" /\ post.try = <<WC!OpenAI>>
    BY <1>0, <1>6 DEF PostType
  <2> HIDE DEF post
  <2> QED
    BY <1>0, <1>6, <2>1, Tries, PostInv DEF WhisperCppInv, Found
<1>7. \A p \in Posts : posts[p].at = "resolving" =>
          posts[p].try \in {<<WC!OpenAI>>, <<WC!Inference, WC!OpenAI>>}
  BY <1>0 DEF WhisperCppInv, WC!TypeOK, PostType
<1>8. ASSUME NEW p \in Posts, WC!Try(p)
      PROVE  WhisperCppInv'
  <2>1. posts[p].at = "resolving" /\ UNCHANGED <<whisperd, moves, unwell, checked>>
    BY <1>8 DEF WC!Try
  <2>2. CASE posts[p].try = <<WC!OpenAI>>
    <3>1. /\ \/ WC!Resolve(p, WC!OpenAI) /\ WC!Exists(WC!OpenAI) /\ guessed' = guessed
             \/ /\ WC!Resolve(p, WC!Inference) /\ ~WC!Exists(WC!OpenAI)
                /\ guessed' = (guessed \/ ~whisperd.up)
      BY <1>8, <2>2, Tries DEF WC!Try
    <3>2. ~guessed /\ ~checked => WC!Inference \notin whisperd.has
      BY <2>1, <2>2 DEF WhisperCppInv, Found
    <3>3. ~guessed /\ ~checked => WC!OpenAI \in whisperd.has
      BY <1>0, <3>2 DEF WC!Endpoints
    <3> QED
      BY <1>0, <1>5, <2>1, <3>1, <3>3 DEF WC!Exists, WC!Endpoints
  <2>3. CASE posts[p].try = <<WC!Inference, WC!OpenAI>>
    <3>1. /\ \/ WC!Resolve(p, WC!Inference) /\ WC!Exists(WC!Inference) /\ guessed' = guessed
             \/ /\ posts' = [posts EXCEPT ![p].try = <<WC!OpenAI>>] /\ endpoint' = endpoint
                /\ ~WC!Exists(WC!Inference) /\ guessed' = (guessed \/ ~whisperd.up)
      BY <1>8, <2>3, Tries DEF WC!Try
    <3> QED
      BY <1>0, <1>5, <1>6, <2>1, <3>1 DEF WC!Exists, WC!Endpoints
  <2> QED
    BY <1>7, <2>1, <2>2, <2>3
<1>9. ASSUME NEW p \in Posts, WC!TryFails(p)
      PROVE  WhisperCppInv'
  <2>1. /\ posts[p].at = "resolving" /\ UNCHANGED <<whisperd, moves, unwell, checked>>
        /\ guessed' = TRUE
    BY <1>9 DEF WC!TryFails
  <2>2. \/ WC!Resolve(p, WC!Inference)
        \/ posts' = [posts EXCEPT ![p].try = <<WC!OpenAI>>] /\ endpoint' = endpoint
    BY <1>7, <1>9, <2>1, Tries DEF WC!TryFails
  <2> QED
    BY <1>0, <1>5, <1>6, <2>1, <2>2 DEF WC!Endpoints
<1>10. ASSUME NEW p \in Posts, WC!Send(p) \/ WC!Answered(p)
       PROVE  WhisperCppInv'
  <2>1. PICK label \in {"posted", "returned", "raised"} :
            /\ posts' = [posts EXCEPT ![p] = [posts[p] EXCEPT !.at = label]]
            /\ label = "posted" => posts[p].at = "queued"
    BY <1>10 DEF WC!Send, WC!Answered, WC!Goto
  <2>2. /\ UNCHANGED <<whisperd, moves, endpoint, guessed, checked>>
        /\ unwell' \in BOOLEAN
    BY <1>0, <1>10 DEF WC!Send, WC!Answered, WC!history
  <2> DEFINE post == [posts[p] EXCEPT !.at = label]
  <2>3. post \in PostType /\ post.at = label /\ post.to = posts[p].to
    BY <1>0, <2>1 DEF PostType
  <2> HIDE DEF post
  <2> QED
    BY <1>0, <2>1, <2>2, <2>3, PostInv DEF WhisperCppInv, Found, post
<1>11. CASE UNCHANGED WC!whispercppVars
  BY <1>11 DEF WC!whispercppVars, WhisperCppInv, WC!TypeOK, Found
<1> QED
  BY <1>1, <1>2, <1>3, <1>4, <1>8, <1>9, <1>10, <1>11 DEF WC!Next

LEMMA WhisperCppStays == Spec => []WhisperCppInv
<1>1. WC!Init => WhisperCppInv
  BY WhisperCppInitInv
<1>2. WhisperCppInv /\ [WC!Next]_(WC!whispercppVars) => WhisperCppInv'
  BY WhisperCppNextInv
<1> QED
  BY <1>1, <1>2, WhisperCppIsOne, PTL DEF WC!Spec

\* whisper.cpp posts an utterance to an endpoint that the server has, unless
\* check_status chose the endpoint, a failure made it guess, or another build
\* has taken the place of the server since (whisper_cpp.py:185-304).
THEOREM AskedIsExposed == Spec => []ResolvedExposed
<1>1. WhisperCppInv => ResolvedExposed
  BY DEF WhisperCppInv, Found, WC!ResolvedExposed, WC!Exposed, ResolvedExposed
<1> QED
  BY <1>1, WhisperCppStays, PTL


-----------------------------------------------------------------------------
(***************************************************************************)
(* llama.cpp. The clients that are open are counted: there is always a     *)
(* name for a new one, by the pigeonhole principle, and one that is        *)
(* neither the client of the provider nor to be closed is not open.        *)
(***************************************************************************)

\* The property is inductive, given the types.
LlamaInv == LC!TypeOK /\ LC!ClientsKept

LlamaCall == [at : {"idle", "resolve", "resolved", "stream", "health", "models", "listed",
                    "close"},
              name : Names \cup {LC!Unknown}, client : LC!Client \cup {LC!NoClient}]

LEMMA LlamaInitInv ==
    ASSUME LC!Init
    PROVE  LlamaInv
BY LlamaSizes DEF LC!Init, LlamaInv, LC!TypeOK, LC!ClientsKept, LC!Idle

\* There are more names of clients than calls, hence a new one for a stream
\* that finds none.
LEMMA NewIsNew ==
    ASSUME LlamaInv, client = LC!NoClient
    PROVE  LC!NewClient \in LC!Client
<1>1. Cardinality(Turns) \in Nat
  BY LlamaSizes, FS_CardinalityType
<1>0. LC!Cardinality(Turns) = Cardinality(Turns)
  BY Zenon DEF LC!Cardinality, Cardinality
<1>2. IsFiniteSet(LC!Client) /\ Cardinality(LC!Client) = Cardinality(Turns) + 1
  BY <1>0, <1>1, FS_Interval DEF LC!Client
<1>3. LC!NoClient \notin LC!Client
  BY <1>1 DEF LC!Client, LC!NoClient
<1>4. ASSUME \A n \in LC!Client : n \in open \cup {client} \cup {turns[t].client : t \in Turns}
      PROVE  FALSE
  <2> DEFINE f == [n \in LC!Client |-> CHOOSE t \in Turns : turns[t].client = n]
  <2>1. \A n \in LC!Client : \E t \in Turns : turns[t].client = n
    BY <1>3, <1>4 DEF LlamaInv, LC!ClientsKept
  <2>2. \A n \in LC!Client : f[n] \in Turns /\ turns[f[n]].client = n
    BY <2>1
  <2>3. f \in [LC!Client -> Turns]
    BY <2>2
  <2> HIDE DEF f
  <2>4. \E m, n \in LC!Client : m # n /\ f[m] = f[n]
    BY <1>1, <1>2, <2>3, LlamaSizes, FS_PigeonHole
  <2> QED
    BY <2>2, <2>4
<1> QED
  BY <1>4 DEF LC!NewClient

\* Call t changes, which is closing no client.
LlamaCallTo(t, call) ==
    /\ turns' = [turns EXCEPT ![t] = call]
    /\ call \in LlamaCall
    /\ turns[t].at # "close"

\* A call that goes on may give the provider a client, or take it to close it.
LEMMA LlamaCallInv ==
    ASSUME LlamaInv, NEW t \in Turns, NEW call, LlamaCallTo(t, call),
           UNCHANGED <<llamad, swaps, useHealth>>,
           resolved' \in Names \cup {LC!Unknown},
           client' \in LC!Client \cup {LC!NoClient},
           \/ client' = client /\ open' = open
           \/ client' = LC!NoClient /\ open' = open /\ call.client = client /\ call.at = "close"
           \/ /\ client' \in LC!Client /\ open' = open \cup {client'}
              /\ client \in {LC!NoClient, client'}
    PROVE  LlamaInv'
<1>1. /\ \A u \in Turns \ {t} : turns'[u] = turns[u]
      /\ turns'[t] = call
  BY DEF LlamaCallTo, LlamaInv, LC!TypeOK
<1>2. LC!TypeOK'
  BY DEF LlamaCallTo, LlamaInv, LC!TypeOK, LlamaCall
<1>3. ASSUME NEW n \in open'
      PROVE  n = client' \/ \E u \in Turns : turns'[u].at = "close" /\ turns'[u].client = n
  <2>1. CASE n \notin open
    BY <1>3, <2>1
  <2>2. CASE \E u \in Turns : turns[u].at = "close" /\ turns[u].client = n
    BY <1>1, <2>2 DEF LlamaCallTo
  <2>3. CASE n = client /\ n # LC!NoClient
    BY <1>1, <2>3
  <2>4. n \in open => n # LC!NoClient
    BY LlamaSizes, FS_CardinalityType DEF LlamaInv, LC!TypeOK, LC!Client, LC!NoClient
  <2> QED
    BY <2>1, <2>2, <2>3, <2>4 DEF LlamaInv, LC!ClientsKept
<1> QED
  BY <1>2, <1>3 DEF LlamaInv, LC!ClientsKept

\* A stream begins with the client of the provider, or with a new one.
LEMMA StreamInv ==
    ASSUME LlamaInv, NEW t \in Turns, NEW name \in Names \cup {LC!Unknown}, LC!Stream(t, name),
           turns[t].at # "close", UNCHANGED <<llamad, swaps, useHealth>>,
           resolved' \in Names \cup {LC!Unknown}
    PROVE  LlamaInv'
<1> DEFINE call == [at |-> "stream", name |-> name, client |-> client']
<1>1. client' \in LC!Client /\ open' = open \cup {client'} /\ client \in {LC!NoClient, client'}
  BY NewIsNew DEF LC!Stream, LC!EnsureClient, LlamaInv, LC!TypeOK
<1>2. LlamaCallTo(t, call)
  BY <1>1 DEF LC!Stream, LlamaCallTo, LlamaCall
<1> QED
  BY <1>1, <1>2, LlamaCallInv

\* A call that goes on or returns, with the client of the provider untouched.
LEMMA OtherInv ==
    ASSUME LlamaInv, NEW t \in Turns, NEW call \in LlamaCall, turns[t].at # "close",
           turns' = [turns EXCEPT ![t] = call],
           UNCHANGED <<llamad, swaps, useHealth, client, open>>,
           resolved' \in Names \cup {LC!Unknown}
    PROVE  LlamaInv'
<1>1. client' \in LC!Client \cup {LC!NoClient} /\ LlamaCallTo(t, call)
  BY DEF LlamaInv, LC!TypeOK, LlamaCallTo
<1> QED
  BY <1>1, LlamaCallInv

LEMMA LlamaNextInv ==
    ASSUME LlamaInv, [LC!Next]_(LC!llamaVars)
    PROVE  LlamaInv'
<1>0. /\ turns \in [Turns -> LlamaCall] /\ resolved \in Names \cup {LC!Unknown}
      /\ llamad.name \in Names /\ LC!Idle \in LlamaCall
  BY DEF LlamaInv, LC!TypeOK, LlamaCall, LC!Idle
<1>1. CASE LC!ServerSwaps
  <2>1. swaps' \in 0 .. Swaps /\ llamad' \in [name : Names, strict : BOOLEAN]
    BY <1>1, LlamaSizes DEF LC!ServerSwaps, LlamaInv, LC!TypeOK
  <2>2. UNCHANGED <<useHealth, resolved, client, open, turns>>
    BY <1>1 DEF LC!ServerSwaps
  <2> QED
    BY <2>1, <2>2 DEF LlamaInv, LC!TypeOK, LC!ClientsKept
<1>2. ASSUME NEW t \in Turns, LC!Begin(t)
      PROVE  LlamaInv'
  <2>1. CASE resolved = LC!Unknown
    <3>1. [turns[t] EXCEPT !.at = "resolve"] \in LlamaCall
      BY <1>0 DEF LlamaCall
    <3>2. turns' = [turns EXCEPT ![t] = [turns[t] EXCEPT !.at = "resolve"]]
      BY <1>2, <2>1 DEF LC!Begin, LC!Goto
    <3> QED
      BY <1>0, <1>2, <2>1, <3>1, <3>2, OtherInv DEF LC!Begin, LC!outside
  <2>2. CASE resolved # LC!Unknown
    BY <1>0, <1>2, <2>2, StreamInv DEF LC!Begin, LC!outside
  <2> QED
    BY <2>1, <2>2
<1>3. ASSUME NEW t \in Turns, LC!Resolved(t)
      PROVE  LlamaInv'
  <2>1. turns[t].name \in Names \cup {LC!Unknown}
    BY <1>0 DEF LlamaCall
  <2> QED
    BY <1>3, <2>1, StreamInv DEF LC!Resolved, LC!outside
<1>4. ASSUME NEW t \in Turns,
             \/ LC!Resolve(t) \/ LC!StreamEnds(t) \/ LC!StreamFails(t) \/ LC!Refused(t)
             \/ LC!Check(t) \/ LC!Health(t) \/ LC!ListModels(t) \/ LC!Listed(t)
      PROVE  LlamaInv'
  <2>1. /\ UNCHANGED <<llamad, swaps, useHealth, client, open>>
        /\ resolved' \in Names \cup {LC!Unknown}
        /\ turns[t].at # "close"
    BY <1>0, <1>4 DEF LC!Resolve, LC!StreamEnds, LC!StreamFails, LC!Refused, LC!Check,
                      LC!Health, LC!ListModels,
                      LC!Listed, LC!outside, LC!Forget
  <2>2. \/ turns' = [turns EXCEPT ![t] = LC!Idle]
        \/ \E label \in {"health", "models"} :
              turns' = [turns EXCEPT ![t] = [turns[t] EXCEPT !.at = label]]
        \/ \E label \in {"resolved", "listed"} :
              turns' = [turns EXCEPT ![t] =
                          [turns[t] EXCEPT !.at = label, !.name = llamad.name]]
    BY <1>4 DEF LC!Resolve, LC!StreamEnds, LC!StreamFails, LC!Refused, LC!Check, LC!Health,
                LC!ListModels, LC!Listed,
                LC!Return, LC!Goto
  <2>3. \E call \in LlamaCall : turns' = [turns EXCEPT ![t] = call]
    BY <1>0, <2>2 DEF LlamaCall
  <2> QED
    BY <2>1, <2>3, OtherInv
<1>5. ASSUME NEW t \in Turns, LC!Unload(t)
      PROVE  LlamaInv'
  <2> DEFINE call == [LC!Idle EXCEPT !.at = "close", !.client = client]
  <2>1. call \in LlamaCall /\ call.client = client /\ call.at = "close"
    BY DEF LC!Idle, LlamaCall, LlamaInv, LC!TypeOK
  <2>2. LlamaCallTo(t, call)
    BY <1>5, <2>1 DEF LC!Unload, LC!TakeClient, LlamaCallTo
  <2>3. client' = LC!NoClient /\ open' = open /\ resolved' = resolved
        /\ UNCHANGED <<llamad, swaps, useHealth>>
    BY <1>5 DEF LC!Unload, LC!TakeClient, LC!outside
  <2> HIDE DEF call
  <2> QED
    BY <1>0, <2>1, <2>2, <2>3, LlamaCallInv
<1>6. ASSUME NEW t \in Turns, LC!Closed(t)
      PROVE  LlamaInv'
  <2>1. /\ \A u \in Turns \ {t} : turns'[u] = turns[u]
        /\ turns' \in [Turns -> LlamaCall]
    BY <1>0, <1>6 DEF LC!Closed, LC!Return
  <2>2. LC!TypeOK'
    BY <1>6, <2>1 DEF LC!Closed, LC!outside, LlamaInv, LC!TypeOK, LlamaCall
  <2>3. ASSUME NEW n \in open'
        PROVE  n = client' \/ \E u \in Turns : turns'[u].at = "close" /\ turns'[u].client = n
    <3>1. n \in open /\ n # turns[t].client /\ client' = client
      BY <1>6, <2>3 DEF LC!Closed
    <3>2. n = client \/ \E u \in Turns : turns[u].at = "close" /\ turns[u].client = n
      BY <3>1 DEF LlamaInv, LC!ClientsKept
    <3> QED
      BY <2>1, <3>1, <3>2
  <2> QED
    BY <2>2, <2>3 DEF LlamaInv, LC!ClientsKept
<1>7. CASE UNCHANGED LC!llamaVars
  BY <1>7 DEF LC!llamaVars, LlamaInv, LC!TypeOK, LC!ClientsKept
<1> QED
  BY <1>1, <1>2, <1>3, <1>4, <1>5, <1>6, <1>7 DEF LC!Next

LEMMA LlamaStays == Spec => []LlamaInv
<1>1. LC!Init => LlamaInv
  BY LlamaInitInv
<1>2. LlamaInv /\ [LC!Next]_(LC!llamaVars) => LlamaInv'
  BY LlamaNextInv
<1> QED
  BY <1>1, <1>2, LlamaIsOne, PTL DEF LC!Spec

\* An HTTP client of the LLM provider that is open is its client, or one that
\* an unload is about to close, whichever streams and checks are under way.
THEOREM ClientsStayKept == Spec => []ClientsKept
<1>1. LlamaInv => ClientsKept
  BY DEF LlamaInv, ClientsKept
<1> QED
  BY <1>1, LlamaStays, PTL


-----------------------------------------------------------------------------
(***************************************************************************)
(* Pocket TTS: the voice and the quantization of what is spoken. As long   *)
(* as no change came while a load was at work without the lock, the model  *)
(* and the state fit what is selected, and so does what a thread has read  *)
(* of them and works with; a stream has the lock while it does.            *)
(***************************************************************************)

\* A model, a voice state, the provider, and what a thread has read of it.
PocketModels == [quantize : BOOLEAN]
PocketStates == [voice : Voices, model : PocketModels]
Pockets == [voice : Voices, quantize : BOOLEAN, model : {PO!None} \cup PocketModels,
            state : {PO!None} \cup PocketStates]
PocketRead ==
    {PO!None} \cup PocketModels \cup [voice : Voices, model : {PO!None} \cup PocketModels]
        \cup Pockets

PocketJob == [kind : {"none", "stream", "load", "unload"},
            at : {"idle", "lock", "ensure", "model", "voice", "ready", "failing", "generating",
                  "done"},
            got : PocketRead, made : Nat, pending : Seq(Nat)]

\* The points of a thread at which a stream has the lock.
Holding == {"ensure", "model", "voice", "ready", "failing", "generating"}

\* What a thread has read fits what it does, and a stream that is at work has
\* the lock.
PocketThreads ==
    /\ pocket \in Pockets /\ mixed \in BOOLEAN
    /\ loop \in {PO!None} \cup [voice : Voices, quantize : BOOLEAN]
    /\ jobs \in [Jobs -> PocketJob]
    /\ \A j \in Jobs :
        /\ jobs[j].at = "model" => jobs[j].got \in PocketModels
        /\ jobs[j].at = "voice" => jobs[j].got \in PocketStates
        /\ jobs[j].at \in {"ready", "failing", "generating"} => jobs[j].kind = "stream"
        /\ jobs[j].at \in {"ensure", "model", "voice"} => jobs[j].kind \in {"stream", "load"}
        /\ jobs[j].at = "lock" => jobs[j].kind \in {"stream", "unload"}
        /\ jobs[j].kind = "stream" /\ jobs[j].at \in Holding => lock = [job |-> j]

\* The model and the state for what is selected.
ModelFor(p) == [quantize |-> p.quantize]
StateFor(p) == [voice |-> p.voice, model |-> ModelFor(p)]

\* The provider has nothing but what fits, and a thread works with what does.
FitsPocket(p) ==
    /\ p.model \in {PO!None, ModelFor(p)}
    /\ p.state \in {PO!None, StateFor(p)}
    /\ p.model = PO!None => p.state = PO!None

FitsJob(job, p) ==
    /\ job.at = "model" => job.got = ModelFor(p)
    /\ job.at = "voice" => job.got = StateFor(p) /\ p.model = ModelFor(p)
    /\ job.at = "generating" => job.got.model = ModelFor(p) /\ job.got.state = StateFor(p)

Matching == FitsPocket(pocket) /\ \A j \in Jobs : FitsJob(jobs[j], pocket)

\* Until the two are mixed.
VoiceInv == PocketThreads /\ (~mixed => Matching)

\* None is no model, and no state.
LEMMA Nones ==
    /\ PO!None \notin PocketModels /\ PO!None \notin PocketStates
    /\ \A q : [quantize |-> q] # PO!None
    /\ \A v, m : [voice |-> v, model |-> m] # PO!None
BY DEF PO!None, PocketModels, PocketStates

LEMMA VoiceInitInv ==
    ASSUME PO!Init
    PROVE  VoiceInv
<1>1. PICK v \in Voices :
            pocket = [voice |-> v, quantize |-> FALSE, model |-> PO!None, state |-> PO!None]
  BY DEF PO!Init
<1>2. PO!NoJob \in PocketJob /\ PO!NoJob.at = "idle"
  BY DEF PO!NoJob, PocketJob, PocketRead
<1>3. jobs \in [Jobs -> PocketJob] /\ \A j \in Jobs : jobs[j].at = "idle"
  BY <1>2 DEF PO!Init
<1>4. pocket \in Pockets
  BY <1>1 DEF Pockets
<1>5. PocketThreads
  BY <1>3, <1>4 DEF PO!Init, PocketThreads, Holding
<1>6. Matching
  BY <1>1, <1>3 DEF Matching, FitsPocket, FitsJob
<1> QED
  BY <1>5, <1>6 DEF VoiceInv

\* Only job j changes, and it fits.
LEMMA JobInv ==
    ASSUME VoiceInv, NEW j \in Jobs, NEW job \in PocketJob,
           jobs' = [jobs EXCEPT ![j] = job],
           job.at = "model" => job.got \in PocketModels,
           job.at = "voice" => job.got \in PocketStates,
           job.at \in {"ready", "failing", "generating"} => job.kind = "stream",
           job.at \in {"ensure", "model", "voice"} => job.kind \in {"stream", "load"},
           job.at = "lock" => job.kind \in {"stream", "unload"},
           pocket' \in Pockets, UNCHANGED <<loop, mixed>>,
           pocket'.voice = pocket.voice, pocket'.quantize = pocket.quantize,
           \/ lock' = lock /\ (job.kind = "stream" /\ job.at \in Holding => lock = [job |-> j])
           \/ lock = PO!Nobody /\ lock' = [job |-> j]
           \/ /\ lock = [job |-> j] /\ lock' = PO!Nobody
              /\ ~(job.kind = "stream" /\ job.at \in Holding),
           ~mixed => FitsPocket(pocket') /\ FitsJob(job, pocket'),
           ~mixed /\ pocket.model = ModelFor(pocket) => pocket'.model = pocket.model
    PROVE  VoiceInv'
<1>1. /\ \A k \in Jobs \ {j} : jobs'[k] = jobs[k]
      /\ jobs'[j] = job /\ jobs' \in [Jobs -> PocketJob]
  BY DEF VoiceInv, PocketThreads
<1>2. \A k \in Jobs : [job |-> k] # PO!Nobody
  BY NamedJobs DEF PO!Nobody
<1>3. \A k \in Jobs \ {j} : [job |-> k] # [job |-> j]
  OBVIOUS
<1>4. \A k \in Jobs : jobs'[k].kind = "stream" /\ jobs'[k].at \in Holding => lock' = [job |-> k]
  BY <1>1, <1>2, <1>3 DEF VoiceInv, PocketThreads
<1>5. PocketThreads'
  BY <1>1, <1>4 DEF VoiceInv, PocketThreads
<1>6. ASSUME ~mixed, NEW k \in Jobs \ {j}
      PROVE  FitsJob(jobs[k], pocket')
  <2>1. FitsJob(jobs[k], pocket)
    BY <1>6 DEF VoiceInv, Matching
  <2>2. ModelFor(pocket') = ModelFor(pocket) /\ StateFor(pocket') = StateFor(pocket)
    BY DEF ModelFor, StateFor
  <2> QED
    BY <1>1, <1>6, <2>1, <2>2 DEF FitsJob
<1>7. ~mixed => Matching'
  BY <1>1, <1>6 DEF Matching
<1> QED
  BY <1>5, <1>7 DEF VoiceInv

\* No thread that minds has the model when the configuration is changed or the
\* model released, unless it is that of a load().
LEMMA NobodyMinds ==
    ASSUME VoiceInv, lock = PO!Nobody, ~(mixed \/ PO!LoadAtWork), NEW j \in Jobs
    PROVE  jobs[j].at \notin {"model", "voice", "generating"}
<1>1. [job |-> j] # PO!Nobody
  BY NamedJobs DEF PO!Nobody
<1>2. ~(jobs[j].kind = "stream" /\ jobs[j].at \in Holding)
  BY <1>1 DEF VoiceInv, PocketThreads
<1>3. ~(jobs[j].kind = "load" /\ jobs[j].at \notin {"idle", "done"})
  BY DEF PO!LoadAtWork
<1> QED
  BY <1>2, <1>3 DEF VoiceInv, PocketThreads, Holding

\* A change of the voice or the quantization drops what fits it no more.
LEMMA ChangedInv ==
    ASSUME VoiceInv, lock = PO!Nobody, pocket' \in Pockets, UNCHANGED <<lock, jobs>>,
           mixed' = (mixed \/ PO!LoadAtWork),
           loop' \in {PO!None} \cup [voice : Voices, quantize : BOOLEAN],
           FitsPocket(pocket) => FitsPocket(pocket')
    PROVE  VoiceInv'
<1>1. PocketThreads'
  BY DEF VoiceInv, PocketThreads, PO!LoadAtWork
<1>2. ~mixed' => Matching'
  BY NobodyMinds DEF VoiceInv, Matching, FitsJob
<1> QED
  BY <1>1, <1>2 DEF VoiceInv

\* An unload drops the model and the state.
LEMMA ReleasedInv ==
    ASSUME VoiceInv, lock = PO!Nobody, pocket' \in Pockets, UNCHANGED <<lock, loop>>,
           NEW j \in Jobs, NEW job \in PocketJob, jobs' = [jobs EXCEPT ![j] = job],
           job.at = "done", mixed' = (mixed \/ PO!LoadAtWork), FitsPocket(pocket')
    PROVE  VoiceInv'
<1>1. /\ \A k \in Jobs \ {j} : jobs'[k] = jobs[k]
      /\ jobs'[j] = job /\ jobs' \in [Jobs -> PocketJob]
  BY DEF VoiceInv, PocketThreads
<1>2. PocketThreads'
  BY <1>1 DEF VoiceInv, PocketThreads, PO!LoadAtWork, Holding
<1>3. ~mixed' => Matching'
  BY <1>1, NobodyMinds DEF VoiceInv, Matching, FitsJob
<1> QED
  BY <1>2, <1>3 DEF VoiceInv

LEMMA VoiceNextInv ==
    ASSUME VoiceInv, [PO!Next]_(PO!pocketVars)
    PROVE  VoiceInv'
<1>0. /\ pocket \in Pockets /\ jobs \in [Jobs -> PocketJob] /\ mixed \in BOOLEAN
      /\ \A j \in Jobs :
            /\ jobs[j].at = "model" => jobs[j].got \in PocketModels
            /\ jobs[j].at = "voice" => jobs[j].got \in PocketStates
            /\ jobs[j].at \in {"ready", "failing", "generating"} => jobs[j].kind = "stream"
            /\ jobs[j].at \in {"ensure", "model", "voice"} => jobs[j].kind \in {"stream", "load"}
            /\ jobs[j].at = "lock" => jobs[j].kind \in {"stream", "unload"}
            /\ jobs[j].kind = "stream" /\ jobs[j].at \in Holding => lock = [job |-> j]
            /\ ~mixed => FitsPocket(pocket) /\ FitsJob(jobs[j], pocket)
  BY DEF VoiceInv, PocketThreads, Matching
<1>1. ASSUME NEW v \in Voices, NEW q \in BOOLEAN, PO!Change(v, q)
      PROVE  VoiceInv'
  <2>1. loop' \in [voice : Voices, quantize : BOOLEAN]
    BY <1>1 DEF PO!Change
  <2>2. UNCHANGED <<pocket, lock, jobs, mixed>>
    BY <1>1 DEF PO!Change
  <2>3. PocketThreads'
    BY <2>1, <2>2 DEF VoiceInv, PocketThreads
  <2> QED
    BY <2>2, <2>3 DEF VoiceInv, Matching, FitsPocket, FitsJob, ModelFor, StateFor
<1>2. CASE PO!Changed
  <2>1. loop \in [voice : Voices, quantize : BOOLEAN]
    BY <1>2 DEF PO!Changed, PO!LoopRuns, VoiceInv, PocketThreads
  <2> DEFINE new == PO!Configured(loop.voice, loop.quantize)
  <2>2. new \in Pockets
    BY <1>0, <2>1 DEF PO!Configured, Pockets
  <2>3. /\ new.voice = loop.voice /\ new.quantize = loop.quantize
        /\ new.model = IF loop.quantize # pocket.quantize THEN PO!None ELSE pocket.model
        /\ new.state = IF loop.quantize # pocket.quantize \/ loop.voice # pocket.voice
                       THEN PO!None ELSE pocket.state
    BY DEF PO!Configured
  <2> HIDE DEF new
  <2>4. pocket' = new /\ lock = PO!Nobody
    BY <1>2 DEF PO!Changed, new
  <2>5. FitsPocket(pocket) => FitsPocket(pocket')
    BY <2>3, <2>4 DEF FitsPocket, ModelFor, StateFor
  <2> QED
    BY <1>2, <2>2, <2>4, <2>5, ChangedInv DEF PO!Changed
<1>3. ASSUME NEW j \in Jobs, NEW kind \in {"stream", "load", "unload"}, PO!Start(j, kind)
      PROVE  VoiceInv'
  <2> DEFINE job == [PO!NoJob EXCEPT !.kind = kind,
                        !.at = IF kind = "load" THEN "ensure" ELSE "lock"]
  <2>1. /\ job \in PocketJob /\ job.kind = kind
        /\ job.at = IF kind = "load" THEN "ensure" ELSE "lock"
    <3> DEFINE label == IF kind = "load" THEN "ensure" ELSE "lock"
    <3>1. label \in {"ensure", "lock"}
      OBVIOUS
    <3> HIDE DEF label
    <3>2. PO!NoJob \in PocketJob
      BY DEF PO!NoJob, PocketJob, PocketRead
    <3>4. [PO!NoJob EXCEPT !.kind = kind, !.at = label] \in PocketJob
      BY <3>1, <3>2 DEF PocketJob
    <3>3. /\ [PO!NoJob EXCEPT !.kind = kind, !.at = label].kind = kind
          /\ [PO!NoJob EXCEPT !.kind = kind, !.at = label].at = label
      BY DEF PO!NoJob
    <3> QED
      BY <3>3, <3>4 DEF label
  <2>2. jobs' = [jobs EXCEPT ![j] = job] /\ UNCHANGED <<pocket, lock, loop, mixed>>
    BY <1>3 DEF PO!Start
  <2> HIDE DEF job
  <2>3. ~mixed => FitsPocket(pocket') /\ FitsJob(job, pocket')
    BY <1>0, <2>1, <2>2 DEF FitsPocket, FitsJob, ModelFor, StateFor
  <2> QED
    BY <1>0, <2>1, <2>2, <2>3, JobInv DEF Holding
<1>4. ASSUME NEW j \in Jobs, PO!Take(j) \/ PO!Cancel(j)
      PROVE  VoiceInv'
  <2>1. UNCHANGED <<pocket, lock, jobs, loop, mixed>>
    BY <1>4 DEF PO!Take, PO!Cancel
  <2> QED
    BY <2>1 DEF VoiceInv, PocketThreads, Matching, FitsPocket, FitsJob, ModelFor, StateFor
<1>5. ASSUME NEW j \in Jobs, PO!TakeLock(j)
      PROVE  VoiceInv'
  <2>1. CASE jobs[j].kind = "unload"
    <3> DEFINE new == [pocket EXCEPT !.model = PO!None, !.state = PO!None]
    <3>1. /\ new \in Pockets /\ new.voice = pocket.voice /\ new.quantize = pocket.quantize
          /\ new.model = PO!None /\ new.state = PO!None
      BY <1>0 DEF Pockets
    <3> HIDE DEF new
    <3>2. pocket' = new /\ lock = PO!Nobody /\ UNCHANGED <<lock, loop>>
          /\ mixed' = (mixed \/ PO!LoadAtWork)
      BY <1>5, <2>1 DEF PO!TakeLock, new
    <3>3. FitsPocket(pocket')
      BY <3>1, <3>2 DEF FitsPocket
    <3> DEFINE job == [jobs[j] EXCEPT !.at = "done"]
    <3>4. jobs' = [jobs EXCEPT ![j] = job]
      BY <1>5, <2>1 DEF PO!TakeLock, PO!Goto
    <3>5. job \in PocketJob /\ job.kind = "unload" /\ job.at = "done"
      BY <1>0, <2>1 DEF PocketJob
    <3> HIDE DEF job
    <3> QED
      BY <1>0, <3>1, <3>2, <3>3, <3>4, <3>5, ReleasedInv
  <2>2. CASE jobs[j].kind # "unload"
    <3>1. /\ lock = PO!Nobody /\ lock' = [job |-> j] /\ UNCHANGED <<pocket, loop, mixed>>
      BY <1>5, <2>2 DEF PO!TakeLock
    <3> DEFINE job == [jobs[j] EXCEPT !.at = "ensure"]
    <3>2. jobs' = [jobs EXCEPT ![j] = job]
      BY <1>5, <2>2 DEF PO!TakeLock, PO!Goto
    <3>3. jobs[j].kind = "stream"
      BY <1>0, <1>5, <2>2 DEF PO!TakeLock, PocketJob
    <3>4. job \in PocketJob /\ job.kind = "stream" /\ job.at = "ensure"
      BY <1>0, <3>3 DEF PocketJob
    <3> HIDE DEF job
    <3>5. ~mixed => FitsPocket(pocket') /\ FitsJob(job, pocket')
      BY <1>0, <3>1, <3>4 DEF FitsPocket, FitsJob
    <3> QED
      BY <1>0, <3>1, <3>2, <3>4, <3>5, JobInv
  <2> QED
    BY <2>1, <2>2
<1>6. ASSUME NEW j \in Jobs, PO!EnsureModel(j)
      PROVE  VoiceInv'
  <2>0. /\ UNCHANGED <<pocket, lock, loop, mixed>> /\ jobs[j].at = "ensure"
        /\ jobs[j].kind \in {"stream", "load"}
    BY <1>0, <1>6 DEF PO!EnsureModel, PO!onLoop
  <2>1. ASSUME NEW label \in {"model", "voice", "ready", "done"}, NEW got \in PocketRead,
               jobs' = [jobs EXCEPT ![j].at = label, ![j].got = got],
               \/ label = "model" /\ got = ModelFor(pocket)
               \/ label = "voice" /\ pocket.model \in PocketModels
                  /\ got = [voice |-> pocket.voice, model |-> pocket.model]
               \/ label \in {"ready", "done"},
               label = "ready" => jobs[j].kind = "stream"
        PROVE  VoiceInv'
    <3> DEFINE job == [jobs[j] EXCEPT !.at = label, !.got = got]
    <3>1. /\ job \in PocketJob /\ job.kind = jobs[j].kind /\ job.at = label /\ job.got = got
          /\ jobs' = [jobs EXCEPT ![j] = job]
      BY <1>0, <2>1 DEF PocketJob
    <3> HIDE DEF job
    <3>2. /\ label = "model" => got \in PocketModels
          /\ label = "voice" => got \in PocketStates
      BY <1>0, <2>1 DEF ModelFor, PocketModels, PocketStates, Pockets
    <3>3. ~mixed => FitsPocket(pocket') /\ FitsJob(job, pocket')
      BY <1>0, <2>0, <2>1, <3>1, Nones DEF FitsPocket, FitsJob, ModelFor, StateFor
    <3>4. job.kind = "stream" => lock = [job |-> j]
      BY <1>0, <2>0, <3>1 DEF Holding
    <3>5. job.at \in {"model", "voice", "ready", "done"} /\ pocket' = pocket /\ lock' = lock
      BY <2>0, <2>1, <3>1
    <3>6. /\ job.at = "model" => job.got \in PocketModels
          /\ job.at = "voice" => job.got \in PocketStates
          /\ job.at = "ready" => job.kind = "stream"
      BY <2>1, <3>1, <3>2
    <3> QED
      BY <1>0, <2>0, <3>1, <3>3, <3>4, <3>5, <3>6, JobInv
  <2>2. CASE pocket.model = PO!None
    <3>1. jobs' = [jobs EXCEPT ![j].at = "model", ![j].got = ModelFor(pocket)]
      BY <1>6, <2>2 DEF PO!EnsureModel, ModelFor
    <3>2. ModelFor(pocket) \in PocketRead
      BY <1>0 DEF ModelFor, PocketRead, PocketModels, Pockets
    <3> QED
      BY <2>1, <3>1, <3>2
  <2>3. CASE pocket.model # PO!None
    <3> DEFINE got == [voice |-> pocket.voice, model |-> pocket.model]
               label == IF pocket.state = PO!None THEN "voice" ELSE PO!Ensured(j)
    <3>1. jobs' = [jobs EXCEPT ![j].at = label, ![j].got = got]
      BY <1>6, <2>3 DEF PO!EnsureModel
    <3>2. got \in PocketRead /\ pocket.model \in PocketModels
      BY <1>0, <2>3 DEF PocketRead, Pockets
    <3>3. /\ label \in {"voice", "ready", "done"}
          /\ label = "ready" => jobs[j].kind = "stream"
      BY DEF PO!Ensured
    <3> HIDE DEF label
    <3> QED
      BY <2>1, <3>1, <3>2, <3>3
  <2> QED
    BY <2>2, <2>3
<1>7. ASSUME NEW j \in Jobs, PO!ModelLoaded(j)
      PROVE  VoiceInv'
  <2> DEFINE model == jobs[j].got
             new == [pocket EXCEPT !.model = model]
             got == [voice |-> pocket.voice, model |-> model]
             label == IF pocket.state = PO!None THEN "voice" ELSE PO!Ensured(j)
             job == [jobs[j] EXCEPT !.at = label, !.got = got]
  <2>1. /\ jobs[j].at = "model" /\ jobs[j].kind \in {"stream", "load"}
        /\ model \in PocketModels /\ UNCHANGED <<lock, loop, mixed>>
        /\ ~mixed => model = ModelFor(pocket)
    BY <1>0, <1>7 DEF PO!ModelLoaded, PO!onLoop, FitsJob
  <2>2. /\ new \in Pockets /\ new.voice = pocket.voice /\ new.quantize = pocket.quantize
        /\ new.model = model /\ new.state = pocket.state /\ pocket' = new
    BY <1>0, <1>7, <2>1 DEF Pockets, PO!ModelLoaded
  <2>3. /\ label \in {"voice", "ready", "done"}
        /\ label = "ready" => jobs[j].kind = "stream"
    BY DEF PO!Ensured
  <2>4. got \in PocketStates /\ got \in PocketRead
    BY <1>0, <2>1 DEF PocketStates, PocketRead, Pockets
  <2>5. jobs' = [jobs EXCEPT ![j] = job]
    BY <1>7 DEF PO!ModelLoaded
  <2> HIDE DEF label, new
  <2>6. job \in PocketJob /\ job.kind = jobs[j].kind /\ job.at = label /\ job.got = got
    BY <1>0, <2>3, <2>4 DEF PocketJob
  <2> HIDE DEF job
  <2>7. ~mixed => FitsPocket(pocket') /\ FitsJob(job, pocket')
    BY <1>0, <2>1, <2>2, <2>3, <2>6, Nones DEF FitsPocket, FitsJob, ModelFor, StateFor
  <2> QED
    BY <1>0, <2>1, <2>2, <2>3, <2>4, <2>5, <2>6, <2>7, JobInv DEF Holding
<1>8. ASSUME NEW j \in Jobs, PO!StateLoaded(j)
      PROVE  VoiceInv'
  <2> DEFINE new == [pocket EXCEPT !.state = jobs[j].got]
             job == [jobs[j] EXCEPT !.at = PO!Ensured(j)]
  <2>1. /\ jobs[j].at = "voice" /\ jobs[j].kind \in {"stream", "load"}
        /\ jobs[j].got \in PocketStates /\ UNCHANGED <<lock, loop, mixed>>
        /\ ~mixed => jobs[j].got = StateFor(pocket) /\ pocket.model = ModelFor(pocket)
    BY <1>0, <1>8 DEF PO!StateLoaded, PO!onLoop, FitsJob
  <2>2. /\ new \in Pockets /\ new.voice = pocket.voice /\ new.quantize = pocket.quantize
        /\ new.model = pocket.model /\ new.state = jobs[j].got /\ pocket' = new
    BY <1>0, <1>8, <2>1 DEF Pockets, PO!StateLoaded
  <2>3. /\ PO!Ensured(j) \in {"ready", "done"}
        /\ PO!Ensured(j) = "ready" => jobs[j].kind = "stream"
    BY DEF PO!Ensured
  <2>4. jobs' = [jobs EXCEPT ![j] = job]
    BY <1>8 DEF PO!StateLoaded, PO!Goto
  <2> HIDE DEF new
  <2>5. job \in PocketJob /\ job.kind = jobs[j].kind /\ job.at = PO!Ensured(j)
    BY <1>0, <2>3 DEF PocketJob
  <2> HIDE DEF job
  <2>6. ~mixed => FitsPocket(pocket') /\ FitsJob(job, pocket')
    BY <2>1, <2>2, <2>3, <2>5, Nones DEF FitsPocket, FitsJob, ModelFor, StateFor
  <2> QED
    BY <1>0, <2>1, <2>2, <2>3, <2>4, <2>5, <2>6, JobInv DEF Holding
<1>9. ASSUME NEW j \in Jobs, PO!Generate(j)
      PROVE  VoiceInv'
  <2> DEFINE label == IF PO!None \in {pocket.model, pocket.state} THEN "failing" ELSE "generating"
             job == [jobs[j] EXCEPT !.at = label, !.got = pocket]
  <2>1. /\ jobs[j].at = "ready" /\ jobs[j].kind = "stream"
        /\ UNCHANGED <<pocket, lock, loop, mixed>>
    BY <1>0, <1>9 DEF PO!Generate, PO!onLoop
  <2>2. /\ label \in {"failing", "generating"}
        /\ label = "generating" => pocket.model # PO!None /\ pocket.state # PO!None
    OBVIOUS
  <2>3. jobs' = [jobs EXCEPT ![j] = job]
    BY <1>9 DEF PO!Generate
  <2> HIDE DEF label
  <2>4. job \in PocketJob /\ job.kind = "stream" /\ job.at = label /\ job.got = pocket
    BY <1>0, <2>1, <2>2 DEF PocketJob, PocketRead
  <2> HIDE DEF job
  <2>5. ~mixed => FitsPocket(pocket') /\ FitsJob(job, pocket')
    BY <1>0, <2>1, <2>2, <2>4 DEF FitsPocket, FitsJob, ModelFor, StateFor
  <2> QED
    BY <1>0, <2>1, <2>2, <2>3, <2>4, <2>5, JobInv DEF Holding
<1>10. ASSUME NEW j \in Jobs, PO!GeneratePiece(j)
       PROVE  VoiceInv'
  <2>1. /\ jobs[j].at = "generating" /\ jobs[j].kind = "stream"
        /\ UNCHANGED <<pocket, lock, loop, mixed>>
    BY <1>0, <1>10 DEF PO!GeneratePiece
  <2> DEFINE n == jobs[j].made + 1
             all == Append(jobs[j].pending, n)
             pending == IF Len(all) >= Coalesce THEN <<>> ELSE all
             job == [jobs[j] EXCEPT !.made = n, !.pending = pending]
  <2>2. n \in Nat /\ pending \in Seq(Nat)
    BY <1>0 DEF PocketJob
  <2>3. jobs' = [jobs EXCEPT ![j] = job]
    BY <1>10 DEF PO!GeneratePiece
  <2> HIDE DEF n, pending
  <2>4. job \in PocketJob /\ job.kind = jobs[j].kind /\ job.at = jobs[j].at
        /\ job.got = jobs[j].got
    BY <1>0, <2>2 DEF PocketJob
  <2> HIDE DEF job
  <2>5. ~mixed => FitsPocket(pocket') /\ FitsJob(job, pocket')
    BY <1>0, <2>1, <2>4 DEF FitsPocket, FitsJob, ModelFor, StateFor
  <2> QED
    BY <1>0, <2>1, <2>3, <2>4, <2>5, JobInv
<1>11. ASSUME NEW j \in Jobs, PO!Generated(j) \/ PO!Raises(j)
       PROVE  VoiceInv'
  <2> DEFINE job == [jobs[j] EXCEPT !.at = "done"]
  <2>1. jobs' = [jobs EXCEPT ![j] = job] /\ UNCHANGED <<pocket, loop, mixed>>
    BY <1>11 DEF PO!Generated, PO!Raises, PO!Goto
  <2>2. job \in PocketJob /\ job.kind = jobs[j].kind /\ job.at = "done"
    BY <1>0 DEF PocketJob
  <2>3. \/ jobs[j].kind = "stream" /\ jobs[j].at \in Holding /\ lock' = PO!Nobody
        \/ lock' = lock
    BY <1>0, <1>11 DEF PO!Generated, PO!Raises, Holding
  <2> HIDE DEF job
  <2>4. ~mixed => FitsPocket(pocket') /\ FitsJob(job, pocket')
    BY <1>0, <2>1, <2>2 DEF FitsPocket, FitsJob, ModelFor, StateFor
  <2> QED
    BY <1>0, <2>1, <2>2, <2>3, <2>4, JobInv DEF Holding
<1>12. CASE UNCHANGED PO!pocketVars
  BY <1>12 DEF PO!pocketVars, VoiceInv, PocketThreads, Matching, FitsPocket, FitsJob, ModelFor,
               StateFor
<1> QED
  BY <1>1, <1>2, <1>3, <1>4, <1>5, <1>6, <1>7, <1>8, <1>9, <1>10, <1>11, <1>12
     DEF PO!Next, PO!ThreadStep

\* A stream of Pocket TTS generates with the voice and the quantization that
\* are selected, unless they were changed while load() was at work, which takes
\* no lock.
THEOREM VoiceStaysSelected == Spec => []SpeaksSelected
<1>1. PO!Init => VoiceInv
  BY VoiceInitInv
<1>2. VoiceInv /\ [PO!Next]_(PO!pocketVars) => VoiceInv'
  BY VoiceNextInv
<1>3. VoiceInv => SpeaksSelected
  BY DEF VoiceInv, Matching, FitsJob, ModelFor, StateFor, PO!SpeaksSelected, SpeaksSelected
<1> QED
  BY <1>1, <1>2, <1>3, PocketIsOne, PTL DEF PO!Spec

-----------------------------------------------------------------------------
(***************************************************************************)
(* The pieces of a stream, which are numbered: those passed on, those in   *)
(* the queue and those that are pending follow one another.                *)
(***************************************************************************)

\* What a thread puts in the queue of its stream.
Items == [item : {"chunk", "none", "error"}, pieces : Seq(Nat)]

\* An item, or the items of a queue, with the pieces after a up to b.
Carries(item, a, b) == a <= b /\ item.pieces = [k \in 1 .. b - a |-> a + k]

CarriesAll(items, a, b) ==
    \E cut \in [0 .. Len(items) -> Nat] :
        /\ cut[0] = a /\ cut[Len(items)] = b
        /\ \A i \in 1 .. Len(items) : Carries(items[i], cut[i - 1], cut[i])

\* A queue goes on where it ended, and begins where its first item ends.
LEMMA AppendCarries ==
    ASSUME NEW items \in Seq(Items), NEW a \in Nat, NEW b \in Nat, NEW c \in Nat,
           NEW item \in Items, CarriesAll(items, a, b), Carries(item, b, c)
    PROVE  CarriesAll(Append(items, item), a, c)
<1>1. PICK cut \in [0 .. Len(items) -> Nat] :
            /\ cut[0] = a /\ cut[Len(items)] = b
            /\ \A i \in 1 .. Len(items) : Carries(items[i], cut[i - 1], cut[i])
  BY DEF CarriesAll
<1> DEFINE new == [i \in 0 .. Len(items) + 1 |-> IF i = Len(items) + 1 THEN c ELSE cut[i]]
<1>2. /\ Len(items) \in Nat /\ Len(Append(items, item)) = Len(items) + 1
      /\ \A i \in 1 .. Len(items) : Append(items, item)[i] = items[i]
      /\ Append(items, item)[Len(items) + 1] = item
  BY AppendProperties
<1>3. /\ new \in [0 .. Len(items) + 1 -> Nat]
      /\ \A i \in 0 .. Len(items) : new[i] = cut[i]
      /\ new[Len(items) + 1] = c
  BY <1>1, <1>2
<1> HIDE DEF new
<1>4. ASSUME NEW i \in 1 .. Len(items) + 1
      PROVE  Carries(Append(items, item)[i], new[i - 1], new[i])
  <2>1. CASE i = Len(items) + 1
    <3>1. i - 1 \in 0 .. Len(items) /\ i - 1 = Len(items)
      BY <1>2, <2>1
    <3> QED
      BY <1>1, <1>2, <1>3, <2>1, <3>1
  <2>2. CASE i # Len(items) + 1
    <3>1. i \in 1 .. Len(items) /\ i \in 0 .. Len(items) /\ i - 1 \in 0 .. Len(items)
      BY <1>2, <2>2
    <3> QED
      BY <1>1, <1>2, <1>3, <3>1
  <2> QED
    BY <2>1, <2>2
<1>5. new[0] = a
  BY <1>1, <1>2, <1>3
<1> QED
  BY <1>2, <1>3, <1>4, <1>5 DEF CarriesAll

LEMMA TailCarries ==
    ASSUME NEW items \in Seq(Items), items # <<>>, NEW a \in Nat, NEW b \in Nat,
           CarriesAll(items, a, b)
    PROVE  \E c \in Nat : Carries(Head(items), a, c) /\ CarriesAll(Tail(items), c, b)
<1>1. PICK cut \in [0 .. Len(items) -> Nat] :
            /\ cut[0] = a /\ cut[Len(items)] = b
            /\ \A i \in 1 .. Len(items) : Carries(items[i], cut[i - 1], cut[i])
  BY DEF CarriesAll
<1>2. /\ Len(items) \in Nat \ {0} /\ Len(Tail(items)) = Len(items) - 1
      /\ \A i \in 1 .. Len(items) - 1 : Tail(items)[i] = items[i + 1]
      /\ Head(items) = items[1]
  BY HeadTailProperties, EmptySeq
<1> DEFINE new == [i \in 0 .. Len(items) - 1 |-> cut[i + 1]]
<1>3. /\ new \in [0 .. Len(items) - 1 -> Nat]
      /\ \A i \in 0 .. Len(items) - 1 : new[i] = cut[i + 1]
  BY <1>1, <1>2
<1> HIDE DEF new
<1>4. ASSUME NEW i \in 1 .. Len(items) - 1
      PROVE  Carries(Tail(items)[i], new[i - 1], new[i])
  <2>1. /\ i + 1 \in 1 .. Len(items) /\ (i + 1) - 1 = i /\ (i - 1) + 1 = i
        /\ i - 1 \in 0 .. Len(items) - 1 /\ i \in 0 .. Len(items) - 1
    BY <1>2
  <2> QED
    BY <1>1, <1>2, <1>3, <2>1
<1>5. /\ cut[1] \in Nat /\ Carries(items[1], a, cut[1])
      /\ new[0] = cut[1] /\ new[Len(items) - 1] = b
  BY <1>1, <1>2, <1>3
<1>6. CarriesAll(Tail(items), cut[1], b)
  BY <1>2, <1>3, <1>4, <1>5 DEF CarriesAll
<1> QED
  BY <1>2, <1>5, <1>6

\* The consumer of a stream.
Listeners == [at : {"none", "waiting", "ended", "raised", "cancelled"}, out : Seq(Nat)]

\* What a consumer has passed on, what is in its queue and what its thread has
\* yet to put there follow one another; a stream has one end, and it is last.
Follows(job, items, listener) ==
    /\ listener.out = [k \in 1 .. Len(listener.out) |-> k]
    /\ Len(job.pending) <= job.made
    /\ job.pending = [k \in 1 .. Len(job.pending) |-> job.made - Len(job.pending) + k]
    /\ \A i \in 1 .. Len(items) : items[i].item # "chunk" =>
            items[i].pieces = <<>> /\ i = Len(items) /\ job.at = "done"
    /\ job.at = "idle" => listener.at = "none" /\ listener.out = <<>> /\ items = <<>>
    /\ listener.at = "waiting" => \E b \in Nat :
            /\ CarriesAll(items, Len(listener.out), b)
            /\ job.at # "done" => b = job.made - Len(job.pending)
            /\ \A i \in 1 .. Len(items) : items[i].item = "none" => b = job.made
    /\ listener.at = "ended" => Len(listener.out) = job.made /\ job.at = "done"

\* The invariant: of the voices, for the points of the threads, and of the pieces.
SpokenInv ==
    /\ VoiceInv
    /\ queue \in [Jobs -> Seq(Items)]
    /\ heard \in [Jobs -> Listeners]
    /\ \A j \in Jobs : Follows(jobs[j], queue[j], heard[j])

\* A job that goes on without generating anything.
LEMMA GoesOnFollows ==
    ASSUME NEW old \in PocketJob, NEW new \in PocketJob, NEW items \in Seq(Items),
           NEW listener \in Listeners, Follows(old, items, listener),
           new.made = old.made, new.pending = old.pending,
           old.at \notin {"idle", "done"}, new.at # "idle"
    PROVE  Follows(new, items, listener)
<1>1. \A i \in 1 .. Len(items) : items[i].item = "chunk"
  BY DEF Follows
<1> QED
  BY <1>1 DEF Follows

\* An empty stream, of which nothing has been passed on.
LEMMA StartFollows ==
    ASSUME NEW old \in PocketJob, NEW new \in PocketJob, NEW listener \in Listeners,
           NEW items \in Seq(Items),
           Follows(old, items, listener), old.at = "idle",
           new.made = 0, new.pending = <<>>, new.at \notin {"idle", "done"},
           NEW next \in Listeners, next.out = listener.out, next.at \in {"none", "waiting"}
    PROVE  Follows(new, items, next)
<1>1. items = <<>> /\ next.out = <<>> /\ Len(<<>>) = 0
  BY EmptySeq DEF Follows
<1>2. CarriesAll(items, 0, 0)
  <2> DEFINE cut == [i \in 0 .. 0 |-> 0]
  <2>1. cut \in [0 .. Len(items) -> Nat] /\ cut[0] = 0 /\ 1 .. Len(items) = {}
    BY <1>1
  <2> QED
    BY <1>1, <2>1 DEF CarriesAll
<1>3. \A s \in {<<>>} : s = [k \in 1 .. 0 |-> k]
  OBVIOUS
<1>4. \A s \in {<<>>} : s = [k \in 1 .. 0 |-> 0 - 0 + k]
  OBVIOUS
<1> QED
  BY <1>1, <1>2, <1>3, <1>4 DEF Follows

\* A sequence of numbered pieces, as a function, and its length.
LEMMA IsFun ==
    ASSUME NEW s \in Seq(Nat), NEW c \in Nat, DOMAIN s = 1 .. c, \A k \in 1 .. c : s[k] = k
    PROVE  s = [k \in 1 .. c |-> k]
<1>1. s = [k \in DOMAIN s |-> s[k]]
  OBVIOUS
<1> QED
  BY <1>1

LEMMA LenIs ==
    ASSUME NEW s \in Seq(Nat), NEW d \in Nat, DOMAIN s = 1 .. d
    PROVE  Len(s) = d
BY LenProperties

\* The consumer passes on a chunk, or learns of the end.
LEMMA TakeFollows ==
    ASSUME NEW job \in PocketJob, NEW items \in Seq(Items), items # <<>>,
           NEW listener \in Listeners, listener.at = "waiting", Follows(job, items, listener),
           NEW next \in Listeners,
           \/ /\ Head(items).item = "none"
              /\ next.at = "ended" /\ next.out = listener.out
           \/ /\ Head(items).item = "error"
              /\ next.at = "raised" /\ next.out = listener.out
           \/ /\ Head(items).item = "chunk"
              /\ next.at = "waiting" /\ next.out = listener.out \o Head(items).pieces
    PROVE  Follows(job, Tail(items), next)
<1>1. PICK b \in Nat :
            /\ CarriesAll(items, Len(listener.out), b)
            /\ job.at # "done" => b = job.made - Len(job.pending)
            /\ \A i \in 1 .. Len(items) : items[i].item = "none" => b = job.made
  BY DEF Follows
<1>2. Len(listener.out) \in Nat /\ listener.out \in Seq(Nat)
  BY DEF Listeners
<1>3. PICK c \in Nat : /\ Carries(Head(items), Len(listener.out), c)
                       /\ CarriesAll(Tail(items), c, b)
  BY <1>1, <1>2, TailCarries
<1>4. /\ Len(items) \in Nat \ {0} /\ Len(Tail(items)) = Len(items) - 1
      /\ \A i \in 1 .. Len(items) - 1 : Tail(items)[i] = items[i + 1]
      /\ Head(items) = items[1] /\ Head(items) \in Items
      /\ Tail(items) \in Seq(Items)
  BY HeadTailProperties, EmptySeq
<1>5. \A i \in 1 .. Len(Tail(items)) : Tail(items)[i].item # "chunk" =>
            Tail(items)[i].pieces = <<>> /\ i = Len(Tail(items)) /\ job.at = "done"
  <2>1. ASSUME NEW i \in 1 .. Len(Tail(items)), Tail(items)[i].item # "chunk"
        PROVE  Tail(items)[i].pieces = <<>> /\ i = Len(Tail(items)) /\ job.at = "done"
    <3>1. i + 1 \in 1 .. Len(items) /\ Tail(items)[i] = items[i + 1]
      BY <1>4
    <3>2. items[i + 1].pieces = <<>> /\ i + 1 = Len(items) /\ job.at = "done"
      BY <2>1, <3>1 DEF Follows
    <3>3. i = Len(Tail(items))
      <4>1. Len(items) \in Nat /\ Len(Tail(items)) = Len(items) - 1
        BY <1>4
      <4>2. i \in Nat
        BY <4>1
      <4> QED
        BY <3>2, <4>1, <4>2
    <3> QED
      BY <3>1, <3>2, <3>3, Zenon
  <2> QED
    BY <2>1
<1>6. \A i \in 1 .. Len(Tail(items)) : Tail(items)[i].item = "none" => b = job.made
  BY <1>1, <1>4
<1>7. job.at # "idle"
  BY DEF Follows
<1>8. CASE Head(items).item = "chunk"
  <2>1. /\ next.at = "waiting" /\ next.out = listener.out \o Head(items).pieces
        /\ Head(items).pieces = [k \in 1 .. c - Len(listener.out) |-> Len(listener.out) + k]
        /\ Len(listener.out) <= c
    BY <1>3, <1>8 DEF Carries
  <2>2. Len(Head(items).pieces) = c - Len(listener.out)
    <3>1. DOMAIN Head(items).pieces = 1 .. c - Len(listener.out)
      BY <2>1
    <3>2. Head(items).pieces \in Seq(Nat) /\ c - Len(listener.out) \in Nat
      BY <1>2, <1>4, <2>1 DEF Items
    <3> QED
      BY <3>1, <3>2, LenIs
  <2>3. next.out = [k \in 1 .. c |-> k] /\ Len(next.out) = c
    <3> DEFINE a == Len(listener.out)
               pieces == Head(items).pieces
    <3>1. /\ listener.out \in Seq(Nat) /\ pieces \in Seq(Nat) /\ a \in Nat
          /\ Len(pieces) = c - a /\ a <= c
          /\ \A k \in 1 .. a : listener.out[k] = k
          /\ \A k \in 1 .. c - a : pieces[k] = a + k
      BY <1>2, <1>4, <2>1, <2>2 DEF Follows, Items
    <3> HIDE DEF pieces
    <3>2. /\ listener.out \o pieces \in Seq(Nat)
          /\ Len(listener.out \o pieces) = c
          /\ \A k \in 1 .. c : (listener.out \o pieces)[k] =
                IF k <= a THEN listener.out[k] ELSE pieces[k - a]
      BY <3>1, ConcatProperties
    <3>3. \A k \in 1 .. c : (listener.out \o pieces)[k] = k
      BY <3>1, <3>2
    <3>4. DOMAIN (listener.out \o pieces) = 1 .. c
      BY <3>2, LenProperties
    <3>5. listener.out \o pieces = [k \in 1 .. c |-> k]
      BY <3>2, <3>3, <3>4, IsFun
    <3> QED
      BY <2>1, <3>2, <3>5 DEF pieces
  <2> QED
    BY <1>1, <1>3, <1>5, <1>6, <1>7, <2>1, <2>3 DEF Follows
<1>9. CASE Head(items).item = "none"
  <2>1. Head(items).pieces = <<>> /\ 1 = Len(items) /\ job.at = "done" /\ b = job.made
    <3>1. 1 \in 1 .. Len(items) /\ items[1].item = "none"
      BY <1>4, <1>9
    <3> QED
      BY <1>1, <1>4, <3>1 DEF Follows
  <2>2. c = Len(listener.out)
    BY <1>2, <1>3, <2>1, EmptySeq DEF Carries
  <2>3. c = b
    <3>1. Len(Tail(items)) = 0
      BY <1>4, <2>1
    <3> QED
      BY <1>3, <3>1 DEF CarriesAll
  <2>4. next.at = "ended" /\ next.out = listener.out
    BY <1>9
  <2> QED
    BY <1>5, <1>7, <2>1, <2>2, <2>3, <2>4 DEF Follows
<1>10. CASE Head(items).item = "error"
  <2>1. next.at = "raised" /\ next.out = listener.out
    BY <1>10
  <2> QED
    BY <1>5, <1>7, <2>1 DEF Follows
<1> QED
  BY <1>8, <1>9, <1>10

\* One more piece is pending.
LEMMA OnePieceMore ==
    ASSUME NEW s \in Seq(Nat), NEW n \in Nat, Len(s) <= n,
           s = [k \in 1 .. Len(s) |-> n - Len(s) + k]
    PROVE  /\ Append(s, n + 1) \in Seq(Nat) /\ Len(Append(s, n + 1)) = Len(s) + 1
           /\ Append(s, n + 1) = [k \in 1 .. Len(s) + 1 |-> n - Len(s) + k]
<1>1. /\ Append(s, n + 1) \in Seq(Nat) /\ Len(Append(s, n + 1)) = Len(s) + 1
      /\ \A k \in 1 .. Len(s) : Append(s, n + 1)[k] = s[k]
      /\ Append(s, n + 1)[Len(s) + 1] = n + 1 /\ Len(s) \in Nat
  BY AppendProperties, LenProperties
<1>2. DOMAIN Append(s, n + 1) = 1 .. Len(s) + 1
  BY <1>1, LenProperties
<1>3. \A k \in 1 .. Len(s) + 1 : Append(s, n + 1)[k] = n - Len(s) + k
  BY <1>1
<1>4. Append(s, n + 1) = [k \in DOMAIN Append(s, n + 1) |-> Append(s, n + 1)[k]]
  BY <1>1
<1> QED
  BY <1>1, <1>2, <1>3, <1>4

\* A thread that generates puts the chunk in the queue, or waits for more.
LEMMA PieceFollows ==
    ASSUME NEW old \in PocketJob, NEW new \in PocketJob, NEW items \in Seq(Items),
           NEW listener \in Listeners, Follows(old, items, listener),
           old.at = "generating", new.at = "generating", new.made = old.made + 1,
           NEW all, all = Append(old.pending, old.made + 1), NEW next \in Seq(Items),
           \/ next = items /\ new.pending = all
           \/ next = Append(items, PO!Chunk(all)) /\ new.pending = <<>>
    PROVE  Follows(new, next, listener)
<1>0. old.pending \in Seq(Nat) /\ old.made \in Nat /\ Len(old.pending) \in Nat
  BY DEF PocketJob
<1>1. /\ all \in Seq(Nat) /\ Len(all) = Len(old.pending) + 1
      /\ all = [k \in 1 .. Len(old.pending) + 1 |-> old.made - Len(old.pending) + k]
  BY <1>0, OnePieceMore DEF Follows
<1>2. \A i \in 1 .. Len(items) : items[i].item = "chunk"
  BY DEF Follows
<1>3. CASE next = items /\ new.pending = all
  <2>1. new.made - Len(new.pending) = old.made - Len(old.pending) /\ Len(new.pending) <= new.made
    BY <1>0, <1>1, <1>3 DEF Follows
  <2>2. new.pending = [k \in 1 .. Len(new.pending) |-> new.made - Len(new.pending) + k]
    BY <1>1, <1>3, <2>1
  <2> QED
    BY <1>2, <1>3, <2>1, <2>2 DEF Follows
<1>4. CASE next = Append(items, PO!Chunk(all)) /\ new.pending = <<>>
  <2>1. PO!Chunk(all) \in Items /\ PO!Chunk(all).item = "chunk" /\ PO!Chunk(all).pieces = all
    BY <1>1 DEF PO!Chunk, Items
  <2>2. /\ Len(next) = Len(items) + 1 /\ Len(items) \in Nat
        /\ \A i \in 1 .. Len(items) : next[i] = items[i]
        /\ next[Len(items) + 1] = PO!Chunk(all)
    BY <1>4, <2>1, AppendProperties, LenProperties
  <2>3. \A i \in 1 .. Len(next) : next[i].item = "chunk"
    BY <1>2, <2>1, <2>2
  <2>4. Len(new.pending) = 0 /\ new.pending = [k \in 1 .. 0 |-> new.made - 0 + k]
    BY <1>4, EmptySeq
  <2>5. ASSUME listener.at = "waiting"
        PROVE  CarriesAll(next, Len(listener.out), new.made)
    <3>1. /\ Len(listener.out) \in Nat /\ old.made - Len(old.pending) \in Nat
          /\ new.made \in Nat
      BY <1>0, LenProperties DEF Listeners, Follows
    <3>2. CarriesAll(items, Len(listener.out), old.made - Len(old.pending))
      BY <2>5 DEF Follows
    <3>3. Carries(PO!Chunk(all), old.made - Len(old.pending), new.made)
      <4>1. new.made - (old.made - Len(old.pending)) = Len(old.pending) + 1
        BY <1>0
      <4>2. old.made - Len(old.pending) <= new.made
        BY <1>0
      <4> QED
        BY <1>1, <2>1, <4>1, <4>2 DEF Carries
    <3> QED
      BY <1>4, <2>1, <3>1, <3>2, <3>3, AppendCarries
  <2>6. new.made \in Nat /\ new.made - 0 = new.made /\ 0 <= new.made
    BY <1>0
  <2> QED
    BY <2>3, <2>4, <2>5, <2>6 DEF Follows
<1> QED
  BY <1>3, <1>4

\* A stream ends with an error, or, when all that was made is in the queue, with
\* nothing.
LEMMA EndFollows ==
    ASSUME NEW old \in PocketJob, NEW new \in PocketJob, NEW items \in Seq(Items),
           NEW listener \in Listeners, old.at \notin {"idle", "done"}, listener.at # "ended",
           Follows(old, items, listener),
           new.at = "done", new.made = old.made, new.pending = old.pending,
           NEW b \in Nat, NEW all \in Seq(Items), \A i \in 1 .. Len(all) : all[i].item = "chunk",
           listener.at = "waiting" => CarriesAll(all, Len(listener.out), b),
           NEW end \in {"none", "error"}, end = "none" => b = old.made
    PROVE  Follows(new, Append(all, PO!Ends(end)), listener)
<1> DEFINE next == Append(all, PO!Ends(end))
<1>1. PO!Ends(end) \in Items /\ PO!Ends(end).item = end /\ PO!Ends(end).pieces = <<>>
  BY EmptySeq DEF PO!Ends, Items
<1>2. /\ Len(next) = Len(all) + 1 /\ Len(all) \in Nat
      /\ \A i \in 1 .. Len(all) : next[i] = all[i]
      /\ next[Len(all) + 1] = PO!Ends(end)
  BY <1>1, AppendProperties, LenProperties
<1>3. Carries(PO!Ends(end), b, b)
  <2>1. b - b = 0 /\ b <= b
    OBVIOUS
  <2>2. <<>> = [k \in 1 .. 0 |-> b + k]
    OBVIOUS
  <2> QED
    BY <1>1, <2>1, <2>2 DEF Carries
<1>4. listener.at = "waiting" => CarriesAll(next, Len(listener.out), b)
  <2>1. Len(listener.out) \in Nat
    BY LenProperties DEF Listeners
  <2> QED
    BY <1>1, <1>3, <2>1, AppendCarries
<1>5. \A i \in 1 .. Len(next) : \/ next[i].item = "chunk"
                                \/ i = Len(next) /\ next[i] = PO!Ends(end)
  BY <1>2
<1> HIDE DEF next
<1>6. \A i \in 1 .. Len(next) : next[i].item = "none" => b = new.made
  BY <1>1, <1>5
<1>7. Follows(new, next, listener)
  BY <1>1, <1>4, <1>5, <1>6 DEF Follows
<1> QED
  BY <1>7 DEF next

LEMMA SpokenInitInv ==
    ASSUME PO!Init
    PROVE  SpokenInv
<1>1. VoiceInv
  BY VoiceInitInv
<1>2. \A j \in Jobs : /\ jobs[j] = PO!NoJob /\ queue[j] = <<>>
                      /\ heard[j] = [at |-> "none", out |-> <<>>]
  BY DEF PO!Init
<1>3. queue \in [Jobs -> Seq(Items)] /\ heard \in [Jobs -> Listeners]
  BY EmptySeq DEF PO!Init, Listeners
<1>4. ASSUME NEW j \in Jobs
      PROVE  Follows(jobs[j], queue[j], heard[j])
  <2>1. /\ jobs[j].pending = <<>> /\ jobs[j].made = 0 /\ Len(<<>>) = 0
        /\ heard[j].out = <<>> /\ heard[j].at = "none" /\ queue[j] = <<>>
    BY <1>2, EmptySeq DEF PO!NoJob
  <2>2. \A s \in {<<>>} : s = [k \in 1 .. 0 |-> k] /\ s = [k \in 1 .. 0 |-> 0 - 0 + k]
    OBVIOUS
  <2> QED
    BY <2>1, <2>2 DEF Follows
<1> QED
  BY <1>1, <1>3, <1>4 DEF SpokenInv

\* Only what belongs to job j changes.
LEMMA OneFollows ==
    ASSUME SpokenInv, VoiceInv', NEW j \in Jobs,
           \A k \in Jobs \ {j} : jobs'[k] = jobs[k],
           NEW items \in Seq(Items),
           queue' = [queue EXCEPT ![j] = items] \/ (queue' = queue /\ items = queue[j]),
           NEW listener \in Listeners,
           heard' = [heard EXCEPT ![j] = listener] \/ (heard' = heard /\ listener = heard[j]),
           Follows(jobs'[j], items, listener)
    PROVE  SpokenInv'
<1>1. /\ queue' \in [Jobs -> Seq(Items)] /\ heard' \in [Jobs -> Listeners]
      /\ queue'[j] = items /\ heard'[j] = listener
      /\ \A k \in Jobs \ {j} : queue'[k] = queue[k] /\ heard'[k] = heard[k]
  BY DEF SpokenInv
<1>2. \A k \in Jobs \ {j} : Follows(jobs'[k], queue'[k], heard'[k])
  BY <1>1 DEF SpokenInv
<1> QED
  BY <1>1, <1>2 DEF SpokenInv

LEMMA SpokenNextInv ==
    ASSUME SpokenInv, [PO!Next]_(PO!pocketVars)
    PROVE  SpokenInv'
<1>0. /\ VoiceInv' /\ jobs \in [Jobs -> PocketJob] /\ jobs' \in [Jobs -> PocketJob]
      /\ \A j \in Jobs : /\ jobs[j] \in PocketJob /\ jobs'[j] \in PocketJob
                         /\ queue[j] \in Seq(Items) /\ heard[j] \in Listeners
                         /\ Follows(jobs[j], queue[j], heard[j])
                         /\ jobs[j].at \in {"ready", "failing", "generating"} =>
                                jobs[j].kind = "stream"
  BY VoiceNextInv DEF SpokenInv, VoiceInv, PocketThreads
<1>1. CASE UNCHANGED <<jobs, queue, heard>>
  BY <1>0, <1>1 DEF SpokenInv
<1>2. ASSUME NEW j \in Jobs, NEW kind \in {"stream", "load", "unload"}, PO!Start(j, kind)
      PROVE  SpokenInv'
  <2> DEFINE next == IF kind = "stream" THEN [heard[j] EXCEPT !.at = "waiting"] ELSE heard[j]
  <2>1. /\ jobs[j].at = "idle" /\ queue' = queue
        /\ heard' = IF kind = "stream" THEN [heard EXCEPT ![j].at = "waiting"] ELSE heard
    BY <1>2 DEF PO!Start
  <2>2. /\ \A k \in Jobs \ {j} : jobs'[k] = jobs[k]
        /\ jobs'[j] = [PO!NoJob EXCEPT !.kind = kind,
                          !.at = IF kind = "load" THEN "ensure" ELSE "lock"]
    BY <1>0, <1>2 DEF PO!Start
  <2>3. jobs'[j].made = 0 /\ jobs'[j].pending = <<>> /\ jobs'[j].at \notin {"idle", "done"}
    BY <2>2 DEF PO!NoJob
  <2>4. heard[j].at = "none"
    BY <1>0, <2>1 DEF Follows
  <2>5. /\ next \in Listeners /\ next.out = heard[j].out /\ next.at \in {"none", "waiting"}
        /\ heard' = [heard EXCEPT ![j] = next] \/ (heard' = heard /\ next = heard[j])
    BY <1>0, <2>1, <2>4 DEF Listeners
  <2> HIDE DEF next
  <2>6. Follows(jobs'[j], queue[j], next)
    BY <1>0, <2>1, <2>3, <2>5, StartFollows
  <2> QED
    BY <1>0, <2>1, <2>2, <2>5, <2>6, OneFollows
<1>3. ASSUME NEW j \in Jobs, PO!Take(j)
      PROVE  SpokenInv'
  <2> DEFINE item == Head(queue[j])
  <2>1. /\ heard[j].at = "waiting" /\ queue[j] # <<>> /\ jobs' = jobs
        /\ queue' = [queue EXCEPT ![j] = Tail(queue[j])]
    BY <1>3 DEF PO!Take
  <2>2. item \in Items /\ Tail(queue[j]) \in Seq(Items)
    BY <1>0, <2>1, HeadTailProperties
  <2>3. heard[j].out \o item.pieces \in Seq(Nat)
    BY <1>0, <2>2, ConcatProperties DEF Listeners, Items
  <2>4. ASSUME NEW next \in Listeners, heard' = [heard EXCEPT ![j] = next],
               \/ item.item = "none" /\ next.at = "ended" /\ next.out = heard[j].out
               \/ item.item = "error" /\ next.at = "raised" /\ next.out = heard[j].out
               \/ /\ item.item = "chunk" /\ next.at = "waiting"
                  /\ next.out = heard[j].out \o item.pieces
        PROVE  SpokenInv'
    <3>1. Follows(jobs[j], Tail(queue[j]), next)
      BY <1>0, <2>1, <2>4, TakeFollows
    <3> QED
      BY <1>0, <2>1, <2>2, <2>4, <3>1, OneFollows
  <2>5. CASE item.item = "none"
    <3> DEFINE next == [heard[j] EXCEPT !.at = "ended"]
    <3>1. next \in Listeners /\ next.at = "ended" /\ next.out = heard[j].out
      BY <1>0 DEF Listeners
    <3>2. heard' = [heard EXCEPT ![j] = next]
      BY <1>3, <2>5 DEF PO!Take
    <3> HIDE DEF next
    <3> QED
      BY <2>4, <2>5, <3>1, <3>2
  <2>6. CASE item.item = "error"
    <3> DEFINE next == [heard[j] EXCEPT !.at = "raised"]
    <3>1. next \in Listeners /\ next.at = "raised" /\ next.out = heard[j].out
      BY <1>0 DEF Listeners
    <3>2. heard' = [heard EXCEPT ![j] = next]
      BY <1>3, <2>6 DEF PO!Take
    <3> HIDE DEF next
    <3> QED
      BY <2>4, <2>6, <3>1, <3>2
  <2>7. CASE item.item = "chunk"
    <3> DEFINE next == [heard[j] EXCEPT !.out = heard[j].out \o item.pieces]
    <3>1. /\ next \in Listeners /\ next.at = "waiting"
          /\ next.out = heard[j].out \o item.pieces
      BY <1>0, <2>1, <2>3 DEF Listeners
    <3>2. heard' = [heard EXCEPT ![j] = next]
      <4>1. heard' = [heard EXCEPT ![j] =
                         CASE item.item = "none" -> [heard[j] EXCEPT !.at = "ended"]
                           [] item.item = "error" -> [heard[j] EXCEPT !.at = "raised"]
                           [] OTHER -> [heard[j] EXCEPT !.out = heard[j].out \o item.pieces]]
        BY <1>3, Zenon DEF PO!Take
      <4> HIDE DEF item
      <4>2. item.item # "none" /\ item.item # "error"
        BY <2>7
      <4> QED
        BY <4>1, <4>2
    <3> HIDE DEF next
    <3> QED
      BY <2>4, <2>7, <3>1, <3>2
  <2> QED
    BY <2>2, <2>5, <2>6, <2>7 DEF Items
<1>4. ASSUME NEW j \in Jobs, PO!Cancel(j)
      PROVE  SpokenInv'
  <2> DEFINE next == [heard[j] EXCEPT !.at = "cancelled"]
  <2>1. /\ heard[j].at = "waiting" /\ UNCHANGED <<jobs, queue>>
        /\ heard' = [heard EXCEPT ![j] = next]
    BY <1>4 DEF PO!Cancel
  <2>2. next \in Listeners /\ next.at = "cancelled" /\ next.out = heard[j].out
    BY <1>0 DEF Listeners
  <2> HIDE DEF next
  <2>3. Follows(jobs[j], queue[j], next)
    <3>1. jobs[j].at # "idle"
      BY <1>0, <2>1 DEF Follows
    <3> QED
      BY <1>0, <2>2, <3>1 DEF Follows
  <2> QED
    BY <1>0, <2>1, <2>2, <2>3, OneFollows
<1>5. ASSUME NEW j \in Jobs,
             \/ PO!TakeLock(j) \/ PO!EnsureModel(j) \/ PO!ModelLoaded(j) \/ PO!StateLoaded(j)
             \/ PO!Generate(j)
      PROVE  SpokenInv'
  <2>1. /\ \A k \in Jobs \ {j} : jobs'[k] = jobs[k]
        /\ jobs'[j].made = jobs[j].made /\ jobs'[j].pending = jobs[j].pending
        /\ jobs[j].at \notin {"idle", "done"} /\ jobs'[j].at # "idle"
    BY <1>0, <1>5 DEF PO!TakeLock, PO!EnsureModel, PO!ModelLoaded, PO!StateLoaded, PO!Generate,
                      PO!Goto, PO!Ensured,
                      PocketJob
  <2>2. UNCHANGED <<queue, heard>>
    BY <1>5 DEF PO!TakeLock, PO!EnsureModel, PO!ModelLoaded, PO!StateLoaded, PO!Generate,
                PO!onLoop
  <2>3. Follows(jobs'[j], queue[j], heard[j])
    BY <1>0, <2>1, GoesOnFollows
  <2> QED
    BY <1>0, <2>1, <2>2, <2>3, OneFollows
<1>6. ASSUME NEW j \in Jobs, PO!GeneratePiece(j)
      PROVE  SpokenInv'
  <2> DEFINE all == Append(jobs[j].pending, jobs[j].made + 1)
  <2>1. /\ jobs[j].at = "generating" /\ heard' = heard
        /\ \/ queue' = queue
              /\ jobs' = [jobs EXCEPT ![j].made = jobs[j].made + 1, ![j].pending = all]
           \/ queue' = [queue EXCEPT ![j] = queue[j] \o <<PO!Chunk(all)>>]
              /\ jobs' = [jobs EXCEPT ![j].made = jobs[j].made + 1, ![j].pending = <<>>]
    BY <1>6 DEF PO!GeneratePiece, PO!Put
  <2>2. all \in Seq(Nat)
    BY <1>0, AppendProperties DEF PocketJob
  <2>3. PO!Chunk(all) \in Items
    BY <2>2 DEF PO!Chunk, Items
  <2>4. /\ queue[j] \o <<PO!Chunk(all)>> = Append(queue[j], PO!Chunk(all))
        /\ Append(queue[j], PO!Chunk(all)) \in Seq(Items)
    BY <1>0, <2>3, AppendProperties, AppendIsConcat
  <2> HIDE DEF all
  <2>5. /\ \A k \in Jobs \ {j} : jobs'[k] = jobs[k]
        /\ jobs'[j].made = jobs[j].made + 1 /\ jobs'[j].at = "generating"
    BY <1>0, <2>1 DEF PocketJob
  <2>6. CASE /\ queue' = queue
             /\ jobs' = [jobs EXCEPT ![j].made = jobs[j].made + 1, ![j].pending = all]
    <3>1. jobs'[j].pending = all
      BY <1>0, <2>6 DEF PocketJob
    <3>2. Follows(jobs'[j], queue[j], heard[j])
      BY <1>0, <2>1, <2>5, <3>1, PieceFollows DEF all
    <3> QED
      BY <1>0, <2>1, <2>5, <2>6, <3>2, OneFollows
  <2>7. CASE /\ queue' = [queue EXCEPT ![j] = queue[j] \o <<PO!Chunk(all)>>]
             /\ jobs' = [jobs EXCEPT ![j].made = jobs[j].made + 1, ![j].pending = <<>>]
    <3>1. jobs'[j].pending = <<>>
      BY <1>0, <2>7 DEF PocketJob
    <3>2. Follows(jobs'[j], Append(queue[j], PO!Chunk(all)), heard[j])
      BY <1>0, <2>1, <2>4, <2>5, <3>1, PieceFollows DEF all
    <3> QED
      BY <1>0, <2>1, <2>4, <2>5, <2>7, <3>2, OneFollows
  <2> QED
    BY <2>1, <2>6, <2>7
<1>7. ASSUME NEW j \in Jobs, NEW end \in {"none", "error"}, NEW b \in Nat,
             NEW all \in Seq(Items), \A i \in 1 .. Len(all) : all[i].item = "chunk",
             heard[j].at = "waiting" => CarriesAll(all, Len(heard[j].out), b),
             end = "none" => b = jobs[j].made,
             queue' = [queue EXCEPT ![j] = Append(all, PO!Ends(end))],
             jobs' = [jobs EXCEPT ![j].at = "done"], heard' = heard,
             jobs[j].at \notin {"idle", "done"}
      PROVE  SpokenInv'
  <2>1. /\ \A k \in Jobs \ {j} : jobs'[k] = jobs[k]
        /\ jobs'[j].at = "done" /\ jobs'[j].made = jobs[j].made
        /\ jobs'[j].pending = jobs[j].pending
    BY <1>0, <1>7 DEF PocketJob
  <2>2. heard[j].at # "ended"
    BY <1>0, <1>7 DEF Follows
  <2>3. Append(all, PO!Ends(end)) \in Seq(Items)
    BY EmptySeq, AppendProperties DEF PO!Ends, Items
  <2>4. Follows(jobs'[j], Append(all, PO!Ends(end)), heard[j])
    BY <1>0, <1>7, <2>1, <2>2, EndFollows
  <2> QED
    BY <1>0, <1>7, <2>1, <2>3, <2>4, OneFollows
<1>8. ASSUME NEW j \in Jobs, jobs[j].at \notin {"idle", "done"}
      PROVE  /\ \A i \in 1 .. Len(queue[j]) : queue[j][i].item = "chunk"
             /\ jobs[j].made - Len(jobs[j].pending) \in Nat
             /\ heard[j].at = "waiting" =>
                    CarriesAll(queue[j], Len(heard[j].out), jobs[j].made - Len(jobs[j].pending))
  <2>1. /\ Follows(jobs[j], queue[j], heard[j])
        /\ jobs[j].made \in Nat /\ Len(jobs[j].pending) \in Nat
    BY <1>0, LenProperties DEF PocketJob
  <2>2. Len(jobs[j].pending) <= jobs[j].made
    BY <2>1 DEF Follows
  <2> QED
    BY <1>8, <2>1, <2>2 DEF Follows
<1>9. \A end \in {"none", "error"} : PO!Ends(end) \in Items
  BY EmptySeq DEF PO!Ends, Items
<1>10. ASSUME NEW j \in Jobs, PO!Generated(j)
       PROVE  SpokenInv'
  <2>1. /\ jobs[j].at = "generating" /\ heard' = heard
        /\ jobs' = [jobs EXCEPT ![j].at = "done"]
        /\ queue' = [queue EXCEPT ![j] =
                        queue[j] \o (PO!Rest(jobs[j].pending) \o <<PO!Ends("none")>>)]
    BY <1>10 DEF PO!Generated, PO!Put, PO!Goto
  <2>2. jobs[j].pending \in Seq(Nat) /\ jobs[j].made \in Nat /\ Len(jobs[j].pending) \in Nat
    BY <1>0 DEF PocketJob
  <2>3. CASE jobs[j].pending = <<>>
    <3>1. queue[j] \o (<<>> \o <<PO!Ends("none")>>) = Append(queue[j], PO!Ends("none"))
      BY <1>0, <1>9, AppendIsConcat
    <3>2. jobs[j].made - Len(jobs[j].pending) = jobs[j].made
      BY <2>2, <2>3, EmptySeq
    <3> QED
      BY <1>0, <1>7, <1>8, <2>1, <2>2, <2>3, <3>1, <3>2 DEF PO!Rest
  <2>4. CASE jobs[j].pending # <<>>
    <3> DEFINE chunk == PO!Chunk(jobs[j].pending)
               all == Append(queue[j], chunk)
    <3>1. chunk \in Items /\ chunk.item = "chunk" /\ chunk.pieces = jobs[j].pending
      BY <2>2 DEF PO!Chunk, Items
    <3>2. queue[j] \o (<<chunk>> \o <<PO!Ends("none")>>) = Append(all, PO!Ends("none"))
      BY <1>0, <1>9, <3>1
    <3>3. /\ all \in Seq(Items) /\ Len(all) = Len(queue[j]) + 1 /\ Len(queue[j]) \in Nat
          /\ \A i \in 1 .. Len(queue[j]) : all[i] = queue[j][i]
          /\ all[Len(queue[j]) + 1] = chunk
      BY <1>0, <3>1, AppendProperties, LenProperties
    <3>4. \A i \in 1 .. Len(all) : all[i].item = "chunk"
      BY <1>8, <2>1, <3>1, <3>3
    <3>5. Carries(chunk, jobs[j].made - Len(jobs[j].pending), jobs[j].made)
      <4>1. /\ jobs[j].made - (jobs[j].made - Len(jobs[j].pending)) = Len(jobs[j].pending)
            /\ jobs[j].made - Len(jobs[j].pending) <= jobs[j].made
        BY <2>2
      <4> QED
        BY <1>0, <3>1, <4>1 DEF Carries, Follows
    <3>6. heard[j].at = "waiting" => CarriesAll(all, Len(heard[j].out), jobs[j].made)
      <4>1. Len(heard[j].out) \in Nat
        BY <1>0, LenProperties DEF Listeners
      <4> QED
        BY <1>0, <1>8, <2>1, <2>2, <3>1, <3>5, <4>1, AppendCarries
    <3>7. queue' = [queue EXCEPT ![j] = Append(all, PO!Ends("none"))]
      BY <2>1, <2>4, <3>2 DEF PO!Rest
    <3> HIDE DEF all
    <3> QED
      BY <1>7, <2>1, <2>2, <3>3, <3>4, <3>6, <3>7
  <2> QED
    BY <2>3, <2>4
<1>11. ASSUME NEW j \in Jobs, PO!Raises(j)
       PROVE  SpokenInv'
  <2>1. /\ jobs[j].at \notin {"idle", "done"} /\ heard' = heard
        /\ jobs' = [jobs EXCEPT ![j].at = "done"]
        /\ \/ queue' = queue
           \/ queue' = [queue EXCEPT ![j] = queue[j] \o <<PO!Ends("error")>>]
    BY <1>11 DEF PO!Raises, PO!Put, PO!Goto
  <2>2. CASE queue' = queue
    <3>1. /\ \A k \in Jobs \ {j} : jobs'[k] = jobs[k]
          /\ jobs'[j].at = "done" /\ jobs'[j].made = jobs[j].made
          /\ jobs'[j].pending = jobs[j].pending
      BY <1>0, <2>1 DEF PocketJob
    <3>2. Follows(jobs'[j], queue[j], heard[j])
      BY <1>0, <2>1, <3>1, GoesOnFollows
    <3> QED
      BY <1>0, <2>1, <2>2, <3>1, <3>2, OneFollows
  <2>3. CASE queue' = [queue EXCEPT ![j] = queue[j] \o <<PO!Ends("error")>>]
    <3>1. queue[j] \o <<PO!Ends("error")>> = Append(queue[j], PO!Ends("error"))
      BY <1>0, <1>9, AppendIsConcat
    <3> QED
      BY <1>0, <1>7, <1>8, <2>1, <2>3, <3>1
  <2> QED
    BY <2>1, <2>2, <2>3
<1> QED
  BY <1>1, <1>2, <1>3, <1>4, <1>5, <1>6, <1>10, <1>11
     DEF PO!Next, PO!ThreadStep, PO!Change, PO!Changed, PO!pocketVars

\* A consumer of Pocket TTS and of Kokoro ONNX passes on each piece of audio
\* once and in order, and all of them if the stream ends without an error,
\* whatever is cancelled, unloaded or raised at the same time.
THEOREM SpokenStaysWhole == Spec => []SpokenWhole
<1>1. PO!Init => SpokenInv
  BY SpokenInitInv
<1>2. SpokenInv /\ [PO!Next]_(PO!pocketVars) => SpokenInv'
  BY SpokenNextInv
<1>3. SpokenInv => PO!SpokenWhole
  BY DEF SpokenInv, Follows, Listeners, PO!SpokenWhole
<1>4. PO!SpokenWhole /\ KO!SpokenWhole => SpokenWhole
  BY DEF SpokenWhole
<1> QED
  BY <1>1, <1>2, <1>3, <1>4, KO!StreamsAreWhole, PocketIsOne, KokoroIsOne, PTL DEF PO!Spec

-----------------------------------------------------------------------------
(***************************************************************************)
(* The audio formats. A sample is told from its two bytes, since division  *)
(* with a rest is unique, and what a provider made is converted sample by  *)
(* sample.                                                                 *)
(***************************************************************************)

\* Division with a rest is unique.
LEMMA Division ==
    ASSUME NEW d \in Nat \ {0}, NEW q \in Int, NEW r \in 0 .. d - 1
    PROVE  (q * d + r) % d = r /\ (q * d + r) \div d = q
<1> DEFINE n == q * d + r
<1>0. n \in Int
  OBVIOUS
<1> HIDE DEF n
<1>1. n = d * (n \div d) + (n % d) /\ n % d \in 0 .. d - 1 /\ n \div d \in Int
  BY <1>0
<1>2. d * (q - (n \div d)) = (n % d) - r
  <2>1. d * (q - (n \div d)) = d * q - d * (n \div d)
    BY <1>1
  <2>2. d * q = q * d
    OBVIOUS
  <2> QED
    BY <1>1, <2>1, <2>2 DEF n
<1> DEFINE k == q - (n \div d)
<1>a. k \in Int
  BY <1>1
<1>b. d * k = (n % d) - r
  BY <1>2
<1> HIDE DEF k
<1>3. CASE k >= 1
  <2>1. d * k >= d
    BY <1>3, <1>a
  <2> QED
    BY <1>1, <1>b, <2>1
<1>4. CASE k <= -1
  <2>1. d * k <= -d
    BY <1>4, <1>a
  <2> QED
    BY <1>1, <1>b, <2>1
<1>5. CASE q = n \div d
  BY <1>1, <1>2, <1>5 DEF n
<1> QED
  BY <1>1, <1>3, <1>4, <1>5, <1>a DEF n, k

LEMMA Rest ==
    ASSUME NEW d \in Nat \ {0}, NEW r \in 0 .. d - 1
    PROVE  r % d = r /\ (r + d) % d = r /\ (r - d) % d = r
<1>1. (0 * d + r) % d = r /\ 0 * d + r = r
  BY Division
<1>2. (1 * d + r) % d = r /\ 1 * d + r = r + d
  BY Division
<1>3. ((-1) * d + r) % d = r /\ (-1) * d + r = r - d
  BY Division
<1> QED
  BY <1>1, <1>2, <1>3

LEMMA Scales ==
    /\ Byte \in Nat /\ Byte >= 2
    /\ AW!FullScale \in Nat /\ AW!FullScale >= 2 /\ Byte * Byte = 2 * AW!FullScale
<1>1. PICK n \in Nat \ {0} : Byte = 2 * n
  <2>1. Byte \div 2 \in Nat \ {0} /\ Byte = 2 * (Byte \div 2)
    BY WireSizes
  <2> QED
    BY <2>1
<1>2. n * n \in Nat /\ n * n >= 1
  BY <1>1
<1>3. Byte * Byte = (2 * (n * n)) * 2
  BY <1>1
<1>4. (Byte * Byte) \div 2 = 2 * (n * n)
  <2> DEFINE m == 2 * (n * n)
  <2>1. m \in Nat
    BY <1>2
  <2> HIDE DEF m
  <2>2. (m * 2 + 0) \div 2 = m
    BY <2>1, Division
  <2>3. m * 2 + 0 = m * 2
    BY <2>1
  <2> QED
    BY <1>3, <2>2, <2>3 DEF m
<1> QED
  BY <1>1, <1>2, <1>3, <1>4 DEF AW!FullScale

\* A sample can be told from its two bytes.
LEMMA TwoBytes ==
    ASSUME NEW s \in AW!Samples
    PROVE  LET u == s % (Byte * Byte) IN AW!Signed((u % Byte) + Byte * (u \div Byte)) = s
<1> DEFINE W == Byte * Byte  u == s % W
<1>1. W \in Nat \ {0} /\ W = 2 * AW!FullScale /\ AW!FullScale \in Nat /\ s \in Int
      /\ -AW!FullScale <= s /\ s <= AW!FullScale - 1
  BY Scales DEF AW!Samples
<1>2. u \in 0 .. W - 1
  BY <1>1
<1> HIDE DEF W, u
<1>3. (u % Byte) + Byte * (u \div Byte) = u
  BY <1>1, <1>2, Scales
<1>4. (u + AW!FullScale) % W = s + AW!FullScale
  <2>1. s + AW!FullScale \in 0 .. W - 1
    BY <1>1
  <2>2. CASE s >= 0
    <3>1. u = s
      BY <1>1, <2>2, Rest DEF u
    <3> QED
      BY <1>1, <2>1, <3>1, Rest
  <2>3. CASE s < 0
    <3>1. s + W \in 0 .. W - 1 /\ (s + W) - W = s
      BY <1>1, <2>3
    <3>2. u = s + W
      BY <1>1, <3>1, Rest DEF u
    <3>3. u + AW!FullScale = (s + AW!FullScale) + W
      BY <1>1, <3>2
    <3> QED
      BY <1>1, <2>1, <3>3, Rest
  <2> QED
    BY <1>1, <2>2, <2>3
<1> QED
  BY <1>1, <1>3, <1>4 DEF AW!Signed, AW!Int16, W, u

\* Samples survive as bytes.
LEMMA BytesKeep ==
    ASSUME NEW x \in Seq(AW!Samples)
    PROVE  /\ AW!Bytes(x) \in Seq(Int) /\ Len(AW!Bytes(x)) = 2 * Len(x)
           /\ Len(AW!SamplesOf(AW!Bytes(x))) = Len(x)
           /\ DOMAIN AW!SamplesOf(AW!Bytes(x)) = 1 .. Len(x)
           /\ \A i \in 1 .. Len(x) : AW!SamplesOf(AW!Bytes(x))[i] = x[i]
<1>0. /\ Len(x) \in Nat /\ \A i \in 1 .. Len(x) : x[i] \in AW!Samples
      /\ Byte \in Nat \ {0} /\ Byte * Byte \in Nat \ {0}
      /\ \A n \in AW!Samples : n \in Int
  BY Scales DEF AW!Samples
<1> DEFINE low(i) == (x[i] % (Byte * Byte)) % Byte
           high(i) == (x[i] % (Byte * Byte)) \div Byte
<1>1. \A i \in 1 .. Len(x) : low(i) \in Int /\ high(i) \in Int
  <2> SUFFICES ASSUME NEW i \in 1 .. Len(x)
               PROVE  low(i) \in Int /\ high(i) \in Int
    OBVIOUS
  <2>1. x[i] % (Byte * Byte) \in Int
    BY <1>0
  <2> QED
    BY <1>0, <2>1
<1>2. \A k \in 1 .. 2 * Len(x) : (k + 1) \div 2 \in 1 .. Len(x)
  BY <1>0
<1>3. AW!Bytes(x) = [k \in 1 .. 2 * Len(x) |->
                    IF k % 2 = 1 THEN low((k + 1) \div 2) ELSE high((k + 1) \div 2)]
  BY DEF AW!Bytes
<1>4. \A i \in 1 .. Len(x) : AW!Signed(low(i) + Byte * high(i)) = x[i]
  BY <1>0, TwoBytes
<1> HIDE DEF low, high
<1>5. AW!Bytes(x) \in Seq(Int) /\ Len(AW!Bytes(x)) = 2 * Len(x)
  <2>1. \A k \in 1 .. 2 * Len(x) : AW!Bytes(x)[k] \in Int
    BY <1>1, <1>2, <1>3
  <2>2. AW!Bytes(x) \in [1 .. 2 * Len(x) -> Int]
    BY <1>3, <2>1
  <2> QED
    BY <1>0, <1>3, <2>2
<1>6. AW!SamplesOf(AW!Bytes(x)) =
        [i \in 1 .. Len(x) |-> AW!Signed(AW!Bytes(x)[2 * i - 1] + Byte * AW!Bytes(x)[2 * i])]
  <2>1. Len(AW!Bytes(x)) \div 2 = Len(x)
    BY <1>0, <1>5
  <2> QED
    BY <2>1 DEF AW!SamplesOf
<1>7. \A i \in 1 .. Len(x) : AW!Bytes(x)[2 * i - 1] = low(i) /\ AW!Bytes(x)[2 * i] = high(i)
  <2> SUFFICES ASSUME NEW i \in 1 .. Len(x)
               PROVE  AW!Bytes(x)[2 * i - 1] = low(i) /\ AW!Bytes(x)[2 * i] = high(i)
    OBVIOUS
  <2>1. /\ 2 * i - 1 \in 1 .. 2 * Len(x) /\ 2 * i \in 1 .. 2 * Len(x)
        /\ (2 * i - 1) % 2 = 1 /\ (2 * i) % 2 # 1
        /\ ((2 * i - 1) + 1) \div 2 = i /\ (2 * i + 1) \div 2 = i
    BY <1>0
  <2> QED
    BY <1>3, <2>1
<1>8. \A i \in 1 .. Len(x) : AW!SamplesOf(AW!Bytes(x))[i] = x[i]
  BY <1>4, <1>6, <1>7
<1>9. Len(AW!SamplesOf(AW!Bytes(x))) = Len(x) /\ DOMAIN AW!SamplesOf(AW!Bytes(x)) = 1 .. Len(x)
  BY <1>0, <1>6
<1> QED
  BY <1>5, <1>8, <1>9

\* What becomes of a float, clipped to the full scale or not.
Converted(n) == IF AW!Clip(n) <= 0 THEN AW!Clip(n) ELSE AW!Clip(n) - 1

LEMMA FloatKept ==
    ASSUME NEW n \in Int
    PROVE  AW!Int16(AW!Scale(AW!Clip(n))) = Converted(n) /\ Converted(n) \in AW!Samples
<1> DEFINE c == AW!Clip(n)
<1>1. c \in -AW!FullScale .. AW!FullScale /\ AW!FullScale \in Nat /\ AW!FullScale >= 2
  BY Scales DEF AW!Clip
<1>2. AW!Scale(c) = IF c <= 0 THEN c ELSE c - 1
  <2> HIDE DEF c
  <2>1. CASE c > 0
    <3>1. AW!FullScale - c \in 0 .. AW!FullScale - 1 /\ c - 1 \in Int
      BY <1>1, <2>1
    <3>2. c * (AW!FullScale - 1) = (c - 1) * AW!FullScale + (AW!FullScale - c)
      BY <1>1
    <3>3. (c * (AW!FullScale - 1)) \div AW!FullScale = c - 1
      BY <1>1, <3>1, <3>2, Division
    <3> QED
      BY <1>1, <2>1, <3>3 DEF AW!Scale
  <2>2. CASE c = 0
    <3>1. 0 * AW!FullScale + 0 = c * (AW!FullScale - 1) /\ 0 \in 0 .. AW!FullScale - 1
      BY <1>1, <2>2
    <3>2. (0 * AW!FullScale + 0) \div AW!FullScale = 0
      BY <1>1, <3>1, Division
    <3> QED
      BY <1>1, <2>2, <3>1, <3>2 DEF AW!Scale
  <2>3. CASE c < 0
    BY <1>1, <2>3 DEF AW!Scale
  <2> QED
    BY <1>1, <2>1, <2>2, <2>3
<1>3. AW!Scale(c) = Converted(n) /\ Converted(n) \in AW!Samples
  BY <1>1, <1>2 DEF Converted, AW!Samples
<1> HIDE DEF c
<1>4. \A t \in AW!Samples : AW!Int16(t) = t
  <2> SUFFICES ASSUME NEW t \in AW!Samples
               PROVE  AW!Int16(t) = t
    OBVIOUS
  <2>1. t + AW!FullScale \in 0 .. (Byte * Byte) - 1 /\ Byte * Byte \in Nat \ {0}
    BY Scales DEF AW!Samples
  <2>2. (t + AW!FullScale) % (Byte * Byte) = t + AW!FullScale
    BY <2>1, Rest
  <2> QED
    BY <2>2, Scales DEF AW!Int16, AW!Samples
<1> QED
  BY <1>3, <1>4 DEF c

\* The floats that a provider has made, as they are sent.
LEMMA FloatsKept ==
    ASSUME NEW floats \in Seq(Int)
    PROVE  LET sent == AW!SamplesOf(AW!FloatToPcm(floats))
           IN  /\ Len(sent) = Len(floats)
               /\ \A i \in 1 .. Len(floats) : sent[i] = Converted(floats[i])
<1> DEFINE x == [i \in DOMAIN floats |-> AW!Int16(AW!Scale(AW!Clip(floats[i])))]
<1>1. /\ x \in Seq(AW!Samples) /\ Len(x) = Len(floats)
      /\ \A i \in 1 .. Len(floats) : x[i] = Converted(floats[i])
  <2>1. DOMAIN floats = 1 .. Len(floats) /\ Len(floats) \in Nat
    OBVIOUS
  <2>2. \A i \in 1 .. Len(floats) : x[i] = Converted(floats[i]) /\ x[i] \in AW!Samples
    BY <2>1, FloatKept
  <2>3. x \in [1 .. Len(floats) -> AW!Samples]
    BY <2>1, <2>2
  <2> HIDE DEF x
  <2> QED
    BY <2>1, <2>2, <2>3
<1>2. AW!FloatToPcm(floats) = AW!Bytes(x)
  BY DEF AW!FloatToPcm
<1> HIDE DEF x
<1> QED
  BY <1>1, <1>2, BytesKeep

\* What was made was clipped and converted.
SpokenKept ==
    /\ spoken.made \in Seq(Int) /\ Len(spoken.sent) = Len(spoken.made)
    /\ \A i \in 1 .. Len(spoken.made) : spoken.sent[i] = Converted(spoken.made[i])

LEMMA SpokenKeptInit ==
    ASSUME AW!Init
    PROVE  SpokenKept
BY DEF AW!Init, SpokenKept

LEMMA SpeaksKept ==
    ASSUME NEW floats \in Made,
           spoken' = [made |-> floats, sent |-> AW!SamplesOf(AW!FloatToPcm(floats))]
    PROVE  SpokenKept'
<1>1. /\ floats \in Seq(Int) /\ spoken'.made = floats
      /\ spoken'.sent = AW!SamplesOf(AW!FloatToPcm(floats))
  BY WireSizes
<1> QED
  BY <1>1, FloatsKept DEF SpokenKept

LEMMA SpokenKeptNext ==
    ASSUME SpokenKept, [AW!Next]_(AW!wireVars)
    PROVE  SpokenKept'
<1>1. ASSUME NEW floats \in Made, AW!Synthesize(floats)
      PROVE  SpokenKept'
  BY <1>1, SpeaksKept DEF AW!Synthesize
<1>2. ASSUME NEW floats \in Made, NEW riff \in BOOLEAN, NEW width \in {1, 2},
             AW!Relay(floats, riff, width)
      PROVE  SpokenKept'
  <2> DEFINE file == AW!FloatToWav(floats)
             sent == [file EXCEPT !.riff = file.riff /\ riff, !.width = width]
             pcm == AW!WavToPcm(sent)
  <2>1. /\ sent.riff = (file.riff /\ riff) /\ sent.width = width /\ sent.pcm = file.pcm
        /\ file.riff => file.pcm = AW!FloatToPcm(floats)
    BY DEF AW!FloatToWav
  <2>2. \/ spoken' = [made |-> floats, sent |-> AW!SamplesOf(pcm.pcm)] /\ pcm.pcm # <<>>
        \/ spoken' = spoken
    BY <1>2 DEF AW!Relay
  <2>3. pcm.pcm # <<>> => pcm.pcm = AW!FloatToPcm(floats)
    <3> HIDE DEF sent, file
    <3> QED
      BY <2>1 DEF AW!WavToPcm
  <2> HIDE DEF pcm
  <2>4. CASE spoken' = [made |-> floats, sent |-> AW!SamplesOf(pcm.pcm)] /\ pcm.pcm # <<>>
    BY <2>3, <2>4, SpeaksKept
  <2>5. CASE spoken' = spoken
    BY <2>5 DEF SpokenKept
  <2> QED
    BY <2>2, <2>4, <2>5
<1>3. CASE spoken' = spoken
  BY <1>3 DEF SpokenKept
<1> QED
  BY <1>1, <1>2, <1>3 DEF AW!Next, AW!Send, AW!SendMalformed, AW!Handle, AW!Transcribe,
                          AW!wireVars

LEMMA KeptIsAsMade ==
    ASSUME SpokenKept
    PROVE  AW!SpokenAsMade
<1>1. ASSUME NEW m \in Int, NEW n \in Int, m <= n
      PROVE  Converted(m) <= Converted(n)
  BY <1>1, Scales DEF Converted, AW!Clip
<1>2. ASSUME NEW n \in Int
      PROVE  n * Converted(n) >= 0
  <2>1. Converted(n) \in Int /\ (n >= 0 => Converted(n) >= 0) /\ (n <= 0 => Converted(n) <= 0)
    BY Scales DEF Converted, AW!Clip
  <2> QED
    BY <2>1
<1>3. /\ DOMAIN spoken.made = 1 .. Len(spoken.made)
      /\ \A i \in 1 .. Len(spoken.made) : spoken.made[i] \in Int
  BY DEF SpokenKept
<1> QED
  BY <1>1, <1>2, <1>3 DEF SpokenKept, AW!SpokenAsMade

\* Synthesized audio never wraps around: what is louder when it is made is not
\* softer when it is sent, beyond the full scale too (audio_utils.py:230-252).
THEOREM SpeechStaysAsMade == Spec => []SpokenAsMade
<1>1. AW!Init => SpokenKept
  BY SpokenKeptInit
<1>2. SpokenKept /\ [AW!Next]_(AW!wireVars) => SpokenKept'
  BY SpokenKeptNext
<1>3. SpokenKept => SpokenAsMade
  BY KeptIsAsMade DEF SpokenAsMade
<1> QED
  BY <1>1, <1>2, <1>3, WireIsOne, PTL DEF AW!Spec

-----------------------------------------------------------------------------
(***************************************************************************)
(* The messages. A frame that was packed is unpacked to what it was, and   *)
(* what is not made so has something wrong, or is not as long as a frame.  *)
(***************************************************************************)

FrameBytes == 2 * FrameLength

\* The bytes of a frame, and the packets that carry them.
LEMMA Packed ==
    ASSUME NEW pcm \in Captured, NEW mode \in Modes
    PROVE  /\ AW!Bytes(pcm) \in Seq(Int) /\ Len(AW!Bytes(pcm)) = FrameBytes
           /\ FrameBytes \in Nat /\ FrameBytes >= 2
           /\ mode \in Seq(Int) /\ Len(mode) \in Nat
           /\ mode \o AW!Bytes(pcm) \in Seq(Int)
           /\ Len(mode \o AW!Bytes(pcm)) = Len(mode) + FrameBytes
           /\ SubSeq(mode \o AW!Bytes(pcm), 1, Len(mode)) = mode
           /\ SubSeq(mode \o AW!Bytes(pcm), Len(mode) + 1, Len(mode) + FrameBytes) = AW!Bytes(pcm)
           /\ AW!Utf8(mode)
<1>1. AW!Bytes(pcm) \in Seq(Int) /\ Len(AW!Bytes(pcm)) = FrameBytes
  BY WireSizes, BytesKeep DEF FrameBytes
<1>2. FrameBytes \in Nat /\ FrameBytes >= 2
  BY WireSizes DEF FrameBytes
<1>3. mode \in Seq(0 .. Byte - 2) /\ mode \in Seq(Int) /\ Len(mode) \in Nat /\ AW!Utf8(mode)
  <2>1. mode \in Seq(0 .. Byte - 2) /\ Len(mode) \in Nat /\ DOMAIN mode = 1 .. Len(mode)
    BY WireSizes
  <2>2. \A i \in 1 .. Len(mode) : mode[i] \in Int /\ mode[i] # Byte - 1
    BY <2>1, Scales
  <2> QED
    BY <2>1, <2>2 DEF AW!Utf8
<1> DEFINE b == AW!Bytes(pcm)  body == mode \o b
<1> HIDE DEF b
<1>4. /\ body \in Seq(Int) /\ Len(body) = Len(mode) + FrameBytes
      /\ \A i \in 1 .. Len(body) : body[i] = IF i <= Len(mode) THEN mode[i] ELSE b[i - Len(mode)]
  BY <1>1, <1>2, <1>3, ConcatProperties DEF b
<1> HIDE DEF body
<1>5. SubSeq(body, 1, Len(mode)) = mode
  BY <1>2, <1>3, <1>4, SubSeqProperties
<1>6. SubSeq(body, Len(mode) + 1, Len(mode) + FrameBytes) = b
  BY <1>1, <1>2, <1>3, <1>4, SubSeqProperties DEF b
<1> QED
  BY <1>1, <1>2, <1>3, <1>4, <1>5, <1>6 DEF b, body

Formats == {"binary", "json"}

LEMMA PackParses ==
    ASSUME NEW format \in Formats, NEW pcm \in Captured, NEW mode \in Modes,
           format = "json" => mode # <<>>
    PROVE  AW!Parse(AW!Pack(format, pcm, mode)) =
              [ok |-> TRUE, data |-> AW!Bytes(pcm),
               mode |-> IF mode = <<>> THEN Default ELSE mode]
<1> DEFINE b == AW!Bytes(pcm)
<1>0. /\ b \in Seq(Int) /\ Len(b) = FrameBytes /\ b # <<>> /\ AW!WholeFrame(b)
      /\ Len(mode) \in Nat /\ FrameBytes \in Nat
  BY Packed DEF AW!WholeFrame, FrameBytes
<1> DEFINE packet == AW!Pack(format, pcm, mode)
<1>1. CASE format = "binary"
  <2>1. /\ packet.format = "binary" /\ packet.wrong = {} /\ packet.modeLength = Len(mode)
        /\ packet.body = mode \o b
    BY <1>1 DEF AW!Pack
  <2> HIDE DEF packet
  <2>2. /\ Len(packet.body) = Len(mode) + FrameBytes /\ AW!Utf8(mode)
        /\ SubSeq(packet.body, 1, packet.modeLength) = mode
        /\ SubSeq(packet.body, packet.modeLength + 1, Len(packet.body)) = b
    BY <2>1, Packed
  <2>3. Len(packet.body) >= packet.modeLength
    BY <1>0, <2>1, <2>2
  <2> HIDE DEF b
  <2>4. AW!Parse(packet) = AW!MakeFrame(b, IF mode = <<>> THEN Default ELSE mode)
    BY <2>1, <2>2, <2>3 DEF AW!Parse, AW!ParseBinary, AW!AsExpected
  <2> QED
    BY <1>0, <2>4 DEF AW!MakeFrame, packet, b
<1>2. CASE format = "json"
  <2>1. /\ packet.format = "json" /\ packet.wrong = {} /\ packet.mode = mode
        /\ packet.body = b
    BY <1>2 DEF AW!Pack
  <2> HIDE DEF packet, b
  <2>2. AW!Parse(packet) = AW!MakeFrame(b, mode)
    BY <1>0, <2>1 DEF AW!Parse, AW!ParseJson, AW!AsExpected
  <2> QED
    BY <1>0, <1>2, <2>2 DEF AW!MakeFrame, packet, b
<1> QED
  BY <1>1, <1>2 DEF Formats

\* A message that is taken has nothing wrong and holds a frame.
LEMMA Taken ==
    ASSUME NEW packet, AW!Parse(packet).ok
    PROVE  /\ packet.wrong = {}
           /\ packet.format = "binary" =>
                /\ Len(packet.body) >= packet.modeLength
                /\ AW!Utf8(SubSeq(packet.body, 1, packet.modeLength))
                /\ Len(SubSeq(packet.body, packet.modeLength + 1, Len(packet.body))) = FrameBytes
           /\ packet.format # "binary" => Len(packet.body) = FrameBytes
BY DEF AW!Parse, AW!ParseBinary, AW!ParseJson, AW!AsExpected, AW!MakeFrame, AW!WholeFrame,
       AW!Rejected, FrameBytes

\* What is left of a sequence behind its first items.
LEMMA Behind ==
    ASSUME NEW s \in Seq(Int), NEW m \in Nat, m <= Len(s)
    PROVE  Len(SubSeq(s, m + 1, Len(s))) = Len(s) - m
<1>1. \A i \in m + 1 .. Len(s) : s[i] \in Int
  OBVIOUS
<1>2. Len(SubSeq(s, m + 1, Len(s))) = IF m + 1 <= Len(s) THEN Len(s) - (m + 1) + 1 ELSE 0
  BY <1>1, SubSeqProperties
<1> QED
  BY <1>2

LEMMA MalformedIsNot ==
    ASSUME NEW format \in Formats, NEW pcm \in Captured, NEW mode \in Modes,
           NEW packet \in AW!Malformed(AW!Pack(format, pcm, mode))
    PROVE  ~AW!Parse(packet).ok
<1> DEFINE p == AW!Pack(format, pcm, mode)
           n == p.modeLength
           body == p.body
<1>1. /\ p.format = format /\ p.wrong = {} /\ n \in Nat /\ body \in Seq(Int)
      /\ FrameBytes \in Nat /\ FrameBytes >= 2
      /\ Len(body) = n + FrameBytes
      /\ format # "binary" => n = 0
  BY Packed DEF AW!Pack, Formats
<1>2. packet \in AW!Malformed(p)
  OBVIOUS
<1>3. \/ packet.wrong # {}
      \/ /\ packet.format = format /\ packet.modeLength = n
         /\ packet.body \in {AW!Front(body), Append(body, 0)}
      \/ packet.format = format /\ format # "binary" /\ packet.body = <<>>
      \/ /\ packet.format = "binary" /\ packet.body = body
         /\ packet.modeLength \in {n + 1, Len(body) + 1, n - 1} \ {-1}
      \/ /\ packet.format = "binary" /\ packet.modeLength = 1 /\ n = 1
         /\ packet.body = [body EXCEPT ![1] = Byte - 1]
  <2>1. /\ \A v : [p EXCEPT !.wrong = v].wrong = v
        /\ \A v : /\ [p EXCEPT !.body = v].format = p.format
                  /\ [p EXCEPT !.body = v].modeLength = n
                  /\ [p EXCEPT !.body = v].body = v
        /\ \A v : /\ [p EXCEPT !.modeLength = v].format = p.format
                  /\ [p EXCEPT !.modeLength = v].modeLength = v
                  /\ [p EXCEPT !.modeLength = v].body = body
    BY DEF AW!Pack
  <2> HIDE DEF p, n, body
  <2>2. \/ \E v : packet = [p EXCEPT !.wrong = {v}]
        \/ packet \in {[p EXCEPT !.body = AW!Front(body)], [p EXCEPT !.body = Append(body, 0)]}
        \/ p.format = "json" /\ packet = [p EXCEPT !.body = <<>>]
        \/ /\ p.format # "json"
           /\ \E v \in {n + 1, Len(body) + 1, n - 1} \ {-1} : packet = [p EXCEPT !.modeLength = v]
        \/ /\ p.format # "json" /\ n = 1
           /\ packet = [p EXCEPT !.body = [body EXCEPT ![1] = Byte - 1]]
    BY <1>2 DEF AW!Malformed, n, body
  <2>3. ASSUME NEW v, packet = [p EXCEPT !.wrong = {v}]
        PROVE  packet.wrong # {}
    BY <2>1, <2>3
  <2>4. ASSUME NEW v, packet = [p EXCEPT !.body = v]
        PROVE  packet.format = format /\ packet.modeLength = n /\ packet.body = v
    BY <1>1, <2>1, <2>4
  <2>5. ASSUME NEW v, packet = [p EXCEPT !.modeLength = v]
        PROVE  packet.format = format /\ packet.modeLength = v /\ packet.body = body
    BY <1>1, <2>1, <2>5
  <2>6. p.format # "json" => format = "binary"
    BY <1>1 DEF Formats
  <2>7. CASE packet \in {[p EXCEPT !.body = AW!Front(body)], [p EXCEPT !.body = Append(body, 0)]}
    BY <2>4, <2>7
  <2>8. CASE p.format = "json" /\ packet = [p EXCEPT !.body = <<>>]
    BY <1>1, <2>4, <2>8
  <2>9. CASE /\ p.format # "json"
             /\ \E v \in {n + 1, Len(body) + 1, n - 1} \ {-1} :
                    packet = [p EXCEPT !.modeLength = v]
    BY <1>1, <2>5, <2>6, <2>9
  <2>10. CASE /\ p.format # "json" /\ n = 1
              /\ packet = [p EXCEPT !.body = [body EXCEPT ![1] = Byte - 1]]
    BY <1>1, <2>4, <2>6, <2>10
  <2> QED
    BY <2>2, <2>3, <2>7, <2>8, <2>9, <2>10
<1> HIDE DEF body, n, p
<1>4. SUFFICES ASSUME packet.wrong = {}, AW!Parse(packet).ok
               PROVE  FALSE
  BY Taken
<1>5. CASE /\ packet.format = format /\ packet.modeLength = n
           /\ packet.body \in {AW!Front(body), Append(body, 0)}
  <2>1. /\ packet.body \in Seq(Int) /\ Len(packet.body) # Len(body)
        /\ Len(packet.body) \in {n + FrameBytes - 1, n + FrameBytes + 1}
    <3>1. AW!Front(body) \in Seq(Int) /\ Len(AW!Front(body)) = Len(body) - 1
      BY <1>1, SubSeqProperties DEF AW!Front
    <3>2. Append(body, 0) \in Seq(Int) /\ Len(Append(body, 0)) = Len(body) + 1
      BY <1>1
    <3>3. CASE packet.body = AW!Front(body)
      BY <1>1, <3>1, <3>3
    <3>4. CASE packet.body = Append(body, 0)
      BY <1>1, <3>2, <3>4
    <3> QED
      BY <1>5, <3>3, <3>4
  <2>2. Len(SubSeq(packet.body, n + 1, Len(packet.body))) = Len(packet.body) - n
    BY <1>1, <2>1, Behind
  <2>3. CASE format = "binary"
    <3>1. Len(packet.body) - n = FrameBytes
      BY <1>4, <1>5, <2>2, <2>3, Taken
    <3> QED
      BY <1>1, <2>1, <3>1
  <2>4. CASE format # "binary"
    BY <1>1, <1>4, <1>5, <2>1, <2>4, Taken
  <2> QED
    BY <2>3, <2>4
<1>6. CASE packet.format = format /\ format # "binary" /\ packet.body = <<>>
  BY <1>1, <1>4, <1>6, Taken
<1>7. CASE /\ packet.format = "binary" /\ packet.body = body
           /\ packet.modeLength \in {n + 1, Len(body) + 1, n - 1} \ {-1}
  <2>1. packet.modeLength \in Nat /\ packet.modeLength # n
    BY <1>1, <1>7
  <2>2. /\ Len(SubSeq(body, packet.modeLength + 1, Len(body))) = FrameBytes
        /\ Len(body) >= packet.modeLength
    BY <1>4, <1>7, Taken
  <2>3. Len(SubSeq(body, packet.modeLength + 1, Len(body))) = Len(body) - packet.modeLength
    BY <1>1, <2>1, <2>2, Behind
  <2>4. Len(body) - packet.modeLength = FrameBytes
    BY <2>2, <2>3
  <2> QED
    BY <1>1, <2>1, <2>4
<1>8. CASE /\ packet.format = "binary" /\ packet.modeLength = 1 /\ n = 1
           /\ packet.body = [body EXCEPT ![1] = Byte - 1]
  <2>1. Len(body) >= 1 /\ Byte - 1 \in Int
    BY <1>1, <1>8, Scales
  <2>2. packet.body \in Seq(Int) /\ Len(packet.body) = Len(body) /\ packet.body[1] = Byte - 1
    BY <1>1, <1>8, <2>1
  <2> DEFINE name == SubSeq(packet.body, 1, 1)
  <2>3. name \in Seq(Int) /\ Len(name) = 1 /\ name[1] = Byte - 1
    BY <1>1, <2>1, <2>2, SubSeqProperties
  <2> HIDE DEF name
  <2>4. ~AW!Utf8(name)
    BY <2>3 DEF AW!Utf8
  <2> QED
    BY <1>4, <1>8, <2>4, Taken DEF name
<1> QED
  BY <1>3, <1>4, <1>5, <1>6, <1>7, <1>8

LEMMA FramesInit ==
    ASSUME AW!Init
    PROVE  AW!FramesIntact
BY DEF AW!Init, AW!FramesIntact

LEMMA FramesNext ==
    ASSUME AW!FramesIntact, [AW!Next]_(AW!wireVars)
    PROVE  AW!FramesIntact'
<1>1. ASSUME NEW format \in Formats, NEW pcm \in Captured, NEW mode \in Modes,
             AW!Send(format, pcm, mode)
      PROVE  AW!FramesIntact'
  <2> DEFINE frame == [ok |-> TRUE, data |-> AW!Bytes(pcm),
                       mode |-> IF mode = <<>> THEN Default ELSE mode]
  <2>1. AW!Parse(AW!Pack(format, pcm, mode)) = frame
    BY <1>1, PackParses DEF AW!Send
  <2>2. frame.ok
    OBVIOUS
  <2> HIDE DEF frame
  <2>3. collected' = Append(collected, frame)
    BY <1>1, <2>1, <2>2 DEF AW!Send, AW!Handle
  <2>4. originals' = Append(originals, frame)
    BY <1>1 DEF AW!Send, frame
  <2> QED
    BY <2>3, <2>4 DEF AW!FramesIntact
<1>2. ASSUME NEW format \in Formats, NEW pcm \in Captured, NEW mode \in Modes,
             AW!SendMalformed(format, pcm, mode)
      PROVE  AW!FramesIntact'
  BY <1>2, MalformedIsNot DEF AW!SendMalformed, AW!Handle, AW!FramesIntact
<1>3. CASE AW!Transcribe
  BY <1>3 DEF AW!Transcribe, AW!FramesIntact
<1>4. CASE UNCHANGED <<collected, originals>>
  BY <1>4 DEF AW!FramesIntact
<1> QED
  BY <1>1, <1>2, <1>3, <1>4 DEF AW!Next, AW!Synthesize, AW!Relay, AW!wireVars, Formats

\* The collector gets every frame that was packed, byte for byte, and nothing
\* of a message that is malformed, mislabelled, cut or padded, in either format
\* and for any frames and modes (audio_utils.py:391-574).
THEOREM FramesStayIntact == Spec => []FramesIntact
<1>1. AW!Init => AW!FramesIntact
  BY FramesInit
<1>2. AW!FramesIntact /\ [AW!Next]_(AW!wireVars) => AW!FramesIntact'
  BY FramesNext
<1>3. AW!FramesIntact => FramesIntact
  BY DEF FramesIntact
<1> QED
  BY <1>1, <1>2, <1>3, WireIsOne, PTL DEF AW!Spec

-----------------------------------------------------------------------------
(***************************************************************************)
(* Induction over the data: of some natural numbers one is the least. With *)
(* it, what is joined of sequences is a sequence.                          *)
(***************************************************************************)

\* Of some natural numbers one is the least.
LEMMA Least ==
    ASSUME NEW T, T \subseteq Nat, T # {}
    PROVE  \E x \in T : \A y \in T : x <= y
<1> DEFINE R == {ss \in Nat \X Nat : ss[1] < ss[2]}
<1>1. OpToRel(<, Nat) = R
  BY DEF OpToRel
<1> HIDE DEF R
<1>2. IsWellFoundedOn(R, Nat)
  BY <1>1, NatLessThanWellFounded
<1>3. PICK x \in T : \A y \in T : ~ (<<y, x>> \in R)
  BY <1>2, WFMin
<1>4. \A y \in T : ~ (y < x)
  BY <1>3 DEF R
<1> QED
  BY <1>3, <1>4

\* And of those up to some bound one is the greatest.
LEMMA Greatest ==
    ASSUME NEW n \in Nat, NEW T, T \subseteq 0 .. n, T # {}
    PROVE  \E x \in T : \A y \in T : y <= x
<1> DEFINE U == {k \in 0 .. n : n - k \in T}
<1>1. U \subseteq Nat /\ U # {}
  <2>1. PICK x \in T : x \in 0 .. n
    OBVIOUS
  <2>2. n - x \in 0 .. n /\ n - (n - x) = x
    BY <2>1
  <2>3. n - x \in U
    BY <2>1, <2>2
  <2>4. \A k \in U : k \in Nat
    OBVIOUS
  <2> HIDE DEF U
  <2> QED
    BY <2>3, <2>4
<1>2. PICK k \in U : \A l \in U : k <= l
  BY <1>1, Least
<1>3. ASSUME NEW y \in T PROVE y <= n - k
  <2>1. y \in 0 .. n
    BY <1>3
  <2>2. n - y \in 0 .. n /\ n - (n - y) = y
    BY <2>1
  <2>3. n - y \in U
    BY <1>3, <2>2
  <2>4. k \in 0 .. n /\ k <= n - y
    BY <1>2, <2>3
  <2> QED
    BY <2>1, <2>4
<1> QED
  BY <1>2, <1>3

\* A set with zero and every successor has the natural numbers: one that is
\* missing would have a least one that is, and its predecessor would not be.
LEMMA Successors ==
    ASSUME NEW T, 0 \in T, \A n \in Nat : n \in T => n + 1 \in T
    PROVE  Nat \subseteq T
<1> SUFFICES ASSUME ~ (Nat \subseteq T) PROVE FALSE
  OBVIOUS
<1>1. PICK x \in Nat \ T : \A y \in Nat \ T : x <= y
  BY Least
<1>2. x - 1 \in Nat /\ (x - 1) + 1 = x
  BY <1>1
<1>3. x - 1 \in T
  BY <1>1, <1>2
<1> QED
  BY <1>1, <1>2, <1>3

\* Sequences that are joined make a sequence of the same items: the recursion
\* of FlattenSeq has a solution up to every length, and each value of it is one.
LEMMA FlattenedIsSeq ==
    ASSUME NEW S, NEW s \in Seq(Seq(S))
    PROVE  AW!FlattenSeq(s) \in Seq(S)
<1> DEFINE Step(f, k) == [i \in 1 .. k |-> IF i = 1 THEN s[i] ELSE f[i - 1] \o s[i]]
           Solved == {k \in Nat : \E f : f = Step(f, k)}
<1>1. 0 \in Solved
  <2>1. \A f, g : Step(f, 0) = Step(g, 0)
    OBVIOUS
  <2>2. Step(Step(s, 0), 0) = Step(s, 0)
    BY <2>1
  <2> HIDE DEF Step
  <2> QED
    BY <2>2
<1>2. ASSUME NEW k \in Nat, k \in Solved PROVE k + 1 \in Solved
  <2>1. PICK f : f = Step(f, k)
    BY <1>2
  <2> DEFINE g == Step(f, k + 1)
  <2>2. ASSUME NEW i \in 1 .. k + 1, i # 1 PROVE g[i - 1] = f[i - 1]
    <3>1. i - 1 \in 1 .. k /\ i - 1 \in 1 .. k + 1
      BY <2>2
    <3>2. g[i - 1] = IF i - 1 = 1 THEN s[i - 1] ELSE f[(i - 1) - 1] \o s[i - 1]
      BY <3>1
    <3>3. Step(f, k)[i - 1] = IF i - 1 = 1 THEN s[i - 1] ELSE f[(i - 1) - 1] \o s[i - 1]
      BY <3>1
    <3> HIDE DEF Step
    <3> QED
      BY <2>1, <3>2, <3>3
  <2>3. g = Step(g, k + 1)
    <3> HIDE DEF g
    <3>1. \A i \in 1 .. k + 1 : (IF i = 1 THEN s[i] ELSE f[i - 1] \o s[i])
                              = (IF i = 1 THEN s[i] ELSE g[i - 1] \o s[i])
      BY <2>2
    <3>2. Step(f, k + 1) = Step(g, k + 1)
      BY <3>1
    <3> QED
      BY <3>2 DEF g
  <2> HIDE DEF Step
  <2> QED
    BY <2>3
<1>3. Nat \subseteq Solved
  <2> HIDE DEF Solved
  <2> QED
    BY <1>1, <1>2, Successors
<1>4. CASE Len(s) = 0
  <2>1. AW!FlattenSeq(s) = s /\ s = <<>>
    BY <1>4 DEF AW!FlattenSeq
  <2> QED
    BY <2>1
<1>5. CASE Len(s) # 0
  <2>1. Len(s) \in Nat \ {0} /\ \A i \in 1 .. Len(s) : s[i] \in Seq(S)
    BY <1>5
  <2> DEFINE f == CHOOSE g : g = Step(g, Len(s))
  <2>2. AW!FlattenSeq(s) = f[Len(s)]
    BY <1>5 DEF AW!FlattenSeq
  <2>3. f = Step(f, Len(s))
    <3> HIDE DEF Step
    <3> QED
      BY <1>3, <2>1
  <2> HIDE DEF f
  <2>4. \A i \in 1 .. Len(s) : f[i] = IF i = 1 THEN s[i] ELSE f[i - 1] \o s[i]
    BY <2>3
  <2> DEFINE Typed == {k \in Nat : k \in 1 .. Len(s) => f[k] \in Seq(S)}
  <2>5. 0 \in Typed
    OBVIOUS
  <2>6. ASSUME NEW k \in Nat, k \in Typed PROVE k + 1 \in Typed
    <3> SUFFICES ASSUME k + 1 \in 1 .. Len(s) PROVE f[k + 1] \in Seq(S)
      OBVIOUS
    <3>1. CASE k = 0
      BY <2>1, <2>4, <3>1
    <3>2. CASE k # 0
      <4>1. k \in 1 .. Len(s) /\ (k + 1) - 1 = k /\ k + 1 # 1
        BY <2>1, <3>2
      <4>2. f[k] \in Seq(S) /\ s[k + 1] \in Seq(S)
        BY <2>1, <2>6, <4>1
      <4>3. f[k + 1] = f[k] \o s[k + 1]
        BY <2>4, <4>1
      <4> QED
        BY <4>2, <4>3
    <3> QED
      BY <3>1, <3>2
  <2>7. Nat \subseteq Typed
    <3> HIDE DEF Typed
    <3> QED
      BY <2>5, <2>6, Successors
  <2> QED
    BY <2>1, <2>2, <2>7
<1> QED
  BY <1>4, <1>5

-----------------------------------------------------------------------------
(***************************************************************************)
(* The utterance. What is joined and trimmed is the same on both sides of  *)
(* the property, so all that is left to show is what the way through       *)
(* floats makes of a sample.                                               *)
(***************************************************************************)

\* What is read from bytes is samples.
LEMMA ReadsSamples ==
    ASSUME NEW bytes \in Seq(Int)
    PROVE  AW!SamplesOf(bytes) \in Seq(AW!Samples)
<1>1. Len(bytes) \div 2 \in Nat /\ 2 * (Len(bytes) \div 2) <= Len(bytes)
  OBVIOUS
<1>2. ASSUME NEW n \in Int PROVE AW!Signed(n) \in AW!Samples
  <2>1. (n + AW!FullScale) % (Byte * Byte) \in 0 .. (Byte * Byte) - 1
    BY Scales
  <2> QED
    BY <2>1, Scales DEF AW!Signed, AW!Int16, AW!Samples
<1>3. ASSUME NEW i \in 1 .. Len(bytes) \div 2
      PROVE  AW!Signed(bytes[2 * i - 1] + Byte * bytes[2 * i]) \in AW!Samples
  <2>1. 2 * i - 1 \in 1 .. Len(bytes) /\ 2 * i \in 1 .. Len(bytes)
    BY <1>1
  <2>2. bytes[2 * i - 1] \in Int /\ bytes[2 * i] \in Int /\ Byte \in Int
    BY <2>1, Scales
  <2>3. bytes[2 * i - 1] + Byte * bytes[2 * i] \in Int
    BY <2>2
  <2> QED
    BY <1>2, <2>3
<1> DEFINE n == Len(bytes) \div 2
<1>4. AW!SamplesOf(bytes) \in [1 .. n -> AW!Samples]
  BY <1>3 DEF AW!SamplesOf
<1> HIDE DEF n
<1>5. n \in Nat
  BY <1>1 DEF n
<1> QED
  BY <1>4, <1>5

\* The bytes of a sample are numbers below Byte.
LEMMA BytesAreBytes ==
    ASSUME NEW x \in Seq(AW!Samples)
    PROVE  AW!Bytes(x) \in Seq(0 .. Byte - 1)
<1> DEFINE u(k) == x[(k + 1) \div 2] % (Byte * Byte)
<1>1. /\ Byte \in Nat \ {0} /\ Byte * Byte \in Nat \ {0} /\ Len(x) \in Nat
      /\ \A i \in 1 .. Len(x) : x[i] \in Int
  BY Scales DEF AW!Samples
<1>2. ASSUME NEW k \in 1 .. 2 * Len(x)
      PROVE  u(k) % Byte \in 0 .. Byte - 1 /\ u(k) \div Byte \in 0 .. Byte - 1
  <2>1. (k + 1) \div 2 \in 1 .. Len(x)
    BY <1>1
  <2>2. u(k) \in 0 .. (Byte * Byte) - 1
    BY <1>1, <2>1
  <2> DEFINE v == u(k)  q == v \div Byte
  <2> HIDE DEF v
  <2>3. v \in Nat /\ v < Byte * Byte
    BY <1>1, <2>2 DEF v
  <2>4. q \in Int /\ v = Byte * q + (v % Byte) /\ v % Byte \in 0 .. Byte - 1
    BY <1>1, <2>3
  <2> HIDE DEF q
  <2>5. q >= 0
    <3>1. CASE q <= -1
      <4>1. Byte * q <= -Byte
        BY <1>1, <2>4, <3>1
      <4> QED
        BY <1>1, <2>3, <2>4, <4>1
    <3> QED
      BY <2>4, <3>1
  <2>6. q < Byte
    <3>1. CASE q >= Byte
      <4>1. Byte * q >= Byte * Byte
        BY <1>1, <2>4, <3>1
      <4>2. v >= Byte * q
        BY <1>1, <2>4
      <4> QED
        BY <1>1, <2>3, <2>4, <4>1, <4>2
    <3> QED
      BY <1>1, <2>4, <3>1
  <2> QED
    BY <1>1, <2>4, <2>5, <2>6 DEF v, q
<1>3. AW!Bytes(x) = [k \in 1 .. 2 * Len(x) |-> IF k % 2 = 1 THEN u(k) % Byte ELSE u(k) \div Byte]
  BY DEF AW!Bytes
<1> HIDE DEF u
<1>4. AW!Bytes(x) \in [1 .. 2 * Len(x) -> 0 .. Byte - 1]
  BY <1>2, <1>3
<1> DEFINE S == 0 .. Byte - 1  m == 2 * Len(x)  b == AW!Bytes(x)
<1>5. m \in Nat /\ b \in [1 .. m -> S]
  BY <1>1, <1>4
<1> HIDE DEF S, m, b
<1>6. b \in Seq(S)
  BY <1>5
<1> QED
  BY <1>6 DEF S, b

\* Floats become bytes.
LEMMA FloatsMakeBytes ==
    ASSUME NEW floats \in Seq(Int)
    PROVE  AW!FloatToPcm(floats) \in Seq(Int)
<1> DEFINE x == [i \in DOMAIN floats |-> AW!Int16(AW!Scale(AW!Clip(floats[i])))]
<1>1. x \in Seq(AW!Samples)
  <2>1. DOMAIN floats = 1 .. Len(floats) /\ Len(floats) \in Nat
    OBVIOUS
  <2>2. \A i \in 1 .. Len(floats) : x[i] \in AW!Samples
    BY <2>1, FloatKept
  <2>3. x \in [1 .. Len(floats) -> AW!Samples]
    BY <2>1, <2>2
  <2> HIDE DEF x
  <2> QED
    BY <2>1, <2>3
<1>2. AW!FloatToPcm(floats) = AW!Bytes(x)
  BY DEF AW!FloatToPcm
<1> HIDE DEF x
<1> QED
  BY <1>1, <1>2, BytesKeep

\* What an ASR server gets of the bytes of an utterance.
ThroughFloats(pcm) == AW!SamplesOf(AW!FloatToWav(AW!PcmToFloat(pcm)).pcm)

\* Samples that go through floats lose no more than a step.
LEMMA SamplesStayNear ==
    ASSUME NEW pcm \in Seq(Int)
    PROVE  /\ ThroughFloats(pcm) \in Seq(AW!Samples)
           /\ Len(ThroughFloats(pcm)) = Len(AW!SamplesOf(pcm))
           /\ \A k \in 1 .. Len(ThroughFloats(pcm)) :
                AW!Near(AW!SamplesOf(pcm)[k], ThroughFloats(pcm)[k])
<1> DEFINE was == AW!SamplesOf(pcm)
           got == ThroughFloats(pcm)
<1>1. was \in Seq(AW!Samples) /\ was \in Seq(Int) /\ Len(was) \in Nat
  <2>1. was \in Seq(AW!Samples)
    BY ReadsSamples
  <2>2. AW!Samples \subseteq Int
    BY Scales DEF AW!Samples
  <2> HIDE DEF was
  <2>3. was \in Seq(Int)
    BY <2>1, <2>2, SeqMonotonic
  <2> QED
    BY <2>1, <2>3
<1>2. got = AW!SamplesOf(AW!FloatToWav(was).pcm)
  BY DEF ThroughFloats, AW!PcmToFloat
<1> HIDE DEF was, got
<1>3. CASE was = <<>>
  <2>1. AW!FloatToWav(was).pcm = <<>>
    BY <1>3 DEF AW!FloatToWav
  <2>2. AW!SamplesOf(<<>>) = <<>>
    <3>1. Len(<<>>) \div 2 = 0
      OBVIOUS
    <3> QED
      BY <3>1 DEF AW!SamplesOf
  <2>3. got = <<>>
    BY <1>2, <2>1, <2>2
  <2>4. /\ got \in Seq(AW!Samples) /\ Len(got) = Len(was)
        /\ \A k \in 1 .. Len(got) : AW!Near(was[k], got[k])
    BY <1>3, <2>3
  <2> QED
    BY <2>4 DEF got, was
<1>4. CASE was # <<>>
  <2>1. got = AW!SamplesOf(AW!FloatToPcm(was))
    BY <1>2, <1>4 DEF AW!FloatToWav
  <2>2. /\ Len(got) = Len(was)
        /\ \A i \in 1 .. Len(was) : got[i] = Converted(was[i])
    BY <1>1, <2>1, FloatsKept
  <2>3. ASSUME NEW s \in AW!Samples
        PROVE  AW!Near(s, Converted(s))
    BY Scales DEF AW!Near, Converted, AW!Clip, AW!Samples
  <2>4. got \in Seq(AW!Samples)
    BY <1>1, <2>1, FloatsMakeBytes, ReadsSamples
  <2>5. \A k \in 1 .. Len(got) : AW!Near(was[k], got[k])
    BY <1>1, <2>2, <2>3
  <2> QED
    BY <2>2, <2>4, <2>5 DEF got, was
<1> QED
  BY <1>3, <1>4

\* HeardAsCaptured, of an utterance as it was captured and as it was got.
Heard(captured, got) ==
    LET n == Len(captured)
        span(i, j) == AW!SamplesOf(AW!FlattenSeq(SubSeq(captured, i, j)))
    IN  \/ got = <<>> /\ \A i \in 1 .. n : AW!Quiet(captured[i])
        \/ \E i \in 1 .. n : \E j \in i .. n :
              /\ \A k \in 1 .. n : ~AW!Quiet(captured[k]) => k \in i .. j
              /\ ~AW!Quiet(captured[i]) /\ ~AW!Quiet(captured[j])
              /\ Len(got) = Len(span(i, j))
              /\ \A k \in DOMAIN got : AW!Near(span(i, j)[k], got[k])

OneByte == 0 .. Byte - 1

\* Bytes that are joined are numbers.
LEMMA JoinedBytes ==
    ASSUME NEW data \in Seq(Seq(OneByte))
    PROVE  AW!FlattenSeq(data) \in Seq(Int)
<1>1. AW!FlattenSeq(data) \in Seq(OneByte)
  BY FlattenedIsSeq
<1>2. OneByte \subseteq Int
  BY Scales DEF OneByte
<1> QED
  BY <1>1, <1>2, SeqMonotonic

\* An utterance without a loud frame is gone, and of another one what is left
\* goes from the first loud frame to the last.
LEMMA TrimmedIsHeard ==
    ASSUME NEW data \in Seq(Seq(OneByte))
    PROVE  LET got == ThroughFloats(AW!FlattenSeq(AW!Trim(data)))
           IN  got \in Seq(AW!Samples) /\ Heard(data, got)
<1> DEFINE got == ThroughFloats(AW!FlattenSeq(AW!Trim(data)))
           loud == {i \in DOMAIN data : ~AW!Quiet(data[i])}
<1>0. /\ Len(data) \in Nat /\ DOMAIN data = 1 .. Len(data)
      /\ \A i \in 1 .. Len(data) : data[i] \in Seq(OneByte)
  OBVIOUS
<1>1. CASE loud = {}
  <2>1. AW!Trim(data) = <<>>
    BY <1>1 DEF AW!Trim
  <2>2. AW!FlattenSeq(<<>>) = <<>>
    BY DEF AW!FlattenSeq
  <2>3. <<>> \in Seq(Int) /\ Len(AW!SamplesOf(<<>>)) = 0
    BY DEF AW!SamplesOf
  <2>4. got \in Seq(AW!Samples) /\ Len(got) = 0
    BY <2>1, <2>2, <2>3, SamplesStayNear
  <2>5. \A i \in 1 .. Len(data) : AW!Quiet(data[i])
    BY <1>0, <1>1
  <2> HIDE DEF got
  <2>6. got = <<>>
    BY <2>4
  <2>7. Heard(data, got)
    BY <2>5, <2>6 DEF Heard
  <2> QED
    BY <2>4, <2>7 DEF got
<1>2. CASE loud # {}
  <2> DEFINE i == CHOOSE i \in loud : \A j \in loud : i <= j
             j == CHOOSE j \in loud : \A k \in loud : k <= j
             pcm == AW!FlattenSeq(SubSeq(data, i, j))
  <2>1. \A k \in loud : k \in 1 .. Len(data) /\ ~AW!Quiet(data[k])
    BY <1>0
  <2>2. \A k \in 1 .. Len(data) : ~AW!Quiet(data[k]) => k \in loud
    BY <1>0
  <2>3. AW!Trim(data) = SubSeq(data, i, j)
    BY <1>2 DEF AW!Trim
  <2> HIDE DEF loud
  <2>4. i \in loud /\ \A k \in loud : i <= k
    <3>0. loud \subseteq Nat
      BY <1>0, <2>1
    <3>1. \E x \in loud : \A y \in loud : x <= y
      BY <1>2, <3>0, Least
    <3> QED
      BY <3>1
  <2>5. j \in loud /\ \A k \in loud : k <= j
    <3>1. loud \subseteq 0 .. Len(data)
      BY <1>0, <2>1
    <3>2. \E x \in loud : \A y \in loud : y <= x
      BY <1>0, <1>2, <3>1, Greatest
    <3> QED
      BY <3>2
  <2> HIDE DEF i, j
  <2>6. /\ i \in 1 .. Len(data) /\ j \in i .. Len(data)
        /\ ~AW!Quiet(data[i]) /\ ~AW!Quiet(data[j])
        /\ \A k \in 1 .. Len(data) : ~AW!Quiet(data[k]) => k \in i .. j
    BY <1>0, <2>1, <2>2, <2>4, <2>5
  <2>7. SubSeq(data, i, j) \in Seq(Seq(OneByte))
    <3>1. \A k \in i .. j : data[k] \in Seq(OneByte)
      BY <1>0, <2>6
    <3> QED
      BY <1>0, <2>6, <3>1, SubSeqProperties
  <2>8. pcm \in Seq(Int)
    BY <2>7, JoinedBytes
  <2>9. got = ThroughFloats(pcm)
    BY <2>3
  <2> HIDE DEF got
  <2>10. /\ got \in Seq(AW!Samples) /\ Len(got) = Len(AW!SamplesOf(pcm))
         /\ \A k \in DOMAIN got : AW!Near(AW!SamplesOf(pcm)[k], got[k])
    BY <2>8, <2>9, SamplesStayNear
  <2>11. Heard(data, got)
    BY <2>6, <2>10 DEF Heard
  <2> QED
    BY <2>10, <2>11 DEF got
<1> QED
  BY <1>1, <1>2

\* Frames hold bytes and have modes; what was got of an utterance was captured.
Frame == [ok : {TRUE}, data : Seq(OneByte), mode : Modes \cup {Default}]

HeardInv ==
    /\ AW!FramesIntact
    /\ originals \in Seq(Frame)
    /\ transcribed.got \in Seq(AW!Samples)
    /\ Heard(transcribed.captured, transcribed.got)

LEMMA HeardInit ==
    ASSUME AW!Init
    PROVE  HeardInv
<1>1. /\ originals = <<>> /\ transcribed.captured = <<>> /\ transcribed.got = <<>>
      /\ AW!FramesIntact
  BY FramesInit DEF AW!Init
<1> QED
  BY <1>1 DEF HeardInv, Heard

LEMMA HeardNext ==
    ASSUME HeardInv, [AW!Next]_(AW!wireVars)
    PROVE  HeardInv'
<1>0. AW!FramesIntact'
  BY FramesNext DEF HeardInv
<1>1. ASSUME NEW format \in Formats, NEW pcm \in Captured, NEW mode \in Modes,
             AW!Send(format, pcm, mode)
      PROVE  HeardInv'
  <2> DEFINE frame == [ok |-> TRUE, data |-> AW!Bytes(pcm),
                       mode |-> IF mode = <<>> THEN Default ELSE mode]
  <2>1. originals' = Append(originals, frame) /\ transcribed' = transcribed
    BY <1>1 DEF AW!Send, AW!Handle
  <2>2. AW!Bytes(pcm) \in Seq(OneByte)
    BY WireSizes, BytesAreBytes DEF OneByte
  <2>3. frame \in Frame
    BY <2>2 DEF Frame
  <2> HIDE DEF frame
  <2> QED
    BY <1>0, <2>1, <2>3 DEF HeardInv
<1>2. CASE AW!Transcribe
  <2> DEFINE data == [i \in DOMAIN collected |-> collected[i].data]
  <2>1. data \in Seq(Seq(OneByte))
    <3>1. /\ DOMAIN collected = 1 .. Len(collected) /\ Len(collected) \in Nat
          /\ \A i \in 1 .. Len(collected) : collected[i].data \in Seq(OneByte)
      <4>1. collected \in Seq(Frame)
        BY DEF HeardInv, AW!FramesIntact
      <4>2. \A v \in Frame : v.data \in Seq(OneByte)
        BY DEF Frame
      <4> QED
        BY <4>1, <4>2
    <3>2. data \in [1 .. Len(collected) -> Seq(OneByte)]
      BY <3>1
    <3> HIDE DEF data
    <3> QED
      BY <3>1, <3>2
  <2>2. /\ transcribed' = [captured |-> data,
                           got |-> ThroughFloats(AW!FlattenSeq(AW!Trim(data)))]
        /\ originals' = <<>>
    BY <1>2 DEF AW!Transcribe, HeardInv, AW!FramesIntact, ThroughFloats
  <2> HIDE DEF data
  <2> QED
    BY <1>0, <2>1, <2>2, TrimmedIsHeard DEF HeardInv
<1>3. CASE UNCHANGED <<originals, transcribed>>
  BY <1>0, <1>3 DEF HeardInv
<1> QED
  BY <1>1, <1>2, <1>3 DEF AW!Next, AW!SendMalformed, AW!Handle, AW!Synthesize, AW!Relay,
     AW!wireVars, Formats

\* What an ASR server transcribes is what was captured, from the first to the
\* last loud frame and with all there is between them, and no sample is off by
\* more than one step (audio_utils.py:255-334, audio_cpp.py:509).
THEOREM CapturedIsHeard == Spec => []HeardAsCaptured
<1>1. AW!Init => HeardInv
  BY HeardInit
<1>2. HeardInv /\ [AW!Next]_(AW!wireVars) => HeardInv'
  BY HeardNext
<1>3. HeardInv => HeardAsCaptured
  BY DEF HeardInv, Heard, AW!HeardAsCaptured, HeardAsCaptured
<1> QED
  BY <1>1, <1>2, <1>3, WireIsOne, PTL DEF AW!Spec

-----------------------------------------------------------------------------
(***************************************************************************)
(* Kokoro ONNX, of which KokoroOnnxProofs has the proof                    *)
(***************************************************************************)

\* A file in the cache directory that later starts take without a check is the
\* whole asset, whatever was cancelled, broke off or crashed, unless two threads
\* downloaded it at the same time (_download_asset, kokoro_onnx.py:355).
THEOREM CacheStaysWhole == Spec => []PublishedWhole
BY KO!CacheIsWhole, KokoroSizes, KokoroIsOne, PTL DEF PublishedWhole

-----------------------------------------------------------------------------
(***************************************************************************)
(* The types, of which each invariant has had the ones it needs.           *)
(***************************************************************************)

\* What the other invariants do not say of Pocket TTS.
PocketBounded ==
    /\ lock \in {PO!Nobody} \cup [job : Jobs]
    /\ \A j \in Jobs : jobs[j].made <= MaxPieces /\ Len(jobs[j].pending) < Coalesce

LEMMA PocketBoundedNext ==
    ASSUME VoiceInv, PocketBounded, [PO!Next]_(PO!pocketVars)
    PROVE  PocketBounded'
<1>0. /\ MaxPieces \in Nat /\ Coalesce \in Nat \ {0}
      /\ jobs \in [Jobs -> PocketJob]
      /\ Len(<<>>) = 0
      /\ \A k \in Jobs : [job |-> k] \in [job : Jobs]
  BY PocketSizes DEF VoiceInv, PocketThreads
<1>1. ASSUME NEW j \in Jobs, \A k \in Jobs \ {j} : jobs'[k] = jobs[k],
             jobs'[j].made <= MaxPieces, Len(jobs'[j].pending) < Coalesce,
             lock' \in {lock, PO!Nobody, [job |-> j]}
      PROVE  PocketBounded'
  BY <1>0, <1>1 DEF PocketBounded
<1>2. ASSUME NEW j \in Jobs, NEW kind \in {"stream", "load", "unload"}, PO!Start(j, kind)
      PROVE  PocketBounded'
  <2>1. /\ \A k \in Jobs \ {j} : jobs'[k] = jobs[k]
        /\ jobs'[j].made = 0 /\ jobs'[j].pending = <<>> /\ lock' = lock
    BY <1>0, <1>2 DEF PO!Start, PO!NoJob
  <2>2. jobs'[j].made <= MaxPieces /\ Len(jobs'[j].pending) < Coalesce
    BY <1>0, <2>1
  <2> QED
    BY <1>1, <2>1, <2>2
<1>3. ASSUME NEW j \in Jobs,
             PO!TakeLock(j) \/ PO!EnsureModel(j) \/ PO!ModelLoaded(j) \/ PO!StateLoaded(j)
                 \/ PO!Generate(j) \/ PO!Generated(j) \/ PO!Raises(j)
      PROVE  PocketBounded'
  <2>1. /\ \A k \in Jobs \ {j} : jobs'[k] = jobs[k]
        /\ jobs'[j].made = jobs[j].made /\ jobs'[j].pending = jobs[j].pending
    BY <1>0, <1>3 DEF PO!TakeLock, PO!EnsureModel, PO!ModelLoaded, PO!StateLoaded,
       PO!Generate, PO!Generated, PO!Raises, PO!Goto, PocketJob
  <2>2. lock' \in {lock, PO!Nobody, [job |-> j]}
    BY <1>3 DEF PO!TakeLock, PO!EnsureModel, PO!ModelLoaded, PO!StateLoaded,
       PO!Generate, PO!Generated, PO!Raises, PO!onLoop
  <2> QED
    BY <1>1, <2>1, <2>2 DEF PocketBounded
<1>4. ASSUME NEW j \in Jobs, PO!GeneratePiece(j)
      PROVE  PocketBounded'
  <2> DEFINE n == jobs[j].made + 1
             all == Append(jobs[j].pending, n)
             pending == IF Len(all) >= Coalesce THEN <<>> ELSE all
             job == [jobs[j] EXCEPT !.made = n, !.pending = pending]
  <2>1. jobs' = [jobs EXCEPT ![j] = job] /\ lock' = lock
    BY <1>4 DEF PO!GeneratePiece
  <2>2. n <= MaxPieces
    BY <1>0, <1>4 DEF PO!GeneratePiece, PocketJob
  <2>3. Len(pending) < Coalesce
    <3>1. n \in Nat /\ jobs[j].pending \in Seq(Nat)
      BY <1>0 DEF PocketJob
    <3> HIDE DEF n
    <3>2. Len(all) \in Nat
      BY <3>1
    <3> HIDE DEF all
    <3> QED
      BY <1>0, <3>2
  <2> HIDE DEF n, pending
  <2>4. job.made = n /\ job.pending = pending
    BY <1>0 DEF PocketJob
  <2> HIDE DEF job
  <2>5. jobs'[j] = job /\ \A k \in Jobs \ {j} : jobs'[k] = jobs[k]
    BY <1>0, <2>1
  <2> QED
    BY <1>1, <2>1, <2>2, <2>3, <2>4, <2>5
<1>5. CASE UNCHANGED <<jobs, lock>>
  BY <1>5 DEF PocketBounded
<1> QED
  BY <1>2, <1>3, <1>4, <1>5
     DEF PO!Next, PO!ThreadStep, PO!Change, PO!Changed, PO!Take, PO!Cancel, PO!pocketVars

LEMMA PocketTypes == Spec => []PO!TypeOK
<1> DEFINE Inv == SpokenInv /\ PocketBounded
<1>1. PO!Init => Inv
  <2> SUFFICES ASSUME PO!Init PROVE Inv
    OBVIOUS
  <2>1. PO!NoJob.made = 0 /\ PO!NoJob.pending = <<>> /\ Len(<<>>) = 0
    BY DEF PO!NoJob
  <2>2. PocketBounded
    BY <2>1, PocketSizes DEF PO!Init, PocketBounded
  <2> QED
    BY <2>2, SpokenInitInv
<1>2. Inv /\ [PO!Next]_(PO!pocketVars) => Inv'
  BY SpokenNextInv, PocketBoundedNext DEF SpokenInv
<1>3. Inv => PO!TypeOK
  BY PocketSizes DEF SpokenInv, VoiceInv, PocketThreads, Pockets, PocketModels, PocketStates,
     PocketJob, Listeners, PocketBounded, PO!TypeOK
<1> QED
  BY <1>1, <1>2, <1>3, PocketIsOne, PTL DEF PO!Spec

\* What they do not say of the audio formats.
WireBounded ==
    /\ answer \in {"none", "audio.frame_error", "TypeError", "ValueError", "no audio"}
    /\ spoken.sent \in Seq(AW!Samples)

\* What is sent of the floats of a provider.
LEMMA SentSamples ==
    ASSUME NEW floats \in Made, NEW sent, sent = AW!SamplesOf(AW!FloatToPcm(floats)),
           spoken' = [made |-> floats, sent |-> sent]
    PROVE  spoken'.sent \in Seq(AW!Samples)
<1>1. sent \in Seq(AW!Samples)
  BY WireSizes, FloatsMakeBytes, ReadsSamples
<1> HIDE DEF AW!Samples
<1> QED
  BY <1>1

LEMMA WireBoundedNext ==
    ASSUME WireBounded, [AW!Next]_(AW!wireVars)
    PROVE  WireBounded'
<1> USE DEF WireBounded
<1>1. ASSUME NEW packet, AW!Handle(packet)
      PROVE  WireBounded'
  <2>1. answer' \in {"none", "TypeError", "audio.frame_error"} /\ spoken' = spoken
    <3> DEFINE frame == AW!Parse(packet)
    <3>1. CASE frame.ok = TRUE
      BY <1>1, <3>1 DEF AW!Handle
    <3>2. CASE frame.ok # TRUE
      BY <1>1, <3>2 DEF AW!Handle
    <3> QED
      BY <3>1, <3>2
  <2> QED
    BY <2>1
<1>2. ASSUME NEW floats \in Made, AW!Synthesize(floats)
      PROVE  WireBounded'
  BY <1>2, SentSamples DEF AW!Synthesize
<1>3. ASSUME NEW floats \in Made, NEW riff \in BOOLEAN, NEW width \in {1, 2},
             AW!Relay(floats, riff, width)
      PROVE  WireBounded'
  <2> DEFINE file == AW!FloatToWav(floats)
             sent == [file EXCEPT !.riff = file.riff /\ riff, !.width = width]
             pcm == AW!WavToPcm(sent)
  <2>1. /\ sent.riff = (file.riff /\ riff) /\ sent.width = width /\ sent.pcm = file.pcm
        /\ file.riff => file.pcm = AW!FloatToPcm(floats)
    BY DEF AW!FloatToWav
  <2>2. /\ \/ /\ spoken' = [made |-> floats, sent |-> AW!SamplesOf(pcm.pcm)]
              /\ pcm.pcm # <<>>
           \/ spoken' = spoken
        /\ answer' \in {"none", "no audio", "ValueError"}
    BY <1>3 DEF AW!Relay
  <2>3. pcm.pcm # <<>> => pcm.pcm = AW!FloatToPcm(floats)
    <3> HIDE DEF sent, file
    <3> QED
      BY <2>1 DEF AW!WavToPcm
  <2> HIDE DEF pcm
  <2> QED
    BY <2>2, <2>3, SentSamples
<1>4. CASE AW!Transcribe
  BY <1>4 DEF AW!Transcribe
<1>5. CASE UNCHANGED AW!wireVars
  BY <1>5 DEF AW!wireVars
<1> QED
  BY <1>1, <1>2, <1>3, <1>4, <1>5 DEF AW!Next, AW!Send, AW!SendMalformed

LEMMA WireTypes == Spec => []AW!TypeOK
<1> DEFINE Inv == HeardInv /\ WireBounded
<1>1. AW!Init => Inv
  BY HeardInit DEF AW!Init, WireBounded
<1>2. Inv /\ [AW!Next]_(AW!wireVars) => Inv'
  BY HeardNext, WireBoundedNext
<1>3. Inv => AW!TypeOK
  <2> SUFFICES ASSUME Inv PROVE AW!TypeOK
    OBVIOUS
  <2>1. ASSUME NEW s, NEW S, s \in Seq(S), NEW i \in DOMAIN s
        PROVE  s[i] \in S
    BY <2>1
  <2>2. ASSUME NEW i \in DOMAIN collected
        PROVE  /\ collected[i].mode \in Modes \cup {Default}
               /\ \A k \in DOMAIN collected[i].data : collected[i].data[k] \in 0 .. Byte - 1
    <3>1. collected[i] \in Frame
      BY <2>1, <2>2 DEF HeardInv, AW!FramesIntact
    <3>2. collected[i].data \in Seq(OneByte) /\ collected[i].mode \in Modes \cup {Default}
      BY <3>1 DEF Frame
    <3> QED
      BY <2>1, <3>2 DEF OneByte
  <2> QED
    BY <2>1, <2>2 DEF HeardInv, WireBounded, AW!TypeOK
<1> QED
  BY <1>1, <1>2, <1>3, WireIsOne, PTL DEF AW!Spec

\* Every variable of the providers and of the audio formats has its type, for
\* any number of calls, threads, jobs and requests and any servers.
THEOREM TypesStayRight == Spec => []TypeOK
<1>1. WhisperInv /\ AudioInv /\ OpenAIInv /\ WhisperCppInv /\ LlamaInv =>
        FW!TypeOK /\ AC!TypeOK /\ OA!TypeOK /\ WC!TypeOK /\ LC!TypeOK
  BY DEF WhisperInv, AudioInv, OpenAIInv, WhisperCppInv, LlamaInv
<1>2. Spec => []KO!TypeOK
  BY KO!TypesAreRight, KokoroSizes, KokoroIsOne, PTL
<1>3. FW!TypeOK /\ KO!TypeOK /\ PO!TypeOK /\ AC!TypeOK /\ OA!TypeOK /\ WC!TypeOK /\ LC!TypeOK
          /\ AW!TypeOK => TypeOK
  BY DEF TypeOK
<1> QED
  BY <1>1, <1>2, <1>3, WhisperStays, AudioCppStays, OpenAIStays, WhisperCppStays, LlamaStays,
     PocketTypes, WireTypes, PTL
=============================================================================
