------------------------------ MODULE AudioCpp ------------------------------
(***************************************************************************)
(* The ASR and the TTS provider of providers/audio_cpp.py: both send their *)
(* requests to an audiocpp_server that somebody else runs and restarts.    *)
(* The server reads an utterance from a file that the ASR provider writes  *)
(* before the request and removes after it (cleanup_files, the default).   *)
(***************************************************************************)
EXTENDS Integers

CONSTANTS Calls,   \* calls of stream_audio, transcribe_audio and check_status
          Models,  \* model ids
          Model,   \* the configured one, or NoModel
          NoModel

VARIABLES
    server,   \* external: what the server answers now
    conn,     \* conn[kind]: _ready and _last_error of the provider
    calls,    \* calls[c]: kind of provider, where the call is, and whether it
              \* has sent its request
    files,    \* files in shared_dir
    trouble   \* history: trouble[kind]: how requests and checks have failed
              \* since a check found the model ready

audioVars == <<server, conn, calls, files, trouble>>

Providers == {"asr", "tts"}
Servers == [health : {"none", "starting", "ok"}, models : SUBSET Models]
Ended == {"returned", "raised", "cancelled"}
Troubles == {"failed", "malformed"}

\* __init__ of both providers
Init ==
    /\ server \in Servers
    /\ conn = [kind \in Providers |-> [ready |-> FALSE, error |-> FALSE]]
    /\ calls = [c \in Calls |-> [kind |-> "none", at |-> "idle", sent |-> FALSE]]
    /\ files = {}
    /\ trouble = [kind \in Providers |-> {}]

Goto(c, label) == calls' = [calls EXCEPT ![c].at = label]
Begin(c, kind, label) ==
    /\ calls[c].at = "idle"
    /\ calls' = [calls EXCEPT ![c].kind = kind, ![c].at = label]

\* status.ready of the TTS and of the ASR provider
TtsReady == conn["tts"].ready /\ ~conn["tts"].error
AsrReady == conn["asr"].ready /\ ~conn["asr"].error

\* The server is started, stopped, or given other models.
ServerChanges ==
    /\ server' \in Servers
    /\ UNCHANGED <<conn, calls, files, trouble>>

-----------------------------------------------------------------------------
(* Status *)

\* check_status, load and unload: without a model there is nothing to ask.
Check(c, kind) ==
    /\ IF Model = NoModel
       THEN /\ Begin(c, kind, "returned")
            /\ conn' = [conn EXCEPT ![kind] = [ready |-> FALSE, error |-> TRUE]]
            /\ trouble' = [trouble EXCEPT ![kind] = @ \cup {"failed"}]
       ELSE Begin(c, kind, "health") /\ UNCHANGED <<conn, trouble>>
    /\ UNCHANGED <<server, files>>

\* The check ends with an error, or finds the provider ready.
Note(kind, ok) == conn' = [conn EXCEPT ![kind] = [ready |-> ok, error |-> ~ok]]
Recall(kind, ok) ==
    trouble' = [trouble EXCEPT ![kind] = IF ok THEN {} ELSE @ \cup {"failed"}]

\* An answer is malformed in a way that raises where no error is noted.
Stumbles(c) ==
    /\ Goto(c, "raised") /\ UNCHANGED conn
    /\ trouble' = [trouble EXCEPT ![calls[c].kind] = @ \cup {"malformed"}]

\* _probe_server: the answer to /health, which may be JSON but no object.
Health(c) ==
    /\ calls[c].at = "health"
    /\ \/ /\ server.health = "ok"
          /\ Goto(c, "models") /\ UNCHANGED <<conn, trouble>>
       \/ /\ server.health # "ok"
          /\ Goto(c, "returned")
          /\ Note(calls[c].kind, FALSE) /\ Recall(calls[c].kind, FALSE)
       \/ server.health # "none" /\ Stumbles(c)
    /\ UNCHANGED <<server, files>>

\* _http_check_status of the TTS provider: a list of models, if there is one,
\* must contain the configured one.
TtsChecked(listed) == Note("tts", listed = {} \/ Model \in listed)

\* _http_check_status of the ASR provider
AsrChecked(listed) == Note("asr", listed = {} \/ Model \in listed)

\* The answer to /v1/models, which may fail to come, or be read in part.
Listed(c) ==
    /\ calls[c].at = "models"
    /\ \E listed \in SUBSET server.models :
          /\ IF calls[c].kind = "tts" THEN TtsChecked(listed) ELSE AsrChecked(listed)
          /\ Recall(calls[c].kind, listed = {} \/ Model \in listed)
    /\ Goto(c, "returned")
    /\ UNCHANGED <<server, files>>

-----------------------------------------------------------------------------
(* Requests *)

\* Mutant of Fails: the exception is raised, but not noted.
FailsUnnoted(c) == Goto(c, "raised") /\ UNCHANGED conn

\* The request times out, is refused, or is answered with what is no audio.
Fails(c) ==
    /\ Goto(c, "raised")
    /\ conn' = [conn EXCEPT ![calls[c].kind].error = TRUE]

\* stream_audio_with_progress of the TTS provider, up to its first await.
Speak(c) ==
    /\ Begin(c, "tts", "started")
    /\ UNCHANGED <<server, conn, files, trouble>>

\* _request_speech: without a model it raises.
RequestSpeech(c) ==
    /\ calls[c].at = "started"
    /\ IF Model = NoModel THEN Goto(c, "raised")
       ELSE calls' = [calls EXCEPT ![c].at = "speech", ![c].sent = TRUE]
    /\ UNCHANGED <<server, conn, files, trouble>>

\* A RIFF file that is damaged, or not 16-bit PCM, has passed for audio so far.
SpeechAnswered(c) ==
    /\ calls[c].at = "speech"
    /\ \/ /\ server.health = "ok"
          /\ Goto(c, "returned") /\ UNCHANGED <<conn, trouble>>
       \/ server.health = "ok" /\ Stumbles(c)
       \/ Fails(c) /\ trouble' = [trouble EXCEPT !["tts"] = @ \cup {"failed"}]
    /\ UNCHANGED <<server, files>>

\* Mutant of FileName: one file for all utterances.
OneFileName(c) == "audiocpp_asr"

\* The name of the file has a fresh uuid.
FileName(c) == c

\* transcribe_audio writes the file and awaits the progress callback.
Transcribe(c) ==
    /\ IF Model = NoModel THEN Begin(c, "asr", "raised") /\ UNCHANGED files
       ELSE Begin(c, "asr", "queued") /\ files' = files \cup {FileName(c)}
    /\ UNCHANGED <<server, conn, trouble>>

\* From here on the file is removed whatever happens.
RequestTranscript(c) ==
    /\ calls[c].at = "queued"
    /\ calls' = [calls EXCEPT ![c].at = "transcript", ![c].sent = TRUE]
    /\ UNCHANGED <<server, conn, files, trouble>>

\* The finally clause.
RemoveFile(c) == files' = files \ {FileName(c)}

\* The answer has come, its text been passed on, and the generator ended.
TranscriptAnswered(c) ==
    /\ calls[c].at = "transcript"
    /\ \/ /\ server.health = "ok"
          /\ Goto(c, "returned") /\ UNCHANGED <<conn, trouble>>
       \/ Fails(c) /\ trouble' = [trouble EXCEPT !["asr"] = @ \cup {"failed"}]
    /\ RemoveFile(c)
    /\ UNCHANGED server

\* The task is cancelled at an await, or its progress callback raises.
Cancel(c) ==
    /\ calls[c].at \in {"started", "speech", "queued", "transcript", "health", "models"}
    /\ Goto(c, "cancelled")
    /\ IF calls[c].at = "transcript" THEN RemoveFile(c) ELSE UNCHANGED files
    /\ UNCHANGED <<server, conn, trouble>>

Next ==
    \/ ServerChanges
    \/ \E c \in Calls :
        \/ \E kind \in Providers : Check(c, kind)
        \/ Health(c) \/ Listed(c)
        \/ Speak(c) \/ RequestSpeech(c) \/ SpeechAnswered(c)
        \/ Transcribe(c) \/ RequestTranscript(c) \/ TranscriptAnswered(c)
        \/ Cancel(c)

Spec == Init /\ [][Next]_audioVars

-----------------------------------------------------------------------------
(* Properties *)

\* The variables have their types.
TypeOK ==
    /\ server \in Servers
    /\ conn \in [Providers -> [ready : BOOLEAN, error : BOOLEAN]]
    /\ calls \in [Calls -> [kind : Providers \cup {"none"}, sent : BOOLEAN,
                            at : {"idle", "health", "models", "started", "speech", "queued",
                                  "transcript"} \cup Ended]]
    /\ files \subseteq {FileName(c) : c \in Calls}
    /\ trouble \in [Providers -> SUBSET Troubles]

\* The file is there as long as the server may read it, whatever becomes of
\* other utterances; and "after each request" (audio_cpp.py:380-381) it is gone.
\* What stays is the file of a call that ended before its request.
FileLife ==
    \A c \in Calls :
        /\ calls[c].at = "transcript" => FileName(c) \in files
        /\ calls[c].at \in Ended /\ calls[c].sent => FileName(c) \notin files

\* The status says "ready" only if a check found the server with the configured
\* model, and nothing that the provider asked of it has failed since, unless by
\* a malformed answer, of which the code notes nothing.
ReadyEarned ==
    /\ TtsReady => "failed" \notin trouble["tts"]
    /\ AsrReady => "failed" \notin trouble["asr"]
=============================================================================
