---------------------------- MODULE OpenAICompat ----------------------------
(***************************************************************************)
(* The ASR and the TTS provider of providers/openai_compat.py: requests    *)
(* with the audio in their bodies to a server that somebody else runs.     *)
(* What they keep is what the latest exchanges say of the server.          *)
(***************************************************************************)
EXTENDS Integers

CONSTANTS Requests,  \* calls of stream_audio, transcribe_audio, check_status
          Offers,    \* model ids that the server may list
          Wanted     \* the configured one, or Unset

Unset == "unset"

VARIABLES
    service,   \* external: whether the server answers, and the models it lists
    health,    \* health[kind]: _ready and _last_error of the provider
    requests,  \* requests[r]: the provider of call r, where the call is, and
               \* what it gives its caller
    failing    \* history: failing[kind]: how requests and checks have failed
               \* since a check was answered well

openaiVars == <<service, health, requests, failing>>

Audio == {"asr", "tts"}
Troubles == {"failed", "malformed"}
Services == [up : BOOLEAN, models : SUBSET Offers]

\* __init__ of the shared base
Init ==
    /\ service \in Services
    /\ health = [kind \in Audio |-> [ready |-> FALSE, error |-> FALSE]]
    /\ requests = [r \in Requests |-> [kind |-> "none", at |-> "idle", got |-> "nothing"]]
    /\ failing = [kind \in Audio |-> {}]

Goto(r, label) == requests' = [requests EXCEPT ![r].at = label]

ServiceChanges ==
    /\ service' \in Services
    /\ UNCHANGED <<health, requests, failing>>

\* status.ready of the ASR and of the TTS provider
AsrReady == health["asr"].ready /\ ~health["asr"].error
TtsReady == health["tts"].ready /\ ~health["tts"].error

\* A call begins: it awaits its progress callback, or the server's list.
Begin(r, kind, label) ==
    /\ requests[r].at = "idle"
    /\ requests' = [requests EXCEPT ![r].kind = kind, ![r].at = label]
    /\ UNCHANGED <<service, health, failing>>

-----------------------------------------------------------------------------
\* _probe_models: nothing comes back, or a list that may be empty.
Unusable(kind) ==
    \/ ~service.up
    \/ Wanted # Unset /\ service.models # {} /\ Wanted \notin service.models

\* Mutant of Checked: a server that is up is ready, whatever it lists.
CheckedReachable(kind) ==
    health' = [health EXCEPT ![kind] = [ready |-> service.up, error |-> ~service.up]]

\* _http_check_status
Checked(kind) ==
    health' = [health EXCEPT ![kind] = [ready |-> ~Unusable(kind), error |-> Unusable(kind)]]

\* An answer is malformed in a way that raises where no error is noted.
Stumbles(r) ==
    /\ Goto(r, "raised") /\ UNCHANGED health
    /\ failing' = [failing EXCEPT ![requests[r].kind] = @ \cup {"malformed"}]

\* What is JSON but no object with a list of objects is no answer to read.
Check(r) ==
    /\ requests[r].at = "list"
    /\ LET kind == requests[r].kind
       IN  \/ /\ Checked(kind)
              /\ failing' = [failing EXCEPT ![kind] =
                                IF Unusable(kind) THEN @ \cup {"failed"} ELSE {}]
              /\ Goto(r, "returned")
           \/ service.up /\ Stumbles(r)
    /\ UNCHANGED service

\* The exception is noted and raised.
Fails(r) ==
    /\ Goto(r, "raised")
    /\ health' = [health EXCEPT ![requests[r].kind].error = TRUE]
    /\ failing' = [failing EXCEPT ![requests[r].kind] = @ \cup {"failed"}]

\* transcribe_audio and stream_audio_with_progress: the request is sent.
Send(r) ==
    /\ requests[r].at = "started"
    /\ Goto(r, IF requests[r].kind = "asr" THEN "transcript" ELSE "speech")
    /\ UNCHANGED <<service, health, failing>>

\* transcribe_audio: an answer of any shape counts; a transcript that is not
\* there is an empty one, which nobody is told of.
Transcript(r) ==
    /\ requests[r].at = "transcript"
    /\ \/ /\ service.up
          /\ \E got \in {"text", "nothing"} :
                requests' = [requests EXCEPT ![r].at = "returned", ![r].got = got]
          /\ UNCHANGED <<health, failing>>
       \/ Fails(r)
    /\ UNCHANGED service

\* _request_speech: an answer that is no WAV file is an error; the audio is
\* passed on as one final chunk, or nothing if the file has none.  A file that
\* is damaged, or not 16-bit PCM, has passed for audio so far.
Speech(r) ==
    /\ requests[r].at = "speech"
    /\ \/ /\ service.up
          /\ \E got \in {"audio", "nothing"} :
                requests' = [requests EXCEPT ![r].at = "returned", ![r].got = got]
          /\ UNCHANGED <<health, failing>>
       \/ service.up /\ Stumbles(r)
       \/ Fails(r)
    /\ UNCHANGED service

\* The task is cancelled: nothing is noted.
Cancel(r) ==
    /\ requests[r].at \in {"list", "started", "transcript", "speech"}
    /\ Goto(r, "cancelled")
    /\ UNCHANGED <<service, health, failing>>

Next ==
    \/ ServiceChanges
    \/ \E r \in Requests :
        \/ \E kind \in Audio, label \in {"list", "started"} : Begin(r, kind, label)
        \/ Check(r) \/ Send(r) \/ Transcript(r) \/ Speech(r) \/ Cancel(r)

Spec == Init /\ [][Next]_openaiVars

-----------------------------------------------------------------------------
(* Properties *)

\* The variables have their types.
TypeOK ==
    /\ service \in Services
    /\ health \in [Audio -> [ready : BOOLEAN, error : BOOLEAN]]
    /\ requests \in [Requests -> [kind : Audio \cup {"none"},
                                  at : {"idle", "list", "started", "transcript", "speech",
                                        "returned", "raised", "cancelled"},
                                  got : {"nothing", "text", "audio"}]]
    /\ failing \in [Audio -> SUBSET Troubles]

\* The status says "ready" only if a check found the server and the configured
\* model, and no exchange that ended later found otherwise, neither a request
\* nor a check of another call, unless by a malformed answer, of which the code
\* notes nothing.
ReadyEarned ==
    /\ AsrReady => "failed" \notin failing["asr"]
    /\ TtsReady => "failed" \notin failing["tts"]
=============================================================================
