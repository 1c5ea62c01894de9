---------------------------- MODULE FasterWhisper ----------------------------
(***************************************************************************)
(* FasterWhisperProvider of providers/faster_whisper.py.  A call awaits,   *)
(* for timeout_s at most, a function that the default executor of the      *)
(* process runs in one of its threads.  A timeout ends the call and        *)
(* withdraws a function that no thread has taken up; one that runs goes on *)
(* and sets the provider's fields whenever it gets there.                  *)
(***************************************************************************)
EXTENDS Integers, FiniteSets

CONSTANTS Loads,      \* calls of load, each made once at most
          Utterances, \* calls of transcribe_audio, each made once at most
          Workers     \* threads of the executor

VARIABLES
    asks,     \* asks[a]: where call a is, and whether something has happened
              \* that may make it fail
    threads,  \* threads[a]: where the function of call a is
    whisper   \* _model (whether it is set), _load_error, and whether the
              \* package is installed

whisperVars == <<asks, threads, whisper>>

Asks == Loads \cup Utterances

Working == {a \in Asks : threads[a] \in {"begun", "loading", "loaded", "inferring"}}

Init ==
    /\ asks = [a \in Asks |-> [at |-> "idle", fault |-> FALSE]]
    /\ threads = [a \in Asks |-> "none"]
    /\ whisper \in [model : {FALSE}, error : {"none"}, installed : BOOLEAN]

-----------------------------------------------------------------------------
(* Calls, on the event loop *)

Begins(a, label) == asks[a].at = "idle" /\ asks' = [asks EXCEPT ![a].at = label]

\* load returns at once if there is a model.
Load(a) ==
    /\ IF whisper.model
       THEN Begins(a, "returned") /\ UNCHANGED threads
       ELSE Begins(a, "waiting") /\ threads' = [threads EXCEPT ![a] = "queued"]
    /\ UNCHANGED whisper

\* transcribe_audio, of an utterance that is not empty, has been told that its
\* progress is passed on; up to there it has read nothing.
TranscribeAudio(a) ==
    /\ Begins(a, "waiting")
    /\ threads' = [threads EXCEPT ![a] = "queued"]
    /\ UNCHANGED whisper

\* The call resumes with what its function returned or raised.
Resume(a) ==
    /\ asks[a].at = "waiting"
    /\ threads[a] \in {"done", "failed"}
    /\ asks' = [asks EXCEPT ![a].at = IF threads[a] = "done" THEN "returned" ELSE "raised"]
    /\ UNCHANGED <<threads, whisper>>

\* Mutant of TimesOut: the time is taken from when the function begins.
TimesOutOnceBegun(a) ==
    /\ asks[a].at = "waiting"
    /\ threads[a] \notin {"queued", "done", "failed"}

\* wait_for does not look whether the function has begun.
TimesOut(a) ==
    /\ asks[a].at = "waiting"
    /\ threads[a] \notin {"done", "failed"}

\* A load always notes the error, a transcription if there is no model.
Timeout(a) ==
    /\ TimesOut(a)
    /\ asks' = [asks EXCEPT ![a].at = "timed_out"]
    /\ threads' = [threads EXCEPT ![a] = IF @ = "queued" THEN "withdrawn" ELSE @]
    /\ whisper' = IF a \in Loads \/ ~whisper.model
                  THEN [whisper EXCEPT !.error = "timeout"] ELSE whisper

\* Those of the calls whose function runs have a fault of their own from now on.
Faulty(calls) ==
    [a \in Asks |-> [asks[a] EXCEPT !.fault = @ \/ a \in calls \cap Working]]

Unload ==
    /\ whisper' = [whisper EXCEPT !.model = FALSE, !.error = "none"]
    /\ asks' = Faulty(Asks)
    /\ UNCHANGED threads

\* probe_status: a package that cannot be imported is an error.
Probe ==
    /\ ~whisper.model /\ ~whisper.installed
    /\ whisper' = [whisper EXCEPT !.error = "import"]
    /\ UNCHANGED <<asks, threads>>

-----------------------------------------------------------------------------
(* Functions, in the threads *)

Thread(a, from, to) == threads[a] = from /\ threads' = [threads EXCEPT ![a] = to]

Begin(a) ==
    /\ Cardinality(Working) < Workers
    /\ Thread(a, "queued", "begun")
    /\ UNCHANGED <<asks, whisper>>

\* Mutant of NeedsModel: a provider that has failed does not try again.
NeedsModelUnlessFailed == ~whisper.model /\ whisper.error = "none"

\* _ensure_model has no lock: two threads may both find that there is none.
NeedsModel == ~whisper.model

EnsureModel(a) ==
    /\ Thread(a, "begun", IF NeedsModel THEN "loading" ELSE "loaded")
    /\ UNCHANGED <<asks, whisper>>

LoadSucceeds(a) ==
    /\ whisper.installed
    /\ Thread(a, "loading", "loaded")
    /\ whisper' = [whisper EXCEPT !.model = TRUE]
    /\ UNCHANGED asks

\* load raises; a transcription goes on to see whether there is a model.
LoadRaises(a) ==
    /\ Thread(a, "loading", IF a \in Loads THEN "failed" ELSE "loaded")
    /\ whisper' = [whisper EXCEPT !.error = "load"]
    /\ asks' = Faulty({a})

\* _transcribe_blocking checks the model and reads it again for the inference.
CheckModel(a) ==
    /\ Thread(a, "loaded", CASE a \in Loads -> "done"
                             [] ~whisper.model -> "failed"
                             [] OTHER -> "inferring")
    /\ UNCHANGED <<asks, whisper>>

\* The inference returns the text, or raises.
Infer(a) ==
    \/ Thread(a, "inferring", IF whisper.model THEN "done" ELSE "failed")
       /\ UNCHANGED <<asks, whisper>>
    \/ Thread(a, "inferring", "failed") /\ asks' = Faulty({a}) /\ UNCHANGED whisper

-----------------------------------------------------------------------------
Next ==
    \/ Unload \/ Probe
    \/ \E a \in Asks :
        \/ a \in Loads /\ Load(a)
        \/ a \in Utterances /\ TranscribeAudio(a)
        \/ Resume(a) \/ Timeout(a)
        \/ Begin(a) \/ EnsureModel(a) \/ LoadSucceeds(a) \/ LoadRaises(a)
        \/ CheckModel(a) \/ Infer(a)

\* The event loop runs what is due; nothing is said of the threads.
Fairness == \A a \in Asks : WF_whisperVars(Resume(a) \/ Timeout(a))

Spec == Init /\ [][Next]_whisperVars /\ Fairness

-----------------------------------------------------------------------------
(* Properties *)

\* The variables have their types.
TypeOK ==
    /\ asks \in [Asks -> [at : {"idle", "waiting", "returned", "raised", "timed_out"},
                          fault : BOOLEAN]]
    /\ threads \in [Asks -> {"none", "queued", "withdrawn", "begun", "loading",
                             "loaded", "inferring", "done", "failed"}]
    /\ whisper \in [model : BOOLEAN, error : {"none", "timeout", "load", "import"},
                    installed : BOOLEAN]

\* A call raises only for a fault of its own: its load or inference failed, or
\* the provider was unloaded meanwhile.  What went wrong in other calls, their
\* timeouts and the error the status still shows, does not fail it.
OwnFaultsOnly == \A a \in Asks : asks[a].at = "raised" => asks[a].fault

\* timeout_s bounds every call, whatever hangs: the threads of other calls may
\* have taken all of the executor.
AsksEnd ==
    \A a \in Asks :
        asks[a].at = "waiting" ~> asks[a].at \in {"returned", "raised", "timed_out"}
=============================================================================
