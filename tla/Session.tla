------------------------------- MODULE Session -------------------------------
(***************************************************************************)
(* WebSocketSession of session.py with the provider bundles of             *)
(* registry.py: the session, its pipeline and its collector each refer to  *)
(* the providers in use, and providers.reload changes the three references *)
(* one after the other, with awaits in between.                            *)
(*                                                                         *)
(* The receive loop of a socket handles one message at a time; an          *)
(* application may call reload_providers and emit_status from tasks of its *)
(* own.  A caller is such a coroutine, and an action what it runs between  *)
(* two awaits.  Bundle b is the b-th that was built, and <<b, k>> its      *)
(* provider of kind k.  What frames and turns do is in UtteranceCollector  *)
(* and SpeechPipeline: here they use the providers.                        *)
(*                                                                         *)
(* An ASR or a TTS loads its model in a thread of the executor, which      *)
(* nothing stops: it outlives a call that times out and a TTS task that is *)
(* cancelled, and sets the model when it is done.                          *)
(***************************************************************************)
EXTENDS Integers, Sequences, FiniteSets

CONSTANTS Callers,     \* coroutines that call the session
          Socket,      \* the one among them that receives frames and turns
          Registered,  \* Registered[k]: names registered for kind k
          Importable,  \* names whose module can be imported
          Faulty,      \* names whose constructor rejects its configuration
          Mock,        \* the name in use where a configuration names none
          Configs,     \* configurations: partial functions from kinds to names
          MaxBundles   \* bound: bundles ever built

Kinds == <<"vad", "asr", "llm", "tts">>
Kind == {"vad", "asr", "llm", "tts"}
Unavailable == "unavailable"

VARIABLES
    built,      \* built[b][k]: the class of provider <<b, k>>
    bundle,     \* bundle of the session
    active,     \* providers of the pipeline
    vad,        \* the bundle whose VAD the collector has
    recording,  \* the collector records an utterance
    calls,      \* calls[c]: where caller c is, and its local variables
    unloads,    \* the tasks of unload_replaced that were started, in order
    held,       \* providers that hold a model or an open client
    speech,     \* TTS tasks are unfinished, and not cancelled
    strays,     \* providers that threads load for which no call waits
    late,       \* history: providers unloaded while a thread loaded them
    replaced,   \* history: bundles the pipeline had and has no more
    hist        \* history: what kept calls from being serial and successful

uses == <<built, bundle, active, vad, replaced>>
models == <<held, speech, strays, late>>
vars == <<uses, models, recording, calls, unloads, hist>>

(***************************************************************************)
(* overlap: a call began while another was in progress.  refused: a reload *)
(* met an utterance being recorded.  unsent: bundles that were replaced by *)
(* a swap whose event could not be sent.                                   *)
(***************************************************************************)
NoTrouble == [overlap |-> FALSE, refused |-> FALSE, unsent |-> {}]
Clean == hist = NoTrouble

\* on: the bundle whose provider, of the next kind, a thread loads for the call.
Idle == [at |-> "idle", old |-> 0, new |-> 0, rest |-> <<>>, on |-> 0]

Busy == {c \in Callers : calls[c].at # "idle"}
Bundles == 1 .. Len(built)

-----------------------------------------------------------------------------
(* Building providers *)

\* build_provider: what cannot be found or imported is a stand-in that says so.
BuildProvider(k, name) ==
    IF name \in Registered[k] \cap Importable THEN name ELSE Unavailable

\* build_provider_bundle: a kind that is not configured is mocked.
BuildBundle(config) ==
    [k \in Kind |-> BuildProvider(k, IF k \in DOMAIN config THEN config[k] ELSE Mock)]

\* Provider <<b, k>> has a model to load or a connection to open.
IsHeavy(b, k) == built[b][k] \notin {Mock, Unavailable}
Acquire(b, k) == held' = IF IsHeavy(b, k) THEN held \cup {<<b, k>>} ELSE held

\* Its model is loaded by a thread.
InThread(b, k) == k \in {"asr", "tts"} /\ IsHeavy(b, k)

Init ==
    /\ built \in {<<BuildBundle(config)>> :
                    config \in {g \in Configs : \A k \in DOMAIN g : g[k] \notin Faulty}}
    /\ bundle = 1 /\ active = 1 /\ vad = 1
    /\ recording = FALSE
    /\ calls = [c \in Callers |-> Idle]
    /\ unloads = <<>>
    /\ held = {} /\ speech = FALSE /\ strays = {} /\ late = {}
    /\ replaced = {}
    /\ hist = NoTrouble

-----------------------------------------------------------------------------
(* Calls *)

Goto(c, label) == calls' = [calls EXCEPT ![c].at = label]
Return(c) == calls' = [calls EXCEPT ![c] = Idle]

\* The session accepts a message or a call.
Begin(c, call) ==
    /\ calls[c].at = "idle"
    /\ calls' = [calls EXCEPT ![c] = call]
    /\ hist' = [hist EXCEPT !.overlap = @ \/ Busy # {}]

\* handle_message, what the pipeline and the collector answer for, and
\* emit_status: a turn by text or by audio, a request for statuses, a reload.
Receive(c) ==
    /\ \/ /\ c = Socket
          /\ \E text \in BOOLEAN :
                Begin(c, [Idle EXCEPT !.at = "turn",
                                      !.rest = SubSeq(Kinds, IF text THEN 3 ELSE 2, 4)])
       \/ Begin(c, [Idle EXCEPT !.at = "status", !.old = bundle, !.rest = Kinds])
       \/ Begin(c, [Idle EXCEPT !.at = "before", !.old = bundle])
    /\ UNCHANGED <<uses, models, recording, unloads>>

\* _handle_audio_frame: the collector asks its VAD, and an utterance may begin
\* or end.
HearFrame(c) ==
    /\ c = Socket /\ calls[c].at = "idle"
    /\ IF built[vad]["vad"] \in {Mock, Unavailable} THEN UNCHANGED recording
       ELSE recording' \in BOOLEAN
    /\ Acquire(vad, "vad")
    /\ UNCHANGED <<uses, speech, strays, late, calls, unloads, hist>>

\* What threads load: for a call that waits, or for none.
Awaited(c) == <<calls[c].on, Head(calls[c].rest)>>
Loading == strays \cup {Awaited(c) : c \in {d \in Callers : calls[d].on # 0}}

\* The call waits for a thread that loads the provider of bundle b.
Waits(c, b) == calls' = [calls EXCEPT ![c].on = b]

\* The call is done with the next kind.
Advance(c) == calls' = [calls EXCEPT ![c].rest = Tail(@), ![c].on = 0]

\* A turn asks the pipeline's provider of the next kind; it ends at one that
\* fails, as every stand-in does.  What the TTS has to say, tasks say.
TurnStep(c) ==
    /\ calls[c].at = "turn" /\ calls[c].on = 0
    /\ LET k == Head(calls[c].rest)
       IN  \/ /\ k = "asr" /\ InThread(active, k)
              /\ Waits(c, active) /\ UNCHANGED <<held, speech>>
           \/ /\ k # "tts" /\ ~InThread(active, k) /\ built[active][k] # Unavailable
              /\ Acquire(active, k) /\ UNCHANGED speech
              /\ Advance(c) \/ Return(c)
           \/ /\ k = "tts" /\ UNCHANGED held
              /\ \/ speech' = TRUE /\ UNCHANGED calls
                 \/ Return(c) /\ UNCHANGED speech
           \/ /\ k # "tts" /\ built[active][k] = Unavailable
              /\ Return(c) /\ UNCHANGED <<held, speech>>
    /\ UNCHANGED <<uses, strays, late, recording, unloads, hist>>

\* load_statuses: the providers of bundle b load one after the other, and one
\* that raises ends the call.  An LLM has nothing to load.
LoadNext(c, b) ==
    /\ calls[c].rest # <<>> /\ calls[c].on = 0
    /\ LET k == Head(calls[c].rest)
       IN  \/ InThread(b, k) /\ Waits(c, b) /\ UNCHANGED held
           \/ /\ ~InThread(b, k)
              /\ IF k = "llm" THEN UNCHANGED held ELSE Acquire(b, k)
              /\ Advance(c)
           \/ Return(c) /\ UNCHANGED held

\* The thread is done.  What it was for may fail all the same.
ThreadEnds(c) ==
    /\ calls[c].on # 0
    /\ \/ held' = held \cup {Awaited(c)} /\ Advance(c)
       \/ held' \in {held, held \cup {Awaited(c)}} /\ Return(c)
    /\ UNCHANGED <<uses, speech, strays, late, recording, unloads, hist>>

\* transcribe_audio and load of an ASR: the wait times out, the thread goes on.
TimesOut(c) ==
    /\ calls[c].on # 0 /\ Head(calls[c].rest) = "asr"
    /\ strays' = strays \cup {Awaited(c)}
    /\ Return(c)
    /\ UNCHANGED <<uses, held, speech, late, recording, unloads, hist>>

\* A TTS task has its chunk synthesized, in a thread that loads the model first.
SpeakChunk ==
    /\ speech /\ InThread(active, "tts")
    /\ strays' = strays \cup {<<active, "tts">>}
    /\ UNCHANGED <<uses, held, speech, late, recording, calls, unloads, hist>>

\* The last of them is finished, or cancelled by another turn or call.
SpeechEnds ==
    /\ speech /\ speech' = FALSE
    /\ UNCHANGED <<uses, held, strays, late, recording, calls, unloads, hist>>

\* A thread is done, or could not load the model; others may load the same.
StrayEnds(p) ==
    /\ strays' \in {strays, strays \ {p}}
    /\ held' \in {held, held \cup {p}}
    /\ UNCHANGED <<uses, speech, late, recording, calls, unloads, hist>>

\* _handle_status_request: a request of another kind than "load" acquires
\* nothing; the answer goes to the hook and to the client.
StatusStep(c) ==
    /\ calls[c].at = "status"
    /\ \/ LoadNext(c, calls[c].old)
       \/ calls[c].on = 0 /\ Return(c) /\ UNCHANGED held
    /\ UNCHANGED <<uses, speech, strays, late, recording, unloads, hist>>

-----------------------------------------------------------------------------
(* _reload_providers *)

\* The hook has returned: the new bundle is built, unless a constructor
\* rejects its configuration, and update_providers cancels what is spoken.
Build(c) ==
    /\ calls[c].at = "before"
    /\ Len(built) < MaxBundles
    /\ \E config \in Configs :
         IF \E k \in DOMAIN config : config[k] \in Faulty
         THEN Return(c) /\ UNCHANGED <<built, speech>>
         ELSE /\ built' = Append(built, BuildBundle(config))
              /\ speech' = FALSE
              /\ calls' = [calls EXCEPT ![c].at = "cancel",
                                        ![c].new = Len(built) + 1]
    /\ UNCHANGED <<bundle, active, vad, replaced, held, strays, late, recording, unloads,
                   hist>>

\* Another call selected a new mode while the tasks of every mode were awaited.
SweepFails(c) ==
    /\ calls[c].at = "cancel"
    /\ Busy # {c}
    /\ Return(c)
    /\ UNCHANGED <<uses, models, recording, unloads, hist>>

\* Mutant of Swap: what is replaced is the bundle that the session had when
\* the reload began, whatever the pipeline has been given since.
SwapAtEntry(c) ==
    /\ active' = calls[c].new
    /\ calls' = [calls EXCEPT ![c].at = "emit"]

\* update_providers: the bundle it replaces is the one the pipeline has now.
Swap(c) ==
    /\ active' = calls[c].new
    /\ calls' = [calls EXCEPT ![c].at = "emit", ![c].old = active]

SwapPipeline(c) ==
    /\ calls[c].at = "cancel"
    /\ Swap(c)
    /\ replaced' = replaced \cup {active}
    /\ UNCHANGED <<built, bundle, vad, models, recording, unloads, hist>>

\* Mutant of Schedule: the TTS is forgotten.
ScheduleWithoutTts(old, new) ==
    unloads' = Append(unloads, [old |-> old, rest |-> <<"vad", "asr">>])

\* update_providers starts a task of unload_replaced.
Schedule(old, new) ==
    unloads' = Append(unloads, [old |-> old, rest |-> <<"vad", "asr", "tts">>])

\* The new bundle is loaded, if that was asked for.
LoadOrNot(c) ==
    \/ calls' = [calls EXCEPT ![c].at = "load", ![c].rest = Kinds]
    \/ Goto(c, "after")

\* Mutant of TakeVad: the collector keeps the VAD it has.
TakeVadNever(c) == LoadOrNot(c) /\ UNCHANGED <<vad, hist>>

\* update_vad_provider raises while an utterance is recorded.
TakeVad(c) ==
    IF recording
    THEN Return(c) /\ UNCHANGED vad /\ hist' = [hist EXCEPT !.refused = TRUE]
    ELSE vad' = calls[c].new /\ LoadOrNot(c) /\ UNCHANGED hist

\* providers.updated is sent: the task starts, and the session and then the
\* collector take over the new bundle.
Updated(c) ==
    /\ calls[c].at = "emit"
    /\ Schedule(calls[c].old, calls[c].new)
    /\ bundle' = calls[c].new
    /\ TakeVad(c)
    /\ UNCHANGED <<built, active, replaced, models, recording>>

\* The transport raises: the pipeline keeps the new bundle, and neither the
\* session, the collector nor the old providers hear of it.
UpdateUnsent(c) ==
    /\ calls[c].at = "emit"
    /\ hist' = [hist EXCEPT !.unsent = @ \cup {calls[c].old}]
    /\ Return(c)
    /\ UNCHANGED <<uses, models, recording, unloads>>

LoadStep(c) ==
    /\ calls[c].at = "load"
    /\ \/ LoadNext(c, calls[c].new)
       \/ calls[c].rest = <<>> /\ Goto(c, "after") /\ UNCHANGED held
    /\ UNCHANGED <<uses, speech, strays, late, recording, unloads, hist>>

\* The hook for afterwards has returned.
Reloaded(c) ==
    /\ calls[c].at = "after"
    /\ Return(c)
    /\ UNCHANGED <<uses, models, recording, unloads, hist>>

\* unload_replaced: the replaced VAD, ASR and TTS are unloaded in this order.
\* The thread that loads one sets its model afterwards.
UnloadNext(i) ==
    /\ unloads[i].rest # <<>>
    /\ LET p == <<unloads[i].old, Head(unloads[i].rest)>>
       IN  held' = held \ {p} /\ late' = IF p \in Loading THEN late \cup {p} ELSE late
    /\ unloads' = [unloads EXCEPT ![i].rest = Tail(@)]
    /\ UNCHANGED <<uses, speech, strays, recording, calls, hist>>

Next ==
    \/ \E c \in Callers :
        \/ Receive(c) \/ HearFrame(c) \/ TurnStep(c) \/ StatusStep(c)
        \/ ThreadEnds(c) \/ TimesOut(c)
        \/ Build(c) \/ SweepFails(c) \/ SwapPipeline(c) \/ Updated(c)
        \/ UpdateUnsent(c) \/ LoadStep(c) \/ Reloaded(c)
    \/ SpeakChunk \/ SpeechEnds
    \/ \E p \in strays : StrayEnds(p)
    \/ \E i \in DOMAIN unloads : UnloadNext(i)

Spec == Init /\ [][Next]_vars

-----------------------------------------------------------------------------
(* Properties *)

\* Who unloads bundle b: a call that is about to start the task, or the task.
OwedBy(b) == {c \in Callers : calls[c].at = "emit" /\ calls[c].old = b}
TasksOf(b) == {i \in DOMAIN unloads : unloads[i].old = b}

\* However many reloads overlap, each bundle that the pipeline had is given to
\* unload_replaced, and given once, unless the event of the swap could not be
\* sent; no other bundle is, the active one least of all (pipeline.py:183-197).
UnloadedOnce ==
    \A b \in Bundles :
        Cardinality(OwedBy(b)) + Cardinality(TasksOf(b)) =
            IF b \in replaced \ hist.unsent THEN 1 ELSE 0

\* "Rebuild provider bundle and swap into pipeline/collector" (session.py:292):
\* when nothing overlapped, was refused or lost, the session, the pipeline and
\* the collector use the same bundle whenever no reload is under way.
SessionAgrees ==
    Clean /\ (\A c \in Callers : calls[c].at \notin {"cancel", "emit"})
        => bundle = active /\ vad = active

Quiet == Busy = {} /\ \A i \in DOMAIN unloads : unloads[i].rest = <<>>

\* Whatever a replaced VAD, ASR or TTS had loaded, by a frame, a turn, a TTS task
\* or a thread that outlived them, is released when the background task is done
\* (pipeline.py:195-197), and is never loaded again, unless a thread was loading
\* it while it was unloaded.
ReplacedReleased ==
    Clean /\ Quiet => \A p \in held : p[2] # "llm" => p[1] = active \/ p \in late

\* "Providers that differ are unloaded" (registry.py:215), LLMs included.
LLMReleased ==
    Clean /\ Quiet => \A p \in held : p[2] = "llm" => p[1] = active
=============================================================================
