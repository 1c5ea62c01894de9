------------------------------ MODULE PocketTts ------------------------------
(***************************************************************************)
(* PocketTtsProvider of providers/pocket_tts.py.  A stream starts a thread *)
(* that holds the provider's lock from before it loads the model until it  *)
(* has generated the last piece of audio, whether or not its consumer is   *)
(* still there.  load() runs _ensure_model without the lock.  set_voice,   *)
(* set_quantize and configure wait for the lock on the event loop, where   *)
(* nothing else runs meanwhile.                                            *)
(***************************************************************************)
EXTENDS Integers, Sequences

CONSTANTS Jobs,      \* threads: of streams, loads and unloads
          Voices,    \* voices that can be selected
          MaxPieces, \* bound: pieces of audio of a stream
          Coalesce,  \* pieces that make a chunk
          MaxChanges \* bound: changes of the configuration

VARIABLES
    pocket,  \* voice, quantize, _model and _voice_state
    lock,    \* the job that holds the lock
    jobs,    \* jobs[j]: kind of job j and where its thread is
    queue,   \* queue[j]: what the consumer of job j has not taken
    heard,   \* heard[j]: where that consumer is, and the pieces it has passed on
    loop,    \* the call that keeps the event loop waiting
    changes, \* bound: changes so far
    mixed    \* history: the configuration changed while load() was at work

pocketVars == <<pocket, lock, jobs, queue, heard, loop, changes, mixed>>

None == [none |-> TRUE]
Nobody == [job |-> "none"]
Chunk(pieces) == [item |-> "chunk", pieces |-> pieces]
Ends(item) == [item |-> item, pieces |-> <<>>]
NoJob == [kind |-> "none", at |-> "idle", got |-> None, made |-> 0, pending |-> <<>>]

Init ==
    /\ pocket \in {[voice |-> v, quantize |-> FALSE, model |-> None, state |-> None] :
                     v \in Voices}
    /\ lock = Nobody
    /\ jobs = [j \in Jobs |-> NoJob]
    /\ queue = [j \in Jobs |-> <<>>]
    /\ heard = [j \in Jobs |-> [at |-> "none", out |-> <<>>]]
    /\ loop = None
    /\ changes = 0
    /\ mixed = FALSE

LoopRuns == loop = None
Goto(j, label) == jobs' = [jobs EXCEPT ![j].at = label]
onLoop == <<queue, heard, loop, changes, mixed>>

-----------------------------------------------------------------------------
(* Calls, on the event loop *)

\* stream_audio_with_progress, load and unload start a thread.
Start(j, kind) ==
    /\ LoopRuns /\ jobs[j].at = "idle"
    /\ jobs' = [jobs EXCEPT ![j] = [NoJob EXCEPT !.kind = kind,
                    !.at = IF kind = "load" THEN "ensure" ELSE "lock"]]
    /\ heard' = IF kind = "stream" THEN [heard EXCEPT ![j].at = "waiting"] ELSE heard
    /\ UNCHANGED <<pocket, lock, queue, loop, changes, mixed>>

\* The consumer takes what the thread has put; None ends it, an exception too.
Take(j) ==
    /\ LoopRuns /\ heard[j].at = "waiting" /\ queue[j] # <<>>
    /\ queue' = [queue EXCEPT ![j] = Tail(@)]
    /\ heard' = [heard EXCEPT ![j] =
                    CASE Head(queue[j]).item = "none" -> [@ EXCEPT !.at = "ended"]
                      [] Head(queue[j]).item = "error" -> [@ EXCEPT !.at = "raised"]
                      [] OTHER -> [heard[j] EXCEPT !.out = heard[j].out \o Head(queue[j]).pieces]]
    /\ UNCHANGED <<pocket, lock, jobs, loop, changes, mixed>>

\* The task of the stream is cancelled; its thread hears nothing of it.
Cancel(j) ==
    /\ LoopRuns /\ heard[j].at = "waiting"
    /\ heard' = [heard EXCEPT ![j].at = "cancelled"]
    /\ UNCHANGED <<pocket, lock, jobs, queue, loop, changes, mixed>>

\* set_voice, set_quantize and configure, up to the lock.
Change(voice, quantize) ==
    /\ LoopRuns /\ changes < MaxChanges
    /\ changes' = changes + 1
    /\ loop' = [voice |-> voice, quantize |-> quantize]
    /\ UNCHANGED <<pocket, lock, jobs, queue, heard, mixed>>

\* Mutant of Configured: a voice state that was made for another voice is kept.
ConfiguredKeepsState(voice, quantize) ==
    LET reload == quantize # pocket.quantize
    IN  [voice |-> voice, quantize |-> quantize,
         model |-> IF reload THEN None ELSE pocket.model,
         state |-> IF reload THEN None ELSE pocket.state]

\* Another quantization invalidates the model, another voice the voice state.
Configured(voice, quantize) ==
    LET reload == quantize # pocket.quantize
    IN  [voice |-> voice, quantize |-> quantize,
         model |-> IF reload THEN None ELSE pocket.model,
         state |-> IF reload \/ voice # pocket.voice THEN None ELSE pocket.state]

LoadAtWork == \E j \in Jobs : jobs[j].kind = "load" /\ jobs[j].at \notin {"idle", "done"}

\* The lock is free: the configuration changes and the event loop goes on.
Changed ==
    /\ ~LoopRuns /\ lock = Nobody
    /\ pocket' = Configured(loop.voice, loop.quantize)
    /\ mixed' = (mixed \/ LoadAtWork)
    /\ loop' = None
    /\ UNCHANGED <<lock, jobs, queue, heard, changes>>

-----------------------------------------------------------------------------
(* Threads *)

\* A stream and an unload take the lock; release() of unload is one step.
TakeLock(j) ==
    /\ jobs[j].at = "lock" /\ lock = Nobody
    /\ IF jobs[j].kind = "unload"
       THEN /\ pocket' = [pocket EXCEPT !.model = None, !.state = None]
            /\ mixed' = (mixed \/ LoadAtWork)
            /\ Goto(j, "done")
            /\ UNCHANGED lock
       ELSE lock' = [job |-> j] /\ Goto(j, "ensure") /\ UNCHANGED <<pocket, mixed>>
    /\ UNCHANGED <<queue, heard, loop, changes>>

\* What follows _ensure_model: audio, or nothing.
Ensured(j) == IF jobs[j].kind = "stream" THEN "ready" ELSE "done"

\* _ensure_model reads the configuration and loads what is missing.
EnsureModel(j) ==
    /\ jobs[j].at = "ensure"
    /\ jobs' = [jobs EXCEPT
          ![j].at = CASE pocket.model = None -> "model"
                      [] pocket.model # None /\ pocket.state = None -> "voice"
                      [] OTHER -> Ensured(j),
          ![j].got = IF pocket.model = None THEN [quantize |-> pocket.quantize]
                     ELSE [voice |-> pocket.voice, model |-> pocket.model]]
    /\ UNCHANGED <<pocket, lock, onLoop>>

\* The model is loaded, and then the state for the voice unless there is one.
ModelLoaded(j) ==
    /\ jobs[j].at = "model"
    /\ pocket' = [pocket EXCEPT !.model = jobs[j].got]
    /\ jobs' = [jobs EXCEPT
          ![j].at = IF pocket.state = None THEN "voice" ELSE Ensured(j),
          ![j].got = [voice |-> pocket.voice, model |-> jobs[j].got]]
    /\ UNCHANGED <<lock, onLoop>>

StateLoaded(j) ==
    /\ jobs[j].at = "voice"
    /\ pocket' = [pocket EXCEPT !.state = jobs[j].got]
    /\ Goto(j, Ensured(j))
    /\ UNCHANGED <<lock, onLoop>>

\* The assertions hold and the model begins, or the stream fails on them.
Generate(j) ==
    /\ jobs[j].at = "ready"
    /\ jobs' = [jobs EXCEPT
          ![j].at = IF None \in {pocket.model, pocket.state} THEN "failing" ELSE "generating",
          ![j].got = pocket]
    /\ UNCHANGED <<pocket, lock, onLoop>>

\* Mutant of Put: the thread waits until the event loop has put the item.
PutAndWait(j, items) == LoopRuns /\ queue' = [queue EXCEPT ![j] = @ \o items]

\* run_coroutine_threadsafe: the event loop puts the items, in this order.
Put(j, items) == queue' = [queue EXCEPT ![j] = @ \o items]

\* Mutant of Rest: what is left when the model ends is dropped.
RestDropped(pending) == <<>>

\* What is left makes a last chunk, marked as final.
Rest(pending) == IF pending = <<>> THEN <<>> ELSE <<Chunk(pending)>>

\* The model generates a piece; enough of them make a chunk.
GeneratePiece(j) ==
    /\ jobs[j].at = "generating" /\ jobs[j].made < MaxPieces
    /\ LET n == jobs[j].made + 1
           pending == Append(jobs[j].pending, n)
       IN  IF Len(pending) >= Coalesce
           THEN /\ Put(j, <<Chunk(pending)>>)
                /\ jobs' = [jobs EXCEPT ![j].made = n, ![j].pending = <<>>]
           ELSE /\ jobs' = [jobs EXCEPT ![j].made = n, ![j].pending = pending]
                /\ UNCHANGED queue
    /\ UNCHANGED <<pocket, lock, heard, loop, changes, mixed>>

\* The model ends, and the lock is given back.
Generated(j) ==
    /\ jobs[j].at = "generating"
    /\ Put(j, Rest(jobs[j].pending) \o <<Ends("none")>>)
    /\ Goto(j, "done")
    /\ lock' = Nobody
    /\ UNCHANGED <<pocket, heard, loop, changes, mixed>>

\* Loading or generating raises; the exception of load() goes to its caller.
Raises(j) ==
    /\ jobs[j].at \in {"model", "voice", "generating", "failing"}
    /\ IF jobs[j].kind = "stream"
       THEN Put(j, <<Ends("error")>>) /\ lock' = Nobody
       ELSE UNCHANGED <<queue, lock>>
    /\ Goto(j, "done")
    /\ UNCHANGED <<pocket, heard, loop, changes, mixed>>

ThreadStep(j) ==
    \/ TakeLock(j) \/ EnsureModel(j) \/ ModelLoaded(j) \/ StateLoaded(j) \/ Generate(j)
    \/ GeneratePiece(j) \/ Generated(j) \/ Raises(j)

Next ==
    \/ \E v \in Voices, q \in BOOLEAN : Change(v, q)
    \/ Changed
    \/ \E j \in Jobs :
        \/ \E kind \in {"stream", "load", "unload"} : Start(j, kind)
        \/ Take(j) \/ Cancel(j)
        \/ ThreadStep(j)

\* The threads run, the model ends, and the lock is given to one that waits.
Fairness ==
    /\ WF_pocketVars(Changed)
    /\ \A j \in Jobs : WF_pocketVars(ThreadStep(j))

Spec == Init /\ [][Next]_pocketVars /\ Fairness

-----------------------------------------------------------------------------
(* Properties *)

\* The variables have their types.
TypeOK ==
    /\ pocket.voice \in Voices /\ pocket.quantize \in BOOLEAN
    /\ pocket.model \in {None} \cup [quantize : BOOLEAN]
    /\ pocket.state \in {None} \cup [voice : Voices, model : [quantize : BOOLEAN]]
    /\ lock \in {Nobody} \cup [job : Jobs]
    /\ \A j \in Jobs :
        /\ jobs[j].kind \in {"none", "stream", "load", "unload"}
        /\ jobs[j].at \in {"idle", "lock", "ensure", "model", "voice", "ready", "failing",
                           "generating", "done"}
        /\ jobs[j].made \in 0 .. MaxPieces /\ Len(jobs[j].pending) < Coalesce
        /\ heard[j].at \in {"none", "waiting", "ended", "raised", "cancelled"}
    /\ loop \in {None} \cup [voice : Voices, quantize : BOOLEAN]
    /\ mixed \in BOOLEAN

\* A stream is spoken with the voice and the quantization that are selected
\* when it begins, by a voice state of that very model, whatever was changed or
\* unloaded before; unless load(), which takes no lock, was at work meanwhile.
SpeaksSelected ==
    \A j \in Jobs :
        jobs[j].at = "generating" /\ ~mixed =>
            /\ jobs[j].got.state.voice = pocket.voice
            /\ jobs[j].got.model.quantize = pocket.quantize
            /\ jobs[j].got.state.model = jobs[j].got.model

\* What a consumer passes on is what was generated, each piece once and in
\* order, and all of it if the stream ends without an error.
SpokenWhole ==
    \A j \in Jobs :
        /\ heard[j].out = [i \in 1 .. Len(heard[j].out) |-> i]
        /\ heard[j].at = "ended" => Len(heard[j].out) = jobs[j].made

\* The event loop that a change keeps waiting goes on, since the thread that
\* holds the lock needs nothing from the event loop to come to its end.
LoopResumes == ~LoopRuns ~> LoopRuns
=============================================================================
