--------------------------- MODULE SpeechPipeline ---------------------------
(***************************************************************************)
(* The turn orchestrator of converse_framework/pipeline.py.                *)
(*                                                                         *)
(* One SpeechPipeline object is called by coroutines of the application    *)
(* (Callers).  Every text chunk of a reply is spoken by an asyncio task of *)
(* its own, and the tasks of a mode form a chain: a task awaits the task   *)
(* that was the mode's tail when it was created.                           *)
(*                                                                         *)
(* An action is the code a coroutine runs between two awaits that can      *)
(* suspend it on something other than its own event: the gather of a       *)
(* cancellation, ASR, the LLM stream, the predecessor of a TTS task.  An   *)
(* emit that neither reads nor precedes anything shared is merged into the *)
(* action before it.  Message contents, prompts, latencies and event       *)
(* payloads are abstracted: a message is the sequence of the turns that    *)
(* wrote it.                                                               *)
(***************************************************************************)
EXTENDS Naturals, Sequences

CONSTANTS Modes,        \* the conversation modes callers name
          DefaultMode,  \* PipelineConfig.default_mode
          Bundles,      \* provider bundles, told apart by their TTS provider
          FirstBundle,  \* the bundle the pipeline is built with
          NoBundle,     \* stands for no bundle
          SwapTo,       \* SwapTo[b]: the bundles the application replaces b with
          Callers,      \* coroutines that call the pipeline
          Allowed,      \* Allowed[c]: the operations caller c uses
          MaxTasks,     \* bound: TTS tasks ever created
          MaxTurns      \* bound: turns of one mode

Ops == {"text", "audio", "continue", "clear", "cancel", "prompt", "peek",
        "reload", "reload_keep"}

ASSUME ConstantsAssumption ==
    /\ DefaultMode \in Modes
    /\ FirstBundle \in Bundles
    /\ NoBundle \notin Bundles
    /\ SwapTo \in [Bundles -> SUBSET Bundles]
    /\ Allowed \in [Callers -> SUBSET Ops]
    /\ MaxTasks \in Nat
    /\ MaxTurns \in Nat

VARIABLES
    order,     \* keys of _states, in insertion order
    sel,       \* the mode whose _TurnState is self.state
    hist,      \* hist[m]: messages of mode m
    turnId,    \* turnId[m]: turn_id of mode m
    tail,      \* tail[m]: tts_tail of mode m
    nTasks,    \* number of TTS tasks created so far; tasks are 1..nTasks
    chunk,     \* chunk[t]: what task t speaks, and the task it awaits
    st,        \* st[t]: where task t is in its life
    voice,     \* voice[t]: the TTS provider task t took, and the load for it
    bundle,    \* self.providers
    loaded,    \* loaded[b]: the TTS provider of b holds its model
    strays,    \* providers loaded by threads whose task is over
    late,      \* history: providers unloaded while a thread was loading them
    unloads,   \* unload_replaced tasks that have not run, as <<old, new>>
    call       \* call[c]: the locals of the call caller c is in

vars == <<order, sel, hist, turnId, tail, nTasks, chunk, st, voice, bundle,
          loaded, strays, late, unloads, call>>
speech == <<nTasks, chunk, st, voice>>
provs == <<bundle, loaded, strays, late, unloads>>

TaskId == 1 .. MaxTasks
NoTask == 0

Message == [role : {"user", "assistant"}, text : Seq(Nat)]

(***************************************************************************)
(* A task is "waiting" for its predecessor, "speaking" (inside             *)
(* _stream_tts), "cancelling" once cancel() was called on it and until the *)
(* CancelledError has unwound it, and then over: "cancelled", or "done"    *)
(* whether its stream ended or raised, which its successor does not tell   *)
(* apart.                                                                  *)
(***************************************************************************)
Status == {"unborn", "waiting", "speaking", "cancelling",
           "done", "cancelled"}
Over == {"done", "cancelled"}
Unfinished == {"waiting", "speaking", "cancelling"}

Tasks == {t \in TaskId : st[t] # "unborn"}

(***************************************************************************)
(* The stream of a task loads its provider's model in a thread of the      *)
(* executor; it is "loading" until the model is there.  cancel() does not  *)
(* reach the thread, which becomes a stray once its task is over; the      *)
(* strays of one provider are not told apart.                              *)
(***************************************************************************)
NoVoice == [by |-> NoBundle, load |-> "none"]
Voice == {NoVoice} \cup [by : Bundles, load : {"loading", "loaded"}]
Loading(b) == b \in strays \/ \E t \in TaskId : voice[t] = [by |-> b, load |-> "loading"]

\* cancel_tts' snapshot: the tasks of mode m that are not done().
ActiveIn(m) == {t \in TaskId : st[t] \in Unfinished /\ chunk[t].mode = m}

IdleCall == [pc |-> "idle", op |-> "none", mode |-> DefaultMode, turn |-> 0,
             snap |-> {}, base |-> <<>>, next |-> 0, size |-> 0,
             old |-> NoBundle, new |-> NoBundle]

\* The locals of a call that starts now.
Starts(op, m) == [IdleCall EXCEPT !.op = op, !.mode = m]

\* The call of c goes on at pc, or returns to its caller.
Goto(c, pc) == call' = [call EXCEPT ![c].pc = pc]
Returns(c) == call' = [call EXCEPT ![c] = IdleCall]

Ready(c, op) == call[c].pc = "idle" /\ op \in Allowed[c]

Init ==
    /\ order = <<DefaultMode>>
    /\ sel = DefaultMode
    /\ hist = [m \in Modes |-> <<>>]
    /\ turnId = [m \in Modes |-> 0]
    /\ tail = [m \in Modes |-> NoTask]
    /\ nTasks = 0
    /\ chunk = [t \in TaskId |->
                    [mode |-> DefaultMode, turn |-> 0, prev |-> NoTask]]
    /\ st = [t \in TaskId |-> "unborn"]
    /\ voice = [t \in TaskId |-> NoVoice]
    /\ bundle = FirstBundle
    /\ loaded = [b \in Bundles |-> FALSE]
    /\ strays = {}
    /\ late = {}
    /\ unloads = {}
    /\ call = [c \in Callers |-> IdleCall]

-----------------------------------------------------------------------------
(* Modes *)

\* _state_for_mode creates the state of a mode the first time it is named.
Known == {order[i] : i \in 1 .. Len(order)}
Touch(m) == order' = IF m \in Known THEN order ELSE Append(order, m)

\* _select_mode
Select(m) == Touch(m) /\ sel' = m

\* set_system_prompt: only its effect on the selection; the prompt is data.
SetSystemPrompt(c, m) ==
    /\ Ready(c, "prompt")
    /\ Select(m)
    /\ UNCHANGED <<hist, turnId, tail, speech, provs, call>>

\* messages_for_mode creates the state of an unknown mode but selects nothing.
MessagesForMode(c, m) ==
    /\ Ready(c, "peek")
    /\ Touch(m)
    /\ UNCHANGED <<sel, hist, turnId, tail, speech, provs, call>>

-----------------------------------------------------------------------------
(* Cancellation *)

\* Mutant of Cancel: cancel() is forgotten and the tasks are only awaited.
CancelNobody(S) == UNCHANGED st

Cancel(S) == st' = [t \in TaskId |-> IF t \in S THEN "cancelling" ELSE st[t]]

(***************************************************************************)
(* The part of cancel_tts before its gather, in mode m (the selected one). *)
(* With no active task it does not suspend: the tail is reset and the call *)
(* goes on as `go`.  Otherwise it waits in the gather.                     *)
(***************************************************************************)
CancelNothing(c, m, go) ==
    /\ ActiveIn(m) = {}
    /\ tail' = [tail EXCEPT ![m] = NoTask]
    /\ call' = [call EXCEPT ![c] = go]
    /\ UNCHANGED st

\* Mutant of CancelActive: only the task at the tail is cancelled.
CancelTailOnly(c, m, go) ==
    LET S == ActiveIn(m) \cap {tail[m]} IN
    /\ S # {}
    /\ Cancel(S)
    /\ call' = [call EXCEPT ![c] = [go EXCEPT !.pc = "gather", !.snap = S]]
    /\ UNCHANGED tail

\* Mutant of CancelActive: the chunks that wait are left alone.
CancelSpeakingOnly(c, m, go) ==
    LET S == {t \in ActiveIn(m) : st[t] = "speaking"} IN
    /\ S # {}
    /\ Cancel(S)
    /\ call' = [call EXCEPT ![c] = [go EXCEPT !.pc = "gather", !.snap = S]]
    /\ UNCHANGED tail

CancelActive(c, m, go) ==
    /\ ActiveIn(m) # {}
    /\ Cancel(ActiveIn(m))
    /\ call' = [call EXCEPT ![c] = [go EXCEPT !.pc = "gather",
                                              !.snap = ActiveIn(m)]]
    /\ UNCHANGED tail

\* Where a call goes on when its cancel_tts has returned.
AfterCancel == [text |-> "asr", audio |-> "asr", continue |-> "prefix",
                clear |-> "clear", cancel |-> "idle"]

\* Mutant of Gathered: the tails of all modes are reset.
GatheredDropsTails(c) ==
    /\ call[c].pc = "gather"
    /\ call[c].op \in DOMAIN AfterCancel
    /\ \A t \in call[c].snap : st[t] \in Over
    /\ tail' = [m \in Modes |-> NoTask]
    /\ IF call[c].op = "cancel"
       THEN Returns(c)
       ELSE call' = [call EXCEPT ![c].pc = AfterCancel[call[c].op], ![c].snap = {}]
    /\ UNCHANGED <<order, sel, hist, turnId, speech, provs>>

(***************************************************************************)
(* The part of cancel_tts after its gather.  It resets the tail of the     *)
(* mode that is selected now, which another caller may have changed.       *)
(***************************************************************************)
Gathered(c) ==
    /\ call[c].pc = "gather"
    /\ call[c].op \in DOMAIN AfterCancel
    /\ \A t \in call[c].snap : st[t] \in Over
    /\ tail' = [tail EXCEPT ![sel] = NoTask]
    /\ IF call[c].op = "cancel"
       THEN Returns(c)
       ELSE call' = [call EXCEPT ![c].pc = AfterCancel[call[c].op], ![c].snap = {}]
    /\ UNCHANGED <<order, sel, hist, turnId, speech, provs>>

CancelTts(c) ==
    /\ Ready(c, "cancel")
    /\ \/ CancelNothing(c, sel, IdleCall)
       \/ CancelActive(c, sel, Starts("cancel", sel))
    /\ UNCHANGED <<order, sel, hist, turnId, nTasks, chunk, voice, provs>>

(***************************************************************************)
(* clear_conversation.  The history it clears is again that of the mode    *)
(* selected when the cancellation has returned.                            *)
(***************************************************************************)
ClearNow(c, m) ==
    /\ Ready(c, "clear")
    /\ Select(m)
    /\ CancelNothing(c, m, IdleCall)
    /\ hist' = [hist EXCEPT ![m] = <<>>]
    /\ UNCHANGED <<turnId, nTasks, chunk, voice, provs>>

ClearWaits(c, m) ==
    /\ Ready(c, "clear")
    /\ Select(m)
    /\ CancelActive(c, m, Starts("clear", m))
    /\ UNCHANGED <<hist, turnId, nTasks, chunk, voice, provs>>

ClearAfterCancel(c) ==
    /\ call[c].pc = "clear"
    /\ hist' = [hist EXCEPT ![sel] = <<>>]
    /\ Returns(c)
    /\ UNCHANGED <<order, sel, turnId, tail, speech, provs>>

-----------------------------------------------------------------------------
(* Turns *)

StartTurn(c, op, m) ==
    /\ turnId[m] < MaxTurns
    /\ Select(m)
    /\ turnId' = [turnId EXCEPT ![m] = @ + 1]
    /\ LET go == [Starts(op, m) EXCEPT !.turn = turnId[m] + 1, !.pc = AfterCancel[op]]
       IN  CancelNothing(c, m, go) \/ CancelActive(c, m, go)
    /\ UNCHANGED <<hist, nTasks, chunk, voice, provs>>

\* handle_text_turn and handle_audio_turn, up to their speech recognition.
HandleTurn(c, op, m) ==
    /\ op \in {"text", "audio"}
    /\ Ready(c, op)
    /\ StartTurn(c, op, m)

\* handle_continue continues the last message, if the assistant said it.
CanContinue(m) == hist[m] # <<>> /\ hist[m][Len(hist[m])].role = "assistant"

HandleContinue(c, m) ==
    /\ Ready(c, "continue")
    /\ CanContinue(m)
    /\ StartTurn(c, "continue", m)

RejectContinue(c, m) ==
    /\ Ready(c, "continue")
    /\ ~CanContinue(m)
    /\ Select(m)
    /\ UNCHANGED <<hist, turnId, tail, speech, provs, call>>

\* The prefix is read after the cancellation; with the history gone by then,
\* messages[-1] raises IndexError to the caller.
TakePrefix(c) ==
    LET m == call[c].mode IN
    /\ call[c].pc = "prefix"
    /\ IF hist[m] = <<>>
       THEN Returns(c)
       ELSE call' = [call EXCEPT ![c].pc = "llm",
                                 ![c].base = hist[m][Len(hist[m])].text]
    /\ UNCHANGED <<order, sel, hist, turnId, tail, speech, provs>>

\* ASR delivers a final transcript; the LLM stream opens in the same step.
Transcribed(c) ==
    /\ call[c].pc = "asr"
    /\ hist' = [hist EXCEPT ![call[c].mode] =
                   Append(@, [role |-> "user", text |-> <<call[c].turn>>])]
    /\ Goto(c, "llm")
    /\ UNCHANGED <<order, sel, turnId, tail, speech, provs>>

EmptyTranscript(c) ==
    /\ call[c].pc = "asr"
    /\ Goto(c, "reporting")
    /\ UNCHANGED <<order, sel, hist, turnId, tail, speech, provs>>

\* Only handle_audio_turn guards its ASR; an exception of
\* transcribe_text_input leaves handle_text_turn.
AsrFails(c) ==
    /\ call[c].pc = "asr"
    /\ IF call[c].op = "audio" THEN Goto(c, "reporting") ELSE Returns(c)
    /\ UNCHANGED <<order, sel, hist, turnId, tail, speech, provs>>

\* A new task that awaits prev becomes the tail of the turn's mode.
CreateTask(c, prev) ==
    LET m == call[c].mode
        t == nTasks + 1
    IN  /\ nTasks < MaxTasks
        /\ nTasks' = t
        /\ chunk' = [chunk EXCEPT ![t] =
                        [mode |-> m, turn |-> call[c].turn, prev |-> prev]]
        /\ st' = [st EXCEPT ![t] = "waiting"]
        /\ tail' = [tail EXCEPT ![m] = t]
        /\ UNCHANGED voice

\* Mutant of StartTtsChunk: the task awaits nothing.
StartTtsChunkUnchained(c) == CreateTask(c, NoTask)

\* Mutant of StartTtsChunk: the tail is read after the new task is put there.
StartTtsChunkLateRead(c) == CreateTask(c, nTasks + 1)

\* _start_tts_chunk: the task awaits the tail that it replaces.
StartTtsChunk(c) == CreateTask(c, tail[call[c].mode])

\* should_flush_tts says that the buffered tokens make a chunk.
FlushChunk(c) ==
    /\ call[c].pc = "llm"
    /\ StartTtsChunk(c)
    /\ UNCHANGED <<order, sel, hist, turnId, provs, call>>

\* Mutant of RecordReply: a continued reply is appended as well.
RecordReplyAppends(c) ==
    /\ hist' = [hist EXCEPT ![call[c].mode] =
                   Append(@, [role |-> "assistant",
                              text |-> Append(call[c].base, call[c].turn)])]
    /\ Goto(c, "reporting")

\* The reply is recorded: appended after a user message, or put in place of
\* the message that is the last one now when the turn continues it.
RecordReply(c) ==
    LET m == call[c].mode
        reply == [role |-> "assistant", text |-> Append(call[c].base, call[c].turn)]
    IN  \/ /\ call[c].op # "continue"
           /\ hist' = [hist EXCEPT ![m] = Append(@, reply)]
           /\ Goto(c, "reporting")
        \/ /\ call[c].op = "continue"
           /\ hist[m] # <<>>
           /\ hist' = [hist EXCEPT ![m] = [@ EXCEPT ![Len(@)] = reply]]
           /\ Goto(c, "reporting")
        \/ /\ call[c].op = "continue"
           /\ hist[m] = <<>>
           /\ Goto(c, "failing")
           /\ UNCHANGED hist

\* The LLM stream ends; what is left in the buffer makes a last chunk.
EndOfReply(c) ==
    /\ call[c].pc = "llm"
    /\ StartTtsChunk(c) \/ UNCHANGED <<tail, speech>>
    /\ RecordReply(c)
    /\ UNCHANGED <<order, sel, turnId, provs>>

LlmFails(c) ==
    /\ call[c].pc = "llm"
    /\ Goto(c, "failing")
    /\ UNCHANGED <<order, sel, hist, turnId, tail, speech, provs>>

\* The last events are out: turn.metrics and turn.finished of a call that is
\* "reporting", turn.error and provider.error of one that is "failing".
CloseTurn(c) ==
    /\ call[c].pc \in {"reporting", "failing"}
    /\ Returns(c)
    /\ UNCHANGED <<order, sel, hist, turnId, tail, speech, provs>>

-----------------------------------------------------------------------------
(* TTS tasks *)

\* _stream_tts_after goes on when its predecessor ended without being
\* cancelled; _stream_tts takes the provider that is active now, whose thread
\* finds the model or loads it.
BeginSpeaking(t) ==
    /\ st[t] = "waiting"
    /\ \/ chunk[t].prev = NoTask
       \/ chunk[t].prev # NoTask /\ st[chunk[t].prev] = "done"
    /\ st' = [st EXCEPT ![t] = "speaking"]
    /\ voice' = [voice EXCEPT ![t] = [by |-> bundle, load |-> "loading"]]
    /\ UNCHANGED <<order, sel, hist, turnId, tail, nTasks, chunk, provs, call>>

\* The model is there.  Nothing asks whether the provider is still in use.
LoadEnds(t) ==
    /\ voice[t].load = "loading"
    /\ loaded' = [loaded EXCEPT ![voice[t].by] = TRUE]
    /\ voice' = [voice EXCEPT ![t].load = "loaded"]
    /\ UNCHANGED <<order, sel, hist, turnId, tail, nTasks, chunk, st, bundle,
                   strays, late, unloads, call>>

\* A stray loads the model or fails, and was the last of its provider or not.
StrayEnds(b) ==
    /\ b \in strays
    /\ strays' \in {strays, strays \ {b}}
    /\ \/ loaded' = [loaded EXCEPT ![b] = TRUE]
       \/ UNCHANGED loaded
    /\ UNCHANGED <<order, sel, hist, turnId, tail, speech, bundle, late, unloads,
                   call>>

\* The stream ends, or it (its load, an emit) raises and tts.error is emitted.
EndSpeaking(t) ==
    /\ st[t] = "speaking"
    /\ st' = [st EXCEPT ![t] = "done"]
    /\ voice' = [voice EXCEPT ![t] = NoVoice]
    /\ UNCHANGED <<order, sel, hist, turnId, tail, nTasks, chunk, provs, call>>

\* Awaiting a cancelled task raises CancelledError in the one that waits.
InheritCancel(t) ==
    /\ st[t] = "waiting"
    /\ chunk[t].prev # NoTask
    /\ st[chunk[t].prev] = "cancelled"
    /\ st' = [st EXCEPT ![t] = "cancelled"]
    /\ UNCHANGED <<order, sel, hist, turnId, tail, nTasks, chunk, voice,
                   provs, call>>

\* The CancelledError has unwound the task.  A thread that runs goes on; one
\* that the executor has not begun is withdrawn.
Unwind(t) ==
    /\ st[t] = "cancelling"
    /\ st' = [st EXCEPT ![t] = "cancelled"]
    /\ voice' = [voice EXCEPT ![t] = NoVoice]
    /\ \/ UNCHANGED strays
       \/ voice[t].load = "loading" /\ strays' = strays \cup {voice[t].by}
    /\ UNCHANGED <<order, sel, hist, turnId, tail, nTasks, chunk, bundle, loaded,
                   late, unloads, call>>

-----------------------------------------------------------------------------
(* Provider swap *)

\* self.providers is replaced; providers.updated is emitted next.
Swap(c, b, rec) ==
    /\ bundle' = b
    /\ call' = [call EXCEPT ![c] = [rec EXCEPT !.pc = "swapped", !.snap = {},
                                               !.old = bundle, !.new = b]]
    /\ UNCHANGED <<loaded, strays, late, unloads>>

(***************************************************************************)
(* The loop of update_providers over _states from position i on: modes     *)
(* without active tasks only lose their tail; at the first mode with some, *)
(* they are cancelled and gathered; after the last mode comes the swap.    *)
(* rec holds the locals of the call, rec.new the new bundle.               *)
(***************************************************************************)
\* Mutant of Busy: only the selected mode is looked at.
BusySelected(i) ==
    {k \in i .. Len(order) : order[k] = sel /\ ActiveIn(order[k]) # {}}

Busy(i) == {k \in i .. Len(order) : ActiveIn(order[k]) # {}}
DropTails(i, j) ==
    tail' = [m \in Modes |-> IF \E k \in (i .. j) \cap DOMAIN order : order[k] = m
                             THEN NoTask ELSE tail[m]]

SweepEnds(c, i, rec) ==
    /\ Busy(i) = {}
    /\ DropTails(i - 1, Len(order))
    /\ Swap(c, rec.new, rec)
    /\ UNCHANGED st

SweepWaits(c, i, rec) ==
    /\ \E k \in Busy(i) :
          /\ \A j \in Busy(i) : k <= j
          /\ DropTails(i - 1, k - 1)
          /\ Cancel(ActiveIn(order[k]))
          /\ call' = [call EXCEPT ![c] = [rec EXCEPT !.pc = "gather", !.next = k + 1,
                                                     !.snap = ActiveIn(order[k])]]
    /\ UNCHANGED provs

Sweep(c, i, rec) == SweepEnds(c, i, rec) \/ SweepWaits(c, i, rec)

UpdateProviders(c, b) ==
    /\ Ready(c, "reload")
    /\ b \in SwapTo[bundle]
    /\ Sweep(c, 1, [Starts("reload", sel) EXCEPT !.new = b, !.size = Len(order)])
    /\ UNCHANGED <<order, sel, hist, turnId, nTasks, chunk, voice>>

\* update_providers(cancel_active_tts=False)
UpdateProvidersKeepTts(c, b) ==
    /\ Ready(c, "reload_keep")
    /\ b \in SwapTo[bundle]
    /\ Swap(c, b, Starts("reload_keep", sel))
    /\ UNCHANGED <<order, sel, hist, turnId, tail, speech>>

\* The gather of one mode is over; the dict iterator raises RuntimeError when
\* a mode was added meanwhile.
SweepGathered(c) ==
    /\ call[c].pc = "gather"
    /\ call[c].op = "reload"
    /\ \A t \in call[c].snap : st[t] \in Over
    /\ IF Len(order) = call[c].size
       THEN Sweep(c, call[c].next, call[c])
       ELSE /\ DropTails(call[c].next - 1, call[c].next - 1)
            /\ Returns(c)
            /\ UNCHANGED <<st, provs>>
    /\ UNCHANGED <<order, sel, hist, turnId, nTasks, chunk, voice>>

\* Mutant of ScheduleUnload: the arguments of unload_replaced are swapped.
ScheduleUnloadSwapped(c) ==
    /\ call[c].pc = "swapped"
    /\ unloads' = unloads \cup {<<call[c].new, call[c].old>>}
    /\ Returns(c)
    /\ UNCHANGED <<order, sel, hist, turnId, tail, speech, bundle, loaded, strays,
                   late>>

\* providers.updated is out; the unload is left to a background task.
ScheduleUnload(c) ==
    /\ call[c].pc = "swapped"
    /\ unloads' = unloads \cup {<<call[c].old, call[c].new>>}
    /\ Returns(c)
    /\ UNCHANGED <<order, sel, hist, turnId, tail, speech, bundle, loaded, strays,
                   late>>

\* ProviderBundle.unload_replaced, for the TTS provider.  It does not wait for
\* a thread that loads the model: such a load is late.
UnloadReplaced(p) ==
    /\ p \in unloads
    /\ unloads' = unloads \ {p}
    /\ \/ p[1] = p[2] /\ UNCHANGED <<loaded, late>>
       \/ /\ p[1] # p[2]
          /\ loaded' = [loaded EXCEPT ![p[1]] = FALSE]
          /\ late' = IF Loading(p[1]) THEN late \cup {p[1]} ELSE late \ {p[1]}
    /\ UNCHANGED <<order, sel, hist, turnId, tail, speech, bundle, strays, call>>

-----------------------------------------------------------------------------
CallerStep(c) ==
    \/ \E m \in Modes :
          \/ SetSystemPrompt(c, m)
          \/ MessagesForMode(c, m)
          \/ ClearNow(c, m)
          \/ ClearWaits(c, m)
          \/ \E op \in {"text", "audio"} : HandleTurn(c, op, m)
          \/ HandleContinue(c, m)
          \/ RejectContinue(c, m)
    \/ CancelTts(c)
    \/ Gathered(c)
    \/ ClearAfterCancel(c)
    \/ TakePrefix(c)
    \/ Transcribed(c)
    \/ EmptyTranscript(c)
    \/ AsrFails(c)
    \/ FlushChunk(c)
    \/ EndOfReply(c)
    \/ LlmFails(c)
    \/ CloseTurn(c)
    \/ \E b \in Bundles : UpdateProviders(c, b) \/ UpdateProvidersKeepTts(c, b)
    \/ SweepGathered(c)
    \/ ScheduleUnload(c)

TaskStep(t) ==
    \/ BeginSpeaking(t) \/ EndSpeaking(t) \/ InheritCancel(t) \/ Unwind(t)
    \/ LoadEnds(t)

Next ==
    \/ \E c \in Callers : CallerStep(c)
    \/ \E t \in TaskId : TaskStep(t)
    \/ \E b \in Bundles : StrayEnds(b)
    \/ \E p \in Bundles \X Bundles : UnloadReplaced(p)

Spec == Init /\ [][Next]_vars

(***************************************************************************)
(* The event loop runs every coroutine that is ready.  Nothing here lets a *)
(* provider answer: an LLM, ASR or TTS that hangs is a behaviour.          *)
(***************************************************************************)
LoopFairness ==
    /\ \A c \in Callers : WF_vars(Gathered(c) \/ SweepGathered(c)
                                   \/ ClearAfterCancel(c) \/ TakePrefix(c)
                                   \/ CloseTurn(c) \/ ScheduleUnload(c))
    /\ \A t \in TaskId : WF_vars(BeginSpeaking(t) \/ InheritCancel(t) \/ Unwind(t))
    /\ WF_vars(\E p \in Bundles \X Bundles : UnloadReplaced(p))

\* Every TTS stream ends.
TtsFairness == \A t \in TaskId : WF_vars(EndSpeaking(t))

LoopSpec == Spec /\ LoopFairness

-----------------------------------------------------------------------------
(* Properties *)

CallType ==
    [pc : {"idle", "gather", "asr", "prefix", "clear", "llm", "reporting",
           "failing", "swapped"},
     op : Ops \cup {"none"}, mode : Modes, turn : Nat, snap : SUBSET TaskId,
     base : Seq(Nat), next : Nat, size : Nat, 
     old : Bundles \cup {NoBundle}, new : Bundles \cup {NoBundle}]

\* Every variable holds a value of its kind, and a task awaits an older one,
\* so that no tasks of a chain await each other.
TypeOK ==
    /\ order \in Seq(Modes)
    /\ sel \in Modes
    /\ hist \in [Modes -> Seq(Message)]
    /\ turnId \in [Modes -> Nat]
    /\ tail \in [Modes -> 0 .. nTasks]
    /\ nTasks \in 0 .. MaxTasks
    /\ chunk \in [TaskId -> [mode : Modes, turn : Nat, prev : 0 .. MaxTasks]]
    /\ \A t \in TaskId : chunk[t].prev < t
    /\ st \in [TaskId -> Status]
    /\ voice \in [TaskId -> Voice]
    /\ bundle \in Bundles
    /\ loaded \in [Bundles -> BOOLEAN]
    /\ strays \in SUBSET Bundles
    /\ late \in SUBSET Bundles
    /\ unloads \in SUBSET (Bundles \X Bundles)
    /\ call \in [Callers -> CallType]

(***************************************************************************)
(* While a cancellation waits in its gather, nothing selects another mode  *)
(* under a call that resets the selected mode's tail, and no chunk is      *)
(* handed over in the mode whose tail the call is about to reset.  The     *)
(* code does not see to either; see the README for what happens otherwise. *)
(***************************************************************************)
Gathers(d) == IF call[d].op = "reload" THEN order[call[d].next - 1] ELSE sel

Calm ==
    \A d \in Callers : call[d].pc = "gather" /\ call'[d] = call[d] =>
        /\ call[d].op # "reload" => sel' = sel
        /\ ActiveIn(Gathers(d))' \subseteq ActiveIn(Gathers(d))

CalmSpec == Init /\ [][Next /\ Calm]_vars

\* At most one coroutine calls the pipeline: the receive loop of the session
\* recipe, which awaits every handle_message.
Serial == \A c, d \in Callers : c = d

Heard == {"speaking", "done"}

(***************************************************************************)
(* The chunks of a mode are spoken one at a time and in the order the LLM  *)
(* produced them: a task that speaks or has spoken leaves no older task of *)
(* its mode unfinished.  The chain of awaited predecessors must guarantee  *)
(* it across turns, cancellations and resets of tts_tail.                  *)
(***************************************************************************)
SpeechInOrder ==
    \A t, u \in TaskId :
        (t < u /\ chunk[t].mode = chunk[u].mode /\ st[u] \in Heard)
            => st[t] \notin Unfinished

(***************************************************************************)
(* A turn silences the earlier turns of its mode: what waits or speaks     *)
(* belongs to the latest turn.                                             *)
(***************************************************************************)
CurrentTurnOnly ==
    \A t \in TaskId : st[t] \in {"waiting", "speaking"}
                         => chunk[t].turn = turnId[chunk[t].mode]

(***************************************************************************)
(* In every mode an assistant message answers the user message before it,  *)
(* and the turns that wrote a message are in order: continuing a reply     *)
(* extends it in place and a failed turn leaves no half reply.             *)
(***************************************************************************)
HistoryPaired ==
    \A m \in Modes : \A i \in DOMAIN hist[m] :
        LET text == hist[m][i].text IN
        /\ hist[m][i].role = "assistant" =>
              i > 1 /\ hist[m][i-1] = [role |-> "user", text |-> <<text[1]>>]
        /\ \A j, k \in DOMAIN text : j < k => text[j] < text[k]

(***************************************************************************)
(* No task still speaks with a provider that update_providers replaced,    *)
(* and none speaks with a model that a background unload has taken down.   *)
(***************************************************************************)
VoiceIsActive ==
    \A t \in TaskId : st[t] = "speaking" =>
        /\ voice[t].by = bundle
        /\ voice[t].load = "loaded" => loaded[bundle]

(***************************************************************************)
(* A call that cancels gets past its gather even when the TTS provider     *)
(* never answers again: barge-in does not wait for synthesis.              *)
(***************************************************************************)
CancellationReturns ==
    \A c \in Callers : call[c].pc = "gather" ~> call[c].pc # "gather"

(***************************************************************************)
(* When TTS streams end, every chunk handed to TTS ends: none waits        *)
(* forever for a predecessor, however turns and cancellations interleave.  *)
(***************************************************************************)
ChunksSettle ==
    TtsFairness => \A t \in TaskId : st[t] = "waiting" ~> st[t] \in Over

\* A provider that was replaced is unloaded, unless it comes back into use or
\* a thread was still loading it when its unload ran.
ReplacedUnloaded ==
    \A b \in Bundles :
        (loaded[b] /\ bundle # b) ~> (~loaded[b] \/ bundle = b \/ b \in late)

(***************************************************************************)
(* For a serial caller the pipeline is one speech queue per mode: see      *)
(* SpeechQueue.  A task being cancelled is no longer part of the queue.    *)
(***************************************************************************)
ChunksOf(m, status) ==
    {[id |-> t, turn |-> chunk[t].turn] :
        t \in {u \in TaskId : st[u] = status /\ chunk[u].mode = m}}

Queue == INSTANCE SpeechQueue WITH
            turn <- turnId,
            handed <- nTasks,
            queue <- [m \in Modes |-> ChunksOf(m, "waiting")],
            speaking <- [m \in Modes |-> ChunksOf(m, "speaking")]

\* Every step of the pipeline is a step of the queues or leaves them alone.
ImplementsQueue == Queue!Spec

(***************************************************************************)
(* What the documentation says                                             *)
(***************************************************************************)
\* README and session: tts.cancel cancels in-flight TTS synthesis, so that
\* nothing speaks when it returns.
CancelSilences ==
    [][\A c \in Callers :
          (call[c].op = "cancel" /\ call'[c].pc = "idle")
              => \A t \in TaskId : st'[t] # "speaking"]_vars
=============================================================================
