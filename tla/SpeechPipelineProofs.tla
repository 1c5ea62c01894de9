------------------------ MODULE SpeechPipelineProofs ------------------------
(***************************************************************************)
(* What SpeechPipeline keeps, however many coroutines call it: types, and  *)
(* the chain of TTS tasks.                                                 *)
(***************************************************************************)
EXTENDS SpeechPipeline, SequenceTheorems, TLAPS

USE DEF NoTask, TaskId

-----------------------------------------------------------------------------
(* Lemmas on the operators the actions are built from. *)

\* Replacing the last element of a sequence keeps its element type and length.
LEMMA ReplaceLast ==
    ASSUME NEW S, NEW s \in Seq(S), s # <<>>, NEW e \in S
    PROVE  /\ [s EXCEPT ![Len(s)] = e] \in Seq(S)
           /\ Len(s) \in DOMAIN s
           /\ s[Len(s)] \in S
<1>1. Len(s) \in 1 .. Len(s)
  BY EmptySeq
<1>2. s \in [1 .. Len(s) -> S]
  OBVIOUS
<1>3. [s EXCEPT ![Len(s)] = e] \in [1 .. Len(s) -> S]
  BY <1>1, <1>2
<1>4. QED
  BY <1>1, <1>2, <1>3

\* Touching a mode leaves a sequence of modes that the old order begins.
LEMMA TouchType ==
    ASSUME order \in Seq(Modes), NEW m \in Modes, Touch(m)
    PROVE  order' \in Seq(Modes)
BY DEF Touch

\* The locals of a call that starts are well typed.
LEMMA StartsType ==
    ASSUME NEW op \in Ops, NEW m \in Modes
    PROVE  Starts(op, m) \in CallType /\ IdleCall \in CallType
<1>1. <<>> \in Seq(Nat) /\ {} \in SUBSET TaskId
  OBVIOUS
<1>2. IdleCall \in CallType
  BY <1>1, ConstantsAssumption DEF IdleCall, CallType, Ops
<1>3. Starts(op, m) \in CallType
  BY <1>2 DEF Starts, CallType
<1>4. QED
  BY <1>2, <1>3

\* Handing over a chunk keeps the task table well typed.
LEMMA ChunkType ==
    ASSUME TypeOK, NEW c \in Callers, StartTtsChunk(c)
    PROVE  /\ nTasks' \in 0 .. MaxTasks
           /\ chunk' \in [TaskId -> [mode : Modes, turn : Nat, prev : 0 .. MaxTasks]]
           /\ \A t \in TaskId : chunk'[t].prev < t
           /\ st' \in [TaskId -> Status]
           /\ tail' \in [Modes -> 0 .. nTasks']
           /\ voice' = voice
<1>0. call[c] \in CallType /\ nTasks \in 0 .. MaxTasks /\ MaxTasks \in Nat
  BY ConstantsAssumption DEF TypeOK
<1>1. /\ call[c].mode \in Modes
      /\ call[c].turn \in Nat
      /\ nTasks + 1 \in TaskId
      /\ nTasks' = nTasks + 1
  BY <1>0 DEF StartTtsChunk, CreateTask, CallType
<1> DEFINE new == [mode |-> call[c].mode, turn |-> call[c].turn,
                   prev |-> tail[call[c].mode]]
<1>2. tail[call[c].mode] \in 0 .. nTasks /\ tail[call[c].mode] \in 0 .. MaxTasks
  BY <1>0, <1>1 DEF TypeOK
<1>3. chunk' = [chunk EXCEPT ![nTasks + 1] = new]
  BY DEF StartTtsChunk, CreateTask
<1>4. chunk' \in [TaskId -> [mode : Modes, turn : Nat, prev : 0 .. MaxTasks]]
  BY <1>1, <1>2, <1>3 DEF TypeOK
<1>5. \A t \in TaskId : chunk'[t].prev < t
  BY <1>0, <1>1, <1>2, <1>3 DEF TypeOK
<1>6. st' \in [TaskId -> Status]
  BY <1>1 DEF TypeOK, StartTtsChunk, CreateTask, Status
<1>7. tail' \in [Modes -> 0 .. nTasks']
  BY <1>0, <1>1 DEF TypeOK, StartTtsChunk, CreateTask
<1>8. nTasks' \in 0 .. MaxTasks /\ voice' = voice
  BY <1>0, <1>1 DEF StartTtsChunk, CreateTask
<1>9. QED
  BY <1>4, <1>5, <1>6, <1>7, <1>8

\* A pass of the sweep keeps what it changes well typed.
LEMMA SweepType ==
    ASSUME TypeOK, NEW c \in Callers, NEW i \in Nat, NEW rec \in CallType,
           rec.new \in Bundles, Sweep(c, i, rec)
    PROVE  /\ tail' \in [Modes -> 0 .. nTasks]
           /\ st' \in [TaskId -> Status]
           /\ bundle' \in Bundles
           /\ UNCHANGED <<loaded, strays, late, unloads>>
           /\ call' \in [Callers -> CallType]
<1>1. CASE SweepEnds(c, i, rec)
  <2>1. [rec EXCEPT !.pc = "swapped", !.snap = {}, !.old = bundle, !.new = rec.new]
          \in CallType
    BY DEF CallType, TypeOK
  <2>2. call' \in [Callers -> CallType]
    BY <1>1, <2>1 DEF SweepEnds, Swap, TypeOK
  <2>3. tail' \in [Modes -> 0 .. nTasks]
    BY <1>1, ConstantsAssumption DEF SweepEnds, DropTails, TypeOK
  <2>4. QED
    BY <1>1, <2>2, <2>3 DEF SweepEnds, Swap, TypeOK
<1>2. CASE SweepWaits(c, i, rec)
  <2>1. PICK k \in Busy(i) :
          /\ DropTails(i - 1, k - 1)
          /\ Cancel(ActiveIn(order[k]))
          /\ call' = [call EXCEPT ![c] = [rec EXCEPT !.pc = "gather", !.next = k + 1,
                                                     !.snap = ActiveIn(order[k])]]
    BY <1>2 DEF SweepWaits
  <2>2. k \in Nat
    BY DEF Busy, TypeOK
  <2>3. [rec EXCEPT !.pc = "gather", !.next = k + 1, !.snap = ActiveIn(order[k])]
          \in CallType
    <3>1. ActiveIn(order[k]) \in SUBSET TaskId /\ k + 1 \in Nat
      BY <2>2 DEF ActiveIn
    <3>2. QED
      BY <3>1 DEF CallType
  <2>4. call' \in [Callers -> CallType]
    BY <2>1, <2>3 DEF TypeOK
  <2>5. tail' \in [Modes -> 0 .. nTasks]
    BY <2>1, ConstantsAssumption DEF DropTails, TypeOK
  <2>6. st' \in [TaskId -> Status]
    BY <2>1 DEF Cancel, TypeOK, Status
  <2>7. QED
    BY <1>2, <2>4, <2>5, <2>6 DEF SweepWaits, TypeOK, provs
<1>3. QED
  BY <1>1, <1>2 DEF Sweep

PcsInside == {"asr", "prefix", "clear", "llm", "reporting", "failing"}

\* A call that returns keeps the locals of all calls well typed.
LEMMA ReturnsType ==
    ASSUME TypeOK, NEW c \in Callers, Returns(c)
    PROVE  call' \in [Callers -> CallType]
<1>1. IdleCall \in CallType
  BY StartsType, ConstantsAssumption DEF Ops
<1>2. QED
  BY <1>1 DEF Returns, TypeOK

\* So does one that goes on at another point of its code.
LEMMA GotoType ==
    ASSUME TypeOK, NEW c \in Callers, NEW pc \in PcsInside, Goto(c, pc)
    PROVE  call' \in [Callers -> CallType]
<1>1. call[c] \in CallType
  BY DEF TypeOK
<1>2. [call[c] EXCEPT !.pc = pc] \in CallType
  BY <1>1 DEF CallType, PcsInside
<1>3. QED
  BY <1>2 DEF Goto, TypeOK

\* The two ways cancel_tts starts keep what they change well typed.
LEMMA CancelType ==
    ASSUME TypeOK, NEW c \in Callers, NEW m \in Modes, NEW go \in CallType,
           CancelNothing(c, m, go) \/ CancelActive(c, m, go)
    PROVE  /\ tail' \in [Modes -> 0 .. nTasks]
           /\ st' \in [TaskId -> Status]
           /\ call' \in [Callers -> CallType]
<1>1. ActiveIn(m) \in SUBSET TaskId
  BY DEF ActiveIn
<1>2. [go EXCEPT !.pc = "gather", !.snap = ActiveIn(m)] \in CallType
  BY <1>1 DEF CallType
<1>3. CASE CancelNothing(c, m, go)
  BY <1>3, ConstantsAssumption DEF CancelNothing, TypeOK
<1>4. CASE CancelActive(c, m, go)
  <2>1. call' \in [Callers -> CallType]
    BY <1>2, <1>4 DEF CancelActive, TypeOK
  <2>2. st' \in [TaskId -> Status]
    BY <1>4 DEF CancelActive, Cancel, TypeOK, Status
  <2>3. QED
    BY <1>4, <2>1, <2>2 DEF CancelActive, TypeOK
<1>5. QED
  BY <1>3, <1>4

-----------------------------------------------------------------------------
(* Type correctness. *)

LEMMA InitType == Init => TypeOK
<1> SUFFICES ASSUME Init PROVE TypeOK
  OBVIOUS
<1>1. IdleCall \in CallType
  BY StartsType, ConstantsAssumption DEF Ops
<1>2. call \in [Callers -> CallType]
  BY <1>1 DEF Init
<1>3. order \in Seq(Modes) /\ hist \in [Modes -> Seq(Message)]
  BY ConstantsAssumption DEF Init
<1>4. chunk \in [TaskId -> [mode : Modes, turn : Nat, prev : 0 .. MaxTasks]]
  BY ConstantsAssumption DEF Init
<1>5. /\ nTasks = 0 /\ MaxTasks \in Nat
      /\ tail \in [Modes -> 0 .. nTasks]
      /\ \A t \in TaskId : chunk[t].prev < t
  BY ConstantsAssumption DEF Init
<1>6. voice \in [TaskId -> Voice] /\ st \in [TaskId -> Status]
  BY DEF Init, Voice, Status
<1>7. QED
  BY <1>2, <1>3, <1>4, <1>5, <1>6, ConstantsAssumption DEF Init, TypeOK

\* The type of a caller's step that starts a call.
LEMMA StartStepType ==
    ASSUME TypeOK, NEW c \in Callers, NEW m \in Modes,
           \/ SetSystemPrompt(c, m) \/ MessagesForMode(c, m)
           \/ ClearNow(c, m) \/ ClearWaits(c, m)
           \/ \E op \in {"text", "audio"} : HandleTurn(c, op, m)
           \/ HandleContinue(c, m) \/ RejectContinue(c, m)
    PROVE  TypeOK'
<1>1. CASE SetSystemPrompt(c, m) \/ MessagesForMode(c, m) \/ RejectContinue(c, m)
  <2>1. order' \in Seq(Modes) /\ sel' \in Modes
    BY <1>1, TouchType
       DEF SetSystemPrompt, MessagesForMode, RejectContinue, Select, TypeOK
  <2>2. QED
    BY <1>1, <2>1 DEF SetSystemPrompt, MessagesForMode, RejectContinue, Select,
                      TypeOK, speech, provs
<1>2. CASE ClearNow(c, m) \/ ClearWaits(c, m)
  <2>1. order' \in Seq(Modes) /\ sel' \in Modes
    BY <1>2, TouchType DEF ClearNow, ClearWaits, Select, TypeOK
  <2>2. Starts("clear", m) \in CallType /\ IdleCall \in CallType
    BY StartsType DEF Ops
  <2>3. /\ tail' \in [Modes -> 0 .. nTasks]
        /\ st' \in [TaskId -> Status]
        /\ call' \in [Callers -> CallType]
    BY <1>2, <2>2, CancelType DEF ClearNow, ClearWaits
  <2>4. hist' \in [Modes -> Seq(Message)]
    <3>1. <<>> \in Seq(Message)
      OBVIOUS
    <3>2. QED
      BY <1>2, <3>1 DEF ClearNow, ClearWaits, TypeOK
  <2>5. QED
    BY <1>2, <2>1, <2>3, <2>4 DEF ClearNow, ClearWaits, TypeOK, provs
<1>3. ASSUME NEW op \in {"text", "audio", "continue"}, StartTurn(c, op, m)
      PROVE  TypeOK'
  <2>1. order' \in Seq(Modes) /\ sel' \in Modes
    BY <1>3, TouchType DEF StartTurn, Select, TypeOK
  <2>2. turnId[m] + 1 \in Nat /\ turnId' \in [Modes -> Nat]
    BY <1>3 DEF StartTurn, TypeOK
  <2>3. Starts(op, m) \in CallType
    BY <1>3, StartsType DEF Ops
  <2>4. [Starts(op, m) EXCEPT !.turn = turnId[m] + 1, !.pc = AfterCancel[op]] \in CallType
    <3>1. AfterCancel[op] \in {"asr", "prefix"}
      BY <1>3 DEF AfterCancel
    <3>2. QED
      BY <2>2, <2>3, <3>1 DEF CallType
  <2>5. /\ tail' \in [Modes -> 0 .. nTasks]
        /\ st' \in [TaskId -> Status]
        /\ call' \in [Callers -> CallType]
    BY <1>3, <2>4, CancelType DEF StartTurn
  <2>6. QED
    BY <1>3, <2>1, <2>2, <2>5 DEF StartTurn, TypeOK, provs
<1>4. QED
  BY <1>1, <1>2, <1>3 DEF HandleTurn, HandleContinue

\* The type of a step by which a call goes on.
LEMMA GoOnType ==
    ASSUME TypeOK, NEW c \in Callers,
           \/ CancelTts(c) \/ Gathered(c) \/ ClearAfterCancel(c) \/ TakePrefix(c)
           \/ Transcribed(c) \/ EmptyTranscript(c) \/ AsrFails(c)
           \/ FlushChunk(c) \/ EndOfReply(c) \/ LlmFails(c) \/ CloseTurn(c)
    PROVE  TypeOK'
<1> USE DEF speech, provs
<1>0. call[c] \in CallType /\ call[c].mode \in Modes /\ call[c].turn \in Nat
      /\ call[c].base \in Seq(Nat)
  BY DEF TypeOK, CallType
<1>1. CASE CancelTts(c)
  <2>1. Starts("cancel", sel) \in CallType /\ IdleCall \in CallType /\ sel \in Modes
    BY StartsType DEF Ops, TypeOK
  <2>2. /\ tail' \in [Modes -> 0 .. nTasks]
        /\ st' \in [TaskId -> Status]
        /\ call' \in [Callers -> CallType]
    BY <1>1, <2>1, CancelType DEF CancelTts
  <2>3. QED
    BY <1>1, <2>2 DEF CancelTts, TypeOK
<1>2. CASE Gathered(c)
  <2>1. call' \in [Callers -> CallType]
    <3>1. CASE call[c].op = "cancel"
      <4>1. Returns(c)
        BY <1>2, <3>1 DEF Gathered
      <4>2. QED
        BY <4>1, ReturnsType
    <3>2. CASE call[c].op # "cancel"
      <4>1. AfterCancel[call[c].op] \in {"asr", "prefix", "clear"}
        BY <1>2, <3>2 DEF Gathered, AfterCancel
      <4>2. [call[c] EXCEPT !.pc = AfterCancel[call[c].op], !.snap = {}] \in CallType
        BY <1>0, <4>1 DEF CallType
      <4>3. QED
        BY <1>2, <3>2, <4>2 DEF Gathered, TypeOK
    <3>3. QED
      BY <3>1, <3>2
  <2>2. tail' \in [Modes -> 0 .. nTasks]
    BY <1>2, ConstantsAssumption DEF Gathered, TypeOK
  <2>3. QED
    BY <1>2, <2>1, <2>2 DEF Gathered, TypeOK
<1>3. CASE ClearAfterCancel(c)
  <2>1. call' \in [Callers -> CallType]
    BY <1>3, ReturnsType DEF ClearAfterCancel
  <2>2. hist' \in [Modes -> Seq(Message)]
    <3>1. <<>> \in Seq(Message)
      OBVIOUS
    <3>2. QED
      BY <1>3, <3>1 DEF ClearAfterCancel, TypeOK
  <2>3. QED
    BY <1>3, <2>1, <2>2 DEF ClearAfterCancel, TypeOK
<1>4. CASE TakePrefix(c)
  <2>1. call' \in [Callers -> CallType]
    <3>1. CASE hist[call[c].mode] = <<>>
      BY <1>4, <3>1, ReturnsType DEF TakePrefix
    <3>2. CASE hist[call[c].mode] # <<>>
      <4> DEFINE h == hist[call[c].mode]
      <4>1. h[Len(h)] \in Message
        BY <1>0, <3>2, ReplaceLast DEF TypeOK
      <4>2. [call[c] EXCEPT !.pc = "llm", !.base = h[Len(h)].text] \in CallType
        BY <1>0, <4>1 DEF Message, CallType
      <4>3. QED
        BY <1>4, <3>2, <4>2 DEF TakePrefix, TypeOK
    <3>3. QED
      BY <3>1, <3>2
  <2>2. QED
    BY <1>4, <2>1 DEF TakePrefix, TypeOK
<1>5. CASE Transcribed(c)
  <2>1. [role |-> "user", text |-> <<call[c].turn>>] \in Message
    BY <1>0 DEF Message
  <2>2. hist' \in [Modes -> Seq(Message)]
    BY <1>0, <1>5, <2>1 DEF Transcribed, TypeOK
  <2>3. call' \in [Callers -> CallType]
    BY <1>5, GotoType DEF Transcribed, PcsInside
  <2>4. QED
    BY <1>5, <2>2, <2>3 DEF Transcribed, TypeOK
<1>6. CASE EmptyTranscript(c) \/ AsrFails(c) \/ LlmFails(c) \/ CloseTurn(c)
  <2>1. call' \in [Callers -> CallType]
    <3>1. Returns(c) \/ Goto(c, "reporting") \/ Goto(c, "failing")
      BY <1>6 DEF EmptyTranscript, AsrFails, LlmFails, CloseTurn
    <3>2. QED
      BY <3>1, ReturnsType, GotoType DEF PcsInside
  <2>2. QED
    BY <1>6, <2>1 DEF EmptyTranscript, AsrFails, LlmFails, CloseTurn, TypeOK
<1>7. CASE FlushChunk(c)
  BY <1>7, ChunkType DEF FlushChunk, TypeOK
<1>8. CASE EndOfReply(c)
  <2> DEFINE m == call[c].mode
             reply == [role |-> "assistant", text |-> Append(call[c].base, call[c].turn)]
  <2>1. reply \in Message
    BY <1>0 DEF Message
  <2>2. hist' \in [Modes -> Seq(Message)]
    <3>1. hist[m] \in Seq(Message)
      BY <1>0 DEF TypeOK
    <3>2. Append(hist[m], reply) \in Seq(Message)
      BY <2>1, <3>1
    <3>3. hist[m] # <<>> => [hist[m] EXCEPT ![Len(hist[m])] = reply] \in Seq(Message)
      BY <2>1, <3>1, ReplaceLast
    <3>4. \/ hist' = [hist EXCEPT ![m] = Append(hist[m], reply)]
          \/ hist[m] # <<>>
             /\ hist' = [hist EXCEPT ![m] = [hist[m] EXCEPT ![Len(hist[m])] = reply]]
          \/ hist' = hist
      BY <1>0, <1>8 DEF EndOfReply, RecordReply, TypeOK
    <3>5. QED
      BY <3>2, <3>3, <3>4 DEF TypeOK
  <2>3. call' \in [Callers -> CallType]
    <3>1. Goto(c, "reporting") \/ Goto(c, "failing")
      BY <1>8 DEF EndOfReply, RecordReply
    <3>2. QED
      BY <3>1, GotoType DEF PcsInside
  <2>4. QED
    BY <1>8, <2>2, <2>3, ChunkType DEF EndOfReply, TypeOK
<1>9. QED
  BY <1>1, <1>2, <1>3, <1>4, <1>5, <1>6, <1>7, <1>8

\* The bundles a call of update_providers holds while it is in it.
SwapLocals ==
    \A c \in Callers :
        /\ call[c].pc = "gather" /\ call[c].op = "reload" => call[c].new \in Bundles
        /\ call[c].pc = "swapped" => call[c].old \in Bundles /\ call[c].new \in Bundles

\* The type of a step of update_providers.
LEMMA SwapStepType ==
    ASSUME TypeOK, SwapLocals, NEW c \in Callers,
           \/ \E b \in Bundles : UpdateProviders(c, b) \/ UpdateProvidersKeepTts(c, b)
           \/ SweepGathered(c) \/ ScheduleUnload(c)
    PROVE  TypeOK'
<1>0. call[c] \in CallType
  BY DEF TypeOK
<1>1. ASSUME NEW b \in Bundles, UpdateProviders(c, b) PROVE TypeOK'
  <2>1. Len(order) \in Nat /\ Starts("reload", sel) \in CallType
    BY StartsType DEF TypeOK, Ops
  <2> DEFINE rec == [Starts("reload", sel) EXCEPT !.new = b, !.size = Len(order)]
  <2>2. rec \in CallType /\ rec.new = b
    BY <2>1 DEF CallType
  <2>3. Sweep(c, 1, rec)
    BY <1>1 DEF UpdateProviders
  <2> HIDE DEF rec
  <2>4. /\ tail' \in [Modes -> 0 .. nTasks]
        /\ st' \in [TaskId -> Status]
        /\ bundle' \in Bundles
        /\ UNCHANGED <<loaded, strays, late, unloads>>
        /\ call' \in [Callers -> CallType]
    BY <2>2, <2>3, SweepType
  <2>5. QED
    BY <1>1, <2>4 DEF UpdateProviders, TypeOK
<1>2. ASSUME NEW b \in Bundles, UpdateProvidersKeepTts(c, b) PROVE TypeOK'
  <2>1. Starts("reload_keep", sel) \in CallType
    BY StartsType DEF TypeOK, Ops
  <2>2. [Starts("reload_keep", sel) EXCEPT !.pc = "swapped", !.snap = {},
                                           !.old = bundle, !.new = b] \in CallType
    BY <2>1 DEF CallType, TypeOK
  <2>3. call' \in [Callers -> CallType]
    BY <1>2, <2>2 DEF UpdateProvidersKeepTts, Swap, TypeOK
  <2>4. QED
    BY <1>2, <2>3 DEF UpdateProvidersKeepTts, Swap, TypeOK, speech
<1>3. CASE SweepGathered(c)
  <2>1. CASE Len(order) = call[c].size
    <3>1. Sweep(c, call[c].next, call[c])
      BY <1>3, <2>1 DEF SweepGathered
    <3>2. call[c].next \in Nat /\ call[c].new \in Bundles
      BY <1>0, <1>3 DEF CallType, SweepGathered, SwapLocals
    <3>3. /\ tail' \in [Modes -> 0 .. nTasks]
          /\ st' \in [TaskId -> Status]
          /\ bundle' \in Bundles
          /\ UNCHANGED <<loaded, strays, late, unloads>>
          /\ call' \in [Callers -> CallType]
      BY <1>0, <3>1, <3>2, SweepType
    <3>4. QED
      BY <1>3, <3>3 DEF SweepGathered, TypeOK
  <2>2. CASE Len(order) # call[c].size
    <3>1. Returns(c) /\ UNCHANGED <<st, provs>>
          /\ DropTails(call[c].next - 1, call[c].next - 1)
      BY <1>3, <2>2 DEF SweepGathered
    <3>2. call' \in [Callers -> CallType]
      BY <3>1, ReturnsType
    <3>3. tail' \in [Modes -> 0 .. nTasks]
      BY <3>1, ConstantsAssumption DEF DropTails, TypeOK
    <3>4. QED
      BY <1>3, <3>1, <3>2, <3>3 DEF SweepGathered, TypeOK, provs
  <2>3. QED
    BY <2>1, <2>2
<1>4. CASE ScheduleUnload(c)
  <2>1. call' \in [Callers -> CallType]
    BY <1>4, ReturnsType DEF ScheduleUnload
  <2>2. unloads' \in SUBSET (Bundles \X Bundles)
    BY <1>4 DEF ScheduleUnload, SwapLocals, TypeOK
  <2>3. QED
    BY <1>4, <2>1, <2>2 DEF ScheduleUnload, TypeOK, speech
<1>5. QED
  BY <1>1, <1>2, <1>3, <1>4

\* The type of a step of a TTS task, of a stray thread and of an unload.
LEMMA BackgroundType ==
    ASSUME TypeOK,
           \/ \E t \in TaskId : TaskStep(t)
           \/ \E b \in Bundles : StrayEnds(b)
           \/ \E p \in Bundles \X Bundles : UnloadReplaced(p)
    PROVE  TypeOK'
<1>1. ASSUME NEW t \in TaskId, TaskStep(t) PROVE TypeOK'
  <2>0. /\ NoVoice \in Voice
        /\ [by |-> bundle, load |-> "loading"] \in Voice
        /\ voice[t].load = "loading" =>
              voice[t].by \in Bundles /\ [voice[t] EXCEPT !.load = "loaded"] \in Voice
    <3>1. voice[t] \in Voice /\ bundle \in Bundles
      BY DEF TypeOK
    <3>2. QED
      BY <3>1 DEF NoVoice, Voice
  <2>1. CASE BeginSpeaking(t)
    BY <2>0, <2>1 DEF BeginSpeaking, TypeOK, Status, provs
  <2>2. CASE EndSpeaking(t)
    BY <2>0, <2>2 DEF EndSpeaking, TypeOK, Status, provs
  <2>3. CASE InheritCancel(t)
    BY <2>3 DEF InheritCancel, TypeOK, Status, provs
  <2>4. CASE Unwind(t)
    <3>1. strays' \in SUBSET Bundles
      BY <2>0, <2>4 DEF Unwind, TypeOK
    <3>2. QED
      BY <2>0, <2>4, <3>1 DEF Unwind, TypeOK, Status
  <2>5. CASE LoadEnds(t)
    <3>1. voice' \in [TaskId -> Voice]
      BY <2>0, <2>5 DEF LoadEnds, TypeOK
    <3>2. loaded' \in [Bundles -> BOOLEAN]
      BY <2>5 DEF LoadEnds, TypeOK
    <3>3. QED
      BY <2>5, <3>1, <3>2 DEF LoadEnds, TypeOK
  <2>6. QED
    BY <1>1, <2>1, <2>2, <2>3, <2>4, <2>5 DEF TaskStep
<1>2. ASSUME NEW b \in Bundles, StrayEnds(b) PROVE TypeOK'
  BY <1>2 DEF StrayEnds, TypeOK, speech
<1>3. ASSUME NEW p \in Bundles \X Bundles, UnloadReplaced(p) PROVE TypeOK'
  BY <1>3 DEF UnloadReplaced, TypeOK, speech
<1>4. QED
  BY <1>1, <1>2, <1>3

\* A step of a thread without a task, or of a background unload.
Aside == (\E b \in Bundles : StrayEnds(b))
         \/ (\E p \in Bundles \X Bundles : UnloadReplaced(p))

LEMMA AsideKeeps ==
    ASSUME Aside
    PROVE  UNCHANGED <<order, sel, hist, turnId, tail, nTasks, chunk, st, voice, bundle,
                       speech, call>>
BY DEF Aside, StrayEnds, UnloadReplaced, speech

LEMMA NextCases ==
    ASSUME [Next]_vars
    PROVE  \/ \E c \in Callers : CallerStep(c)
           \/ \E t \in TaskId : TaskStep(t)
           \/ Aside
           \/ UNCHANGED vars
BY DEF Next, Aside

\* The other callers keep their locals in a step of caller c.
LEMMA OthersKeep ==
    ASSUME TypeOK, NEW c \in Callers, CallerStep(c)
    PROVE  \A d \in Callers \ {c} : call'[d] = call[d]
<1> USE DEF TypeOK
<1>1. ASSUME NEW m \in Modes,
             \/ SetSystemPrompt(c, m) \/ MessagesForMode(c, m)
             \/ ClearNow(c, m) \/ ClearWaits(c, m) \/ RejectContinue(c, m)
      PROVE  \A d \in Callers \ {c} : call'[d] = call[d]
  BY <1>1 DEF SetSystemPrompt, MessagesForMode, ClearNow, ClearWaits, RejectContinue,
              CancelNothing, CancelActive
<1>2. ASSUME NEW m \in Modes, NEW op \in {"text", "audio", "continue"},
             StartTurn(c, op, m)
      PROVE  \A d \in Callers \ {c} : call'[d] = call[d]
  BY <1>2 DEF StartTurn, CancelNothing, CancelActive
<1>3. CASE CancelTts(c)
  BY <1>3 DEF CancelTts, CancelNothing, CancelActive
<1>4. CASE \/ Gathered(c) \/ ClearAfterCancel(c) \/ TakePrefix(c)
           \/ Transcribed(c) \/ EmptyTranscript(c) \/ AsrFails(c)
           \/ LlmFails(c) \/ CloseTurn(c) \/ ScheduleUnload(c)
  BY <1>4 DEF Gathered, ClearAfterCancel, TakePrefix, Transcribed, EmptyTranscript,
              AsrFails, LlmFails, CloseTurn, ScheduleUnload, Returns, Goto
<1>5. CASE FlushChunk(c) \/ EndOfReply(c)
  BY <1>5 DEF FlushChunk, EndOfReply, RecordReply, Goto
<1>6. ASSUME NEW i, NEW rec, Sweep(c, i, rec)
      PROVE  \A d \in Callers \ {c} : call'[d] = call[d]
  BY <1>6 DEF Sweep, SweepEnds, SweepWaits, Swap
<1>7. CASE SweepGathered(c)
  BY <1>6, <1>7 DEF SweepGathered, Returns
<1>8. ASSUME NEW b \in Bundles, UpdateProviders(c, b) \/ UpdateProvidersKeepTts(c, b)
      PROVE  \A d \in Callers \ {c} : call'[d] = call[d]
  BY <1>6, <1>8 DEF UpdateProviders, UpdateProvidersKeepTts, Swap
<1>9. QED
  BY <1>1, <1>2, <1>3, <1>4, <1>5, <1>7, <1>8
     DEF CallerStep, HandleTurn, HandleContinue

\* update_providers keeps hold of two bundles until it has scheduled the unload.
LEMMA SwapLocalsStep ==
    ASSUME TypeOK, SwapLocals, NEW c \in Callers, CallerStep(c)
    PROVE  SwapLocals'
<1> DEFINE Ok(r) == /\ r.pc = "gather" /\ r.op = "reload" => r.new \in Bundles
                    /\ r.pc = "swapped" => r.old \in Bundles /\ r.new \in Bundles
<1>0. call[c] \in CallType /\ Ok(call[c]) /\ call \in [Callers -> CallType]
  BY DEF TypeOK, SwapLocals
<1> SUFFICES Ok(call'[c])
  BY OthersKeep DEF SwapLocals
<1>1. ASSUME NEW m \in Modes,
             \/ SetSystemPrompt(c, m) \/ MessagesForMode(c, m)
             \/ ClearNow(c, m) \/ ClearWaits(c, m) \/ RejectContinue(c, m)
      PROVE  Ok(call'[c])
  <2>1. CASE SetSystemPrompt(c, m) \/ MessagesForMode(c, m) \/ RejectContinue(c, m)
    BY <1>0, <2>1 DEF SetSystemPrompt, MessagesForMode, RejectContinue
  <2>2. CASE ClearNow(c, m)
    <3>1. call'[c] = IdleCall
      BY <1>0, <2>2 DEF ClearNow, CancelNothing
    <3>2. QED
      BY <3>1 DEF IdleCall
  <2>3. CASE ClearWaits(c, m)
    <3>1. call'[c] = [Starts("clear", m) EXCEPT !.pc = "gather", !.snap = ActiveIn(m)]
      BY <1>0, <2>3 DEF ClearWaits, CancelActive
    <3>2. QED
      BY <3>1 DEF Starts, IdleCall
  <2>4. QED
    BY <1>1, <2>1, <2>2, <2>3
<1>2. ASSUME NEW m \in Modes, NEW op \in {"text", "audio", "continue"},
             StartTurn(c, op, m)
      PROVE  Ok(call'[c])
  <2> DEFINE go == [Starts(op, m) EXCEPT !.turn = turnId[m] + 1, !.pc = AfterCancel[op]]
  <2>1. AfterCancel[op] \in {"asr", "prefix"} /\ op # "reload"
    BY DEF AfterCancel
  <2>2. \/ call'[c] = go
        \/ call'[c] = [go EXCEPT !.pc = "gather", !.snap = ActiveIn(m)]
    BY <1>0, <1>2 DEF StartTurn, CancelNothing, CancelActive
  <2>3. go.op = op /\ go.pc = AfterCancel[op]
    BY DEF Starts, IdleCall
  <2>4. call'[c].op = op /\ call'[c].pc \in {"gather", AfterCancel[op]}
    BY <2>2, <2>3 DEF Starts, IdleCall
  <2>5. call'[c].op # "reload" /\ call'[c].pc # "swapped"
    BY <2>1, <2>4
  <2>6. QED
    BY <2>5
<1>3. CASE CancelTts(c)
  <2>1. \/ call'[c] = IdleCall
        \/ call'[c] = [Starts("cancel", sel) EXCEPT !.pc = "gather",
                                                    !.snap = ActiveIn(sel)]
    BY <1>0, <1>3 DEF CancelTts, CancelNothing, CancelActive
  <2>2. CASE call'[c] = IdleCall
    BY <2>2 DEF IdleCall
  <2>3. CASE call'[c] = [Starts("cancel", sel) EXCEPT !.pc = "gather",
                                                     !.snap = ActiveIn(sel)]
    BY <2>3 DEF Starts, IdleCall
  <2>4. QED
    BY <2>1, <2>2, <2>3
<1>4. CASE Gathered(c)
  <2>1. call[c].op # "cancel" => AfterCancel[call[c].op] \in {"asr", "prefix", "clear"}
    BY <1>4 DEF Gathered, AfterCancel
  <2>2. QED
    BY <1>0, <1>4, <2>1 DEF Gathered, Returns, IdleCall, CallType
<1>5. CASE \/ ClearAfterCancel(c) \/ TakePrefix(c)
           \/ Transcribed(c) \/ EmptyTranscript(c) \/ AsrFails(c)
           \/ LlmFails(c) \/ CloseTurn(c) \/ ScheduleUnload(c)
           \/ FlushChunk(c) \/ EndOfReply(c)
  <2>1. ASSUME NEW pc \in {"llm", "reporting", "failing"}, Goto(c, pc)
        PROVE  Ok(call'[c])
    <3>1. call'[c].pc = pc
      BY <1>0, <2>1 DEF Goto, CallType
    <3>2. QED
      BY <3>1
  <2>2. ASSUME Returns(c) PROVE Ok(call'[c])
    BY <1>0, <2>2 DEF Returns, IdleCall
  <2>3. CASE ClearAfterCancel(c) \/ CloseTurn(c) \/ ScheduleUnload(c)
    BY <2>2, <2>3 DEF ClearAfterCancel, CloseTurn, ScheduleUnload
  <2>4. CASE TakePrefix(c)
    <3>1. CASE Returns(c)
      BY <2>2, <3>1
    <3>2. CASE ~Returns(c)
      <4>1. call'[c].pc = "llm"
        BY <1>0, <2>4, <3>2 DEF TakePrefix, CallType
      <4>2. QED
        BY <4>1
    <3>3. QED
      BY <3>1, <3>2
  <2>5. CASE Transcribed(c) \/ EmptyTranscript(c) \/ AsrFails(c) \/ LlmFails(c)
    BY <2>1, <2>2, <2>5 DEF Transcribed, EmptyTranscript, AsrFails, LlmFails
  <2>6. CASE FlushChunk(c)
    BY <1>0, <2>6 DEF FlushChunk
  <2>7. CASE EndOfReply(c)
    BY <2>1, <2>7 DEF EndOfReply, RecordReply
  <2>8. QED
    BY <1>5, <2>3, <2>4, <2>5, <2>6, <2>7
<1>7. ASSUME NEW i, NEW rec \in CallType, rec.new \in Bundles, Sweep(c, i, rec)
      PROVE  Ok(call'[c])
  <2>1. bundle \in Bundles
    BY DEF TypeOK
  <2>2. CASE SweepEnds(c, i, rec)
    BY <1>0, <1>7, <2>1, <2>2 DEF SweepEnds, Swap, CallType
  <2>3. CASE SweepWaits(c, i, rec)
    BY <1>0, <1>7, <2>3 DEF SweepWaits, CallType
  <2>4. QED
    BY <1>7, <2>2, <2>3 DEF Sweep
<1>8. CASE SweepGathered(c)
  <2>1. call[c].new \in Bundles
    BY <1>0, <1>8 DEF SweepGathered
  <2>2. CASE Len(order) = call[c].size
    BY <1>0, <1>7, <1>8, <2>1, <2>2 DEF SweepGathered
  <2>3. CASE Len(order) # call[c].size
    BY <1>0, <1>8, <2>3 DEF SweepGathered, Returns, IdleCall
  <2>4. QED
    BY <2>2, <2>3
<1>9. ASSUME NEW b \in Bundles, UpdateProviders(c, b)
      PROVE  Ok(call'[c])
  <2> DEFINE rec == [Starts("reload", sel) EXCEPT !.new = b, !.size = Len(order)]
  <2>1. Len(order) \in Nat /\ Starts("reload", sel) \in CallType
    BY StartsType DEF TypeOK, Ops
  <2>2. rec \in CallType /\ rec.new = b
    BY <2>1 DEF CallType
  <2>3. Sweep(c, 1, rec)
    BY <1>9 DEF UpdateProviders
  <2>4. QED
    BY <1>7, <2>2, <2>3
<1>10. ASSUME NEW b \in Bundles, UpdateProvidersKeepTts(c, b)
      PROVE  Ok(call'[c])
  BY <1>0, <1>10 DEF UpdateProvidersKeepTts, Swap, Starts, IdleCall, TypeOK
<1>11. QED
  BY <1>1, <1>2, <1>3, <1>4, <1>5, <1>8, <1>9, <1>10
     DEF CallerStep, HandleTurn, HandleContinue

\* The inductive step of the type invariant.
LEMMA TypeStep ==
    ASSUME TypeOK, SwapLocals, [Next]_vars
    PROVE  TypeOK' /\ SwapLocals'
<1>1. ASSUME NEW c \in Callers, CallerStep(c) PROVE TypeOK' /\ SwapLocals'
  BY <1>1, StartStepType, GoOnType, SwapStepType, SwapLocalsStep DEF CallerStep
<1>2. CASE \/ \E t \in TaskId : TaskStep(t)
           \/ \E b \in Bundles : StrayEnds(b)
           \/ \E p \in Bundles \X Bundles : UnloadReplaced(p)
  <2>1. UNCHANGED call
    BY <1>2 DEF TaskStep, BeginSpeaking, EndSpeaking, InheritCancel, Unwind,
                LoadEnds, StrayEnds, UnloadReplaced
  <2>2. QED
    BY <1>2, <2>1, BackgroundType DEF SwapLocals
<1>3. CASE UNCHANGED vars
  BY <1>3 DEF vars, speech, provs, TypeOK, SwapLocals
<1>4. QED
  BY <1>1, <1>2, <1>3 DEF Next

(***************************************************************************)
(* Every variable keeps its type, for all callers, modes and bundles.      *)
(***************************************************************************)
THEOREM TypeCorrect == Spec => [](TypeOK /\ SwapLocals)
<1>1. Init => TypeOK /\ SwapLocals
  BY InitType DEF Init, SwapLocals, IdleCall
<1>2. TypeOK /\ SwapLocals /\ [Next]_vars => TypeOK' /\ SwapLocals'
  BY TypeStep
<1>3. QED
  BY <1>1, <1>2, PTL DEF Spec

-----------------------------------------------------------------------------
(***************************************************************************)
(* The chain of TTS tasks, for any number of callers.  A step does one of  *)
(* three things to the tasks: it moves some of them forward, hands a new   *)
(* one over, or leaves them alone; the invariant of the chain is preserved *)
(* by each.                                                                *)
(***************************************************************************)

\* The tasks that exist are the first nTasks.
Born == \A t \in TaskId : st[t] # "unborn" <=> t <= nTasks

\* A task awaits an older task of its mode; a tail is a task that exists.
Linked ==
    /\ \A t \in Tasks :
          /\ chunk[t].prev < t
          /\ chunk[t].prev # NoTask => chunk[chunk[t].prev].mode = chunk[t].mode
    /\ \A m \in Modes : tail[m] <= nTasks

\* What is heard follows what was heard to its end.
HeardInChain ==
    \A t \in Tasks : st[t] \in Heard /\ chunk[t].prev # NoTask
        => st[chunk[t].prev] = "done"

TailIsNewest ==
    \A m \in Modes : tail[m] # NoTask =>
        /\ chunk[tail[m]].mode = m
        /\ \A t \in Tasks : chunk[t].mode = m => t <= tail[m]

TaskInv == Born /\ Linked /\ HeardInChain /\ TailIsNewest

\* The moves of one task.
Moves(t) ==
    \/ st'[t] = st[t]
    \/ st[t] \in Unfinished /\ st'[t] \in {"cancelling", "cancelled"}
    \/ st[t] = "speaking" /\ st'[t] = "done"
    \/ /\ st[t] = "waiting" /\ st'[t] = "speaking"
       /\ chunk[t].prev # NoTask => st[chunk[t].prev] = "done"

\* No task is created, and a tail can only be dropped.
NoHandOver ==
    /\ UNCHANGED <<nTasks, chunk>>
    /\ \A t \in TaskId : Moves(t)
    /\ \A m \in Modes : tail'[m] \in {tail[m], NoTask}

-----------------------------------------------------------------------------
(* The effect of a step on the tasks *)

LEMMA TaskTypes ==
    ASSUME TypeOK
    PROVE  /\ MaxTasks \in Nat /\ nTasks \in Nat /\ nTasks <= MaxTasks
           /\ \A m \in Modes : tail[m] \in 0 .. MaxTasks /\ tail[m] <= nTasks
           /\ \A t \in TaskId : /\ chunk[t].prev \in 0 .. MaxTasks
                                /\ chunk[t].mode \in Modes
                                /\ chunk[t].turn \in Nat
                                /\ st[t] \in Status
<1>1. MaxTasks \in Nat /\ nTasks \in Nat /\ nTasks <= MaxTasks
  BY ConstantsAssumption DEF TypeOK
<1>2. \A m \in Modes : tail[m] \in 0 .. MaxTasks /\ tail[m] <= nTasks
  BY <1>1 DEF TypeOK
<1>3. \A t \in TaskId : /\ chunk[t].prev \in 0 .. MaxTasks
                       /\ chunk[t].mode \in Modes
                       /\ chunk[t].turn \in Nat
                       /\ st[t] \in Status
  BY DEF TypeOK
<1>4. QED
  BY <1>1, <1>2, <1>3

LEMMA CancelMoves ==
    ASSUME TypeOK, NEW m, Cancel(ActiveIn(m))
    PROVE  \A t \in TaskId : Moves(t)
BY DEF Cancel, ActiveIn, Moves

LEMMA CancelTtsEffect ==
    ASSUME TypeOK, NEW c \in Callers, NEW m \in Modes, NEW go,
           CancelNothing(c, m, go) \/ CancelActive(c, m, go), UNCHANGED <<nTasks, chunk>>
    PROVE  NoHandOver
<1>1. CASE CancelNothing(c, m, go)
  BY <1>1 DEF CancelNothing, NoHandOver, Moves, TypeOK
<1>2. CASE CancelActive(c, m, go)
  BY <1>2, CancelMoves DEF CancelActive, NoHandOver
<1>3. QED
  BY <1>1, <1>2

LEMMA SweepEffect ==
    ASSUME TypeOK, NEW c \in Callers, NEW i, NEW rec,
           Sweep(c, i, rec), UNCHANGED <<nTasks, chunk>>
    PROVE  NoHandOver
<1>1. ASSUME NEW a, NEW b, DropTails(a, b)
      PROVE  \A m \in Modes : tail'[m] \in {tail[m], NoTask}
  BY <1>1 DEF DropTails
<1>2. CASE SweepEnds(c, i, rec)
  BY <1>1, <1>2 DEF SweepEnds, NoHandOver, Moves
<1>3. CASE SweepWaits(c, i, rec)
  <2>1. PICK k \in Busy(i) : DropTails(i - 1, k - 1) /\ Cancel(ActiveIn(order[k]))
    BY <1>3 DEF SweepWaits
  <2>2. QED
    BY <1>1, <2>1, CancelMoves DEF NoHandOver
<1>4. QED
  BY <1>2, <1>3 DEF Sweep

LEMMA CallerEffect ==
    ASSUME TypeOK, SwapLocals, NEW c \in Callers, CallerStep(c)
    PROVE  NoHandOver \/ (StartTtsChunk(c) /\ call[c].pc = "llm")
<1>0. sel \in Modes /\ order \in Seq(Modes) /\ tail \in [Modes -> 0 .. nTasks]
  BY DEF TypeOK
<1>1. ASSUME NEW m \in Modes,
             \/ SetSystemPrompt(c, m) \/ MessagesForMode(c, m) \/ RejectContinue(c, m)
      PROVE  NoHandOver
  BY <1>1 DEF SetSystemPrompt, MessagesForMode, RejectContinue, NoHandOver, Moves, speech
<1>2. ASSUME NEW m \in Modes, ClearNow(c, m) \/ ClearWaits(c, m)
      PROVE  NoHandOver
  BY <1>2, CancelTtsEffect DEF ClearNow, ClearWaits
<1>3. ASSUME NEW m \in Modes, NEW op \in {"text", "audio", "continue"},
             StartTurn(c, op, m)
      PROVE  NoHandOver
  BY <1>3, CancelTtsEffect DEF StartTurn
<1>4. CASE CancelTts(c)
  BY <1>0, <1>4, CancelTtsEffect DEF CancelTts
<1>5. CASE Gathered(c)
  BY <1>0, <1>5 DEF Gathered, NoHandOver, Moves, speech
<1>6. CASE \/ ClearAfterCancel(c) \/ TakePrefix(c) \/ Transcribed(c)
           \/ EmptyTranscript(c) \/ AsrFails(c) \/ LlmFails(c) \/ CloseTurn(c)
           \/ ScheduleUnload(c)
  BY <1>6 DEF ClearAfterCancel, TakePrefix, Transcribed, EmptyTranscript, AsrFails,
              LlmFails, CloseTurn, ScheduleUnload, NoHandOver, Moves, speech
<1>7. CASE FlushChunk(c)
  BY <1>7 DEF FlushChunk
<1>8. CASE EndOfReply(c)
  BY <1>8 DEF EndOfReply, NoHandOver, Moves, speech
<1>9. ASSUME NEW b \in Bundles, UpdateProviders(c, b) \/ UpdateProvidersKeepTts(c, b)
      PROVE  NoHandOver
  <2>1. CASE UpdateProviders(c, b)
    BY <2>1, SweepEffect DEF UpdateProviders
  <2>2. CASE UpdateProvidersKeepTts(c, b)
    BY <2>2 DEF UpdateProvidersKeepTts, NoHandOver, Moves, speech
  <2>3. QED
    BY <1>9, <2>1, <2>2
<1>10. CASE SweepGathered(c)
  <2>1. CASE Len(order) = call[c].size
    BY <1>10, <2>1, SweepEffect DEF SweepGathered, SwapLocals
  <2>2. CASE Len(order) # call[c].size
    BY <1>10, <2>2 DEF SweepGathered, DropTails, NoHandOver, Moves
  <2>3. QED
    BY <2>1, <2>2
<1>11. QED
  BY <1>1, <1>2, <1>3, <1>4, <1>5, <1>6, <1>7, <1>8, <1>9, <1>10
     DEF CallerStep, HandleTurn, HandleContinue

LEMMA TaskEffect ==
    ASSUME TypeOK, NEW t \in TaskId, TaskStep(t)
    PROVE  NoHandOver /\ UNCHANGED tail
BY DEF TypeOK, TaskStep, BeginSpeaking, EndSpeaking, InheritCancel, Unwind,
       LoadEnds, NoHandOver, Moves, Unfinished

-----------------------------------------------------------------------------
(* The task invariant *)

LEMMA NoHandOverKeeps ==
    ASSUME TypeOK, TypeOK', TaskInv, NoHandOver
    PROVE  TaskInv'
<1> USE DEF NoHandOver, TaskInv
<1>1. \A t \in TaskId : st'[t] # "unborn" <=> st[t] # "unborn"
  BY DEF Moves, Unfinished
<1>2. Tasks' = Tasks
  BY <1>1 DEF Tasks
<1>3. Born'
  BY <1>1 DEF Born
<1>4. Linked'
  BY <1>2, TaskTypes DEF Linked
<1>5. HeardInChain'
  <2> SUFFICES ASSUME NEW t \in Tasks, st'[t] \in Heard, chunk[t].prev # NoTask
               PROVE  st'[chunk[t].prev] = "done"
    BY <1>2 DEF HeardInChain
  <2>1. t \in TaskId /\ chunk[t].prev \in TaskId
    BY TaskTypes DEF Tasks
  <2>2. st[chunk[t].prev] = "done"
    BY <2>1 DEF Moves, Heard, HeardInChain
  <2>3. QED
    BY <2>1, <2>2 DEF Moves, Unfinished
<1>6. TailIsNewest'
  BY <1>2 DEF TailIsNewest
<1>7. QED
  BY <1>3, <1>4, <1>5, <1>6

LEMMA HandOverKeeps ==
    ASSUME TypeOK, TypeOK', TaskInv, NEW c \in Callers, StartTtsChunk(c)
    PROVE  TaskInv'
<1> DEFINE n == nTasks + 1
           m == call[c].mode
<1>1. /\ m \in Modes /\ n \in TaskId /\ nTasks \in Nat /\ nTasks' = n
      /\ tail[m] \in 0 .. MaxTasks
      /\ call[c].turn \in Nat
  BY ConstantsAssumption DEF TypeOK, CallType, StartTtsChunk, CreateTask
<1>2. /\ chunk' = [chunk EXCEPT ![n] = [mode |-> m, turn |-> call[c].turn,
                                        prev |-> tail[m]]]
      /\ st' = [st EXCEPT ![n] = "waiting"]
      /\ tail' = [tail EXCEPT ![m] = n]
  BY DEF StartTtsChunk, CreateTask
<1>3. /\ st'[n] = "waiting" /\ chunk'[n].prev = tail[m] /\ chunk'[n].mode = m
      /\ \A t \in TaskId \ {n} : st'[t] = st[t] /\ chunk'[t] = chunk[t]
      /\ tail'[m] = n /\ \A k \in Modes \ {m} : tail'[k] = tail[k]
  BY <1>1, <1>2 DEF TypeOK
<1>4. Tasks' = Tasks \cup {n} /\ n \notin Tasks /\ \A t \in Tasks : t < n
  BY <1>1, <1>3 DEF Tasks, TaskInv, Born
<1>5. Born'
  BY <1>1, <1>3 DEF Born, TaskInv
<1>6. tail[m] <= nTasks /\ \A t \in Tasks : chunk[t].prev < t /\ chunk[t].prev <= nTasks
  BY <1>1, <1>4, TaskTypes DEF TaskInv, Linked, Tasks
<1>7. Linked'
  <2>1. ASSUME NEW t \in Tasks
        PROVE  /\ chunk'[t].prev < t
               /\ chunk'[t].prev # NoTask => chunk'[chunk'[t].prev].mode = chunk'[t].mode
    <3>1. t \in TaskId /\ t # n /\ chunk[t].prev \in 0 .. MaxTasks /\ chunk[t].prev # n
      BY <1>1, <1>4, <1>6, TaskTypes DEF Tasks
    <3>2. QED
      BY <1>3, <3>1 DEF TaskInv, Linked
  <2>2. /\ chunk'[n].prev < n
        /\ chunk'[n].prev # NoTask => chunk'[chunk'[n].prev].mode = m
    <3>1. tail[m] # NoTask => tail[m] \in TaskId \ {n} /\ chunk[tail[m]].mode = m
      BY <1>1, <1>6 DEF TaskInv, TailIsNewest
    <3>2. QED
      BY <1>1, <1>3, <1>6, <3>1
  <2>3. \A k \in Modes : tail'[k] <= n
    BY <1>1, <1>3, TaskTypes DEF TaskInv, Linked
  <2>4. QED
    BY <1>1, <1>3, <1>4, <2>1, <2>2, <2>3 DEF Linked
<1>8. HeardInChain'
  <2> SUFFICES ASSUME NEW t \in Tasks, st'[t] \in Heard, chunk'[t].prev # NoTask
               PROVE  st'[chunk'[t].prev] = "done"
    BY <1>3, <1>4 DEF HeardInChain, Heard
  <2>1. t \in TaskId /\ t # n
    BY <1>4 DEF Tasks
  <2>2. chunk[t].prev \in TaskId \ {n}
    BY <1>1, <1>3, <1>6, <2>1, TaskTypes
  <2>3. QED
    BY <1>3, <2>1, <2>2 DEF TaskInv, HeardInChain
<1>9. TailIsNewest'
  <2> SUFFICES ASSUME NEW k \in Modes, tail'[k] # NoTask
               PROVE  /\ chunk'[tail'[k]].mode = k
                      /\ \A t \in Tasks' : chunk'[t].mode = k => t <= tail'[k]
    BY DEF TailIsNewest
  <2>1. CASE k = m
    BY <1>1, <1>3, <1>4, <2>1 DEF Tasks
  <2>2. CASE k # m
    <3>1. tail[k] \in TaskId \ {n} /\ tail'[k] = tail[k]
      BY <1>1, <1>3, <2>2, TaskTypes DEF TaskInv, Linked
    <3>2. QED
      BY <1>3, <1>4, <2>2, <3>1 DEF TaskInv, TailIsNewest, Tasks
  <2>3. QED
    BY <2>1, <2>2
<1>10. QED
  BY <1>5, <1>7, <1>8, <1>9 DEF TaskInv

-----------------------------------------------------------------------------
ChainInv == TypeOK /\ SwapLocals /\ TaskInv

LEMMA ChainStep == ChainInv /\ [Next]_vars => ChainInv'
<1> SUFFICES ASSUME ChainInv, [Next]_vars PROVE ChainInv'
  OBVIOUS
<1>1. TypeOK /\ SwapLocals /\ TaskInv
  BY DEF ChainInv
<1>2. TypeOK' /\ SwapLocals'
  BY <1>1, TypeStep
<1>3. ASSUME NEW c \in Callers, CallerStep(c) PROVE TaskInv'
  BY <1>1, <1>2, <1>3, CallerEffect, NoHandOverKeeps, HandOverKeeps
<1>4. ASSUME NEW t \in TaskId, TaskStep(t) PROVE TaskInv'
  BY <1>1, <1>2, <1>4, TaskEffect, NoHandOverKeeps
<1>5. ASSUME UNCHANGED <<tail, speech>> PROVE TaskInv'
  <2>1. NoHandOver
    BY <1>5 DEF NoHandOver, Moves, speech
  <2>2. QED
    BY <1>1, <1>2, <2>1, NoHandOverKeeps
<1>6. ASSUME Aside \/ UNCHANGED vars PROVE UNCHANGED <<tail, speech>>
  BY <1>6, AsideKeeps DEF vars, speech
<1>7. QED
  BY <1>1, <1>2, <1>3, <1>4, <1>5, <1>6, NextCases DEF ChainInv

LEMMA ChainInit == Init => ChainInv
<1> SUFFICES ASSUME Init PROVE ChainInv
  OBVIOUS
<1>1. TypeOK
  BY InitType
<1>2. Tasks = {} /\ nTasks = 0 /\ MaxTasks \in Nat
  BY ConstantsAssumption DEF Init, Tasks
<1>3. TaskInv
  BY <1>2 DEF Init, TaskInv, Born, Linked, HeardInChain, TailIsNewest
<1>4. SwapLocals
  BY DEF Init, SwapLocals, IdleCall
<1>5. QED
  BY <1>1, <1>3, <1>4 DEF ChainInv
=============================================================================
