------------------------- MODULE SpeechOrderProofs --------------------------
(***************************************************************************)
(* What the pipeline promises a caller that awaits each of its calls: the  *)
(* order of speech, the current turn, the histories, that it implements    *)
(* SpeechQueue, and the voice.  A part for each, in this order, which      *)
(* builds on the invariants of those before it.                            *)
(***************************************************************************)
EXTENDS SpeechPipelineProofs

USE DEF NoTask, TaskId

-----------------------------------------------------------------------------
(***************************************************************************)
(* Speech in order.  The order of a mode rests on its chain being unbroken *)
(* from the oldest unfinished task on, hence on tails being dropped only   *)
(* when their mode has no unfinished task, hence on a gather covering all  *)
(* of them.                                                                *)
(***************************************************************************)

Younger(t) == {u \in Tasks : t < u /\ chunk[u].mode = chunk[t].mode}

\* From an unfinished task on, the chain of its mode is unbroken and unheard.
Unbroken ==
    \A t \in Tasks : st[t] \in Unfinished =>
        /\ tail[chunk[t].mode] >= t
        /\ \A u \in Younger(t) : st[u] \notin Heard /\ chunk[u].prev >= t

\* A gather waits for every unfinished task of the mode whose tail it drops.
Snapped ==
    \A c \in Callers : call[c].pc = "gather" =>
        IF call[c].op = "reload"
        THEN /\ call[c].next - 1 \in DOMAIN order
             /\ ActiveIn(order[call[c].next - 1]) \subseteq call[c].snap
        ELSE ActiveIn(sel) \subseteq call[c].snap

\* A step drops the tails of idle modes only.
DropsIdleTails ==
    \A m \in Modes : tail'[m] = tail[m] \/ (tail'[m] = NoTask /\ ActiveIn(m) = {})

-----------------------------------------------------------------------------
(* Tails *)

LEMMA GatheredIdle ==
    ASSUME NEW m, NEW S, ActiveIn(m) \subseteq S, \A t \in S : st[t] \in Over
    PROVE  ActiveIn(m) = {}
BY DEF ActiveIn, Over, Unfinished

LEMMA CancelTtsTail ==
    ASSUME TypeOK, NEW c \in Callers, NEW m \in Modes, NEW go,
           CancelNothing(c, m, go) \/ CancelActive(c, m, go)
    PROVE  DropsIdleTails
BY DEF CancelNothing, CancelActive, DropsIdleTails, TypeOK

LEMMA SweepTail ==
    ASSUME TypeOK, NEW c \in Callers, NEW i \in Nat, NEW rec, Sweep(c, i, rec),
           i - 1 \in DOMAIN order => ActiveIn(order[i - 1]) = {}
    PROVE  DropsIdleTails
<1>0. order \in Seq(Modes) /\ Len(order) \in Nat /\ DOMAIN order = 1 .. Len(order)
  BY DEF TypeOK
<1>1. ASSUME NEW b \in Int, DropTails(i - 1, b),
             \A k \in i .. b : k \in DOMAIN order => ActiveIn(order[k]) = {}
      PROVE  DropsIdleTails
  <2> SUFFICES ASSUME NEW m \in Modes, tail'[m] # tail[m]
               PROVE  tail'[m] = NoTask /\ ActiveIn(m) = {}
    BY DEF DropsIdleTails
  <2>1. tail'[m] = NoTask
        /\ \E k \in ((i - 1) .. b) \cap DOMAIN order : order[k] = m
    BY <1>1 DEF DropTails
  <2>2. PICK k \in ((i - 1) .. b) \cap DOMAIN order : order[k] = m
    BY <2>1
  <2>3. k = i - 1 \/ k \in i .. b
    BY <1>0
  <2>4. QED
    BY <1>1, <2>1, <2>2, <2>3
<1>2. CASE SweepEnds(c, i, rec)
  <2>1. \A k \in i .. Len(order) : ActiveIn(order[k]) = {}
    BY <1>2 DEF SweepEnds, Busy
  <2>2. QED
    BY <1>0, <1>1, <1>2, <2>1 DEF SweepEnds
<1>3. CASE SweepWaits(c, i, rec)
  <2>1. PICK k \in Busy(i) : DropTails(i - 1, k - 1) /\ \A j \in Busy(i) : k <= j
    BY <1>3 DEF SweepWaits
  <2>2. k \in i .. Len(order) /\ k - 1 \in Int
    BY <1>0, <2>1 DEF Busy
  <2>3. ASSUME NEW j \in i .. (k - 1) PROVE ActiveIn(order[j]) = {}
    <3>1. j \in i .. Len(order) /\ ~(k <= j)
      BY <1>0, <2>2
    <3>2. QED
      BY <2>1, <3>1 DEF Busy
  <2>4. QED
    BY <1>1, <2>1, <2>2, <2>3
<1>4. QED
  BY <1>2, <1>3 DEF Sweep

LEMMA CallerTail ==
    ASSUME TypeOK, SwapLocals, Snapped, NEW c \in Callers, CallerStep(c)
    PROVE  DropsIdleTails \/ StartTtsChunk(c)
<1>0. sel \in Modes /\ order \in Seq(Modes) /\ tail \in [Modes -> 0 .. nTasks]
  BY DEF TypeOK
<1>1. ASSUME UNCHANGED tail PROVE DropsIdleTails
  BY <1>1 DEF DropsIdleTails
<1>2. ASSUME NEW m \in Modes,
             \/ SetSystemPrompt(c, m) \/ MessagesForMode(c, m) \/ RejectContinue(c, m)
      PROVE  DropsIdleTails
  BY <1>1, <1>2 DEF SetSystemPrompt, MessagesForMode, RejectContinue
<1>3. ASSUME NEW m \in Modes, ClearNow(c, m) \/ ClearWaits(c, m)
      PROVE  DropsIdleTails
  BY <1>3, CancelTtsTail DEF ClearNow, ClearWaits
<1>4. ASSUME NEW m \in Modes, NEW op \in {"text", "audio", "continue"},
             StartTurn(c, op, m)
      PROVE  DropsIdleTails
  BY <1>4, CancelTtsTail DEF StartTurn
<1>5. CASE CancelTts(c)
  BY <1>0, <1>5, CancelTtsTail DEF CancelTts
<1>6. CASE Gathered(c)
  <2>1. call[c].op # "reload" /\ ActiveIn(sel) \subseteq call[c].snap
    BY <1>6 DEF Gathered, AfterCancel, Snapped
  <2>2. ActiveIn(sel) = {}
    BY <1>6, <2>1, GatheredIdle DEF Gathered
  <2>3. QED
    BY <1>0, <1>6, <2>2 DEF Gathered, DropsIdleTails
<1>7. CASE \/ ClearAfterCancel(c) \/ TakePrefix(c) \/ Transcribed(c)
           \/ EmptyTranscript(c) \/ AsrFails(c) \/ LlmFails(c) \/ CloseTurn(c)
           \/ ScheduleUnload(c)
  BY <1>1, <1>7 DEF ClearAfterCancel, TakePrefix, Transcribed, EmptyTranscript, AsrFails,
              LlmFails, CloseTurn, ScheduleUnload
<1>8. CASE FlushChunk(c) \/ EndOfReply(c)
  BY <1>1, <1>8 DEF FlushChunk, EndOfReply
<1>9. ASSUME NEW b \in Bundles, UpdateProviders(c, b) \/ UpdateProvidersKeepTts(c, b)
      PROVE  DropsIdleTails
  <2>1. CASE UpdateProviders(c, b)
    <3>1. 1 - 1 \notin DOMAIN order
      BY <1>0
    <3>2. QED
      BY <2>1, <3>1, SweepTail DEF UpdateProviders
  <2>2. CASE UpdateProvidersKeepTts(c, b)
    BY <1>1, <2>2 DEF UpdateProvidersKeepTts
  <2>3. QED
    BY <1>9, <2>1, <2>2
<1>10. CASE SweepGathered(c)
  <2> DEFINE i == call[c].next
  <2>1. /\ i \in Nat /\ i - 1 \in DOMAIN order
        /\ ActiveIn(order[i - 1]) \subseteq call[c].snap
    BY <1>10 DEF SweepGathered, Snapped, TypeOK, CallType
  <2>2. ActiveIn(order[i - 1]) = {}
    BY <1>10, <2>1, GatheredIdle DEF SweepGathered
  <2>3. CASE Len(order) = call[c].size
    BY <1>10, <2>1, <2>2, <2>3, SweepTail DEF SweepGathered
  <2>4. CASE Len(order) # call[c].size
    <3>1. DropTails(i - 1, i - 1)
      BY <1>10, <2>4 DEF SweepGathered
    <3>2. QED
      BY <2>1, <2>2, <3>1 DEF DropTails, DropsIdleTails
  <2>5. QED
    BY <2>3, <2>4
<1>11. QED
  BY <1>2, <1>3, <1>4, <1>5, <1>6, <1>7, <1>8, <1>9, <1>10
     DEF CallerStep, HandleTurn, HandleContinue

-----------------------------------------------------------------------------
(* The unbroken chain *)

LEMMA NoHandOverUnbroken ==
    ASSUME TypeOK, TypeOK', TaskInv, Unbroken, NoHandOver, DropsIdleTails
    PROVE  Unbroken'
<1>1. \A t \in TaskId : st'[t] # "unborn" <=> st[t] # "unborn"
  BY DEF NoHandOver, Moves, Unfinished
<1>2. Tasks' = Tasks /\ chunk' = chunk
  BY <1>1 DEF Tasks, NoHandOver
<1> SUFFICES ASSUME NEW t \in Tasks, st'[t] \in Unfinished
             PROVE  /\ tail'[chunk[t].mode] >= t
                    /\ \A u \in Younger(t) : st'[u] \notin Heard /\ chunk[u].prev >= t
  BY <1>2 DEF Unbroken, Younger
<1>3. t \in TaskId /\ chunk[t].mode \in Modes
  BY TaskTypes DEF Tasks
<1>4. st[t] \in Unfinished
  BY <1>3 DEF NoHandOver, Moves, Unfinished
<1>5. t \in ActiveIn(chunk[t].mode)
  BY <1>3, <1>4 DEF ActiveIn
<1>6. tail'[chunk[t].mode] >= t
  BY <1>3, <1>4, <1>5 DEF DropsIdleTails, Unbroken
<1>7. ASSUME NEW u \in Younger(t), st'[u] \in Heard PROVE FALSE
  <2>1. u \in Tasks /\ t < u /\ chunk[u].mode = chunk[t].mode
        /\ u \in TaskId /\ chunk[u].prev \in 0 .. MaxTasks /\ chunk[u].prev < u
    BY TaskTypes DEF Younger, Tasks, TaskInv, Linked
  <2>2. st[u] \notin Heard /\ chunk[u].prev >= t
    BY <1>4 DEF Unbroken
  <2>3. chunk[u].prev # NoTask /\ st[chunk[u].prev] = "done"
    BY <1>3, <1>7, <2>1, <2>2, TaskTypes DEF NoHandOver, Moves, Heard
  <2>4. chunk[u].prev \in Tasks /\ chunk[u].prev \in Younger(t)
    BY <1>3, <1>4, <2>1, <2>2, <2>3, TaskTypes
       DEF Younger, Tasks, TaskInv, Linked, Unfinished
  <2>5. QED
    BY <1>4, <2>3, <2>4 DEF Unbroken, Heard
<1>8. QED
  BY <1>4, <1>6, <1>7 DEF Unbroken

LEMMA HandOverUnbroken ==
    ASSUME TypeOK, TypeOK', TaskInv, TaskInv', Unbroken, NEW c \in Callers,
           StartTtsChunk(c)
    PROVE  Unbroken'
<1> DEFINE n == nTasks + 1
           m == call[c].mode
<1>1. /\ m \in Modes /\ n \in TaskId /\ nTasks \in Nat /\ nTasks' = n
      /\ tail[m] \in 0 .. MaxTasks
      /\ call[c].turn \in Nat
  BY ConstantsAssumption DEF TypeOK, CallType, StartTtsChunk, CreateTask
<1>2. /\ chunk' = [chunk EXCEPT ![n] = [mode |-> m, turn |-> call[c].turn,
                                        prev |-> tail[m]]]
      /\ st' = [st EXCEPT ![n] = "waiting"]
      /\ tail' = [tail EXCEPT ![m] = n]
  BY DEF StartTtsChunk, CreateTask
<1>3. /\ st'[n] = "waiting" /\ chunk'[n].prev = tail[m] /\ chunk'[n].mode = m
      /\ \A t \in TaskId \ {n} : st'[t] = st[t] /\ chunk'[t] = chunk[t]
      /\ tail'[m] = n /\ \A k \in Modes \ {m} : tail'[k] = tail[k]
  BY <1>1, <1>2 DEF TypeOK
<1>4. Tasks' = Tasks \cup {n} /\ n \notin Tasks /\ \A t \in Tasks : t < n
  BY <1>1, <1>3 DEF Tasks, TaskInv, Born
<1>5. ASSUME NEW t \in Tasks, st'[t] \in Unfinished
      PROVE  /\ tail'[chunk'[t].mode] >= t
             /\ \A u \in Tasks' : (t < u /\ chunk'[u].mode = chunk'[t].mode)
                   => st'[u] \notin Heard /\ chunk'[u].prev >= t
  <2>1. t \in TaskId /\ t < n /\ chunk[t].mode \in Modes
    BY <1>4, TaskTypes DEF Tasks
  <2>2. st[t] \in Unfinished /\ chunk'[t] = chunk[t]
    BY <1>3, <1>5, <2>1
  <2>3. tail[chunk[t].mode] >= t
    BY <2>2 DEF Unbroken
  <2>4. tail'[chunk'[t].mode] >= t
    BY <1>1, <1>3, <2>1, <2>2, <2>3
  <2>5. ASSUME NEW u \in Tasks, t < u, chunk'[u].mode = chunk'[t].mode
        PROVE  st'[u] \notin Heard /\ chunk'[u].prev >= t
    <3>1. u \in TaskId \ {n}
      BY <1>4 DEF Tasks
    <3>2. u \in Younger(t)
      BY <1>3, <2>2, <2>5, <3>1 DEF Younger
    <3>3. QED
      BY <1>3, <2>2, <3>1, <3>2 DEF Unbroken
  <2>6. chunk'[n].mode = chunk'[t].mode => st'[n] \notin Heard /\ chunk'[n].prev >= t
    BY <1>3, <2>2, <2>3 DEF Heard
  <2>7. QED
    BY <1>4, <2>4, <2>5, <2>6
<1>6. tail'[chunk'[n].mode] >= n
  BY <1>1, <1>3
<1>7. \A u \in Tasks' : ~(n < u)
  BY <1>1, <1>4 DEF Tasks
<1>8. QED
  BY <1>4, <1>5, <1>6, <1>7 DEF Unbroken, Younger

-----------------------------------------------------------------------------
(* Snapshots *)

SnappedAt(c) ==
    call[c].pc = "gather" =>
        IF call[c].op = "reload"
        THEN /\ call[c].next - 1 \in DOMAIN order
             /\ ActiveIn(order[call[c].next - 1]) \subseteq call[c].snap
        ELSE ActiveIn(sel) \subseteq call[c].snap

\* Without a hand-over a mode gains no unfinished task.
LEMMA ActiveShrinks ==
    ASSUME TypeOK, NoHandOver
    PROVE  \A m : ActiveIn(m)' \subseteq ActiveIn(m)
BY DEF NoHandOver, Moves, ActiveIn, Unfinished

LEMMA CancelTtsSnap ==
    ASSUME TypeOK, NEW c \in Callers, NEW m \in Modes, NEW go,
           CancelNothing(c, m, go) \/ CancelActive(c, m, go),
           go.pc # "gather", go.op # "reload", sel' = m,
           UNCHANGED <<nTasks, chunk>>, go \in CallType
    PROVE  SnappedAt(c)'
<1>0. call \in [Callers -> CallType]
  BY DEF TypeOK
<1>1. CASE CancelNothing(c, m, go)
  <2>1. call'[c] = go
    BY <1>0, <1>1 DEF CancelNothing
  <2>2. QED
    BY <2>1 DEF SnappedAt
<1>2. CASE CancelActive(c, m, go)
  <2>1. call'[c] = [go EXCEPT !.pc = "gather", !.snap = ActiveIn(m)]
    BY <1>0, <1>2 DEF CancelActive
  <2>2. call'[c].op # "reload" /\ call'[c].snap = ActiveIn(m)
    BY <2>1 DEF CallType
  <2>3. ActiveIn(m)' \subseteq ActiveIn(m)
    BY <1>2, CancelTtsEffect, ActiveShrinks
  <2>4. QED
    BY <2>2, <2>3 DEF SnappedAt
<1>3. QED
  BY <1>1, <1>2

LEMMA SweepSnap ==
    ASSUME TypeOK, NEW c \in Callers, NEW i \in Nat, NEW rec \in CallType,
           Sweep(c, i, rec), rec.op = "reload", i >= 1,
           UNCHANGED <<order, nTasks, chunk>>
    PROVE  SnappedAt(c)'
<1>0. /\ call \in [Callers -> CallType] /\ order \in Seq(Modes)
      /\ Len(order) \in Nat /\ DOMAIN order = 1 .. Len(order)
  BY DEF TypeOK
<1>1. CASE SweepEnds(c, i, rec)
  <2>1. call'[c] = [rec EXCEPT !.pc = "swapped", !.snap = {},
                               !.old = bundle, !.new = rec.new]
    BY <1>0, <1>1 DEF SweepEnds, Swap
  <2>2. call'[c].pc = "swapped"
    BY <2>1 DEF CallType
  <2>3. QED
    BY <2>2 DEF SnappedAt
<1>2. CASE SweepWaits(c, i, rec)
  <2>1. PICK k \in Busy(i) : call' = [call EXCEPT ![c] =
               [rec EXCEPT !.pc = "gather", !.next = k + 1, !.snap = ActiveIn(order[k])]]
    BY <1>2 DEF SweepWaits
  <2>2. call'[c] = [rec EXCEPT !.pc = "gather", !.next = k + 1,
                               !.snap = ActiveIn(order[k])]
    BY <1>0, <2>1
  <2>3. /\ call'[c].op = "reload" /\ call'[c].next = k + 1
        /\ call'[c].snap = ActiveIn(order[k])
    BY <2>2 DEF CallType
  <2>4. k \in DOMAIN order /\ (k + 1) - 1 = k
    BY <1>0, <2>1 DEF Busy
  <2>5. ActiveIn(order[k])' \subseteq ActiveIn(order[k])
    BY SweepEffect, ActiveShrinks
  <2>6. QED
    BY <2>3, <2>4, <2>5 DEF SnappedAt
<1>3. QED
  BY <1>1, <1>2 DEF Sweep

LEMMA CallerSnap ==
    ASSUME TypeOK, SwapLocals, NEW c \in Callers, SnappedAt(c), CallerStep(c)
    PROVE  SnappedAt(c)'
<1>0. /\ call[c] \in CallType /\ call \in [Callers -> CallType]
      /\ sel \in Modes /\ order \in Seq(Modes)
      /\ Len(order) \in Nat /\ DOMAIN order = 1 .. Len(order)
  BY DEF TypeOK
<1>1. ASSUME call'[c].pc # "gather" PROVE SnappedAt(c)'
  BY <1>1 DEF SnappedAt
<1>2. ASSUME Returns(c) PROVE call'[c].pc # "gather"
  BY <1>0, <1>2 DEF Returns, IdleCall
<1>3. ASSUME NEW pc \in {"llm", "reporting", "failing"}, Goto(c, pc)
      PROVE  call'[c].pc # "gather"
  <2>1. call'[c].pc = pc
    BY <1>0, <1>3 DEF Goto, CallType
  <2>2. QED
    BY <2>1
<1>4. ASSUME NEW m \in Modes,
             \/ SetSystemPrompt(c, m) \/ MessagesForMode(c, m) \/ RejectContinue(c, m)
      PROVE  SnappedAt(c)'
  <2>1. call'[c].pc # "gather"
    BY <1>4 DEF SetSystemPrompt, MessagesForMode, RejectContinue, Ready
  <2>2. QED
    BY <1>1, <2>1
<1>5. ASSUME NEW m \in Modes, ClearNow(c, m) \/ ClearWaits(c, m)
      PROVE  SnappedAt(c)'
  <2>1. /\ Starts("clear", m) \in CallType /\ IdleCall \in CallType
        /\ Starts("clear", m).pc = "idle" /\ Starts("clear", m).op = "clear"
        /\ IdleCall.pc = "idle" /\ IdleCall.op = "none"
    BY StartsType DEF Ops, Starts, IdleCall
  <2>2. QED
    BY <1>5, <2>1, CancelTtsSnap DEF ClearNow, ClearWaits, Select
<1>6. ASSUME NEW m \in Modes, NEW op \in {"text", "audio", "continue"},
             StartTurn(c, op, m)
      PROVE  SnappedAt(c)'
  <2> DEFINE go == [Starts(op, m) EXCEPT !.turn = turnId[m] + 1, !.pc = AfterCancel[op]]
  <2>1. AfterCancel[op] \in {"asr", "prefix"} /\ op # "reload" /\ op \in Ops
    BY DEF AfterCancel, Ops
  <2>2. go \in CallType
    <3>1. Starts(op, m) \in CallType /\ turnId[m] + 1 \in Nat
      BY <2>1, StartsType DEF TypeOK
    <3>2. QED
      BY <2>1, <3>1 DEF CallType
  <2>3. go.pc # "gather" /\ go.op = op
    BY <2>1 DEF Starts, IdleCall
  <2>4. QED
    BY <1>6, <2>1, <2>2, <2>3, CancelTtsSnap DEF StartTurn, Select
<1>7. CASE CancelTts(c)
  <2>1. /\ Starts("cancel", sel) \in CallType /\ IdleCall \in CallType
        /\ Starts("cancel", sel).pc = "idle" /\ Starts("cancel", sel).op = "cancel"
        /\ IdleCall.pc = "idle" /\ IdleCall.op = "none"
    BY <1>0, StartsType DEF Ops, Starts, IdleCall
  <2>2. QED
    BY <1>0, <1>7, <2>1, CancelTtsSnap DEF CancelTts
<1>8. CASE Gathered(c)
  <2>1. CASE call[c].op = "cancel"
    BY <1>1, <1>2, <1>8, <2>1 DEF Gathered
  <2>2. CASE call[c].op # "cancel"
    <3>1. AfterCancel[call[c].op] # "gather"
      BY <1>8 DEF Gathered, AfterCancel
    <3>2. call'[c].pc = AfterCancel[call[c].op]
      BY <1>0, <1>8, <2>2 DEF Gathered, CallType
    <3>3. QED
      BY <1>1, <3>1, <3>2
  <2>3. QED
    BY <2>1, <2>2
<1>9. CASE ClearAfterCancel(c) \/ CloseTurn(c) \/ ScheduleUnload(c)
  BY <1>1, <1>2, <1>9 DEF ClearAfterCancel, CloseTurn, ScheduleUnload
<1>10. CASE Transcribed(c) \/ EmptyTranscript(c) \/ AsrFails(c) \/ LlmFails(c)
  BY <1>1, <1>2, <1>3, <1>10 DEF Transcribed, EmptyTranscript, AsrFails, LlmFails
<1>11. CASE TakePrefix(c)
  <2>1. call'[c].pc = "llm" \/ Returns(c)
    BY <1>0, <1>11 DEF TakePrefix, CallType
  <2>2. QED
    BY <1>1, <1>2, <2>1
<1>12. CASE FlushChunk(c)
  BY <1>1, <1>12 DEF FlushChunk
<1>13. CASE EndOfReply(c)
  BY <1>1, <1>3, <1>13 DEF EndOfReply, RecordReply
<1>14. ASSUME NEW b \in Bundles, UpdateProviders(c, b)
       PROVE  SnappedAt(c)'
  <2> DEFINE rec == [Starts("reload", sel) EXCEPT !.new = b, !.size = Len(order)]
  <2>1. Starts("reload", sel) \in CallType /\ Starts("reload", sel).op = "reload"
    BY <1>0, StartsType DEF Ops, Starts, IdleCall
  <2>2. rec \in CallType /\ rec.op = "reload"
    BY <1>0, <2>1 DEF CallType
  <2>3. Sweep(c, 1, rec) /\ UNCHANGED <<order, nTasks, chunk>>
    BY <1>14 DEF UpdateProviders
  <2>4. 1 \in Nat /\ 1 >= 1
    OBVIOUS
  <2>5. QED
    BY <2>2, <2>3, <2>4, SweepSnap
<1>15. ASSUME NEW b \in Bundles, UpdateProvidersKeepTts(c, b)
       PROVE  SnappedAt(c)'
  <2> DEFINE rec == Starts("reload_keep", sel)
  <2>1. rec \in CallType
    BY <1>0, StartsType DEF Ops
  <2>2. call'[c] = [rec EXCEPT !.pc = "swapped", !.snap = {}, !.old = bundle, !.new = b]
    BY <1>0, <1>15 DEF UpdateProvidersKeepTts, Swap
  <2>3. call'[c].pc = "swapped"
    BY <2>1, <2>2 DEF CallType
  <2>4. QED
    BY <1>1, <2>3
<1>16. CASE SweepGathered(c)
  <2>1. CASE Len(order) = call[c].size
    <3>1. call[c].next \in Nat /\ call[c].next >= 1
      BY <1>0, <1>16 DEF SweepGathered, SnappedAt, CallType
    <3>2. /\ call[c].op = "reload" /\ Sweep(c, call[c].next, call[c])
          /\ UNCHANGED <<order, nTasks, chunk>>
      BY <1>16, <2>1 DEF SweepGathered
    <3>3. QED
      BY <1>0, <3>1, <3>2, SweepSnap
  <2>2. CASE Len(order) # call[c].size
    BY <1>1, <1>2, <1>16, <2>2 DEF SweepGathered
  <2>3. QED
    BY <2>1, <2>2
<1>17. QED
  BY <1>4, <1>5, <1>6, <1>7, <1>8, <1>9, <1>10, <1>11, <1>12, <1>13, <1>14, <1>15, <1>16
     DEF CallerStep, HandleTurn, HandleContinue

\* The modes known so far keep their positions.
LEMMA OrderGrows ==
    ASSUME TypeOK, NEW c \in Callers, CallerStep(c)
    PROVE  \A i \in DOMAIN order : i \in DOMAIN order' /\ order'[i] = order[i]
<1>0. order \in Seq(Modes) /\ Len(order) \in Nat /\ DOMAIN order = 1 .. Len(order)
  BY DEF TypeOK
<1>1. ASSUME NEW m \in Modes, Touch(m)
      PROVE  \A i \in DOMAIN order : i \in DOMAIN order' /\ order'[i] = order[i]
  <2>1. CASE m \in Known
    BY <1>1, <2>1 DEF Touch
  <2>2. CASE m \notin Known
    <3>1. order' = Append(order, m)
      BY <1>1, <2>2 DEF Touch
    <3>2. /\ DOMAIN order' = 1 .. Len(order) + 1
          /\ \A i \in 1 .. Len(order) : order'[i] = order[i]
      BY <1>0, <3>1
    <3>3. QED
      BY <1>0, <3>2
  <2>3. QED
    BY <2>1, <2>2
<1>2. UNCHANGED order \/ \E m \in Modes : Touch(m)
  BY DEF CallerStep, SetSystemPrompt, MessagesForMode, ClearNow, ClearWaits, HandleTurn,
         HandleContinue, StartTurn, RejectContinue, Select, CancelTts, Gathered,
         ClearAfterCancel, TakePrefix, Transcribed, EmptyTranscript, AsrFails, FlushChunk,
         EndOfReply, LlmFails, CloseTurn, UpdateProviders, UpdateProvidersKeepTts,
         SweepGathered, ScheduleUnload
<1>3. QED
  BY <1>1, <1>2

\* What a caller does leaves the snapshots of the others' gathers good, if it
\* is calm.
LEMMA OthersSnapped ==
    ASSUME TypeOK, Snapped, NEW c \in Callers, CallerStep(c), Calm,
           NEW d \in Callers \ {c}
    PROVE  SnappedAt(d)'
<1> SUFFICES ASSUME call'[d].pc = "gather"
             PROVE  IF call'[d].op = "reload"
                    THEN /\ call'[d].next - 1 \in DOMAIN order'
                         /\ ActiveIn(order[call[d].next - 1])' \subseteq call'[d].snap
                    ELSE ActiveIn(sel)' \subseteq call'[d].snap
  BY DEF SnappedAt
<1>1. call'[d] = call[d] /\ call[d].pc = "gather"
  BY OthersKeep
<1>2. ActiveIn(Gathers(d))' \subseteq ActiveIn(Gathers(d))
  BY <1>1 DEF Calm
<1>3. CASE call[d].op = "reload"
  <2>1. /\ call[d].next - 1 \in DOMAIN order
        /\ ActiveIn(order[call[d].next - 1]) \subseteq call[d].snap
    BY <1>1, <1>3 DEF Snapped
  <2>2. call[d].next - 1 \in DOMAIN order'
    BY <2>1, OrderGrows
  <2>3. /\ Gathers(d) = order[call[d].next - 1]
        /\ Gathers(d)' = order'[call'[d].next - 1]
    BY <1>1, <1>3 DEF Gathers
  <2>4. ActiveIn(order[call[d].next - 1])' \subseteq call[d].snap
    BY <1>2, <2>1, <2>3 DEF ActiveIn
  <2>5. QED
    BY <1>1, <1>3, <2>2, <2>4
<1>4. CASE call[d].op # "reload"
  <2>1. ActiveIn(sel) \subseteq call[d].snap
    BY <1>1, <1>4 DEF Snapped
  <2>2. Gathers(d) = sel /\ Gathers(d)' = sel'
    BY <1>1, <1>4 DEF Gathers
  <2>3. ActiveIn(sel)' \subseteq call[d].snap
    BY <1>2, <2>1, <2>2 DEF ActiveIn
  <2>4. QED
    BY <1>1, <1>4, <2>3
<1>5. QED
  BY <1>3, <1>4

-----------------------------------------------------------------------------
OrderInv == ChainInv /\ Unbroken /\ Snapped

LEMMA OrderStep ==
    ASSUME OrderInv, [Next]_vars, Serial \/ Calm \/ UNCHANGED vars
    PROVE  OrderInv'
<1>1. TypeOK /\ SwapLocals /\ TaskInv /\ Unbroken /\ Snapped
  BY DEF OrderInv, ChainInv
<1>2. ChainInv' /\ TypeOK' /\ TaskInv'
  BY ChainStep DEF OrderInv, ChainInv
<1>3. ASSUME NoHandOver, UNCHANGED <<order, sel, call>>
      PROVE  Snapped'
  BY <1>1, <1>3, ActiveShrinks DEF Snapped
<1>4. ASSUME NEW c \in Callers, CallerStep(c), Serial \/ Calm
      PROVE  Unbroken' /\ Snapped'
  <2>1. SnappedAt(c)'
    BY <1>1, <1>4, CallerSnap DEF Snapped, SnappedAt
  <2>2. \A d \in Callers \ {c} : SnappedAt(d)'
    <3>1. CASE Serial
      BY <3>1 DEF Serial
    <3>2. CASE Calm
      BY <1>1, <1>4, <3>2, OthersSnapped
    <3>3. QED
      BY <1>4, <3>1, <3>2
  <2>3. Snapped'
    BY <2>1, <2>2 DEF Snapped, SnappedAt
  <2>4. Unbroken'
    BY <1>1, <1>2, <1>4, CallerTail, CallerEffect, NoHandOverUnbroken, HandOverUnbroken
  <2>5. QED
    BY <2>3, <2>4
<1>5. ASSUME NoHandOver, UNCHANGED tail
      PROVE  Unbroken'
  BY <1>1, <1>2, <1>5, NoHandOverUnbroken DEF DropsIdleTails
<1>6. ASSUME NEW t \in TaskId, TaskStep(t)
      PROVE  Unbroken' /\ Snapped'
  <2>1. UNCHANGED <<order, sel, call>>
    BY <1>6 DEF TaskStep, BeginSpeaking, EndSpeaking, InheritCancel, Unwind, LoadEnds
  <2>2. QED
    BY <1>1, <1>3, <1>5, <1>6, <2>1, TaskEffect
<1>7. ASSUME UNCHANGED <<order, sel, tail, speech, call>>
      PROVE  Unbroken' /\ Snapped'
  <2>1. NoHandOver /\ UNCHANGED <<order, sel, tail, call>>
    BY <1>7 DEF NoHandOver, Moves, speech
  <2>2. QED
    BY <1>3, <1>5, <2>1
<1>8. ASSUME Aside \/ UNCHANGED vars PROVE UNCHANGED <<order, sel, tail, speech, call>>
  BY <1>8, AsideKeeps DEF vars, speech
<1>9. CASE Aside \/ UNCHANGED vars
  BY <1>2, <1>7, <1>8, <1>9 DEF OrderInv
<1>10. CASE Serial \/ Calm
  BY <1>2, <1>4, <1>6, <1>9, <1>10, NextCases DEF OrderInv
<1>11. QED
  BY <1>9, <1>10

LEMMA OrderInit == Init => OrderInv
<1> SUFFICES ASSUME Init PROVE OrderInv
  OBVIOUS
<1>1. Tasks = {}
  BY DEF Init, Tasks
<1>2. QED
  BY <1>1, ChainInit DEF Init, OrderInv, Unbroken, Snapped, IdleCall

LEMMA OrderHolds == OrderInv => SpeechInOrder
<1> SUFFICES ASSUME OrderInv, NEW t \in TaskId, NEW u \in TaskId,
                    t < u, chunk[t].mode = chunk[u].mode, st[u] \in Heard,
                    st[t] \in Unfinished
             PROVE  FALSE
  BY DEF SpeechInOrder
<1>1. t \in Tasks /\ u \in Younger(t)
  BY DEF Tasks, Younger, Unfinished, Heard
<1>2. QED
  BY <1>1 DEF OrderInv, Unbroken

(***************************************************************************)
(* However many coroutines call the pipeline, and whatever they call, the  *)
(* chunks of a mode are spoken one by one and in the order they were       *)
(* handed over, as long as nothing selects another mode or hands over a    *)
(* chunk under a gather that is about to drop the mode's tail.             *)
(***************************************************************************)
THEOREM CalmlyInOrder == CalmSpec => []SpeechInOrder
<1>1. OrderInv /\ [Next /\ Calm]_vars => OrderInv'
  BY OrderStep
<1>2. QED
  BY <1>1, OrderInit, OrderHolds, PTL DEF CalmSpec

(***************************************************************************)
(* With one coroutine calling at a time, the chunks of a mode are spoken   *)
(* one by one and in the order the LLM produced them, for any number of    *)
(* modes, turns and chunks.                                                *)
(***************************************************************************)
THEOREM SpokenInOrder ==
    ASSUME Serial
    PROVE  Spec => []SpeechInOrder
<1>1. OrderInv /\ [Next]_vars => OrderInv'
  BY OrderStep
<1>2. QED
  BY <1>1, OrderInit, OrderHolds, PTL DEF Spec

-----------------------------------------------------------------------------
(***************************************************************************)
(* The course of a turn: what a step of a caller does to its call, to the  *)
(* turn ids and to the histories.                                          *)
(***************************************************************************)
TurnOps == {"text", "audio", "continue"}

\* The locals of a call that runs a turn up to the end of its reply.
Within(x) == x.pc \in {"asr", "prefix", "llm"} \/ (x.pc = "gather" /\ x.op \in TurnOps)

\* The call is, or comes to be, outside a turn; it may have cleared a history.
Outside(c) ==
    /\ ~Within(call'[c])
    /\ UNCHANGED turnId
    /\ hist' = hist \/ \E m \in Modes : hist' = [hist EXCEPT ![m] = <<>>]

Begins(c) ==
    \E op \in TurnOps, m \in Modes :
        /\ StartTurn(c, op, m)
        /\ call[c].pc = "idle" /\ (op = "continue" => CanContinue(m))

\* It goes on as a call that is the same but for where it is and its prefix.
GoesOn(c, pc, base) ==
    /\ call'[c].pc = pc /\ call'[c].base = base
    /\ call'[c].op = call[c].op
    /\ call'[c].mode = call[c].mode /\ call'[c].turn = call[c].turn
    /\ UNCHANGED turnId

Settles(c) ==
    /\ call[c].pc = "gather" /\ call[c].op \in TurnOps
    /\ GoesOn(c, AfterCancel[call[c].op], call[c].base) /\ UNCHANGED hist

Continues(c) ==
    LET m == call[c].mode IN
    /\ call[c].pc = "prefix" /\ hist[m] # <<>>
    /\ GoesOn(c, "llm", hist[m][Len(hist[m])].text) /\ UNCHANGED hist

Hears(c) ==
    /\ call[c].pc = "asr"
    /\ GoesOn(c, "llm", call[c].base)
    /\ hist' = [hist EXCEPT ![call[c].mode] =
                   Append(@, [role |-> "user", text |-> <<call[c].turn>>])]

Replies(c) ==
    /\ call[c].pc = "llm" /\ call'[c].pc = "reporting"
    /\ RecordReply(c) /\ UNCHANGED turnId

Course(c) ==
    \/ Outside(c) \/ Begins(c) \/ Settles(c) \/ Continues(c) \/ Hears(c) \/ Replies(c)
    \/ call[c].pc = "llm" /\ UNCHANGED <<call, turnId, hist>>

LEMMA CallerCourse ==
    ASSUME TypeOK, TypeOK', NEW c \in Callers, CallerStep(c)
    PROVE  Course(c)
<1>0. /\ call[c] \in CallType /\ call \in [Callers -> CallType]
      /\ call'[c] \in CallType /\ sel \in Modes /\ Len(order) \in Nat
  BY DEF TypeOK
<1>1. ASSUME Returns(c) PROVE ~Within(call'[c])
  BY <1>0, <1>1 DEF Returns, IdleCall, Within
<1>2. ASSUME NEW pc \in {"llm", "reporting", "failing"}, Goto(c, pc), UNCHANGED turnId
      PROVE  GoesOn(c, pc, call[c].base)
  BY <1>0, <1>2 DEF Goto, CallType, GoesOn
<1>3. ASSUME NEW m \in Modes,
             \/ SetSystemPrompt(c, m) \/ MessagesForMode(c, m) \/ RejectContinue(c, m)
      PROVE  Outside(c)
  BY <1>3 DEF SetSystemPrompt, MessagesForMode, RejectContinue, Ready, Outside, Within
<1>4. ASSUME NEW m \in Modes, ClearNow(c, m) \/ ClearWaits(c, m)
      PROVE  Outside(c)
  <2>1. \/ call'[c] = IdleCall
        \/ call'[c] = [Starts("clear", m) EXCEPT !.pc = "gather", !.snap = ActiveIn(m)]
    BY <1>0, <1>4 DEF ClearNow, ClearWaits, CancelNothing, CancelActive
  <2>2. /\ Starts("clear", m).op = "clear" /\ Starts("clear", m) \in CallType
        /\ IdleCall.pc = "idle"
    BY <1>0, StartsType DEF Starts, IdleCall, Ops
  <2>3. call'[c].pc = "idle" \/ (call'[c].pc = "gather" /\ call'[c].op = "clear")
    BY <2>1, <2>2 DEF CallType
  <2>4. ~Within(call'[c])
    BY <2>3 DEF Within, TurnOps
  <2>5. CASE ClearNow(c, m)
    BY <2>4, <2>5 DEF ClearNow, Outside
  <2>6. CASE ClearWaits(c, m)
    BY <2>4, <2>6 DEF ClearWaits, Outside
  <2>7. QED
    BY <1>4, <2>5, <2>6
<1>5. ASSUME NEW m \in Modes, NEW op \in {"text", "audio"}, HandleTurn(c, op, m)
      PROVE  Begins(c)
  BY <1>5 DEF HandleTurn, Ready, Begins, TurnOps
<1>6. ASSUME NEW m \in Modes, HandleContinue(c, m)
      PROVE  Begins(c)
  BY <1>6 DEF HandleContinue, Ready, Begins, TurnOps
<1>7. CASE CancelTts(c)
  <2>1. \/ call'[c] = IdleCall
        \/ call'[c] = [Starts("cancel", sel) EXCEPT !.pc = "gather",
                                                    !.snap = ActiveIn(sel)]
    BY <1>0, <1>7 DEF CancelTts, CancelNothing, CancelActive
  <2>2. /\ Starts("cancel", sel).op = "cancel" /\ Starts("cancel", sel) \in CallType
        /\ IdleCall.pc = "idle"
    BY <1>0, StartsType DEF Starts, IdleCall, Ops
  <2>3. call'[c].pc = "idle" \/ (call'[c].pc = "gather" /\ call'[c].op = "cancel")
    BY <2>1, <2>2 DEF CallType
  <2>4. ~Within(call'[c])
    BY <2>3 DEF Within, TurnOps
  <2>5. QED
    BY <1>7, <2>4 DEF CancelTts, Outside, Course
<1>8. CASE Gathered(c)
  <2>1. CASE call[c].op = "cancel"
    <3>1. Returns(c) /\ UNCHANGED <<turnId, hist>>
      BY <1>8, <2>1 DEF Gathered
    <3>2. QED
      BY <1>1, <3>1 DEF Outside, Course
  <2>2. CASE call[c].op # "cancel"
    <3>1. /\ call'[c].pc = AfterCancel[call[c].op]
          /\ call'[c].op = call[c].op /\ call'[c].base = call[c].base
          /\ call'[c].mode = call[c].mode /\ call'[c].turn = call[c].turn
      BY <1>0, <1>8, <2>2 DEF Gathered, CallType
    <3>2. CASE call[c].op = "clear"
      <4>1. call'[c].pc = "clear" /\ UNCHANGED <<turnId, hist>>
        BY <1>8, <3>1, <3>2 DEF Gathered, AfterCancel
      <4>2. QED
        BY <4>1 DEF Outside, Within, Course
    <3>3. CASE call[c].op \in TurnOps
      <4>1. call[c].pc = "gather" /\ UNCHANGED <<turnId, hist>>
        BY <1>8 DEF Gathered
      <4>2. QED
        BY <3>1, <3>3, <4>1 DEF Settles, GoesOn, Course
    <3>4. call[c].op \in {"text", "audio", "continue", "clear", "cancel"}
      BY <1>8 DEF Gathered, AfterCancel
    <3>5. QED
      BY <2>2, <3>2, <3>3, <3>4 DEF TurnOps
  <2>3. QED
    BY <2>1, <2>2
<1>9. CASE ClearAfterCancel(c) \/ CloseTurn(c) \/ ScheduleUnload(c)
  <2>1. Returns(c) /\ UNCHANGED turnId
    BY <1>9 DEF ClearAfterCancel, CloseTurn, ScheduleUnload
  <2>2. hist' = hist \/ hist' = [hist EXCEPT ![sel] = <<>>]
    BY <1>9 DEF ClearAfterCancel, CloseTurn, ScheduleUnload
  <2>3. QED
    BY <1>0, <1>1, <2>1, <2>2 DEF Outside, Course
<1>10. CASE EmptyTranscript(c) \/ AsrFails(c) \/ LlmFails(c)
  <2>1. Returns(c) \/ call'[c].pc \in {"reporting", "failing"}
    BY <1>0, <1>10 DEF EmptyTranscript, AsrFails, LlmFails, Goto, CallType
  <2>2. ~Within(call'[c])
    BY <1>1, <2>1 DEF Within
  <2>3. QED
    BY <1>10, <2>2 DEF EmptyTranscript, AsrFails, LlmFails, Outside, Course
<1>11. CASE Transcribed(c)
  BY <1>2, <1>11 DEF Transcribed, Hears, Course
<1>12. CASE TakePrefix(c)
  <2>1. CASE hist[call[c].mode] = <<>>
    <3>1. Returns(c) /\ UNCHANGED <<turnId, hist>>
      BY <1>12, <2>1 DEF TakePrefix
    <3>2. QED
      BY <1>1, <3>1 DEF Outside, Course
  <2>2. CASE hist[call[c].mode] # <<>>
    <3>1. /\ call' = [call EXCEPT ![c].pc = "llm",
                                  ![c].base = hist[call[c].mode][Len(hist[call[c].mode])].text]
          /\ call[c].pc = "prefix" /\ UNCHANGED <<turnId, hist>>
      BY <1>12, <2>2 DEF TakePrefix
    <3>2. GoesOn(c, "llm", hist[call[c].mode][Len(hist[call[c].mode])].text)
      BY <1>0, <3>1 DEF GoesOn, CallType
    <3>3. QED
      BY <2>2, <3>1, <3>2 DEF Continues, Course
  <2>3. QED
    BY <2>1, <2>2
<1>13. CASE FlushChunk(c)
  BY <1>13 DEF FlushChunk, Course
<1>14. CASE EndOfReply(c)
  <2>1. call'[c].pc \in {"reporting", "failing"}
    BY <1>0, <1>14 DEF EndOfReply, RecordReply, Goto, CallType
  <2>2. CASE call'[c].pc = "reporting"
    BY <1>14, <2>2 DEF EndOfReply, Replies, Course
  <2>3. CASE call'[c].pc = "failing"
    <3>1. UNCHANGED hist
      BY <1>0, <1>14, <2>3 DEF EndOfReply, RecordReply, Goto, CallType
    <3>2. QED
      BY <1>14, <2>3, <3>1 DEF EndOfReply, Outside, Within, Course
  <2>4. QED
    BY <2>1, <2>2, <2>3
<1>15. ASSUME NEW i, NEW rec \in CallType, rec.op = "reload", Sweep(c, i, rec)
       PROVE  ~Within(call'[c])
  <2>1. CASE SweepEnds(c, i, rec)
    <3>1. call'[c] = [rec EXCEPT !.pc = "swapped", !.snap = {},
                                 !.old = bundle, !.new = rec.new]
      BY <1>0, <2>1 DEF SweepEnds, Swap
    <3>2. call'[c].pc = "swapped"
      BY <3>1 DEF CallType
    <3>3. QED
      BY <3>2 DEF Within
  <2>2. CASE SweepWaits(c, i, rec)
    <3>1. PICK k \in Busy(i) :
            call'[c] = [rec EXCEPT !.pc = "gather", !.next = k + 1,
                                   !.snap = ActiveIn(order[k])]
      BY <1>0, <2>2 DEF SweepWaits
    <3>2. call'[c].pc = "gather" /\ call'[c].op = "reload"
      BY <1>15, <3>1 DEF CallType
    <3>3. QED
      BY <3>2 DEF Within, TurnOps
  <2>3. QED
    BY <1>15, <2>1, <2>2 DEF Sweep
<1>16. ASSUME NEW b \in Bundles, UpdateProviders(c, b)
       PROVE  Outside(c)
  <2> DEFINE rec == [Starts("reload", sel) EXCEPT !.new = b, !.size = Len(order)]
  <2>1. Starts("reload", sel) \in CallType /\ Starts("reload", sel).op = "reload"
    BY <1>0, StartsType DEF Ops, Starts, IdleCall
  <2>2. rec \in CallType /\ rec.op = "reload"
    BY <1>0, <2>1 DEF CallType
  <2>3. Sweep(c, 1, rec)
    BY <1>16 DEF UpdateProviders
  <2>4. QED
    BY <1>15, <1>16, <2>2, <2>3 DEF UpdateProviders, Outside
<1>17. ASSUME NEW b \in Bundles, UpdateProvidersKeepTts(c, b)
       PROVE  Outside(c)
  <2> DEFINE rec == Starts("reload_keep", sel)
  <2>1. rec \in CallType
    BY <1>0, StartsType DEF Ops
  <2>2. call'[c] = [rec EXCEPT !.pc = "swapped", !.snap = {}, !.old = bundle, !.new = b]
    BY <1>0, <1>17 DEF UpdateProvidersKeepTts, Swap
  <2>3. call'[c].pc = "swapped"
    BY <2>1, <2>2 DEF CallType
  <2>4. QED
    BY <1>17, <2>3 DEF UpdateProvidersKeepTts, Outside, Within
<1>18. CASE SweepGathered(c)
  <2>1. ~Within(call'[c])
    BY <1>0, <1>1, <1>15, <1>18 DEF SweepGathered
  <2>2. QED
    BY <1>18, <2>1 DEF SweepGathered, Outside, Course
<1>19. QED
  BY <1>3, <1>4, <1>5, <1>6, <1>7, <1>8, <1>9, <1>10, <1>11, <1>12, <1>13, <1>14, <1>16,
     <1>17, <1>18 DEF CallerStep, Course

-----------------------------------------------------------------------------
(***************************************************************************)
(* The current turn.  A turn that hands over chunks is the latest of its   *)
(* mode, because the only caller cannot begin another meanwhile.           *)
(***************************************************************************)
LatestTurn == \A c \in Callers :
    Within(call[c]) => call[c].turn = turnId[call[c].mode]

\* A turn that begins has cancelled what its mode waits to speak or speaks.
LEMMA TurnSilences ==
    ASSUME TypeOK, NEW c \in Callers, NEW op \in TurnOps, NEW m \in Modes,
           StartTurn(c, op, m), NEW t \in TaskId, st'[t] \in {"waiting", "speaking"}
    PROVE  st'[t] = st[t] /\ chunk[t].mode # m
<1> DEFINE go == [Starts(op, m) EXCEPT !.turn = turnId[m] + 1, !.pc = AfterCancel[op]]
<1>1. CASE CancelNothing(c, m, go)
  BY <1>1 DEF CancelNothing, ActiveIn, Unfinished
<1>2. CASE CancelActive(c, m, go)
  BY <1>2 DEF CancelActive, Cancel, ActiveIn, Unfinished
<1>3. QED
  BY <1>1, <1>2 DEF StartTurn

\* The call of a turn that begins.
LEMMA TurnBegins ==
    ASSUME TypeOK, NEW c \in Callers, NEW op \in TurnOps, NEW m \in Modes,
           StartTurn(c, op, m)
    PROVE  /\ call'[c].op = op /\ call'[c].mode = m /\ call'[c].base = <<>>
           /\ call'[c].pc \in {"gather", AfterCancel[op]}
           /\ call'[c].turn = turnId[m] + 1
           /\ turnId' = [turnId EXCEPT ![m] = @ + 1]
           /\ UNCHANGED <<hist, chunk>>
<1> DEFINE go == [Starts(op, m) EXCEPT !.turn = turnId[m] + 1, !.pc = AfterCancel[op]]
<1>0. call \in [Callers -> CallType]
  BY DEF TypeOK
<1>1. /\ go.op = op /\ go.mode = m /\ go.base = <<>> /\ go.pc = AfterCancel[op]
      /\ go.turn = turnId[m] + 1
  BY DEF Starts, IdleCall
<1>2. \/ call'[c] = go
      \/ call'[c] = [go EXCEPT !.pc = "gather", !.snap = ActiveIn(m)]
  BY <1>0 DEF StartTurn, CancelNothing, CancelActive
<1>3. CASE call'[c] = go
  BY <1>1, <1>3 DEF StartTurn
<1>4. CASE call'[c] = [go EXCEPT !.pc = "gather", !.snap = ActiveIn(m)]
  BY <1>4 DEF StartTurn, Starts, IdleCall
<1>5. QED
  BY <1>2, <1>3, <1>4

CurrentInv == ChainInv /\ LatestTurn /\ CurrentTurnOnly

LEMMA CurrentStays ==
    ASSUME TypeOK, CurrentTurnOnly, NoHandOver, UNCHANGED turnId
    PROVE  CurrentTurnOnly'
<1> SUFFICES ASSUME NEW t \in TaskId, st'[t] \in {"waiting", "speaking"}
             PROVE  st[t] \in {"waiting", "speaking"}
  BY DEF CurrentTurnOnly, NoHandOver
<1> QED
  BY DEF NoHandOver, Moves

LEMMA CurrentCaller ==
    ASSUME Serial, CurrentInv, TypeOK', NEW c \in Callers, CallerStep(c)
    PROVE  LatestTurn' /\ CurrentTurnOnly'
<1>0. /\ TypeOK /\ SwapLocals /\ LatestTurn /\ CurrentTurnOnly
      /\ turnId \in [Modes -> Nat] /\ call[c] \in CallType
  BY DEF CurrentInv, ChainInv, TypeOK
<1> SUFFICES /\ Within(call'[c]) => call'[c].turn = turnId'[call'[c].mode]
             /\ CurrentTurnOnly'
  BY DEF Serial, LatestTurn
<1>1. CASE Begins(c)
  <2>1. PICK op \in TurnOps, m \in Modes : StartTurn(c, op, m)
    BY <1>1 DEF Begins
  <2>2. call'[c].turn = turnId'[call'[c].mode]
    BY <1>0, <2>1, TurnBegins
  <2>3. CurrentTurnOnly'
    <3> SUFFICES ASSUME NEW t \in TaskId, st'[t] \in {"waiting", "speaking"}
                 PROVE  chunk[t].turn = turnId'[chunk[t].mode]
      BY <1>0, <2>1, TurnBegins DEF CurrentTurnOnly
    <3>1. st[t] = st'[t] /\ chunk[t].mode \in Modes \ {m}
      BY <1>0, <2>1, TurnSilences, TaskTypes
    <3>2. turnId'[chunk[t].mode] = turnId[chunk[t].mode]
      BY <1>0, <2>1, <3>1, TurnBegins
    <3>3. QED
      BY <1>0, <3>1, <3>2 DEF CurrentTurnOnly
  <2>4. QED
    BY <2>2, <2>3
<1>2. CASE ~Begins(c)
  <2>1. /\ UNCHANGED turnId
        /\ Within(call'[c]) => Within(call[c]) /\ call'[c].turn = call[c].turn
                                             /\ call'[c].mode = call[c].mode
    BY <1>0, <1>2, CallerCourse
       DEF Course, Outside, Settles, Continues, Hears, Replies, GoesOn, Within
  <2>2. Within(call'[c]) => call'[c].turn = turnId'[call'[c].mode]
    BY <1>0, <2>1 DEF LatestTurn
  <2>3. CASE NoHandOver
    BY <1>0, <2>1, <2>2, <2>3, CurrentStays
  <2>4. CASE StartTtsChunk(c) /\ call[c].pc = "llm"
    <3>1. call[c].turn = turnId[call[c].mode]
      BY <1>0, <2>4 DEF LatestTurn, Within
    <3>2. QED
      BY <1>0, <2>1, <2>2, <2>4, <3>1
         DEF StartTtsChunk, CreateTask, CurrentTurnOnly, TypeOK, CallType
  <2>5. QED
    BY <1>0, <2>2, <2>3, <2>4, CallerEffect
<1>3. QED
  BY <1>1, <1>2

LEMMA CurrentInit == Init => CurrentInv
BY ChainInit DEF Init, CurrentInv, LatestTurn, CurrentTurnOnly, Within, IdleCall

LEMMA CurrentStep ==
    ASSUME Serial, CurrentInv, [Next]_vars
    PROVE  CurrentInv'
<1>1. ChainInv /\ ChainInv' /\ TypeOK /\ TypeOK' /\ LatestTurn /\ CurrentTurnOnly
  BY ChainStep DEF CurrentInv, ChainInv
<1>2. ASSUME NEW c \in Callers, CallerStep(c) PROVE LatestTurn' /\ CurrentTurnOnly'
  BY <1>1, <1>2, CurrentCaller
<1>3. ASSUME NoHandOver, UNCHANGED <<turnId, call>>
      PROVE  LatestTurn' /\ CurrentTurnOnly'
  BY <1>1, <1>3, CurrentStays DEF LatestTurn
<1>4. ASSUME NEW t \in TaskId, TaskStep(t) PROVE LatestTurn' /\ CurrentTurnOnly'
  <2>1. UNCHANGED <<turnId, call>>
    BY <1>4 DEF TaskStep, BeginSpeaking, EndSpeaking, InheritCancel, Unwind, LoadEnds
  <2>2. QED
    BY <1>1, <1>3, <1>4, <2>1, TaskEffect
<1>5. ASSUME UNCHANGED <<turnId, tail, speech, call>>
      PROVE  LatestTurn' /\ CurrentTurnOnly'
  BY <1>3, <1>5 DEF NoHandOver, Moves, speech
<1>6. ASSUME Aside \/ UNCHANGED vars PROVE UNCHANGED <<turnId, tail, speech, call>>
  BY <1>6, AsideKeeps DEF vars, speech
<1>7. QED
  BY <1>1, <1>2, <1>4, <1>5, <1>6, NextCases DEF CurrentInv

(***************************************************************************)
(* With one coroutine calling at a time, a chunk that waits or speaks is   *)
(* of the latest turn of its mode: a turn that begins has silenced the     *)
(* earlier ones before it hands over chunks of its own.                    *)
(***************************************************************************)
THEOREM SpeaksCurrentTurn ==
    ASSUME Serial
    PROVE  Spec => []CurrentTurnOnly
<1>1. CurrentInv => CurrentTurnOnly
  BY DEF CurrentInv
<1>2. QED
  BY CurrentInit, CurrentStep, <1>1, PTL DEF Spec

-----------------------------------------------------------------------------
(***************************************************************************)
(* Histories.  A history is sound below n when its replies answer messages *)
(* and all its turns are below n.                                          *)
(***************************************************************************)
Answered(h) ==
    \A i \in DOMAIN h : h[i].role = "assistant" =>
        i > 1 /\ h[i-1] = [role |-> "user", text |-> <<h[i].text[1]>>]
Ordered(h) ==
    \A i \in DOMAIN h : \A j, k \in DOMAIN h[i].text : j < k => h[i].text[j] < h[i].text[k]
Below(h, n) ==
    \A i \in DOMAIN h : h[i].text # <<>> /\ \A j \in DOMAIN h[i].text : h[i].text[j] < n

Sound(h, n) == h \in Seq(Message) /\ Answered(h) /\ Ordered(h) /\ Below(h, n)

\* The call of a turn fits the history of its mode.
Fits(x, h) ==
    /\ x.pc = "asr" => x.op # "continue"
    /\ x.pc = "prefix" => x.op = "continue"
    /\ x.op # "continue" =>
        /\ x.base = <<>>
        /\ x.pc = "llm" => h # <<>> /\ h[Len(h)] = [role |-> "user", text |-> <<x.turn>>]
    /\ x.op = "continue" =>
        /\ h # <<>> /\ h[Len(h)].role = "assistant" /\ Below(h, x.turn)
        /\ x.pc = "llm" => x.base = h[Len(h)].text

LEMMA LongerHistory ==
    ASSUME NEW h \in Seq(Message), NEW e \in Message
    PROVE  /\ Append(h, e) \in Seq(Message)
           /\ DOMAIN Append(h, e) = 1 .. Len(h) + 1
           /\ Len(Append(h, e)) = Len(h) + 1
           /\ Append(h, e)[Len(h) + 1] = e
           /\ \A i \in 1 .. Len(h) : Append(h, e)[i] = h[i]
BY AppendProperties

LEMMA SingleTurn ==
    ASSUME NEW k \in Nat
    PROVE  /\ <<k>> \in Seq(Nat) /\ <<k>> # <<>> /\ DOMAIN <<k>> = {1} /\ <<k>>[1] = k
           /\ Append(<<>>, k) = <<k>>
OBVIOUS

\* A message of the user, and a reply to the one that is last.
LEMMA AddedMessage ==
    ASSUME NEW n \in Nat, NEW h, Sound(h, n), NEW k \in Nat, k < n,
           NEW role \in {"user", "assistant"},
           role = "assistant" => h # <<>> /\ h[Len(h)] = [role |-> "user", text |-> <<k>>]
    PROVE  Sound(Append(h, [role |-> role, text |-> <<k>>]), n)
<1> DEFINE e == [role |-> role, text |-> <<k>>]
           g == Append(h, e)
<1>1. e \in Message
  BY SingleTurn DEF Message
<1>2. /\ h \in Seq(Message) /\ DOMAIN h = 1 .. Len(h) /\ Len(h) \in Nat
      /\ h # <<>> => Len(h) >= 1
  BY EmptySeq DEF Sound
<1>3. /\ g \in Seq(Message) /\ DOMAIN g = 1 .. Len(h) + 1 /\ g[Len(h) + 1] = e
      /\ \A i \in 1 .. Len(h) : g[i] = h[i]
  BY <1>1, <1>2, LongerHistory
<1> HIDE DEF g
<1>4. e.text = <<k>> /\ e.role = role
  OBVIOUS
<1> HIDE DEF e
<1>5. Answered(g)
  <2> SUFFICES ASSUME NEW i \in 1 .. Len(h) + 1, g[i].role = "assistant"
               PROVE  i > 1 /\ g[i-1] = [role |-> "user", text |-> <<g[i].text[1]>>]
    BY <1>3 DEF Answered
  <2>1. CASE i \in 1 .. Len(h)
    <3>1. i > 1 /\ h[i-1] = [role |-> "user", text |-> <<h[i].text[1]>>]
      BY <1>2, <1>3, <2>1 DEF Sound, Answered
    <3>2. QED
      BY <1>2, <1>3, <2>1, <3>1
  <2>2. CASE i = Len(h) + 1
    <3>1. role = "assistant" /\ g[i].text[1] = k
      BY <1>3, <1>4, <2>2, SingleTurn
    <3>2. h[Len(h)] = [role |-> "user", text |-> <<k>>] /\ Len(h) \in 1 .. Len(h)
      BY <1>2, <3>1
    <3>3. i > 1 /\ i - 1 = Len(h)
      BY <1>2, <2>2, <3>2
    <3>4. QED
      BY <1>3, <3>1, <3>2, <3>3
  <2>3. QED
    BY <1>2, <2>1, <2>2
<1>6. ASSUME NEW i \in 1 .. Len(h) + 1
      PROVE  (i \in 1 .. Len(h) /\ g[i] = h[i]) \/ g[i].text = <<k>>
  BY <1>2, <1>3, <1>4
<1>7. Ordered(g)
  <2> SUFFICES ASSUME NEW i \in 1 .. Len(h) + 1, NEW a \in DOMAIN g[i].text,
                      NEW b \in DOMAIN g[i].text, a < b
               PROVE  g[i].text[a] < g[i].text[b]
    BY <1>3 DEF Ordered
  <2>1. CASE g[i].text = <<k>>
    BY <2>1, SingleTurn
  <2>2. CASE i \in 1 .. Len(h) /\ g[i] = h[i]
    BY <1>2, <2>2 DEF Sound, Ordered
  <2>3. QED
    BY <1>6, <2>1, <2>2
<1>8. Below(g, n)
  <2> SUFFICES ASSUME NEW i \in 1 .. Len(h) + 1
               PROVE  g[i].text # <<>> /\ \A j \in DOMAIN g[i].text : g[i].text[j] < n
    BY <1>3 DEF Below
  <2>1. CASE g[i].text = <<k>>
    BY <2>1, SingleTurn
  <2>2. CASE i \in 1 .. Len(h) /\ g[i] = h[i]
    BY <1>2, <2>2 DEF Sound, Below
  <2>3. QED
    BY <1>6, <2>1, <2>2
<1>9. QED
  BY <1>3, <1>5, <1>7, <1>8 DEF Sound, g, e

\* A reply that is continued stays the answer to the same message.
LEMMA ExtendedReply ==
    ASSUME NEW n \in Nat, NEW h, Sound(h, n), NEW k \in Nat, k < n,
           h # <<>>, h[Len(h)].role = "assistant", Below(h, k)
    PROVE  Sound([h EXCEPT ![Len(h)] = [role |-> "assistant",
                                        text |-> Append(h[Len(h)].text, k)]], n)
<1> DEFINE l == Len(h)
           old == h[l].text
           text == Append(old, k)
           e == [role |-> "assistant", text |-> text]
           g == [h EXCEPT ![l] = e]
<1>1. /\ h \in Seq(Message) /\ DOMAIN h = 1 .. l /\ l \in Nat /\ l \in 1 .. l
  BY EmptySeq DEF Sound
<1>2. /\ old \in Seq(Nat) /\ old # <<>> /\ \A j \in DOMAIN old : old[j] < k
      /\ \A i, j \in DOMAIN old : i < j => old[i] < old[j]
  <2>1. h[l] \in Message /\ l \in DOMAIN h
    BY <1>1
  <2>2. old \in Seq(Nat)
    BY <2>1 DEF Message
  <2>3. old # <<>> /\ \A j \in DOMAIN old : old[j] < k
    BY <2>1 DEF Below
  <2>4. \A i, j \in DOMAIN old : i < j => old[i] < old[j]
    BY <2>1 DEF Sound, Ordered
  <2>5. QED
    BY <2>2, <2>3, <2>4
<1>3. /\ Len(old) \in Nat /\ DOMAIN old = 1 .. Len(old) /\ 1 \in 1 .. Len(old)
      /\ \A j \in DOMAIN old : old[j] \in Nat
  BY <1>2, EmptySeq
<1>4. /\ text \in Seq(Nat) /\ DOMAIN text = 1 .. Len(old) + 1 /\ text[Len(old) + 1] = k
      /\ \A j \in 1 .. Len(old) : text[j] = old[j]
  BY <1>2, AppendProperties
<1> HIDE DEF text
<1>5. text # <<>> /\ text[1] = old[1]
  BY <1>3, <1>4
<1>6. e \in Message
  BY <1>4 DEF Message
<1>7. /\ g \in Seq(Message) /\ DOMAIN g = 1 .. l /\ g[l] = e
      /\ \A i \in 1 .. l : i # l => g[i] = h[i]
  BY <1>1, <1>6, ReplaceLast
<1>8. e.text = text /\ e.role = "assistant"
  OBVIOUS
<1> HIDE DEF g, e, old
<1>9. Answered(g)
  <2> SUFFICES ASSUME NEW i \in 1 .. l, g[i].role = "assistant"
               PROVE  i > 1 /\ g[i-1] = [role |-> "user", text |-> <<g[i].text[1]>>]
    BY <1>7 DEF Answered
  <2>1. h[i].role = "assistant" /\ h[i].text[1] = g[i].text[1]
    BY <1>5, <1>7, <1>8 DEF old
  <2>2. i > 1 /\ h[i-1] = [role |-> "user", text |-> <<h[i].text[1]>>]
    BY <1>1, <2>1 DEF Sound, Answered
  <2>3. i - 1 \in 1 .. l /\ i - 1 # l
    BY <1>1, <2>2
  <2>4. QED
    BY <1>7, <2>1, <2>2, <2>3
<1>10. Ordered(g)
  <2> SUFFICES ASSUME NEW i \in 1 .. l, NEW a \in DOMAIN g[i].text,
                      NEW b \in DOMAIN g[i].text, a < b
               PROVE  g[i].text[a] < g[i].text[b]
    BY <1>7 DEF Ordered
  <2>1. CASE i = l
    <3>1. g[i].text = text
      BY <1>7, <1>8, <2>1
    <3>2. a \in 1 .. Len(old) + 1 /\ b \in 1 .. Len(old) + 1
      BY <1>4, <3>1
    <3>3. a \in 1 .. Len(old) /\ (b \in 1 .. Len(old) \/ b = Len(old) + 1)
      BY <1>3, <3>2
    <3>4. /\ text[a] = old[a] /\ old[a] < k /\ text[Len(old) + 1] = k
          /\ b \in 1 .. Len(old) => text[b] = old[b] /\ old[a] < old[b]
      BY <1>2, <1>3, <1>4, <3>3
    <3>5. text[a] < text[b]
      BY <3>3, <3>4
    <3>6. QED
      BY <3>1, <3>5
  <2>2. CASE i # l
    BY <1>1, <1>7, <2>2 DEF Sound, Ordered
  <2>3. QED
    BY <2>1, <2>2
<1>11. Below(g, n)
  <2> SUFFICES ASSUME NEW i \in 1 .. l
               PROVE  g[i].text # <<>> /\ \A j \in DOMAIN g[i].text : g[i].text[j] < n
    BY <1>7 DEF Below
  <2>1. CASE i = l
    <3>1. ASSUME NEW j \in DOMAIN text PROVE text[j] < n
      <4>1. CASE j = Len(old) + 1
        BY <1>4, <4>1
      <4>2. CASE j \in 1 .. Len(old)
        <5>1. text[j] = old[j] /\ old[j] < k /\ old[j] \in Nat
          BY <1>2, <1>3, <1>4, <4>2
        <5>2. QED
          BY <5>1
      <4>3. QED
        BY <1>3, <1>4, <4>1, <4>2
    <3>2. QED
      BY <1>5, <1>7, <1>8, <2>1, <3>1
  <2>2. CASE i # l
    BY <1>1, <1>7, <2>2 DEF Sound, Below
  <2>3. QED
    BY <2>1, <2>2
<1>12. QED
  BY <1>7, <1>9, <1>10, <1>11 DEF Sound, g, e, old, text

HistoryInv ==
    /\ CurrentInv
    /\ \A m \in Modes : Sound(hist[m], turnId[m] + 1)
    /\ \A c \in Callers : Within(call[c]) => Fits(call[c], hist[call[c].mode])

LEMMA EmptyHistory == ASSUME NEW n \in Nat PROVE Sound(<<>>, n)
BY DEF Sound, Answered, Ordered, Below

LEMMA LaterTurn == ASSUME NEW n \in Nat, NEW h, Sound(h, n) PROVE Sound(h, n + 1)
<1> SUFFICES Below(h, n + 1)
  BY DEF Sound
<1> SUFFICES ASSUME NEW i \in DOMAIN h, NEW j \in DOMAIN h[i].text
             PROVE  h[i].text[j] < n + 1
  BY DEF Sound, Below
<1>1. h[i] \in Message
  BY DEF Sound
<1>2. h[i].text[j] \in Nat
  BY <1>1 DEF Message
<1>3. QED
  BY <1>2 DEF Sound, Below

LEMMA HistoryCaller ==
    ASSUME Serial, HistoryInv, TypeOK', NEW c \in Callers, Course(c)
    PROVE  /\ \A m \in Modes : Sound(hist'[m], turnId'[m] + 1)
           /\ Within(call'[c]) => Fits(call'[c], hist'[call'[c].mode])
<1> DEFINE x == call[c]
           y == call'[c]
           k == x.turn
           h == hist[x.mode]
<1>0. /\ TypeOK /\ LatestTurn /\ turnId \in [Modes -> Nat]
      /\ x \in CallType /\ x.mode \in Modes /\ k \in Nat
      /\ hist \in [Modes -> Seq(Message)]
      /\ \A m \in Modes : Sound(hist[m], turnId[m] + 1)
      /\ Within(x) => Fits(x, h) /\ k = turnId[x.mode]
  BY DEF HistoryInv, CurrentInv, ChainInv, LatestTurn, TypeOK, CallType
<1>1. CASE Outside(c)
  <2>1. /\ turnId' = turnId /\ ~Within(call'[c])
        /\ \/ hist' = hist
           \/ \E m \in Modes : hist' = [hist EXCEPT ![m] = <<>>]
    BY <1>1 DEF Outside
  <2>2. \A m \in Modes : Sound(<<>>, turnId[m] + 1)
    BY <1>0, EmptyHistory
  <2>3. QED
    BY <1>0, <2>1, <2>2
<1>2. CASE Begins(c)
  <2>1. PICK op \in TurnOps, m \in Modes :
           StartTurn(c, op, m) /\ (op = "continue" => CanContinue(m))
    BY <1>2 DEF Begins
  <2>2. /\ y.op = op /\ y.mode = m /\ y.base = <<>> /\ y.pc \in {"gather", AfterCancel[op]}
        /\ y.turn = turnId[m] + 1
        /\ turnId' = [turnId EXCEPT ![m] = @ + 1] /\ UNCHANGED hist
    BY <1>0, <2>1, TurnBegins
  <2>3. \A d \in Modes : Sound(hist'[d], turnId'[d] + 1)
    <3> TAKE d \in Modes
    <3>1. turnId[d] + 1 \in Nat /\ Sound(hist[d], turnId[d] + 1)
      BY <1>0
    <3>2. turnId'[d] = turnId[d] \/ turnId'[d] = turnId[d] + 1
      BY <1>0, <2>2
    <3>3. QED
      BY <2>2, <3>1, <3>2, LaterTurn
  <2>4. Below(hist[m], y.turn)
    BY <1>0, <2>2 DEF Sound
  <2>5. /\ y.pc # "llm" /\ (y.pc = "asr" => op # "continue")
        /\ y.pc = "prefix" => op = "continue"
    BY <2>2 DEF AfterCancel, TurnOps
  <2>6. Fits(y, hist'[y.mode])
    BY <2>1, <2>2, <2>4, <2>5 DEF Fits, CanContinue
  <2>7. QED
    BY <2>3, <2>6
<1>3. CASE Settles(c)
  <2>1. /\ Fits(x, h) /\ UNCHANGED <<hist, turnId>> /\ x.op \in TurnOps
        /\ y.pc = AfterCancel[x.op] /\ y.base = x.base /\ y.op = x.op
        /\ y.mode = x.mode /\ y.turn = k
    BY <1>0, <1>3 DEF Settles, GoesOn, Within
  <2>2. /\ y.pc # "llm" /\ (y.pc = "asr" => y.op # "continue")
        /\ y.pc = "prefix" => y.op = "continue"
    BY <2>1 DEF AfterCancel, TurnOps
  <2>3. Fits(y, hist'[y.mode])
    BY <2>1, <2>2 DEF Fits
  <2>4. QED
    BY <1>0, <2>1, <2>3
<1>4. CASE Continues(c)
  <2>1. /\ Fits(x, h) /\ UNCHANGED <<hist, turnId>> /\ x.pc = "prefix"
        /\ y.pc = "llm" /\ y.base = h[Len(h)].text /\ y.op = x.op
        /\ y.mode = x.mode /\ y.turn = k
    BY <1>0, <1>4 DEF Continues, GoesOn, Within
  <2>2. Fits(y, hist'[y.mode])
    BY <2>1 DEF Fits
  <2>3. QED
    BY <1>0, <2>1, <2>2
<1>5. CASE Hears(c)
  <2> DEFINE e == [role |-> "user", text |-> <<k>>]
  <2>1. /\ Fits(x, h) /\ UNCHANGED turnId /\ x.pc = "asr" /\ k = turnId[x.mode]
        /\ y.pc = "llm" /\ y.base = x.base /\ y.op = x.op
        /\ y.mode = x.mode /\ y.turn = k
    BY <1>0, <1>5 DEF Hears, GoesOn, Within
  <2>2. hist'[x.mode] = Append(h, e) /\ \A m \in Modes : m # x.mode => hist'[m] = hist[m]
    BY <1>0, <1>5 DEF Hears
  <2>3. Sound(Append(h, e), turnId[x.mode] + 1)
    <3>1. turnId[x.mode] + 1 \in Nat /\ k < turnId[x.mode] + 1
          /\ Sound(h, turnId[x.mode] + 1)
      BY <1>0, <2>1
    <3> HIDE DEF h, k
    <3>2. QED
      BY <1>0, <3>1, AddedMessage
  <2>4. /\ Append(h, e) # <<>> /\ Append(h, e)[Len(Append(h, e))] = e
    <3>1. h \in Seq(Message) /\ e \in Message
      BY <1>0, SingleTurn DEF Message
    <3>2. QED
      BY <3>1, LongerHistory
  <2>5. Fits(y, hist'[y.mode])
    BY <2>1, <2>2, <2>4 DEF Fits
  <2>6. QED
    BY <1>0, <2>1, <2>2, <2>3, <2>5
<1>6. CASE Replies(c)
  <2>1. /\ Fits(x, h) /\ k = turnId[x.mode] /\ x.pc = "llm" /\ UNCHANGED turnId
        /\ y.pc = "reporting" /\ RecordReply(c)
    BY <1>0, <1>6 DEF Replies, Within
  <2>2. ~Within(y)
    BY <2>1 DEF Within
  <2>3. Sound(hist'[x.mode], turnId[x.mode] + 1)
        /\ \A m \in Modes : m # x.mode => hist'[m] = hist[m]
    <3> DEFINE reply == [role |-> "assistant", text |-> Append(x.base, k)]
    <3>1. CASE x.op # "continue"
      <4>1. hist' = [hist EXCEPT ![x.mode] = Append(h, reply)]
        BY <2>1, <3>1 DEF RecordReply
      <4>2. Append(x.base, k) = <<k>>
        BY <1>0, <2>1, <3>1, SingleTurn DEF Fits
      <4>3. h # <<>> /\ h[Len(h)] = [role |-> "user", text |-> <<k>>]
        BY <2>1, <3>1 DEF Fits
      <4>4. Sound(Append(h, [role |-> "assistant", text |-> <<k>>]), turnId[x.mode] + 1)
        <5>1. turnId[x.mode] + 1 \in Nat /\ k < turnId[x.mode] + 1
              /\ Sound(h, turnId[x.mode] + 1)
          BY <1>0, <2>1
        <5> HIDE DEF h, k
        <5>2. QED
          BY <1>0, <4>3, <5>1, AddedMessage
      <4>5. QED
        BY <1>0, <4>1, <4>2, <4>4
    <3>2. CASE x.op = "continue"
      <4>1. h # <<>> /\ h[Len(h)].role = "assistant" /\ Below(h, k) /\ x.base = h[Len(h)].text
        BY <2>1, <3>2 DEF Fits
      <4>2. hist' = [hist EXCEPT ![x.mode] = [h EXCEPT ![Len(h)] = reply]]
        BY <1>0, <2>1, <3>2, <4>1 DEF RecordReply
      <4>3. Sound([h EXCEPT ![Len(h)] = reply], turnId[x.mode] + 1)
        <5>1. turnId[x.mode] + 1 \in Nat /\ k < turnId[x.mode] + 1
              /\ Sound(h, turnId[x.mode] + 1)
          BY <1>0, <2>1
        <5> HIDE DEF h, k
        <5>2. QED
          BY <1>0, <4>1, <5>1, ExtendedReply
      <4>4. QED
        BY <1>0, <4>2, <4>3
    <3>3. QED
      BY <3>1, <3>2
  <2>4. QED
    BY <1>0, <2>1, <2>2, <2>3
<1>7. CASE x.pc = "llm" /\ UNCHANGED <<call, turnId, hist>>
  BY <1>0, <1>7
<1>8. QED
  BY <1>1, <1>2, <1>3, <1>4, <1>5, <1>6, <1>7 DEF Course

(***************************************************************************)
(* With one coroutine calling at a time, every reply in a history answers  *)
(* the message before it, and a message is written by turns in order.      *)
(***************************************************************************)
THEOREM HistoriesArePaired ==
    ASSUME Serial
    PROVE  Spec => []HistoryPaired
<1>1. Init => HistoryInv
  <2> SUFFICES ASSUME Init PROVE HistoryInv
    OBVIOUS
  <2>1. CurrentInv
    BY CurrentInit
  <2>2. \A m \in Modes : Sound(hist[m], turnId[m] + 1)
    <3> TAKE m \in Modes
    <3>1. hist[m] = <<>> /\ turnId[m] + 1 \in Nat
      BY DEF Init
    <3>2. QED
      BY <3>1, EmptyHistory
  <2>3. QED
    BY <2>1, <2>2 DEF Init, HistoryInv, Within, IdleCall
<1>2. HistoryInv /\ [Next]_vars => HistoryInv'
  <2> SUFFICES ASSUME HistoryInv, [Next]_vars PROVE HistoryInv'
    OBVIOUS
  <2>1. CurrentInv /\ CurrentInv' /\ TypeOK /\ TypeOK'
    BY CurrentStep DEF HistoryInv, CurrentInv, ChainInv
  <2>2. ASSUME NEW c \in Callers, CallerStep(c) PROVE HistoryInv'
    <3>1. Course(c)
      BY <2>1, <2>2, CallerCourse
    <3>2. /\ \A m \in Modes : Sound(hist'[m], turnId'[m] + 1)
          /\ Within(call'[c]) => Fits(call'[c], hist'[call'[c].mode])
      BY <2>1, <3>1, HistoryCaller
    <3>3. QED
      BY <2>1, <3>2 DEF Serial, HistoryInv
  <2>3. ASSUME UNCHANGED <<hist, turnId, call>> PROVE HistoryInv'
    BY <2>1, <2>3 DEF HistoryInv
  <2>4. ASSUME NEW t \in TaskId, TaskStep(t) PROVE UNCHANGED <<hist, turnId, call>>
    BY <2>4 DEF TaskStep, BeginSpeaking, EndSpeaking, InheritCancel, Unwind, LoadEnds
  <2>5. ASSUME Aside \/ UNCHANGED vars PROVE UNCHANGED <<hist, turnId, call>>
    BY <2>5, AsideKeeps DEF vars
  <2>6. QED
    BY <2>2, <2>3, <2>4, <2>5, NextCases
<1>3. HistoryInv => HistoryPaired
  BY DEF HistoryInv, Sound, Answered, Ordered, HistoryPaired
<1>4. QED
  BY <1>1, <1>2, <1>3, PTL DEF Spec

-----------------------------------------------------------------------------
(***************************************************************************)
(* The refinement.  A call hands over a chunk, cancels what a mode has     *)
(* unfinished, or leaves the tasks alone; the queue of the mode gains a    *)
(* chunk, is emptied, or stays.                                            *)
(***************************************************************************)
Hands(c) == StartTtsChunk(c) /\ call[c].pc = "llm" /\ UNCHANGED turnId

Empties(m) ==
    /\ Cancel(ActiveIn(m)) /\ UNCHANGED <<nTasks, chunk>>
    /\ UNCHANGED turnId \/ turnId' = [turnId EXCEPT ![m] = @ + 1]

Spares == UNCHANGED <<nTasks, chunk, st, turnId>>

LEMMA CallerSpeech ==
    ASSUME TypeOK, NEW c \in Callers, CallerStep(c)
    PROVE  Hands(c) \/ (\E m \in Modes : Empties(m)) \/ Spares
<1>0. sel \in Modes /\ order \in Seq(Modes) /\ st \in [TaskId -> Status]
  BY DEF TypeOK
<1>1. ASSUME NEW m \in Modes, NEW go, CancelNothing(c, m, go) \/ CancelActive(c, m, go)
      PROVE  Cancel(ActiveIn(m))
  <2>1. CASE CancelNothing(c, m, go)
    BY <1>0, <2>1 DEF CancelNothing, Cancel
  <2>2. CASE CancelActive(c, m, go)
    BY <2>2 DEF CancelActive
  <2>3. QED
    BY <1>1, <2>1, <2>2
<1>2. ASSUME NEW m \in Modes,
             \/ SetSystemPrompt(c, m) \/ MessagesForMode(c, m) \/ RejectContinue(c, m)
      PROVE  Spares
  BY <1>2 DEF SetSystemPrompt, MessagesForMode, RejectContinue, Spares, speech
<1>3. ASSUME NEW m \in Modes, ClearNow(c, m) \/ ClearWaits(c, m)
      PROVE  Empties(m)
  BY <1>1, <1>3 DEF ClearNow, ClearWaits, Empties
<1>4. ASSUME NEW m \in Modes, NEW op \in TurnOps, StartTurn(c, op, m)
      PROVE  Empties(m)
  BY <1>1, <1>4 DEF StartTurn, Empties
<1>5. CASE CancelTts(c)
  BY <1>0, <1>1, <1>5 DEF CancelTts, Empties
<1>6. CASE \/ Gathered(c) \/ ClearAfterCancel(c) \/ TakePrefix(c) \/ Transcribed(c)
           \/ EmptyTranscript(c) \/ AsrFails(c) \/ LlmFails(c) \/ CloseTurn(c)
           \/ ScheduleUnload(c)
  BY <1>6 DEF Gathered, ClearAfterCancel, TakePrefix, Transcribed, EmptyTranscript, AsrFails,
              LlmFails, CloseTurn, ScheduleUnload, Spares, speech
<1>7. CASE FlushChunk(c) \/ EndOfReply(c)
  BY <1>7 DEF FlushChunk, EndOfReply, Hands, Spares, speech
<1>8. ASSUME NEW i, NEW rec, Sweep(c, i, rec), UNCHANGED <<nTasks, chunk, turnId>>
      PROVE  (\E m \in Modes : Empties(m)) \/ Spares
  <2>1. CASE SweepEnds(c, i, rec)
    BY <1>8, <2>1 DEF SweepEnds, Spares
  <2>2. CASE SweepWaits(c, i, rec)
    <3>1. PICK k \in Busy(i) : Cancel(ActiveIn(order[k]))
      BY <2>2 DEF SweepWaits
    <3>2. ActiveIn(order[k]) # {}
      BY DEF Busy
    <3>3. order[k] \in Modes
      BY <1>0, <3>2, TaskTypes DEF ActiveIn
    <3>4. QED
      BY <1>8, <3>1, <3>3 DEF Empties
  <2>3. QED
    BY <1>8, <2>1, <2>2 DEF Sweep
<1>9. ASSUME NEW b \in Bundles, UpdateProviders(c, b) \/ UpdateProvidersKeepTts(c, b)
      PROVE  (\E m \in Modes : Empties(m)) \/ Spares
  <2>1. CASE UpdateProviders(c, b)
    BY <1>8, <2>1 DEF UpdateProviders
  <2>2. CASE UpdateProvidersKeepTts(c, b)
    BY <2>2 DEF UpdateProvidersKeepTts, Spares, speech
  <2>3. QED
    BY <1>9, <2>1, <2>2
<1>10. CASE SweepGathered(c)
  BY <1>8, <1>10 DEF SweepGathered, Spares
<1>11. QED
  BY <1>2, <1>3, <1>4, <1>5, <1>6, <1>7, <1>9, <1>10
     DEF CallerStep, HandleTurn, HandleContinue, TurnOps

-----------------------------------------------------------------------------
(* No task awaits one that was cancelled *)

Dropped == {"cancelling", "cancelled"}

\* A gather of c is about to drop the tail of mode m.
DropsTail(c, m) ==
    /\ call[c].pc = "gather"
    /\ m = IF call[c].op = "reload" THEN order[call[c].next - 1] ELSE sel

LiveTails ==
    \A m \in Modes : tail[m] # NoTask /\ st[tail[m]] \in Dropped
        => \E c \in Callers : DropsTail(c, m)

NoneInherits ==
    \A t \in TaskId : st[t] = "waiting" /\ chunk[t].prev # NoTask
        => st[chunk[t].prev] \notin Dropped

LEMMA TailTask ==
    ASSUME TypeOK, TaskInv, NEW m \in Modes, tail[m] # NoTask
    PROVE  tail[m] \in TaskId /\ tail[m] \in Tasks /\ chunk[tail[m]].mode = m
BY TaskTypes DEF TaskInv, Born, Linked, TailIsNewest, Tasks

\* Cancelling a mode leaves the tails of the others as they are.
LEMMA OtherTails ==
    ASSUME TypeOK, TaskInv, NEW m \in Modes, NEW d \in Modes, d # m, tail[d] # NoTask,
           Cancel(ActiveIn(m))
    PROVE  st'[tail[d]] = st[tail[d]]
BY TailTask DEF Cancel, ActiveIn

LEMMA CallerLiveTails ==
    ASSUME Serial, OrderInv, TypeOK', LiveTails, NEW c \in Callers, CallerStep(c)
    PROVE  LiveTails'
<1>0. /\ TypeOK /\ TaskInv /\ Snapped /\ call[c] \in CallType /\ call \in [Callers -> CallType]
      /\ sel \in Modes /\ order \in Seq(Modes) /\ Len(order) \in Nat
      /\ DOMAIN order = 1 .. Len(order) /\ tail \in [Modes -> 0 .. nTasks]
      /\ turnId \in [Modes -> Nat]
  <2>1. TypeOK /\ TaskInv /\ Snapped
    BY DEF OrderInv, ChainInv
  <2>2. /\ call \in [Callers -> CallType] /\ sel \in Modes /\ order \in Seq(Modes)
        /\ tail \in [Modes -> 0 .. nTasks] /\ turnId \in [Modes -> Nat]
    BY <2>1 DEF TypeOK
  <2>3. QED
    BY <2>1, <2>2
<1>1. \A m \in Modes : tail[m] # NoTask /\ st[tail[m]] \in Dropped => DropsTail(c, m)
  BY DEF Serial, LiveTails
<1>2. ASSUME call[c].pc # "gather", UNCHANGED st,
             \A m \in Modes : tail'[m] \in {tail[m], NoTask}
      PROVE  LiveTails'
  BY <1>1, <1>2 DEF LiveTails, DropsTail
<1>3. ASSUME NEW m \in Modes, NEW go, CancelNothing(c, m, go) \/ CancelActive(c, m, go),
             call[c].pc = "idle", sel' = m, go \in CallType, go.op # "reload"
      PROVE  LiveTails'
  <2>1. CASE CancelNothing(c, m, go)
    BY <1>0, <1>2, <1>3, <2>1 DEF CancelNothing
  <2>2. CASE CancelActive(c, m, go)
    <3>1. call'[c] = [go EXCEPT !.pc = "gather", !.snap = ActiveIn(m)]
      BY <1>0, <2>2 DEF CancelActive
    <3>2. call'[c].pc = "gather" /\ call'[c].op # "reload"
      BY <1>3, <3>1 DEF CallType
    <3>3. DropsTail(c, m)'
      BY <1>3, <3>2 DEF DropsTail
    <3>4. \A d \in Modes : d # m /\ tail[d] # NoTask => st'[tail[d]] \notin Dropped
      BY <1>0, <1>1, <1>3, <2>2, OtherTails DEF CancelActive, DropsTail
    <3>5. QED
      BY <2>2, <3>3, <3>4 DEF CancelActive, LiveTails
  <2>3. QED
    BY <1>3, <2>1, <2>2
<1>4. ASSUME NEW i \in Nat, NEW rec \in CallType, rec.op = "reload", Sweep(c, i, rec), i >= 1,
             UNCHANGED order,
             \A m \in Modes : tail[m] # NoTask /\ st[tail[m]] \in Dropped
                => i - 1 \in DOMAIN order /\ order[i - 1] = m
      PROVE  LiveTails'
  <2>1. ASSUME NEW b \in Int, b >= i - 1, DropTails(i - 1, b), NEW m \in Modes
        PROVE  /\ tail'[m] \in {tail[m], NoTask}
               /\ tail[m] # NoTask /\ st[tail[m]] \in Dropped => tail'[m] = NoTask
    <3>1. tail'[m] \in {tail[m], NoTask}
      BY <2>1 DEF DropTails
    <3>2. CASE tail[m] # NoTask /\ st[tail[m]] \in Dropped
      <4>1. i - 1 \in ((i - 1) .. b) \cap DOMAIN order /\ order[i - 1] = m
        BY <1>4, <2>1, <3>2
      <4>2. QED
        BY <2>1, <4>1 DEF DropTails
    <3>3. QED
      BY <3>1, <3>2
  <2>2. CASE SweepEnds(c, i, rec)
    <3>1. DropTails(i - 1, Len(order)) /\ UNCHANGED st
      BY <2>2 DEF SweepEnds
    <3>2. CASE Len(order) >= i - 1
      BY <1>0, <2>1, <3>1, <3>2 DEF LiveTails
    <3>3. CASE ~(Len(order) >= i - 1)
      <4>1. i - 1 \notin DOMAIN order
        BY <1>0, <1>4, <3>3
      <4>2. \A m \in Modes : tail'[m] \in {tail[m], NoTask}
        BY <3>1 DEF DropTails
      <4>3. QED
        BY <1>4, <3>1, <4>1, <4>2 DEF LiveTails
    <3>4. QED
      BY <3>2, <3>3
  <2>3. CASE SweepWaits(c, i, rec)
    <3>1. PICK k \in Busy(i) :
             /\ DropTails(i - 1, k - 1) /\ Cancel(ActiveIn(order[k]))
             /\ call' = [call EXCEPT ![c] = [rec EXCEPT !.pc = "gather", !.next = k + 1,
                                                        !.snap = ActiveIn(order[k])]]
      BY <2>3 DEF SweepWaits
    <3>2. k \in i .. Len(order) /\ k \in DOMAIN order /\ order[k] \in Modes
          /\ k - 1 \in Int /\ k - 1 >= i - 1
      BY <1>0, <1>4 DEF Busy
    <3>3. call'[c] = [rec EXCEPT !.pc = "gather", !.next = k + 1,
                                 !.snap = ActiveIn(order[k])]
      BY <1>0, <3>1
    <3>4. call'[c].pc = "gather" /\ call'[c].op = "reload" /\ call'[c].next - 1 = k
      BY <1>4, <3>2, <3>3 DEF CallType
    <3>5. DropsTail(c, order[k])'
      BY <1>4, <3>4 DEF DropsTail
    <3>6. \A d \in Modes : d # order[k] /\ tail'[d] # NoTask => st'[tail'[d]] \notin Dropped
      BY <1>0, <2>1, <3>1, <3>2, OtherTails
    <3>7. QED
      BY <1>4, <3>5, <3>6 DEF LiveTails
  <2>4. QED
    BY <1>4, <2>2, <2>3 DEF Sweep
<1>5. ASSUME NEW m \in Modes,
             \/ SetSystemPrompt(c, m) \/ MessagesForMode(c, m) \/ RejectContinue(c, m)
      PROVE  LiveTails'
  BY <1>2, <1>5 DEF SetSystemPrompt, MessagesForMode, RejectContinue, Ready, speech
<1>6. ASSUME NEW m \in Modes, ClearNow(c, m) \/ ClearWaits(c, m)
      PROVE  LiveTails'
  <2>1. /\ Starts("clear", m) \in CallType /\ IdleCall \in CallType
        /\ Starts("clear", m).op = "clear" /\ IdleCall.op = "none"
    BY StartsType DEF Ops, Starts, IdleCall
  <2>2. QED
    BY <1>3, <1>6, <2>1 DEF ClearNow, ClearWaits, Select, Ready
<1>7. ASSUME NEW m \in Modes, NEW op \in TurnOps, StartTurn(c, op, m), call[c].pc = "idle"
      PROVE  LiveTails'
  <2> DEFINE go == [Starts(op, m) EXCEPT !.turn = turnId[m] + 1, !.pc = AfterCancel[op]]
  <2>1. /\ AfterCancel[op] \in {"asr", "prefix"} /\ op # "reload" /\ op \in Ops
    BY DEF AfterCancel, Ops, TurnOps
  <2>2. Starts(op, m) \in CallType /\ turnId[m] + 1 \in Nat
    BY <1>0, <2>1, StartsType
  <2>3. go \in CallType /\ go.op = op
    BY <2>1, <2>2 DEF CallType, Starts, IdleCall
  <2>4. QED
    BY <1>3, <1>7, <2>1, <2>3 DEF StartTurn, Select
<1>8. CASE CancelTts(c)
  <2>1. /\ Starts("cancel", sel) \in CallType /\ IdleCall \in CallType
        /\ Starts("cancel", sel).op = "cancel" /\ IdleCall.op = "none"
    BY <1>0, StartsType DEF Ops, Starts, IdleCall
  <2>2. QED
    BY <1>0, <1>3, <1>8, <2>1 DEF CancelTts, Ready
<1>9. CASE Gathered(c)
  <2>1. \A m \in Modes : tail[m] # NoTask /\ st[tail[m]] \in Dropped => m = sel
    BY <1>1, <1>9 DEF Gathered, DropsTail, AfterCancel
  <2>2. QED
    BY <1>0, <1>9, <2>1 DEF Gathered, LiveTails, speech
<1>10. CASE \/ ClearAfterCancel(c) \/ TakePrefix(c) \/ Transcribed(c)
            \/ EmptyTranscript(c) \/ AsrFails(c) \/ LlmFails(c) \/ CloseTurn(c)
            \/ ScheduleUnload(c)
  BY <1>2, <1>10 DEF ClearAfterCancel, TakePrefix, Transcribed, EmptyTranscript, AsrFails,
              LlmFails, CloseTurn, ScheduleUnload, speech
<1>11. CASE FlushChunk(c) \/ EndOfReply(c)
  <2>1. CASE UNCHANGED <<tail, speech>>
    BY <1>2, <1>11, <2>1 DEF FlushChunk, EndOfReply, speech
  <2>2. CASE StartTtsChunk(c)
    <3> DEFINE n == nTasks + 1
    <3>1. /\ n \in TaskId /\ st' = [st EXCEPT ![n] = "waiting"] /\ st \in [TaskId -> Status]
          /\ tail' = [tail EXCEPT ![call[c].mode] = n] /\ call[c].mode \in Modes
      BY <1>0, <2>2, ConstantsAssumption DEF StartTtsChunk, CreateTask, TypeOK, CallType
    <3>2. \A m \in Modes : tail[m] # NoTask => tail[m] \in TaskId /\ st[tail[m]] \notin Dropped
      BY <1>0, <1>1, <1>11, TailTask DEF FlushChunk, EndOfReply, DropsTail
    <3>3. QED
      BY <1>0, <3>1, <3>2 DEF LiveTails, Dropped
  <2>3. QED
    BY <1>11, <2>1, <2>2 DEF FlushChunk, EndOfReply
<1>12. ASSUME NEW b \in Bundles, UpdateProviders(c, b)
       PROVE  LiveTails'
  <2> DEFINE rec == [Starts("reload", sel) EXCEPT !.new = b, !.size = Len(order)]
  <2>1. Starts("reload", sel) \in CallType /\ Starts("reload", sel).op = "reload"
    BY <1>0, StartsType DEF Ops, Starts, IdleCall
  <2>2. rec \in CallType /\ rec.op = "reload"
    BY <1>0, <2>1 DEF CallType
  <2>3. Sweep(c, 1, rec) /\ UNCHANGED order /\ call[c].pc = "idle"
    BY <1>12 DEF UpdateProviders, Ready
  <2>4. 1 \in Nat /\ 1 >= 1
    OBVIOUS
  <2> HIDE DEF rec
  <2>5. QED
    BY <1>1, <1>4, <2>2, <2>3, <2>4 DEF DropsTail
<1>13. ASSUME NEW b \in Bundles, UpdateProvidersKeepTts(c, b)
       PROVE  LiveTails'
  BY <1>2, <1>13 DEF UpdateProvidersKeepTts, Ready, speech
<1>14. CASE SweepGathered(c)
  <2> DEFINE i == call[c].next
  <2>0. /\ call[c].op = "reload" /\ call[c].pc = "gather" /\ UNCHANGED order
        /\ i \in Nat
    BY <1>0, <1>14 DEF SweepGathered, CallType
  <2>1. i - 1 \in DOMAIN order /\ i >= 1
    BY <1>0, <2>0 DEF Snapped
  <2>2. \A m \in Modes : tail[m] # NoTask /\ st[tail[m]] \in Dropped => order[i - 1] = m
    BY <1>1, <2>0 DEF DropsTail
  <2>3. CASE Len(order) = call[c].size
    <3>1. Sweep(c, i, call[c])
      BY <1>14, <2>3 DEF SweepGathered
    <3> HIDE DEF i
    <3>2. QED
      BY <1>0, <1>4, <2>0, <2>1, <2>2, <3>1
  <2>4. CASE Len(order) # call[c].size
    <3>1. DropTails(i - 1, i - 1) /\ UNCHANGED st
      BY <1>14, <2>4 DEF SweepGathered
    <3>2. \A m \in Modes : /\ tail'[m] \in {tail[m], NoTask}
                           /\ order[i - 1] = m => tail'[m] = NoTask
      <4>1. i - 1 \in ((i - 1) .. (i - 1)) \cap DOMAIN order
        BY <2>0, <2>1
      <4>2. QED
        BY <3>1, <4>1 DEF DropTails
    <3>3. QED
      BY <2>2, <3>1, <3>2 DEF LiveTails
  <2>5. QED
    BY <2>3, <2>4
<1>15. QED
  BY <1>5, <1>6, <1>7, <1>8, <1>9, <1>10, <1>11, <1>12, <1>13, <1>14
     DEF CallerStep, HandleTurn, HandleContinue, Ready, TurnOps

LEMMA InheritStep ==
    ASSUME OrderInv, LatestTurn, NoneInherits, LiveTails, NEW c \in Callers, CallerStep(c),
           Serial
    PROVE  NoneInherits'
<1>0. TypeOK /\ TaskInv
  BY DEF OrderInv, ChainInv
<1>1. CASE Hands(c)
  <2> DEFINE n == nTasks + 1
             m == call[c].mode
  <2>0. /\ m \in Modes /\ call[c].turn \in Nat /\ nTasks < MaxTasks
        /\ nTasks \in Nat /\ MaxTasks \in Nat
    <3>1. call[c] \in CallType /\ nTasks \in 0 .. MaxTasks /\ nTasks < MaxTasks
      BY <1>0, <1>1 DEF Hands, StartTtsChunk, CreateTask, TypeOK
    <3>2. QED
      BY <3>1, ConstantsAssumption DEF CallType
  <2>1. n \in TaskId /\ tail[m] \in 0 .. MaxTasks /\ tail[m] # n
    BY <1>0, <2>0, TaskTypes DEF TaskInv, Linked
  <2>2. /\ st'[n] = "waiting" /\ chunk'[n].prev = tail[m]
        /\ \A t \in TaskId \ {n} : st'[t] = st[t] /\ chunk'[t] = chunk[t]
    BY <1>0, <1>1, <2>0, <2>1 DEF Hands, StartTtsChunk, CreateTask, TypeOK
  <2>3. tail[m] # NoTask => st'[tail[m]] \notin Dropped
    BY <1>0, <1>1, <2>0, <2>1, <2>2, TailTask DEF Hands, LiveTails, DropsTail, Serial
  <2>4. \A t \in TaskId \ {n} : st[t] = "waiting" => chunk[t].prev # n
    BY <1>0, <2>1, TaskTypes DEF TaskInv, Born, Linked, Tasks
  <2>5. \A t \in TaskId : chunk[t].prev \in 0 .. MaxTasks
    BY <1>0, TaskTypes
  <2>6. QED
    BY <2>1, <2>2, <2>3, <2>4, <2>5 DEF NoneInherits
<1>2. ASSUME NEW m \in Modes, Empties(m) PROVE NoneInherits'
  <2> SUFFICES ASSUME NEW t \in TaskId, st'[t] = "waiting", chunk[t].prev # NoTask
               PROVE  st'[chunk[t].prev] \notin Dropped
    BY <1>2 DEF NoneInherits, Empties
  <2>1. st[t] = "waiting" /\ chunk[t].mode # m
    BY <1>2 DEF Empties, Cancel, ActiveIn, Unfinished
  <2>2. chunk[t].prev \in TaskId /\ chunk[chunk[t].prev].mode = chunk[t].mode
    BY <1>0, <2>1, TaskTypes DEF TaskInv, Linked, Tasks
  <2>3. st'[chunk[t].prev] = st[chunk[t].prev]
    BY <1>2, <2>1, <2>2 DEF Empties, Cancel, ActiveIn
  <2>4. QED
    BY <2>1, <2>3 DEF NoneInherits
<1>3. CASE Spares
  BY <1>3 DEF Spares, NoneInherits
<1>4. QED
  BY <1>0, <1>1, <1>2, <1>3, CallerSpeech

\* A task that steps is not dropped by it, unless its cancellation unwinds.
LEMMA TaskLive ==
    ASSUME TypeOK, NoneInherits, NEW t \in TaskId, TaskStep(t)
    PROVE  /\ \A u \in TaskId : st'[u] \in Dropped => st[u] \in Dropped
           /\ \A u \in TaskId : st'[u] = "waiting" => st[u] = "waiting"
           /\ UNCHANGED <<order, sel, turnId, tail, chunk, nTasks, call>>
<1>1. ~InheritCancel(t)
  BY DEF InheritCancel, NoneInherits, Dropped
<1>2. st \in [TaskId -> Status]
  BY DEF TypeOK
<1>3. CASE BeginSpeaking(t)
  BY <1>2, <1>3 DEF BeginSpeaking, Dropped
<1>4. CASE EndSpeaking(t)
  BY <1>2, <1>4 DEF EndSpeaking, Dropped
<1>5. CASE Unwind(t)
  BY <1>2, <1>5 DEF Unwind, Dropped
<1>6. CASE LoadEnds(t)
  BY <1>6 DEF LoadEnds
<1>7. QED
  BY <1>1, <1>3, <1>4, <1>5, <1>6 DEF TaskStep

QueueInv == OrderInv /\ CurrentInv /\ LiveTails /\ NoneInherits

LEMMA QueueInvInit == Init => QueueInv
<1> SUFFICES ASSUME Init PROVE QueueInv
  OBVIOUS
<1>1. OrderInv
  BY OrderInit
<1>2. QED
  BY <1>1, CurrentInit DEF Init, QueueInv, LiveTails, NoneInherits

LEMMA QueueInvStep ==
    ASSUME Serial, QueueInv, [Next]_vars
    PROVE  QueueInv'
<1>1. /\ OrderInv' /\ CurrentInv' /\ TypeOK /\ TypeOK' /\ TaskInv
      /\ OrderInv /\ LatestTurn /\ LiveTails /\ NoneInherits
  BY OrderStep, CurrentStep DEF QueueInv, OrderInv, CurrentInv, ChainInv
<1>2. ASSUME NEW c \in Callers, CallerStep(c) PROVE LiveTails' /\ NoneInherits'
  BY <1>1, <1>2, CallerLiveTails, InheritStep
<1>3. ASSUME NEW t \in TaskId, TaskStep(t) PROVE LiveTails' /\ NoneInherits'
  <2>1. LiveTails'
    BY <1>1, <1>3, TaskLive, TailTask DEF LiveTails, DropsTail
  <2>2. NoneInherits'
    BY <1>1, <1>3, TaskLive, TaskTypes DEF NoneInherits
  <2>3. QED
    BY <2>1, <2>2
<1>4. ASSUME UNCHANGED <<order, sel, tail, speech, call>> PROVE LiveTails' /\ NoneInherits'
  BY <1>1, <1>4 DEF LiveTails, DropsTail, NoneInherits, speech
<1>5. ASSUME Aside \/ UNCHANGED vars PROVE UNCHANGED <<order, sel, tail, speech, call>>
  BY <1>5, AsideKeeps DEF vars, speech
<1>6. QED
  BY <1>1, <1>2, <1>3, <1>4, <1>5, NextCases DEF QueueInv

-----------------------------------------------------------------------------
(* Steps of the queues *)

\* Tasks of a mode that neither begin nor cease to wait or to speak.
Still(m) ==
    /\ ChunksOf(m, "waiting")' = ChunksOf(m, "waiting")
    /\ ChunksOf(m, "speaking")' = ChunksOf(m, "speaking")

LEMMA StillTasks ==
    ASSUME UNCHANGED chunk, NEW m,
           \A t \in TaskId : chunk[t].mode = m =>
                \/ st'[t] = st[t]
                \/ {st[t], st'[t]} \cap {"waiting", "speaking"} = {}
    PROVE  Still(m)
<1>1. ASSUME NEW t \in TaskId, NEW status \in {"waiting", "speaking"}
      PROVE  st'[t] = status /\ chunk[t].mode = m <=> st[t] = status /\ chunk[t].mode = m
  OBVIOUS
<1>2. QED
  BY <1>1 DEF Still, ChunksOf

LEMMA Stutters ==
    ASSUME UNCHANGED <<turnId, nTasks>>, \A m \in Modes : Still(m)
    PROVE  UNCHANGED Queue!vars
BY DEF Still, Queue!vars

LEMMA Hand ==
    ASSUME QueueInv, NEW c \in Callers, Hands(c), NEW m \in Modes, call[c].mode = m
    PROVE  Queue!Hand(m)
<1> DEFINE n == nTasks + 1
<1>0. TypeOK /\ TaskInv /\ LatestTurn
  BY DEF QueueInv, OrderInv, ChainInv, CurrentInv
<1>1. /\ n \in TaskId /\ nTasks < MaxTasks /\ nTasks' = n
      /\ call[c].turn = turnId[m] /\ UNCHANGED turnId
  <2>1. nTasks \in Nat /\ MaxTasks \in Nat /\ nTasks < MaxTasks /\ nTasks' = n
    BY <1>0, ConstantsAssumption DEF Hands, StartTtsChunk, CreateTask, TypeOK
  <2>2. call[c].turn = turnId[m] /\ UNCHANGED turnId
    BY <1>0 DEF Hands, LatestTurn, Within
  <2>3. QED
    BY <2>1, <2>2
<1>2. /\ st' = [st EXCEPT ![n] = "waiting"] /\ st \in [TaskId -> Status]
      /\ chunk' = [chunk EXCEPT ![n] = [mode |-> m, turn |-> turnId[m], prev |-> tail[m]]]
      /\ chunk \in [TaskId -> [mode : Modes, turn : Nat, prev : 0 .. MaxTasks]]
  BY <1>0, <1>1 DEF Hands, StartTtsChunk, CreateTask, TypeOK
<1>3. st[n] = "unborn"
  BY <1>0, <1>1 DEF TaskInv, Born, TypeOK
<1>4. /\ st'[n] = "waiting" /\ chunk'[n].mode = m /\ chunk'[n].turn = turnId[m]
      /\ \A t \in TaskId : t # n => st'[t] = st[t] /\ chunk'[t] = chunk[t]
  BY <1>1, <1>2
<1>5. ASSUME NEW d \in Modes
      PROVE  ChunksOf(d, "speaking")' = ChunksOf(d, "speaking")
  BY <1>3, <1>4 DEF ChunksOf
<1>6. ASSUME NEW d \in Modes, d # m
      PROVE  ChunksOf(d, "waiting")' = ChunksOf(d, "waiting")
  BY <1>3, <1>4, <1>6 DEF ChunksOf
<1>7. ChunksOf(m, "waiting")' = ChunksOf(m, "waiting") \cup {[id |-> n, turn |-> turnId[m]]}
  <2>1. ASSUME NEW t \in TaskId
        PROVE  st'[t] = "waiting" /\ chunk'[t].mode = m
                 <=> t = n \/ (st[t] = "waiting" /\ chunk[t].mode = m)
    BY <1>4
  <2>2. \A t \in TaskId : t # n => chunk'[t].turn = chunk[t].turn
    BY <1>4
  <2> DEFINE Was == {t \in TaskId : st[t] = "waiting" /\ chunk[t].mode = m}
             Is == {t \in TaskId : st'[t] = "waiting" /\ chunk'[t].mode = m}
  <2>3. Is = Was \cup {n} /\ n \notin Was
    BY <1>1, <1>3, <2>1
  <2>4. {[id |-> t, turn |-> chunk'[t].turn] : t \in Is}
          = {[id |-> t, turn |-> chunk[t].turn] : t \in Was} \cup {[id |-> n, turn |-> turnId[m]]}
    <3> HIDE DEF Is, Was, n
    <3>1. ASSUME NEW t \in Was PROVE chunk'[t].turn = chunk[t].turn
      BY <2>2, <2>3 DEF Was
    <3>2. QED
      BY <1>4, <2>3, <3>1
  <2>5. QED
    BY <2>4 DEF ChunksOf
<1>8. QED
  BY <1>1, <1>5, <1>6, <1>7 DEF Queue!Hand

LEMMA Empty ==
    ASSUME TypeOK, NEW m \in Modes, Empties(m)
    PROVE  Queue!Flush(m) \/ Queue!NewTurn(m)
<1>1. ASSUME NEW t \in TaskId
      PROVE  /\ chunk[t].mode = m => st'[t] \notin {"waiting", "speaking"}
             /\ chunk[t].mode # m => st'[t] = st[t]
  BY DEF Empties, Cancel, ActiveIn, Unfinished
<1>2. UNCHANGED <<nTasks, chunk>>
  BY DEF Empties
<1>3. \A d \in Modes : d # m => Still(d)
  BY <1>1, <1>2, StillTasks
<1>4. ChunksOf(m, "waiting")' = {} /\ ChunksOf(m, "speaking")' = {}
  BY <1>1, <1>2 DEF ChunksOf
<1>5. Queue!Silence(m)
  BY <1>3, <1>4 DEF Queue!Silence, Still
<1>6. QED
  BY <1>2, <1>5 DEF Empties, Queue!Flush, Queue!NewTurn

LEMMA Begin ==
    ASSUME QueueInv, QueueInv', NEW t \in TaskId, BeginSpeaking(t)
    PROVE  Queue!Begin(chunk[t].mode)
<1> DEFINE m == chunk[t].mode
           k == [id |-> t, turn |-> chunk[t].turn]
<1>0. TypeOK /\ Unbroken /\ Unbroken' /\ m \in Modes
  BY TaskTypes DEF QueueInv, OrderInv, ChainInv
<1>1. /\ st[t] = "waiting" /\ st'[t] = "speaking"
      /\ \A u \in TaskId : u # t => st'[u] = st[u]
      /\ UNCHANGED <<turnId, nTasks, chunk>>
  BY <1>0 DEF BeginSpeaking, TypeOK
<1>2. ASSUME NEW u \in TaskId, chunk[u].mode = m, u < t
      PROVE  st[u] \notin Unfinished
  <2>1. t \in Younger(u)' /\ st'[t] \in Heard
    BY <1>1, <1>2 DEF Younger, Tasks, Heard
  <2>2. st'[u] \notin Unfinished
    BY <1>0, <1>2, <2>1 DEF Unbroken, Tasks, Unfinished
  <2>3. QED
    BY <1>1, <1>2, <2>2
<1>3. ASSUME NEW u \in TaskId, chunk[u].mode = m, st[u] = "speaking"
      PROVE  FALSE
  <2>1. u > t
    BY <1>1, <1>2, <1>3, ConstantsAssumption DEF Unfinished
  <2>2. u \in Younger(t) /\ t \in Tasks /\ st[t] \in Unfinished
    BY <1>1, <1>3, <2>1 DEF Younger, Tasks, Unfinished
  <2>3. QED
    BY <1>0, <1>3, <2>2 DEF Unbroken, Heard
<1>4. ChunksOf(m, "speaking") = {}
  BY <1>3 DEF ChunksOf
<1>5. k \in ChunksOf(m, "waiting")
  BY <1>1 DEF ChunksOf
<1>6. \A l \in ChunksOf(m, "waiting") : t <= l.id
  <2> SUFFICES ASSUME NEW u \in TaskId, st[u] = "waiting", chunk[u].mode = m
               PROVE  t <= u
    BY DEF ChunksOf
  <2> QED
    BY <1>2, ConstantsAssumption DEF Unfinished
<1>7. ChunksOf(m, "waiting")' = ChunksOf(m, "waiting") \ {k}
  BY <1>1 DEF ChunksOf
<1>8. ChunksOf(m, "speaking")' = {k}
  BY <1>1, <1>3 DEF ChunksOf
<1>9. \A d \in Modes : d # m => Still(d)
  BY <1>1 DEF ChunksOf, Still
<1>10. QED
  BY <1>0, <1>1, <1>4, <1>5, <1>6, <1>7, <1>8, <1>9 DEF Queue!Begin, Still

LEMMA End ==
    ASSUME QueueInv, NEW t \in TaskId, EndSpeaking(t)
    PROVE  Queue!End(chunk[t].mode)
<1> DEFINE m == chunk[t].mode
<1>0. TypeOK /\ Unbroken /\ m \in Modes
  BY TaskTypes DEF QueueInv, OrderInv, ChainInv
<1>1. /\ st[t] = "speaking" /\ st'[t] = "done"
      /\ \A u \in TaskId : u # t => st'[u] = st[u]
      /\ UNCHANGED <<turnId, nTasks, chunk>>
  BY <1>0 DEF EndSpeaking, TypeOK
<1>2. ASSUME NEW u \in TaskId, u # t, chunk[u].mode = m PROVE st[u] # "speaking"
  <2> SUFFICES ASSUME st[u] = "speaking" PROVE FALSE
    OBVIOUS
  <2>1. u \in Younger(t) \/ t \in Younger(u)
    BY <1>1, <1>2, ConstantsAssumption DEF Younger, Tasks
  <2>2. u \in Tasks /\ t \in Tasks
    BY <1>1 DEF Tasks
  <2>3. QED
    BY <1>0, <1>1, <2>1, <2>2 DEF Unbroken, Heard, Unfinished
<1>3. ChunksOf(m, "speaking") # {} /\ ChunksOf(m, "speaking")' = {}
  BY <1>1, <1>2 DEF ChunksOf
<1>4. ChunksOf(m, "waiting")' = ChunksOf(m, "waiting")
  BY <1>1 DEF ChunksOf
<1>5. \A d \in Modes : d # m => Still(d)
  BY <1>1 DEF ChunksOf, Still
<1>6. QED
  BY <1>0, <1>1, <1>3, <1>4, <1>5 DEF Queue!End, Still

LEMMA QueueStep ==
    ASSUME Serial, QueueInv, QueueInv', [Next]_vars
    PROVE  [Queue!Next]_(Queue!vars)
<1>0. TypeOK /\ NoneInherits
  BY DEF QueueInv, OrderInv, ChainInv
<1>1. ASSUME UNCHANGED <<turnId, nTasks, chunk, st>> PROVE UNCHANGED Queue!vars
  BY <1>1, StillTasks, Stutters
<1>2. ASSUME NEW c \in Callers, CallerStep(c) PROVE [Queue!Next]_(Queue!vars)
  <2>1. CASE Hands(c)
    <3>1. call[c].mode \in Modes
      BY <1>0 DEF TypeOK, CallType
    <3>2. QED
      BY <2>1, <3>1, Hand DEF Queue!Next
  <2>2. ASSUME NEW m \in Modes, Empties(m) PROVE Queue!Next
    BY <1>0, <2>2, Empty DEF Queue!Next
  <2>3. CASE Spares
    BY <1>1, <2>3 DEF Spares
  <2>4. QED
    BY <1>0, <1>2, <2>1, <2>2, <2>3, CallerSpeech
<1>3. ASSUME NEW t \in TaskId, TaskStep(t) PROVE [Queue!Next]_(Queue!vars)
  <2>1. chunk[t].mode \in Modes
    BY <1>0, TaskTypes
  <2>2. CASE BeginSpeaking(t) \/ EndSpeaking(t)
    BY <2>1, <2>2, Begin, End DEF Queue!Next
  <2>3. CASE Unwind(t)
    <3>1. /\ UNCHANGED <<turnId, nTasks, chunk>>
          /\ \A u \in TaskId : \/ st'[u] = st[u]
                              \/ {st[u], st'[u]} \cap {"waiting", "speaking"} = {}
      BY <1>0, <2>3 DEF Unwind, TypeOK
    <3>2. QED
      BY <3>1, StillTasks, Stutters
  <2>4. ~InheritCancel(t)
    BY <1>0 DEF InheritCancel, NoneInherits, Dropped
  <2>5. CASE LoadEnds(t)
    BY <1>1, <2>5 DEF LoadEnds
  <2>6. QED
    BY <1>3, <2>2, <2>3, <2>4, <2>5 DEF TaskStep
<1>4. ASSUME Aside \/ UNCHANGED vars PROVE UNCHANGED <<turnId, nTasks, chunk, st>>
  BY <1>4, AsideKeeps DEF vars
<1>5. QED
  BY <1>1, <1>2, <1>3, <1>4, NextCases

(***************************************************************************)
(* With one coroutine calling at a time, the pipeline is one speech queue  *)
(* per mode, for any modes, turns and chunks: every step of it is a step   *)
(* of a queue, or is not seen by them.                                     *)
(***************************************************************************)
THEOREM PipelineIsQueue ==
    ASSUME Serial
    PROVE  Spec => ImplementsQueue
<1>1. Init => Queue!Init
  <2> SUFFICES ASSUME Init PROVE Queue!Init
    OBVIOUS
  <2>1. \A m \in Modes : ChunksOf(m, "waiting") = {} /\ ChunksOf(m, "speaking") = {}
    BY DEF Init, ChunksOf
  <2>2. QED
    BY <2>1 DEF Init, Queue!Init
<1>2. QueueInv /\ QueueInv' /\ [Next]_vars => [Queue!Next]_(Queue!vars)
  BY QueueStep
<1>3. QueueInv /\ [Next]_vars => QueueInv'
  BY QueueInvStep
<1>4. QED
  BY <1>1, <1>2, <1>3, QueueInvInit, PTL DEF Spec, ImplementsQueue, Queue!Spec

-----------------------------------------------------------------------------
(***************************************************************************)
(* The voice.  Each reload takes a bundle that ranks above those that were *)
(* in use before; when it is swapped in, no task of any mode speaks, for a *)
(* serial caller hands over no chunk while it cancels mode after mode.     *)
(***************************************************************************)
Ascending(rank) ==
    /\ rank \in [Bundles -> Nat]
    /\ \A b \in Bundles : \A d \in SwapTo[b] : rank[b] < rank[d]

\* No reload leaves the speech of the old provider going.
CancellingSwaps == \A c \in Callers : "reload_keep" \notin Allowed[c]

Sweeping(x) == x.pc = "gather" /\ x.op = "reload"

\* The modes before position i have nothing unfinished.
IdleBefore(i) == \A j \in DOMAIN order : j < i => ActiveIn(order[j]) = {}

ModesKnown ==
    /\ \A t \in Tasks : chunk[t].mode \in Known
    /\ \A c \in Callers : Within(call[c]) => call[c].mode \in Known

ReplacedRankLow(rank) ==
    /\ \A p \in unloads : rank[p[1]] < rank[bundle]
    /\ \A c \in Callers : call[c].pc = "swapped" => rank[call[c].old] < rank[bundle]

SweepsOn ==
    \A c \in Callers : Sweeping(call[c]) =>
        /\ call[c].new \in SwapTo[bundle]
        /\ call[c].size = Len(order)
        /\ IdleBefore(call[c].next - 1)

VoiceInv(rank) ==
    /\ OrderInv /\ VoiceIsActive /\ ModesKnown /\ ReplacedRankLow(rank) /\ SweepsOn

LEMMA KnownGrows ==
    ASSUME TypeOK, NEW c \in Callers, CallerStep(c)
    PROVE  /\ Known \subseteq Known'
           /\ \A op \in TurnOps, m \in Modes : StartTurn(c, op, m) => m \in Known'
<1>0. order \in Seq(Modes)
  BY DEF TypeOK
<1>1. ASSUME NEW m \in Modes, Touch(m) PROVE Known \subseteq Known' /\ m \in Known'
  <2>1. CASE m \in Known
    BY <1>1, <2>1 DEF Touch, Known
  <2>2. CASE m \notin Known
    <3>1. order' = Append(order, m)
      BY <1>1, <2>2 DEF Touch
    <3>2. /\ Len(order') = Len(order) + 1 /\ order'[Len(order) + 1] = m
          /\ \A i \in 1 .. Len(order) : order'[i] = order[i]
      BY <1>0, <3>1, AppendProperties
    <3>3. Len(order) \in Nat /\ 1 .. Len(order) \subseteq 1 .. Len(order')
          /\ Len(order) + 1 \in 1 .. Len(order')
      BY <1>0, <3>2
    <3>4. QED
      BY <3>2, <3>3 DEF Known
  <2>3. QED
    BY <2>1, <2>2
<1>2. UNCHANGED order \/ \E m \in Modes : Touch(m)
  BY DEF CallerStep, SetSystemPrompt, MessagesForMode, ClearNow, ClearWaits, HandleTurn,
         HandleContinue, StartTurn, RejectContinue, Select, CancelTts, Gathered,
         ClearAfterCancel, TakePrefix, Transcribed, EmptyTranscript, AsrFails, FlushChunk,
         EndOfReply, LlmFails, CloseTurn, UpdateProviders, UpdateProvidersKeepTts,
         SweepGathered, ScheduleUnload
<1>3. QED
  BY <1>1, <1>2 DEF Known, StartTurn, Select

LEMMA ModesKnownStep ==
    ASSUME TypeOK, TypeOK', TaskInv, ModesKnown, NEW c \in Callers, CallerStep(c), Serial
    PROVE  ModesKnown'
<1>0. call[c] \in CallType /\ Known \subseteq Known'
  BY KnownGrows DEF TypeOK
<1>1. Within(call'[c]) => call'[c].mode \in Known'
  <2>1. CASE Begins(c)
    <3>1. PICK op \in TurnOps, m \in Modes : StartTurn(c, op, m)
      BY <2>1 DEF Begins
    <3>2. QED
      BY <3>1, KnownGrows, TurnBegins
  <2>2. CASE ~Begins(c)
    <3>1. Within(call'[c]) => Within(call[c]) /\ call'[c].mode = call[c].mode
      BY <1>0, <2>2, CallerCourse
         DEF Course, Outside, Settles, Continues, Hears, Replies, GoesOn, Within
    <3>2. QED
      BY <1>0, <3>1 DEF ModesKnown
  <2>3. QED
    BY <2>1, <2>2
<1>2. \A t \in Tasks' : chunk'[t].mode \in Known'
  <2>1. CASE Hands(c)
    <3>1. call[c].mode \in Known'
      BY <1>0, <2>1 DEF Hands, Within, ModesKnown
    <3>2. nTasks + 1 \in TaskId
      BY <2>1, ConstantsAssumption DEF Hands, StartTtsChunk, CreateTask, TypeOK
    <3>3. /\ chunk'[nTasks + 1].mode = call[c].mode
          /\ \A t \in TaskId : t # nTasks + 1 => chunk'[t] = chunk[t] /\ st'[t] = st[t]
      BY <2>1, <3>2 DEF Hands, StartTtsChunk, CreateTask, TypeOK
    <3>4. QED
      BY <1>0, <3>1, <3>3 DEF ModesKnown, Tasks
  <2>2. ASSUME NEW m \in Modes, Empties(m) PROVE Tasks' = Tasks /\ chunk' = chunk
    BY <2>2 DEF Empties, Cancel, ActiveIn, Tasks, Unfinished
  <2>3. CASE Spares
    BY <1>0, <2>3 DEF Spares, ModesKnown, Tasks
  <2>4. QED
    BY <1>0, <2>1, <2>2, <2>3, CallerSpeech DEF ModesKnown
<1>3. QED
  BY <1>1, <1>2 DEF Serial, ModesKnown

\* A step of a call that is no reload leaves the providers alone.
LEMMA OtherCalls ==
    ASSUME TypeOK, CancellingSwaps, NEW c \in Callers, CallerStep(c),
           ~\E b \in Bundles : UpdateProviders(c, b), ~SweepGathered(c), ~ScheduleUnload(c)
    PROVE  /\ UNCHANGED <<provs, voice>>
           /\ call'[c].pc # "swapped" /\ ~Sweeping(call'[c])
<1>0. call[c] \in CallType /\ call \in [Callers -> CallType] /\ sel \in Modes
  BY DEF TypeOK
<1>1. ASSUME NEW pc \in {"llm", "reporting", "failing"}, Goto(c, pc)
      PROVE  call'[c].pc = pc
  BY <1>0, <1>1 DEF Goto, CallType
<1>2. ASSUME Returns(c) PROVE call'[c].pc = "idle"
  BY <1>0, <1>2 DEF Returns, IdleCall
<1>3. ASSUME NEW m \in Modes,
             \/ SetSystemPrompt(c, m) \/ MessagesForMode(c, m) \/ RejectContinue(c, m)
      PROVE  UNCHANGED <<provs, voice>> /\ call'[c].pc = "idle"
  BY <1>3 DEF SetSystemPrompt, MessagesForMode, RejectContinue, Ready, speech
<1>4. ASSUME NEW op \in Ops \ {"reload"}, NEW m \in Modes, NEW go,
             go \in CallType, go.op \in {op, "none"}, go.pc \notin {"swapped", "gather"},
             CancelNothing(c, m, go) \/ CancelActive(c, m, go)
      PROVE  call'[c].pc # "swapped" /\ ~Sweeping(call'[c])
  <2>1. \/ call'[c] = go
        \/ call'[c] = [go EXCEPT !.pc = "gather", !.snap = ActiveIn(m)]
    BY <1>0, <1>4 DEF CancelNothing, CancelActive
  <2>2. \/ call'[c].pc = go.pc
        \/ call'[c].pc = "gather" /\ call'[c].op = go.op
    BY <1>4, <2>1 DEF CallType
  <2>3. QED
    BY <1>4, <2>2 DEF Sweeping
<1>5. ASSUME NEW m \in Modes, ClearNow(c, m) \/ ClearWaits(c, m)
      PROVE  /\ UNCHANGED <<provs, voice>>
             /\ call'[c].pc # "swapped" /\ ~Sweeping(call'[c])
  <2>1. /\ Starts("clear", m) \in CallType /\ IdleCall \in CallType /\ "clear" \in Ops
        /\ Starts("clear", m).op = "clear" /\ Starts("clear", m).pc = "idle"
        /\ IdleCall.op = "none" /\ IdleCall.pc = "idle"
    BY StartsType DEF Ops, Starts, IdleCall
  <2>2. call'[c].pc # "swapped" /\ ~Sweeping(call'[c])
    BY <1>4, <1>5, <2>1 DEF ClearNow, ClearWaits
  <2>3. QED
    BY <1>5, <2>2 DEF ClearNow, ClearWaits
<1>6. ASSUME NEW m \in Modes, NEW op \in TurnOps, StartTurn(c, op, m)
      PROVE  /\ UNCHANGED <<provs, voice>>
             /\ call'[c].pc # "swapped" /\ ~Sweeping(call'[c])
  <2>1. call'[c].op = op /\ call'[c].pc \in {"gather", AfterCancel[op]}
    BY <1>6, TurnBegins
  <2>2. QED
    BY <1>6, <2>1 DEF StartTurn, AfterCancel, Sweeping, TurnOps
<1>7. ASSUME CancelTts(c)
      PROVE  /\ UNCHANGED <<provs, voice>>
             /\ call'[c].pc # "swapped" /\ ~Sweeping(call'[c])
  <2>1. /\ Starts("cancel", sel) \in CallType /\ IdleCall \in CallType /\ "cancel" \in Ops
        /\ Starts("cancel", sel).op = "cancel" /\ Starts("cancel", sel).pc = "idle"
        /\ IdleCall.op = "none" /\ IdleCall.pc = "idle"
    BY <1>0, StartsType DEF Ops, Starts, IdleCall
  <2>2. call'[c].pc # "swapped" /\ ~Sweeping(call'[c])
    BY <1>0, <1>4, <1>7, <2>1 DEF CancelTts
  <2>3. QED
    BY <1>7, <2>2 DEF CancelTts
<1>8. ASSUME Gathered(c)
      PROVE  /\ UNCHANGED <<provs, voice>>
             /\ call'[c].pc # "swapped" /\ ~Sweeping(call'[c])
  <2>1. CASE call[c].op = "cancel"
    BY <1>2, <1>8, <2>1 DEF Gathered, Sweeping, speech
  <2>2. CASE call[c].op # "cancel"
    <3>1. call'[c].pc = AfterCancel[call[c].op]
      BY <1>0, <1>8, <2>2 DEF Gathered, CallType
    <3>2. QED
      BY <1>8, <3>1 DEF Gathered, AfterCancel, Sweeping, speech
  <2>3. QED
    BY <2>1, <2>2
<1>9. ASSUME ClearAfterCancel(c) \/ CloseTurn(c)
      PROVE  UNCHANGED <<provs, voice>> /\ call'[c].pc = "idle"
  BY <1>2, <1>9 DEF ClearAfterCancel, CloseTurn, speech
<1>10. ASSUME Transcribed(c) \/ EmptyTranscript(c) \/ AsrFails(c) \/ LlmFails(c)
       PROVE  UNCHANGED <<provs, voice>>
              /\ call'[c].pc \in {"idle", "llm", "reporting", "failing"}
  BY <1>1, <1>2, <1>10 DEF Transcribed, EmptyTranscript, AsrFails, LlmFails, speech
<1>11. ASSUME TakePrefix(c)
       PROVE  UNCHANGED <<provs, voice>> /\ call'[c].pc \in {"idle", "llm"}
  <2>1. call'[c].pc = "llm" \/ Returns(c)
    BY <1>0, <1>11 DEF TakePrefix, CallType
  <2>2. QED
    BY <1>2, <1>11, <2>1 DEF TakePrefix, speech
<1>12. ASSUME FlushChunk(c)
       PROVE  UNCHANGED <<provs, voice>> /\ call'[c].pc = "llm"
  BY <1>12 DEF FlushChunk, StartTtsChunk, CreateTask
<1>13. ASSUME EndOfReply(c)
       PROVE  UNCHANGED <<provs, voice>> /\ call'[c].pc \in {"reporting", "failing"}
  BY <1>1, <1>13 DEF EndOfReply, RecordReply, StartTtsChunk, CreateTask, speech
<1>14. ~\E b \in Bundles : UpdateProvidersKeepTts(c, b)
  BY DEF UpdateProvidersKeepTts, CancellingSwaps, Ready
<1>15. QED
  BY <1>3, <1>5, <1>6, <1>7, <1>8, <1>9, <1>10, <1>11, <1>12, <1>13, <1>14
     DEF CallerStep, HandleTurn, HandleContinue, Sweeping, TurnOps

\* Nothing that was silent speaks after a step of a caller.
LEMMA CallerSilent ==
    ASSUME TypeOK, NEW c \in Callers, CallerStep(c)
    PROVE  \A t \in TaskId : st'[t] = "speaking" => st[t] = "speaking"
<1>1. CASE Hands(c)
  BY <1>1 DEF Hands, StartTtsChunk, CreateTask, TypeOK
<1>2. ASSUME NEW m \in Modes, Empties(m)
      PROVE  \A t \in TaskId : st'[t] = "speaking" => st[t] = "speaking"
  BY <1>2 DEF Empties, Cancel
<1>3. CASE Spares
  BY <1>3 DEF Spares
<1>4. QED
  BY <1>1, <1>2, <1>3, CallerSpeech

\* The sweep of a reload, from a position before which all modes are idle.
LEMMA SweepVoice ==
    ASSUME Serial, NEW rank, Ascending(rank), VoiceInv(rank), NEW c \in Callers,
           NEW i \in Nat, i >= 1, NEW rec \in CallType, Sweep(c, i, rec),
           rec.new \in SwapTo[bundle], rec.size = Len(order), IdleBefore(i),
           UNCHANGED <<order, chunk, voice>>
    PROVE  VoiceIsActive' /\ ReplacedRankLow(rank)' /\ SweepsOn'
<1>0. /\ TypeOK /\ ModesKnown /\ VoiceIsActive /\ ReplacedRankLow(rank)
      /\ call \in [Callers -> CallType] /\ bundle \in Bundles
      /\ order \in Seq(Modes) /\ Len(order) \in Nat /\ DOMAIN order = 1 .. Len(order)
  <2>1. TypeOK /\ ModesKnown /\ VoiceIsActive /\ ReplacedRankLow(rank)
    BY DEF VoiceInv, OrderInv, ChainInv
  <2>2. QED
    BY <2>1 DEF TypeOK
<1>1. CASE SweepEnds(c, i, rec)
  <2>1. /\ Busy(i) = {} /\ UNCHANGED <<st, unloads>> /\ bundle' = rec.new
        /\ call'[c] = [rec EXCEPT !.pc = "swapped", !.snap = {},
                                  !.old = bundle, !.new = rec.new]
    BY <1>0, <1>1 DEF SweepEnds, Swap
  <2>2. call'[c].pc = "swapped" /\ call'[c].old = bundle
    BY <2>1 DEF CallType
  <2>3. \A j \in DOMAIN order : ActiveIn(order[j]) = {}
    <3> SUFFICES ASSUME NEW j \in DOMAIN order PROVE ActiveIn(order[j]) = {}
      OBVIOUS
    <3>1. CASE j < i
      BY <3>1 DEF IdleBefore
    <3>2. CASE ~(j < i)
      <4>1. j \in i .. Len(order)
        BY <1>0, <3>2
      <4>2. QED
        BY <2>1, <4>1 DEF Busy
    <3>3. QED
      BY <3>1, <3>2
  <2>4. \A t \in TaskId : st[t] # "speaking"
    <3> SUFFICES ASSUME NEW t \in TaskId, st[t] = "speaking" PROVE FALSE
      OBVIOUS
    <3>1. PICK j \in 1 .. Len(order) : order[j] = chunk[t].mode
      BY <1>0 DEF ModesKnown, Known, Tasks
    <3>2. t \in ActiveIn(order[j])
      BY <3>1 DEF ActiveIn, Unfinished
    <3>3. QED
      BY <1>0, <2>3, <3>1, <3>2
  <2>5. rank[bundle] < rank[bundle'] /\ rank[bundle] \in Nat /\ rank[bundle'] \in Nat
    <3>1. rec.new \in Bundles
      BY <1>0, ConstantsAssumption
    <3>2. QED
      BY <1>0, <2>1, <3>1 DEF Ascending
  <2>6. ASSUME NEW p \in unloads PROVE rank[p[1]] < rank[bundle']
    <3>1. rank[p[1]] < rank[bundle] /\ rank[p[1]] \in Nat
      BY <1>0, <2>6 DEF ReplacedRankLow, TypeOK, Ascending
    <3>2. QED
      BY <2>5, <3>1
  <2>7. VoiceIsActive'
    BY <2>1, <2>4 DEF VoiceIsActive
  <2>8. ReplacedRankLow(rank)'
    BY <2>1, <2>2, <2>5, <2>6 DEF ReplacedRankLow, Serial
  <2>9. SweepsOn'
    BY <2>2 DEF SweepsOn, Sweeping, Serial
  <2>10. QED
    BY <2>7, <2>8, <2>9
<1>2. CASE SweepWaits(c, i, rec)
  <2>1. PICK k \in Busy(i) :
           /\ \A j \in Busy(i) : k <= j
           /\ Cancel(ActiveIn(order[k]))
           /\ call' = [call EXCEPT ![c] = [rec EXCEPT !.pc = "gather", !.next = k + 1,
                                                      !.snap = ActiveIn(order[k])]]
    BY <1>2 DEF SweepWaits
  <2>2. k \in i .. Len(order) /\ k \in Nat /\ UNCHANGED <<bundle, loaded, unloads>>
    BY <1>0, <1>2 DEF Busy, SweepWaits, provs
  <2>3. call'[c] = [rec EXCEPT !.pc = "gather", !.next = k + 1,
                               !.snap = ActiveIn(order[k])]
    BY <1>0, <2>1
  <2>4. /\ call'[c].pc = "gather" /\ call'[c].next - 1 = k
        /\ call'[c].new = rec.new /\ call'[c].size = rec.size
    BY <2>2, <2>3 DEF CallType
  <2>5. \A t \in TaskId : st'[t] \in Unfinished => st[t] \in Unfinished
    BY <2>1 DEF Cancel, ActiveIn
  <2>6. IdleBefore(k)'
    <3> SUFFICES ASSUME NEW j \in DOMAIN order, j < k PROVE ActiveIn(order[j])' = {}
      BY DEF IdleBefore
    <3>1. ActiveIn(order[j]) = {}
      <4>1. CASE j < i
        BY <4>1 DEF IdleBefore
      <4>2. CASE ~(j < i)
        <5>1. j \in i .. Len(order) /\ j \notin Busy(i)
          BY <1>0, <2>1, <2>2, <4>2
        <5>2. QED
          BY <5>1 DEF Busy
      <4>3. QED
        BY <4>1, <4>2
    <3>2. QED
      BY <2>5, <3>1 DEF ActiveIn
  <2>7. VoiceIsActive'
    BY <1>0, <2>1, <2>2 DEF VoiceIsActive, Cancel
  <2>8. ReplacedRankLow(rank)'
    BY <1>0, <2>2, <2>4 DEF ReplacedRankLow, Serial
  <2>9. SweepsOn'
    BY <2>2, <2>4, <2>6 DEF SweepsOn, Serial
  <2>10. QED
    BY <2>7, <2>8, <2>9
<1>3. QED
  BY <1>1, <1>2 DEF Sweep

LEMMA CallerVoice ==
    ASSUME Serial, CancellingSwaps, NEW rank, Ascending(rank), VoiceInv(rank), OrderInv',
           NEW c \in Callers, CallerStep(c)
    PROVE  VoiceInv(rank)'
<1>0. /\ TypeOK /\ ModesKnown /\ VoiceIsActive /\ ReplacedRankLow(rank) /\ SweepsOn
      /\ TaskInv /\ Snapped /\ call \in [Callers -> CallType] /\ call[c] \in CallType
      /\ order \in Seq(Modes) /\ Len(order) \in Nat /\ DOMAIN order = 1 .. Len(order)
      /\ sel \in Modes /\ TypeOK'
  <2>1. /\ TypeOK /\ TypeOK' /\ ModesKnown /\ VoiceIsActive /\ ReplacedRankLow(rank) /\ SweepsOn
        /\ TaskInv /\ Snapped
    BY DEF VoiceInv, OrderInv, ChainInv
  <2>2. /\ call \in [Callers -> CallType] /\ order \in Seq(Modes) /\ sel \in Modes
    BY <2>1 DEF TypeOK
  <2>3. QED
    BY <2>1, <2>2
<1>1. ASSUME NEW b \in Bundles, UpdateProviders(c, b)
      PROVE  VoiceIsActive' /\ ReplacedRankLow(rank)' /\ SweepsOn'
  <2> DEFINE rec == [Starts("reload", sel) EXCEPT !.new = b, !.size = Len(order)]
  <2>1. Starts("reload", sel) \in CallType
    BY <1>0, StartsType DEF Ops
  <2>2. rec \in CallType /\ rec.new = b /\ rec.size = Len(order)
    BY <1>0, <2>1 DEF CallType
  <2>3. /\ Sweep(c, 1, rec) /\ UNCHANGED <<order, chunk, voice>> /\ b \in SwapTo[bundle]
    BY <1>1 DEF UpdateProviders
  <2>4. 1 \in Nat /\ 1 >= 1 /\ IdleBefore(1)
    BY <1>0 DEF IdleBefore
  <2> HIDE DEF rec
  <2>5. QED
    BY <2>2, <2>3, <2>4, SweepVoice
<1>2. ASSUME SweepGathered(c)
      PROVE  VoiceIsActive' /\ ReplacedRankLow(rank)' /\ SweepsOn'
  <2> DEFINE i == call[c].next
  <2>1. /\ Sweeping(call[c]) /\ \A t \in call[c].snap : st[t] \in Over
        /\ call[c].pc = "gather" /\ call[c].op = "reload"
        /\ UNCHANGED <<order, chunk, voice>> /\ i \in Nat
    BY <1>0, <1>2 DEF SweepGathered, Sweeping, CallType
  <2>2. /\ call[c].new \in SwapTo[bundle] /\ call[c].size = Len(order) /\ IdleBefore(i - 1)
    BY <1>0, <2>1 DEF SweepsOn
  <2>3. Sweep(c, i, call[c])
    BY <1>2, <2>2 DEF SweepGathered
  <2>4. i - 1 \in DOMAIN order /\ ActiveIn(order[i - 1]) = {} /\ i >= 1
    <3>1. i - 1 \in DOMAIN order /\ ActiveIn(order[i - 1]) \subseteq call[c].snap
      BY <1>0, <2>1 DEF Snapped
    <3>2. i - 1 >= 1
      BY <1>0, <2>1, <3>1
    <3>3. ActiveIn(order[i - 1]) = {}
      BY <2>1, <3>1 DEF ActiveIn, Over, Unfinished
    <3>4. QED
      BY <2>1, <3>1, <3>2, <3>3
  <2>5. IdleBefore(i)
    <3> SUFFICES ASSUME NEW j \in DOMAIN order, j < i PROVE ActiveIn(order[j]) = {}
      BY DEF IdleBefore
    <3>1. j < i - 1 \/ j = i - 1
      BY <1>0, <2>1
    <3>2. QED
      BY <2>2, <2>4, <3>1 DEF IdleBefore
  <2> HIDE DEF i
  <2>6. QED
    BY <1>0, <2>1, <2>2, <2>3, <2>4, <2>5, SweepVoice
<1>3. ASSUME ScheduleUnload(c)
      PROVE  VoiceIsActive' /\ ReplacedRankLow(rank)' /\ SweepsOn'
  <2>1. /\ call[c].pc = "swapped" /\ unloads' = unloads \cup {<<call[c].old, call[c].new>>}
        /\ UNCHANGED <<bundle, loaded, st, voice>> /\ call'[c].pc = "idle"
    BY <1>0, <1>3 DEF ScheduleUnload, speech, Returns, IdleCall
  <2>2. QED
    BY <1>0, <2>1 DEF VoiceIsActive, ReplacedRankLow, SweepsOn, Sweeping, Serial
<1>4. ASSUME ~\E b \in Bundles : UpdateProviders(c, b), ~SweepGathered(c), ~ScheduleUnload(c)
      PROVE  VoiceIsActive' /\ ReplacedRankLow(rank)' /\ SweepsOn'
  <2>1. /\ UNCHANGED <<bundle, loaded, unloads, voice>>
        /\ call'[c].pc # "swapped" /\ ~Sweeping(call'[c])
    BY <1>0, <1>4, OtherCalls DEF provs
  <2>2. VoiceIsActive'
    BY <1>0, <2>1, CallerSilent DEF VoiceIsActive
  <2>3. QED
    BY <1>0, <2>1, <2>2 DEF ReplacedRankLow, SweepsOn, Serial
<1>5. ModesKnown'
  BY <1>0, ModesKnownStep
<1>6. QED
  BY <1>1, <1>2, <1>3, <1>4, <1>5 DEF VoiceInv

LEMMA TaskVoice ==
    ASSUME NEW rank, VoiceInv(rank), OrderInv', NEW t \in TaskId, TaskStep(t)
    PROVE  VoiceInv(rank)'
<1>0. /\ TypeOK /\ ModesKnown /\ VoiceIsActive /\ ReplacedRankLow(rank) /\ SweepsOn
  BY DEF VoiceInv, OrderInv, ChainInv
<1>1. UNCHANGED <<order, call, chunk, bundle, unloads>>
  BY DEF TaskStep, BeginSpeaking, EndSpeaking, InheritCancel, Unwind, LoadEnds, provs
<1>2. NoHandOver
  BY <1>0, TaskEffect
<1>3. ModesKnown' /\ ReplacedRankLow(rank)'
  <2>1. Tasks' \subseteq Tasks
    BY <1>2 DEF NoHandOver, Moves, Tasks, Unfinished
  <2>2. QED
    BY <1>0, <1>1, <2>1 DEF ModesKnown, Known, ReplacedRankLow
<1>4. SweepsOn'
  <2>1. \A i : IdleBefore(i) => IdleBefore(i)'
    BY <1>0, <1>1, <1>2, ActiveShrinks DEF IdleBefore
  <2>2. QED
    BY <1>0, <1>1, <2>1 DEF SweepsOn
<1>5. VoiceIsActive'
  <2>0. /\ st \in [TaskId -> Status] /\ voice \in [TaskId -> Voice]
        /\ loaded \in [Bundles -> BOOLEAN] /\ bundle \in Bundles
    BY <1>0 DEF TypeOK
  <2>1. ASSUME NEW u \in TaskId, u # t
        PROVE  st'[u] = st[u] /\ voice'[u] = voice[u]
    BY <2>0, <2>1 DEF TaskStep, BeginSpeaking, EndSpeaking, InheritCancel, Unwind, LoadEnds
  <2>2. loaded[bundle] => loaded'[bundle]
    BY <2>0 DEF TaskStep, BeginSpeaking, EndSpeaking, InheritCancel, Unwind, LoadEnds, provs
  <2>3. st'[t] = "speaking" => voice'[t].by = bundle
                                /\ (voice'[t].load = "loaded" => loaded'[bundle])
    <3>1. CASE BeginSpeaking(t)
      <4>1. voice'[t] = [by |-> bundle, load |-> "loading"]
        BY <2>0, <3>1 DEF BeginSpeaking
      <4>2. QED
        BY <4>1
    <3>2. CASE EndSpeaking(t) \/ InheritCancel(t) \/ Unwind(t)
      BY <2>0, <3>2 DEF EndSpeaking, InheritCancel, Unwind
    <3>3. CASE LoadEnds(t)
      <4>1. voice[t] \in Voice /\ voice'[t] = [voice[t] EXCEPT !.load = "loaded"]
            /\ st' = st /\ loaded' = [loaded EXCEPT ![voice[t].by] = TRUE]
        BY <2>0, <3>3 DEF LoadEnds
      <4>2. voice'[t].by = voice[t].by
        BY <4>1 DEF Voice, NoVoice
      <4>3. QED
        BY <1>0, <2>0, <4>1, <4>2 DEF VoiceIsActive
    <3>4. QED
      BY <3>1, <3>2, <3>3 DEF TaskStep
  <2>4. QED
    BY <1>0, <1>1, <2>1, <2>2, <2>3 DEF VoiceIsActive
<1>6. QED
  BY <1>3, <1>4, <1>5 DEF VoiceInv

LEMMA AsideVoice ==
    ASSUME NEW rank, Ascending(rank), VoiceInv(rank), OrderInv',
           Aside
    PROVE  VoiceInv(rank)'
<1>0. /\ TypeOK /\ ModesKnown /\ VoiceIsActive /\ ReplacedRankLow(rank) /\ SweepsOn
  BY DEF VoiceInv, OrderInv, ChainInv
<1>1. /\ UNCHANGED <<order, call, chunk, st, voice, bundle>>
      /\ unloads' \subseteq unloads
  BY AsideKeeps DEF Aside, StrayEnds, UnloadReplaced
<1>2. loaded[bundle] => loaded'[bundle]
  <2>0. loaded \in [Bundles -> BOOLEAN] /\ bundle \in Bundles
    BY <1>0 DEF TypeOK
  <2>1. ASSUME NEW b \in Bundles, StrayEnds(b) PROVE loaded[bundle] => loaded'[bundle]
    BY <2>0, <2>1 DEF StrayEnds
  <2>2. ASSUME NEW p \in Bundles \X Bundles, UnloadReplaced(p)
        PROVE  loaded[bundle] => loaded'[bundle]
    <3>1. rank[p[1]] < rank[bundle] /\ rank[bundle] \in Nat
      BY <1>0, <2>0, <2>2 DEF ReplacedRankLow, Ascending, UnloadReplaced
    <3>2. p[1] # bundle
      BY <3>1
    <3>3. QED
      BY <2>0, <2>2, <3>2 DEF UnloadReplaced
  <2>3. QED
    BY <2>1, <2>2 DEF Aside
<1>3. VoiceIsActive'
  BY <1>0, <1>1, <1>2 DEF VoiceIsActive
<1>4. QED
  BY <1>0, <1>1, <1>3 DEF VoiceInv, ModesKnown, Known, Tasks, ReplacedRankLow,
                          SweepsOn, IdleBefore, ActiveIn

(***************************************************************************)
(* With one coroutine calling at a time, bundles that are not put back     *)
(* into use once they were replaced, and reloads that cancel the speech,   *)
(* whatever speaks does so with the provider in use, and no background     *)
(* unload has taken its model down.                                        *)
(***************************************************************************)
THEOREM SpeaksWithActive ==
    ASSUME Serial, CancellingSwaps, NEW rank, Ascending(rank)
    PROVE  Spec => []VoiceIsActive
<1>1. Init => VoiceInv(rank)
  <2> SUFFICES ASSUME Init PROVE VoiceInv(rank)
    OBVIOUS
  <2>1. OrderInv
    BY OrderInit
  <2>2. Tasks = {} /\ \A c \in Callers : call[c].pc = "idle"
    BY DEF Init, Tasks, IdleCall
  <2>3. QED
    BY <2>1, <2>2 DEF Init, VoiceInv, VoiceIsActive, ModesKnown, Within, ReplacedRankLow,
                      SweepsOn, Sweeping
<1>2. VoiceInv(rank) /\ [Next]_vars => VoiceInv(rank)'
  <2> SUFFICES ASSUME VoiceInv(rank), [Next]_vars PROVE VoiceInv(rank)'
    OBVIOUS
  <2>1. OrderInv' /\ TypeOK'
    BY OrderStep DEF VoiceInv, OrderInv, ChainInv
  <2>2. ASSUME NEW c \in Callers, CallerStep(c) PROVE VoiceInv(rank)'
    BY <2>1, <2>2, CallerVoice
  <2>3. CASE UNCHANGED vars
    BY <2>1, <2>3 DEF vars, speech, provs, VoiceInv, VoiceIsActive, ModesKnown, Known, Tasks,
                      ReplacedRankLow, SweepsOn, IdleBefore, ActiveIn
  <2>4. QED
    BY <2>1, <2>2, <2>3, TaskVoice, AsideVoice, NextCases
<1>3. VoiceInv(rank) => VoiceIsActive
  BY DEF VoiceInv
<1>4. QED
  BY <1>1, <1>2, <1>3, PTL DEF Spec
=============================================================================
