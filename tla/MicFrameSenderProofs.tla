------------------------- MODULE MicFrameSenderProofs -------------------------
(***************************************************************************)
(* For any number of starts and frames and either mode of the guard: what  *)
(* a tidy application has stopped is released, a sender that runs has one  *)
(* live path, and the server counts the frames that were withheld.         *)
(***************************************************************************)
EXTENDS MicFrameSender, TLAPS

Labels == {"none", "media", "resume", "module", "started", "failed"}
Held == StartId \cup {Nothing}

TypeInv ==
    /\ mic \in [running : BOOLEAN, sequence : Nat, stream : Held, ctx : Held,
                source : Held, node : Held]
    /\ nStarts \in Nat
    /\ pc \in [StartId -> Labels]
    /\ app \in [wanted : BOOLEAN, tidy : BOOLEAN, steady : BOOLEAN, failed : BOOLEAN]
    /\ stats \in [last : Nat \cup {Unseen}, dropped : Nat]
    /\ skips \in [counted : Nat, pending : Nat]

LEMMA TypeInit == Init => TypeInv
BY DEF Init, TypeInv, Released, AppInit, Labels, Held, Nothing, Unseen

\* A start that begins is the only thing that counts starts.
LEMMA BeginStartType ==
    ASSUME TypeInv, BeginStart
    PROVE  nStarts' \in Nat /\ pc' \in [StartId -> Labels]
BY DEF TypeInv, BeginStart, Goto, Labels, starts

LEMMA FailsType ==
    ASSUME TypeInv, NEW i \in StartId, Fails(i)
    PROVE  /\ pc' \in [StartId -> Labels]
           /\ app' \in [wanted : BOOLEAN, tidy : BOOLEAN, steady : BOOLEAN,
                        failed : BOOLEAN]
BY DEF TypeInv, Fails, Goto, Labels

LEMMA MakeSourceType ==
    ASSUME TypeInv, NEW i \in StartId,
           NEW m \in [running : BOOLEAN, sequence : Nat, stream : Held, ctx : Held,
                      source : Held, node : Held],
           MakeSource(i, m)
    PROVE  /\ pc' \in [StartId -> Labels]
           /\ app' \in [wanted : BOOLEAN, tidy : BOOLEAN, steady : BOOLEAN,
                        failed : BOOLEAN]
           /\ mic' \in [running : BOOLEAN, sequence : Nat, stream : Held, ctx : Held,
                        source : Held, node : Held]
           /\ mic' = [m EXCEPT !.source = i] \/ mic' = m
<1>1. CASE Goto(i, "module") /\ mic' = [m EXCEPT !.source = i] /\ UNCHANGED app
  BY <1>1 DEF TypeInv, Goto, Labels, Held
<1>2. CASE Fails(i) /\ mic' = m
  BY <1>2, FailsType
<1> QED
  BY <1>1, <1>2 DEF MakeSource

LEMMA SendFrameType ==
    ASSUME TypeInv, SendFrame
    PROVE  /\ mic' \in [running : BOOLEAN, sequence : Nat, stream : Held, ctx : Held,
                        source : Held, node : Held]
           /\ stats' \in [last : Nat \cup {Unseen}, dropped : Nat]
           /\ skips' \in [counted : Nat, pending : Nat]
BY DEF TypeInv, SendFrame, Withhold, Receive, Unseen

LEMMA TypeStep == TypeInv /\ [Next]_vars => TypeInv'
<1> SUFFICES ASSUME TypeInv, [Next]_vars PROVE TypeInv'
  OBVIOUS
<1> USE DEF TypeInv
<1>1. CASE Start
  BY <1>1, BeginStartType DEF Start, server
<1>2. CASE Stop
  BY <1>2 DEF Stop, Release, Released, starts, server, Held, Nothing
<1>3. CASE Suppress
  BY <1>3 DEF Suppress, starts, server
<1>4. CASE Reopen
  BY <1>4, BeginStartType DEF Reopen, starts, server
<1>5. ASSUME NEW i \in StartId,
             MediaDenied(i) \/ ContextFails(i) \/ ResumeFails(i) \/ NodeFails(i)
      PROVE  TypeInv'
  BY <1>5, FailsType DEF MediaDenied, ContextFails, ResumeFails, NodeFails, server, Held
<1>6. ASSUME NEW i \in StartId, MediaGranted(i)
      PROVE  TypeInv'
  <2> DEFINE m == [mic EXCEPT !.stream = i, !.ctx = i]
  <2>1. m \in [running : BOOLEAN, sequence : Nat, stream : Held, ctx : Held,
               source : Held, node : Held]
    BY DEF Held
  <2>2. \/ Goto(i, "resume") /\ mic' = m /\ UNCHANGED app
        \/ MakeSource(i, m)
    BY <1>6 DEF MediaGranted
  <2> HIDE DEF m
  <2>3. UNCHANGED <<nStarts, stats, skips>>
    BY <1>6 DEF MediaGranted, server
  <2> QED
    BY <2>1, <2>2, <2>3, MakeSourceType DEF Goto, Labels
<1>7. ASSUME NEW i \in StartId, Resumed(i)
      PROVE  TypeInv'
  BY <1>7, MakeSourceType DEF Resumed, server
<1>8. ASSUME NEW i \in StartId, NodeReady(i)
      PROVE  TypeInv'
  BY <1>8 DEF NodeReady, server, Goto, Labels, Held
<1>9. ASSUME NEW i \in StartId, Frame(i)
      PROVE  TypeInv'
  BY <1>9, SendFrameType DEF Frame, starts
<1>10. CASE UNCHANGED vars
  BY <1>10 DEF vars, starts, server
<1> QED
  BY <1>1, <1>2, <1>3, <1>4, <1>5, <1>6, <1>7, <1>8, <1>9, <1>10 DEF Next

-----------------------------------------------------------------------------
(***************************************************************************)
(* What is held.  A tidy application has one start on its way at most; it  *)
(* holds what it has acquired in the fields, and nothing else is open.     *)
(***************************************************************************)
Underway(i) ==
    /\ InFlight = {i} /\ app.wanted /\ ~app.failed /\ ~mic.running /\ paths = {}
    /\ pc[i] = "media" => open = {} /\ ctxs = {}
    /\ pc[i] # "media" => open = {i} /\ ctxs = {i} /\ mic.stream = i /\ mic.ctx = i

\* The start that was the last to end is running.
Running ==
    /\ app.wanted /\ ~app.failed /\ mic.running
    /\ mic.stream \in StartId /\ mic.ctx = mic.stream /\ mic.node = mic.stream
    /\ open = {mic.stream} /\ ctxs = {mic.stream} /\ paths = {mic.stream}

\* It failed, and stop will find in the fields what it left.
Failed ==
    /\ app.wanted /\ app.failed /\ ~mic.running
    /\ open \subseteq {mic.stream} /\ ctxs \subseteq {mic.ctx} /\ paths = {}

Stopped == ~app.failed /\ ~mic.running /\ open = {} /\ ctxs = {} /\ paths = {}

Tidied ==
    \/ \E i \in StartId : Underway(i)
    \/ InFlight = {} /\ (Running \/ Failed \/ Stopped)

HeldInv == TypeInv /\ (app.tidy => Tidied)

\* A start under way is where it was, or at its next await, or has ended.
LEMMA GoesTo ==
    ASSUME TypeInv, NEW i \in StartId, NEW label \in Labels, Goto(i, label)
    PROVE  /\ pc'[i] = label
           /\ InFlight' = IF label \in {"media", "resume", "module"}
                          THEN InFlight \cup {i} ELSE InFlight \ {i}
BY DEF TypeInv, Goto, InFlight

LEMMA FailsTo ==
    ASSUME TypeInv, app.tidy, Tidied, NEW i \in InFlight, Fails(i),
           open' \subseteq {mic'.stream}, ctxs' \subseteq {mic'.ctx}, paths' = {},
           ~mic'.running
    PROVE  Tidied'
<1>1. Underway(i) /\ i \in StartId
  BY DEF Tidied, Underway, InFlight
<1>2. InFlight' = {}
  BY <1>1, GoesTo DEF Fails, Labels, Underway
<1>3. app'.wanted /\ app'.failed
  BY <1>1 DEF TypeInv, Fails, Underway
<1> QED
  BY <1>2, <1>3 DEF Tidied, Failed

\* What is known of a start that is under way, and of an application that
\* stays tidy.
LEMMA IsUnderway ==
    ASSUME HeldInv, app.tidy, NEW i \in InFlight
    PROVE  Underway(i) /\ i \in StartId
BY DEF HeldInv, Tidied, Underway, InFlight

LEMMA StartHeld ==
    ASSUME HeldInv, Start, app'.tidy
    PROVE  Tidied'
<1>1. /\ app.tidy /\ InFlight = {} /\ ~app.failed
      /\ app'.wanted /\ ~app'.failed
  BY DEF HeldInv, TypeInv, Start, NoneInFlight
<1>2. Running \/ Stopped
  BY <1>1 DEF HeldInv, Tidied, Underway, Failed
<1>3. UNCHANGED <<mic, open, ctxs, paths>>
  BY DEF Start, devices
<1>4. CASE mic.running
  BY <1>1, <1>2, <1>3, <1>4 DEF Start, BeginStart, starts, Tidied, Running, Stopped, InFlight
<1>5. CASE ~mic.running
  <2>1. PICK i \in StartId : Goto(i, "media")
    BY <1>5, MicAssumption DEF HeldInv, TypeInv, Start, BeginStart, StartId
  <2>2. pc'[i] = "media" /\ InFlight' = {i}
    BY <1>1, <2>1, GoesTo DEF HeldInv, Labels
  <2>3. Underway(i)'
    BY <1>1, <1>2, <1>3, <1>5, <2>2 DEF Underway, Running, Stopped
  <2> QED
    BY <2>1, <2>3 DEF Tidied
<1> QED
  BY <1>4, <1>5

LEMMA StopHeld ==
    ASSUME HeldInv, Stop, app'.tidy
    PROVE  Tidied'
<1>1. app.tidy /\ InFlight = {} /\ ~app'.failed
  BY DEF HeldInv, TypeInv, Stop, NoneInFlight
<1>2. Running \/ Failed \/ Stopped
  BY <1>1 DEF HeldInv, Tidied, Underway
<1>3. /\ mic' = Released /\ open' = {} /\ ctxs' = {} /\ paths' = {}
  BY <1>2 DEF Stop, Release, Running, Failed, Stopped
<1>4. InFlight' = {}
  BY <1>1 DEF Stop, starts, InFlight
<1> QED
  BY <1>1, <1>3, <1>4 DEF Tidied, Stopped, Released

\* Nothing that Tidied is about changes.
LEMMA StaysHeld ==
    ASSUME HeldInv, app'.tidy, UNCHANGED <<mic, pc, open, ctxs, paths, app>>
    PROVE  Tidied'
BY DEF HeldInv, Tidied, Underway, Running, Failed, Stopped, InFlight

LEMMA FrameHeld ==
    ASSUME HeldInv, SendFrame, app'.tidy, UNCHANGED <<pc, open, ctxs, paths, app>>
    PROVE  Tidied'
<1>1. /\ mic'.running = mic.running /\ mic'.stream = mic.stream /\ mic'.ctx = mic.ctx
      /\ mic'.node = mic.node
  BY DEF HeldInv, TypeInv, SendFrame
<1> QED
  BY <1>1 DEF HeldInv, Tidied, Underway, Running, Failed, Stopped, InFlight

LEMMA ReopenHeld ==
    ASSUME HeldInv, Reopen, app'.tidy
    PROVE  Tidied'
<1>1. UNCHANGED <<mic, pc, open, ctxs, paths, app>>
  BY DEF HeldInv, TypeInv, Reopen, starts, devices
<1> QED
  BY <1>1, StaysHeld

\* A source has been made, or the start has failed on it.
LEMMA MakeSourceHeld ==
    ASSUME HeldInv, NEW i \in InFlight, app'.tidy,
           NEW m \in [running : BOOLEAN, sequence : Nat, stream : Held, ctx : Held,
                      source : Held, node : Held],
           MakeSource(i, m), ~m.running, m.stream = i, m.ctx = i,
           open' = {i}, ctxs' = {i}, paths' = {}
    PROVE  Tidied'
<1>1. app.tidy /\ TypeInv
  BY DEF HeldInv, TypeInv, MakeSource, Fails
<1>2. Underway(i) /\ i \in StartId
  BY <1>1, IsUnderway
<1>3. ~mic'.running /\ mic'.stream = i /\ mic'.ctx = i
  BY <1>1, <1>2, MakeSourceType
<1>4. CASE Goto(i, "module") /\ UNCHANGED app
  <2>1. pc'[i] = "module" /\ InFlight' = {i}
    BY <1>1, <1>2, <1>4, GoesTo DEF Labels, Underway
  <2> QED
    BY <1>2, <1>3, <1>4, <2>1 DEF Tidied, Underway
<1>5. CASE Fails(i)
  BY <1>1, <1>2, <1>3, <1>5, FailsTo DEF HeldInv
<1> QED
  BY <1>4, <1>5 DEF MakeSource

LEMMA GrantedHeld ==
    ASSUME HeldInv, NEW i \in StartId, MediaGranted(i), app'.tidy
    PROVE  Tidied'
<1> DEFINE m == [mic EXCEPT !.stream = i, !.ctx = i]
<1>1. /\ i \in InFlight /\ pc[i] = "media" /\ TypeInv /\ app.tidy
  BY DEF MediaGranted, InFlight, HeldInv, TypeInv, MakeSource, Fails
<1>2. Underway(i)
  BY <1>1, IsUnderway
<1>3. open' = {i} /\ ctxs' = {i} /\ paths' = {}
  BY <1>1, <1>2 DEF MediaGranted, Underway
<1>4. /\ m \in [running : BOOLEAN, sequence : Nat, stream : Held, ctx : Held,
                source : Held, node : Held]
      /\ m.running = mic.running /\ m.stream = i /\ m.ctx = i
  BY <1>1 DEF TypeInv, Held
<1>5. \/ Goto(i, "resume") /\ mic' = m /\ UNCHANGED app
      \/ MakeSource(i, m)
  BY DEF MediaGranted
<1> HIDE DEF m
<1>6. CASE Goto(i, "resume") /\ mic' = m /\ UNCHANGED app
  <2>1. pc'[i] = "resume" /\ InFlight' = {i}
    BY <1>1, <1>2, <1>6, GoesTo DEF Labels, Underway
  <2> QED
    BY <1>2, <1>3, <1>4, <1>6, <2>1 DEF Tidied, Underway
<1>7. CASE MakeSource(i, m)
  <2>1. ~m.running
    BY <1>2, <1>4 DEF Underway
  <2> QED
    BY <1>1, <1>3, <1>4, <1>7, <2>1, MakeSourceHeld
<1> QED
  BY <1>5, <1>6, <1>7

LEMMA ResumedHeld ==
    ASSUME HeldInv, NEW i \in StartId, Resumed(i), app'.tidy
    PROVE  Tidied'
<1>1. /\ i \in InFlight /\ pc[i] = "resume" /\ TypeInv /\ app.tidy
  BY DEF Resumed, InFlight, HeldInv, TypeInv, MakeSource, Fails
<1>2. Underway(i)
  BY <1>1, IsUnderway
<1> QED
  BY <1>1, <1>2, MakeSourceHeld DEF Resumed, devices, Underway, TypeInv

LEMMA FailuresHeld ==
    ASSUME HeldInv, NEW i \in StartId, app'.tidy,
           MediaDenied(i) \/ ContextFails(i) \/ ResumeFails(i) \/ NodeFails(i)
    PROVE  Tidied'
<1>1. /\ i \in InFlight /\ TypeInv /\ app.tidy /\ Fails(i)
  BY DEF MediaDenied, ContextFails, ResumeFails, NodeFails, InFlight, HeldInv, TypeInv, Fails
<1>2. Underway(i)
  BY <1>1, IsUnderway
<1>3. /\ open' \subseteq {mic'.stream} /\ ctxs' \subseteq {mic'.ctx} /\ paths' = {}
      /\ ~mic'.running
  BY <1>1, <1>2 DEF MediaDenied, ContextFails, ResumeFails, NodeFails, Underway, TypeInv,
                    devices
<1> QED
  BY <1>1, <1>3, FailsTo DEF HeldInv

LEMMA ReadyHeld ==
    ASSUME HeldInv, NEW i \in StartId, NodeReady(i), app'.tidy
    PROVE  Tidied'
<1>1. /\ i \in InFlight /\ pc[i] = "module" /\ TypeInv /\ app.tidy
  BY DEF NodeReady, InFlight, HeldInv
<1>2. Underway(i)
  BY <1>1, IsUnderway
<1>3. InFlight' = {}
  BY <1>1, <1>2, GoesTo DEF NodeReady, Labels, Underway
<1>4. /\ mic'.running /\ mic'.stream = i /\ mic'.ctx = i /\ mic'.node = i
      /\ open' = {i} /\ ctxs' = {i} /\ paths' = {i}
  BY <1>1, <1>2 DEF NodeReady, Underway, TypeInv
<1>5. Running'
  BY <1>2, <1>4 DEF NodeReady, Underway, Running
<1> QED
  BY <1>3, <1>5 DEF Tidied

LEMMA HeldStep == HeldInv /\ [Next]_vars => HeldInv'
<1> SUFFICES ASSUME HeldInv, [Next]_vars, app'.tidy PROVE Tidied'
  BY TypeStep DEF HeldInv
<1>1. CASE Suppress \/ UNCHANGED vars
  BY <1>1, StaysHeld DEF Suppress, vars, starts, devices
<1>2. ASSUME NEW i \in StartId, Frame(i)
      PROVE  Tidied'
  BY <1>2, FrameHeld DEF Frame, starts, devices
<1> QED
  BY <1>1, <1>2, StartHeld, StopHeld, ReopenHeld, GrantedHeld, ResumedHeld, FailuresHeld,
     ReadyHeld DEF Next

LEMMA HeldInit == Init => HeldInv
BY TypeInit DEF Init, HeldInv, Tidied, Stopped, InFlight, AppInit, Released

LEMMA AlwaysHeld == Spec => []HeldInv
BY HeldInit, HeldStep, PTL DEF Spec

\* What a tidy application has stopped is released until it starts it again:
\* no track is live, no context open and no node connected, whatever start
\* failed at, for any number of starts (mic-frame-sender.js:257-315).
THEOREM StoppedIsReleased == Spec => []StopReleases
<1>1. HeldInv => StopReleases
  BY DEF HeldInv, StopReleases, Tidied, Underway, Running, Failed, Stopped
<1> QED
  BY <1>1, AlwaysHeld, PTL

\* For a tidy application a sender that says it runs has one live path, and only
\* one (mic-frame-sender.js:257-303).
THEOREM OnePathRuns == Spec => []RunsOnOnePath
<1>1. HeldInv => RunsOnOnePath
  <2> SUFFICES ASSUME HeldInv, app.tidy, mic.running
               PROVE  \E i \in StartId : Live(i) /\ \A j \in StartId : Live(j) => j = i
    BY DEF RunsOnOnePath
  <2>1. Running
    BY DEF HeldInv, Tidied, Underway, Failed, Stopped
  <2>2. Live(mic.stream) /\ \A j \in StartId : Live(j) => j = mic.stream
    BY <2>1 DEF Running, Live
  <2> QED
    BY <2>1, <2>2 DEF Running
<1> QED
  BY <1>1, AlwaysHeld, PTL

-----------------------------------------------------------------------------
(***************************************************************************)
(* What is counted.  The next number is that of the last frame the server  *)
(* received, plus one, plus what was withheld since; or less, after a stop *)
(* has set it back.                                                        *)
(***************************************************************************)
Numbered ==
    stats.last # Unseen =>
        /\ mic.sequence <= stats.last + 1 + skips.pending
        /\ app.steady => mic.sequence = stats.last + 1 + skips.pending

CountInv == TypeInv /\ Numbered /\ (stats.last = Unseen => skips.pending = 0) /\ SkipsCounted

LEMMA SendCounts ==
    ASSUME CountInv, SendFrame, app' = app
    PROVE  CountInv' \/ ~TypeInv'
<1> USE DEF CountInv
<1>1. mic'.sequence = mic.sequence + 1
  BY DEF TypeInv, SendFrame
<1>2. CASE shut
  <2>1. stats' = stats /\ skips'.counted = skips.counted
    BY <1>2 DEF SendFrame, Withhold, TypeInv
  <2>2. skips'.pending = IF stats.last = Unseen THEN skips.pending ELSE skips.pending + 1
    BY <1>2 DEF SendFrame, Withhold, TypeInv
  <2> QED
    BY <1>1, <2>1, <2>2 DEF TypeInv, Numbered, SkipsCounted, Unseen
<1>3. CASE ~shut
  <2> DEFINE gap == IF stats.last # Unseen /\ mic.sequence > stats.last + 1
                    THEN mic.sequence - stats.last - 1 ELSE 0
  <2>1. /\ stats'.last = mic.sequence /\ stats'.dropped = stats.dropped + gap
        /\ skips'.counted = skips.counted + skips.pending /\ skips'.pending = 0
    BY <1>3 DEF SendFrame, Receive, TypeInv
  <2>2. gap <= skips.pending /\ (app.steady => gap = skips.pending)
    BY DEF TypeInv, Numbered, Unseen
  <2>3. gap \in Nat
    BY DEF TypeInv, Unseen
  <2> HIDE DEF gap
  <2>4. mic.sequence \in Nat /\ stats.dropped \in Nat /\ skips.counted \in Nat
        /\ skips.pending \in Nat
    BY DEF TypeInv
  <2>5. SkipsCounted'
    BY <2>1, <2>2, <2>3, <2>4 DEF SkipsCounted
  <2>6. Numbered' /\ stats'.last # Unseen
    BY <1>1, <2>1, <2>4 DEF Numbered, Unseen
  <2> QED
    BY <2>5, <2>6
<1> QED
  BY <1>2, <1>3

\* Every other step leaves the number as it is, or sets it back and is a stop.
LEMMA OthersCount ==
    ASSUME TypeInv, Next, ~\E i \in StartId : Frame(i)
    PROVE  /\ UNCHANGED <<stats, skips>>
           /\ \/ mic'.sequence = mic.sequence /\ app'.steady = app.steady
              \/ mic'.sequence = 0 /\ ~app'.steady
<1> USE DEF server, TypeInv
<1>1. CASE Start \/ Suppress \/ Reopen
  BY <1>1 DEF Start, Suppress, Reopen
<1>2. CASE Stop
  BY <1>2 DEF Stop, Release, Released
<1>3. ASSUME NEW i \in StartId,
             MediaDenied(i) \/ ContextFails(i) \/ ResumeFails(i) \/ NodeFails(i)
             \/ NodeReady(i)
      PROVE  /\ UNCHANGED <<stats, skips>>
             /\ mic'.sequence = mic.sequence /\ app'.steady = app.steady
  BY <1>3 DEF MediaDenied, ContextFails, ResumeFails, NodeFails, NodeReady, Fails
<1>4. ASSUME NEW i \in StartId, MediaGranted(i) \/ Resumed(i)
      PROVE  /\ UNCHANGED <<stats, skips>>
             /\ mic'.sequence = mic.sequence /\ app'.steady = app.steady
  BY <1>4 DEF MediaGranted, Resumed, MakeSource, Fails
<1> QED
  BY <1>1, <1>2, <1>3, <1>4 DEF Next

LEMMA CountStep == CountInv /\ [Next]_vars => CountInv'
<1> SUFFICES ASSUME CountInv, [Next]_vars PROVE CountInv'
  OBVIOUS
<1>1. TypeInv'
  BY TypeStep DEF CountInv
<1>2. ASSUME NEW i \in StartId, Frame(i)
      PROVE  CountInv'
  BY <1>1, <1>2, SendCounts DEF Frame
<1>3. CASE Next /\ ~\E i \in StartId : Frame(i)
  <2>1. /\ UNCHANGED <<stats, skips>>
        /\ \/ mic'.sequence = mic.sequence /\ app'.steady = app.steady
           \/ mic'.sequence = 0 /\ ~app'.steady
    BY <1>3, OthersCount DEF CountInv
  <2>2. stats.last # Unseen => stats.last + 1 + skips.pending >= 0
    BY DEF CountInv, TypeInv
  <2>3. SkipsCounted'
    BY <2>1 DEF CountInv, SkipsCounted
  <2>4. Numbered'
    BY <2>1, <2>2 DEF CountInv, Numbered
  <2> QED
    BY <1>1, <2>1, <2>3, <2>4 DEF CountInv
<1>4. CASE UNCHANGED vars
  BY <1>4, <1>1 DEF vars, server, CountInv, Numbered, SkipsCounted
<1> QED
  BY <1>2, <1>3, <1>4

\* The server counts the frames that the guard withheld, exactly as long as the
\* sender is not stopped, and never more of them than there were, for any number
\* of starts and frames (mic-frame-sender.js:409-444, audio_utils.py:94-110).
THEOREM WithheldIsCounted == Spec => []SkipsCounted
<1>1. Init => CountInv
  BY TypeInit DEF Init, CountInv, Numbered, SkipsCounted
<1>2. CountInv => SkipsCounted
  BY DEF CountInv
<1> QED
  BY <1>1, <1>2, CountStep, PTL DEF Spec
=============================================================================
