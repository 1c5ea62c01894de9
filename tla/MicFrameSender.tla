--------------------------- MODULE MicFrameSender ---------------------------
(***************************************************************************)
(* The microphone capture of js/mic-frame-sender.js under the echo guard   *)
(* of js/speaker-echo-guard.js, and the frame statistics that the server   *)
(* keeps of what it sends (AudioFrameStats in audio_utils.py).             *)
(*                                                                         *)
(* start() awaits the device, then possibly the context, then the worklet, *)
(* and keeps what it acquires in fields that stop() and the next start     *)
(* find; an action is what runs between two awaits.  Call i of start opens *)
(* device stream i and context i, and connects path i: the source and the  *)
(* node that bring frames of stream i.  Samples are not modelled.          *)
(***************************************************************************)
EXTENDS Integers, FiniteSets

CONSTANTS GuardModes,  \* the modes a guard may be made with
          MaxStarts,   \* bound: calls of start
          MaxFrames    \* bound: frames of a capture

ASSUME MicAssumption ==
    /\ GuardModes \subseteq {"drop", "pause"}
    /\ MaxStarts \in Nat
    /\ MaxFrames \in Nat

VARIABLES
    mic,         \* _running, _sequence, and the _stream, _ownedCtx, _source
                 \* and node it holds
    nStarts,     \* calls of start so far
    pc,          \* pc[i]: where call i of start is
    open,        \* device streams whose tracks are live
    ctxs,        \* audio contexts that are not closed
    paths,       \* paths that are connected
    shut,        \* the guard is not idling
    mode,        \* _mode of the guard
    wasRunning,  \* _micWasRunning of the guard
    stats,       \* last_sequence and dropped_frames of the server
    app,         \* history: how the application used the sender
    skips        \* history: frames withheld between frames that the server
                 \* received, and since the last of them

devices == <<open, ctxs, paths>>
starts == <<nStarts, pc>>
guard == <<shut, mode, wasRunning>>
server == <<stats, skips>>
vars == <<mic, starts, devices, guard, app, server>>

(***************************************************************************)
(* wanted: the microphone was started and not stopped since.  failed: a    *)
(* start failed, with no stop since.  steady: stop was never called.       *)
(* tidy: start and stop were called only when no start was on its way,     *)
(* start not again after one that failed, and never by the guard.          *)
(***************************************************************************)
AppInit == [wanted |-> FALSE, tidy |-> TRUE, steady |-> TRUE, failed |-> FALSE]

StartId == 1 .. MaxStarts
Nothing == 0
Unseen == -1

Released == [running |-> FALSE, sequence |-> 0, stream |-> Nothing,
             ctx |-> Nothing, source |-> Nothing, node |-> Nothing]

Init ==
    /\ mic = Released
    /\ nStarts = 0
    /\ pc = [i \in StartId |-> "none"]
    /\ open = {} /\ ctxs = {} /\ paths = {}
    /\ shut = FALSE
    /\ mode \in GuardModes
    /\ wasRunning = FALSE
    /\ app = AppInit
    /\ stats = [last |-> Unseen, dropped |-> 0]
    /\ skips = [counted |-> 0, pending |-> 0]

InFlight == {i \in StartId : pc[i] \in {"media", "resume", "module"}}

\* Path i brings frames.
Live(i) == i \in open /\ i \in ctxs /\ i \in paths

NoneInFlight == InFlight = {}

-----------------------------------------------------------------------------
(* start *)

Goto(i, label) == pc' = [pc EXCEPT ![i] = label]

\* Mutant of BeginStart: it does not look whether the sender runs.
BeginStartAlways ==
    /\ nStarts < MaxStarts
    /\ nStarts' = nStarts + 1
    /\ Goto(nStarts + 1, "media")

\* start, up to getUserMedia: a sender that runs has nothing to start.
BeginStart ==
    IF mic.running THEN UNCHANGED starts
    ELSE /\ nStarts < MaxStarts
         /\ nStarts' = nStarts + 1
         /\ Goto(nStarts + 1, "media")

Start ==
    /\ BeginStart
    /\ app' = [app EXCEPT !.wanted = TRUE,
                          !.tidy = @ /\ NoneInFlight /\ ~app.failed]
    /\ UNCHANGED <<mic, devices, guard, server>>

\* The call raises and keeps what it has acquired.
Fails(i) == Goto(i, "failed") /\ app' = [app EXCEPT !.failed = TRUE]

MediaDenied(i) ==
    /\ pc[i] = "media"
    /\ Fails(i)
    /\ UNCHANGED <<mic, nStarts, devices, guard, server>>

\* The stream is there, but no context can be made for it.
ContextFails(i) ==
    /\ pc[i] = "media"
    /\ open' = open \cup {i}
    /\ mic' = [mic EXCEPT !.stream = i]
    /\ Fails(i)
    /\ UNCHANGED <<nStarts, ctxs, paths, guard, server>>

\* The source is made of m's stream and context, or the browser refuses to.
MakeSource(i, m) ==
    \/ /\ Goto(i, "module")
       /\ mic' = [m EXCEPT !.source = i]
       /\ UNCHANGED app
    \/ Fails(i) /\ mic' = m

\* The context runs, or waits for resume.
MediaGranted(i) ==
    /\ pc[i] = "media"
    /\ open' = open \cup {i}
    /\ ctxs' = ctxs \cup {i}
    /\ LET m == [mic EXCEPT !.stream = i, !.ctx = i]
       IN  \/ Goto(i, "resume") /\ mic' = m /\ UNCHANGED app
           \/ MakeSource(i, m)
    /\ UNCHANGED <<nStarts, paths, guard, server>>

Resumed(i) ==
    /\ pc[i] = "resume" /\ i \in ctxs
    /\ MakeSource(i, mic)
    /\ UNCHANGED <<nStarts, devices, guard, server>>

\* The promise of a context that was closed is rejected.
ResumeFails(i) ==
    /\ pc[i] = "resume" /\ i \notin ctxs
    /\ Fails(i)
    /\ UNCHANGED <<mic, nStarts, devices, guard, server>>

\* The worklet node is made, or else the ScriptProcessorNode.
NodeReady(i) ==
    /\ pc[i] = "module"
    /\ Goto(i, "started")
    /\ paths' = paths \cup {i}
    /\ mic' = [mic EXCEPT !.node = i, !.running = TRUE]
    /\ UNCHANGED <<nStarts, open, ctxs, guard, app, server>>

\* Neither can be made.
NodeFails(i) ==
    /\ pc[i] = "module"
    /\ Fails(i)
    /\ UNCHANGED <<mic, nStarts, devices, guard, server>>

-----------------------------------------------------------------------------
(* stop *)

\* Mutant of Release: the source is disconnected, but its tracks stay live.
ReleaseKeepsTracks ==
    /\ mic' = Released
    /\ paths' = paths \ {mic.source, mic.node}
    /\ ctxs' = ctxs \ {mic.ctx}
    /\ UNCHANGED open

\* _teardownNodes, _teardownStream and _teardownContext
Release ==
    /\ mic' = Released
    /\ paths' = paths \ {mic.source, mic.node}
    /\ open' = open \ {mic.stream}
    /\ ctxs' = ctxs \ {mic.ctx}

Stop ==
    /\ Release
    /\ app' = [app EXCEPT !.wanted = FALSE, !.failed = FALSE, !.steady = FALSE,
                          !.tidy = @ /\ NoneInFlight]
    /\ UNCHANGED <<starts, guard, server>>

-----------------------------------------------------------------------------
(* Frames *)

\* AudioFrameStats.update
Receive(sequence) ==
    LET gap == IF stats.last # Unseen /\ sequence > stats.last + 1
               THEN sequence - stats.last - 1 ELSE 0
    IN  /\ stats' = [last |-> sequence, dropped |-> stats.dropped + gap]
        /\ skips' = [counted |-> skips.counted + skips.pending, pending |-> 0]

\* The gate of the guard withholds the frame.
Withhold ==
    /\ skips' = IF stats.last = Unseen THEN skips
                ELSE [skips EXCEPT !.pending = @ + 1]
    /\ UNCHANGED stats

\* Mutant of SendFrame: only a frame that passes the gate is numbered.
SendFrameNumbersSent ==
    IF shut THEN Withhold /\ UNCHANGED mic
    ELSE Receive(mic.sequence) /\ mic' = [mic EXCEPT !.sequence = @ + 1]

\* _sendFrame: a frame is numbered before it meets the gate.
SendFrame ==
    /\ mic' = [mic EXCEPT !.sequence = @ + 1]
    /\ IF shut THEN Withhold ELSE Receive(mic.sequence)

\* A frame of path i, ignored unless the sender runs.
Frame(i) ==
    /\ Live(i) /\ mic.running
    /\ mic.sequence < MaxFrames
    /\ SendFrame
    /\ UNCHANGED <<starts, devices, guard, app>>

-----------------------------------------------------------------------------
(* The echo guard *)

\* _enterSuppressed, for every event of speech: in mode "pause" it notes
\* whether the sender runs, and leaves it running.
Suppress ==
    /\ shut' = TRUE
    /\ wasRunning' = IF mode = "pause" THEN mic.running ELSE wasRunning
    /\ UNCHANGED <<mic, starts, devices, mode, app, server>>

\* _resume: in mode "pause" a sender that ran is started if it runs no more.
Reopen ==
    /\ shut
    /\ shut' = FALSE
    /\ IF mode = "pause" /\ wasRunning /\ ~mic.running
       THEN BeginStart /\ app' = [app EXCEPT !.tidy = FALSE]
       ELSE UNCHANGED <<starts, app>>
    /\ UNCHANGED <<mic, devices, mode, wasRunning, server>>

-----------------------------------------------------------------------------
Next ==
    \/ Start \/ Stop \/ Suppress \/ Reopen
    \/ \E i \in StartId :
        \/ MediaDenied(i) \/ ContextFails(i) \/ MediaGranted(i)
        \/ Resumed(i) \/ ResumeFails(i) \/ NodeReady(i) \/ NodeFails(i)
        \/ Frame(i)

Spec == Init /\ [][Next]_vars

-----------------------------------------------------------------------------
(* Properties *)

\* "Stop capturing and release resources" (mic-frame-sender.js:305): what a tidy
\* application stopped stays stopped until it starts it again, and then no track
\* is live, no context open and no node connected, whatever start failed at.
StopReleases ==
    app.tidy /\ ~app.wanted =>
        ~mic.running /\ open = {} /\ ctxs = {} /\ paths = {}

\* The early return of start (mic-frame-sender.js:258) relies on it: for a tidy
\* application a sender that says it runs has a live path, and only one, so
\* frames come, once each.
RunsOnOnePath ==
    app.tidy /\ mic.running =>
        \E i \in StartId : Live(i) /\ \A j \in StartId : Live(j) => j = i

\* The server's dropped_frames is "the count of frames the sender skipped"
\* (audio_utils.py:77-79): exactly, up to the last frame it received, as long as
\* the sender is not stopped and numbers its frames from one start, and never
\* more than that, however often it is numbered anew.
SkipsCounted ==
    /\ stats.dropped <= skips.counted
    /\ app.steady => stats.dropped = skips.counted
=============================================================================
