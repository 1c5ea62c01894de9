--------------------------- MODULE TtsAudioPlayer ---------------------------
(***************************************************************************)
(* The browser player of js/tts-audio-player.js.                           *)
(*                                                                         *)
(* Chunks of PCM are coalesced for up to Coalesce ticks and scheduled      *)
(* back to back on an AudioContext.  Time is counted in ticks and, except  *)
(* for the clock of the context, relative to now: a timer is the ticks it  *)
(* still has to run, a source the ticks until it starts and the ticks it   *)
(* then plays, which is all that tells two sources apart.  Samples are     *)
(* abstracted to their number of bytes, a sample rate to the bytes that    *)
(* play in a tick.                                                         *)
(***************************************************************************)
EXTENDS Timers

CONSTANTS Rates,        \* sample rates of the TTS providers
          Sizes,        \* bytes of a tts.audio payload
          Coalesce,     \* coalesceMs
          MaxCoalesce,  \* maxCoalesceBytes
          MaxAge        \* bound: the age of a context is counted up to this

ASSUME PlayerAssumption ==
    /\ Rates \subseteq Nat \ {0}
    /\ Sizes \subseteq Nat \ {0}
    /\ Coalesce \in Nat \ {0}
    /\ MaxCoalesce \in Nat \ {0}
    /\ MaxAge \in Nat

VARIABLES
    player,  \* the context's rate and clock, _nextStartTime, the bytes of
             \* _buffer and _sources
    flush    \* _flushTimer

playerVars == <<player, flush>>

NoContext == 0   \* the rate before the first chunk

PlayerInit ==
    /\ player = [rate |-> NoContext, now |-> 0, next |-> 0, bytes |-> 0,
                 sources |-> {}]
    /\ flush = Off

-----------------------------------------------------------------------------
(* What the methods compute *)

\* remainingMs
RemainingMs(p) == IF p.next > p.now THEN p.next - p.now ELSE 0

\* _ensureContext: another rate is another context, whose clock starts at
\* zero.  The start clock and the buffer of the old one are kept, and its
\* sources play on.
EnsureContext(p, rate) ==
    IF p.rate = rate THEN p ELSE [p EXCEPT !.rate = rate, !.now = 0]

\* Ticks that the buffer plays for at the rate of the context.
Duration(p) == (p.bytes + p.rate - 1) \div p.rate

\* _flush and _scheduleAudioBuffer: one source after all that is scheduled.
Flushed(p) ==
    IF p.bytes = 0 THEN p
    ELSE [p EXCEPT !.bytes = 0,
                   !.next = p.now + RemainingMs(p) + Duration(p),
                   !.sources = @ \cup {[wait |-> RemainingMs(p),
                                         left |-> Duration(p)]}]

\* Mutant of Cancelled: the start clock is not reset.
CancelledKeepsClock(p) == [p EXCEPT !.bytes = 0, !.sources = {}]

\* cancel
Cancelled(p) == [p EXCEPT !.bytes = 0, !.next = 0, !.sources = {}]

\* A source a tick later.
Later(s) == IF s.wait > 0 THEN [s EXCEPT !.wait = @ - 1]
                          ELSE [s EXCEPT !.left = @ - 1]

\* The sources a tick later; onended drops one that has played out.
Advanced(sources) == {s \in {Later(t) : t \in sources} : s.left > 0}

-----------------------------------------------------------------------------
(* Steps *)

\* The buffer is flushed, as the last chunk of a stream or as a full one.
FlushNow(p) == player' = Flushed(p) /\ flush' = Off

\* Mutant of ScheduleFlush: every chunk waits for a full buffer or the final.
AwaitFinal(p) == player' = p /\ UNCHANGED flush

\* _scheduleFlush: the first chunk that waits arms the timer.
ScheduleFlush(p) ==
    /\ player' = p
    /\ flush' = IF flush = Off THEN Coalesce ELSE flush

\* onEvent of a tts.audio with size bytes at rate.
PlayerOnAudio(size, final, rate) ==
    LET p == [EnsureContext(player, rate) EXCEPT !.bytes = @ + size]
    IN  IF final \/ p.bytes >= MaxCoalesce THEN FlushNow(p) ELSE ScheduleFlush(p)

\* Mutant of PlayerCancel: the buffer and its timer stay.
PlayerCancelKeepsBuffer ==
    /\ player' = [player EXCEPT !.next = 0, !.sources = {}]
    /\ UNCHANGED flush

\* onEvent of a tts.cancelled, and close.
PlayerCancel == player' = Cancelled(player) /\ flush' = Off

FlushFires == flush = 0 /\ FlushNow(player)

(***************************************************************************)
(* Time passes for the context.  Its age matters only when the context is  *)
(* replaced; past MaxAge the start clock moves back instead.               *)
(***************************************************************************)
PlayerTick ==
    /\ flush # 0
    /\ flush' = Sooner(flush)
    /\ player' =
        IF player.rate = NoContext THEN player
        ELSE IF player.now < MaxAge
        THEN [player EXCEPT !.now = @ + 1, !.sources = Advanced(@)]
        ELSE [player EXCEPT !.next = IF @ > MaxAge THEN @ - 1 ELSE @,
                            !.sources = Advanced(@)]

Audible == \E s \in player.sources : s.wait = 0

Source == [wait : Nat, left : Nat \ {0}]

PlayerState == [rate : Rates \cup {NoContext}, now : 0 .. MaxAge, next : Nat,
                bytes : Nat, sources : SUBSET Source]

PlayerTypeOK ==
    /\ player \in PlayerState
    /\ flush \in {Off} \cup 0 .. Coalesce
=============================================================================
