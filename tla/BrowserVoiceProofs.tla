------------------------- MODULE BrowserVoiceProofs -------------------------
(***************************************************************************)
(* The echo guard keeps the microphone shut while the speaker is heard,    *)
(* for every rate, chunk size, delay and bound, as long as it reads the    *)
(* drain of the player and its tail delay is longer than the player's      *)
(* coalescing window.  The player is silent after a barge-in, and plays    *)
(* without gap or overlap as long as the sample rate stays.                *)
(***************************************************************************)
EXTENDS BrowserVoiceClient, TLAPS

\* Nothing plays past the end that remainingMs reports, on whichever context.
Covered == \A s \in player.sources : s.wait + s.left <= RemainingMs(player)

\* The flush timer is armed while chunks wait, and fewer than a full buffer do.
Buffered ==
    /\ player.bytes > 0 <=> flush # Off
    /\ player.bytes > 0 => player.rate # NoContext /\ player.bytes < MaxCoalesce
    /\ player.rate = NoContext =>
         player.now = 0 /\ player.next = 0 /\ player.sources = {}

\* What still waits to be flushed adds at most this to the drain.
Pending == IF flush = Off THEN 0 ELSE flush + MaxCoalesce

\* In the tail both timers are armed, the flush comes before the tail timer,
\* and the fallback after all that plays or waits to.
Timed ==
    /\ guard # "tail" => tail = Off /\ fallback = Off
    /\ guard = "tail" =>
         /\ tail # Off /\ (flush # Off => flush < tail)
         /\ fallback # Off /\ RemainingMs(player) + Pending <= fallback

\* An idling guard has nothing that plays or waits to.
Drained == guard = "idling" => player.sources = {} /\ player.bytes = 0

\* The part of the invariant that is about the player alone.
PInv == PlayerTypeOK /\ stream \in Rates \cup {NoContext} /\ Covered /\ Buffered

IInv == PInv /\ GuardTypeOK /\ Timed /\ Drained

\* After a tts.cancelled nothing plays, and nothing waits to.
Silent == silenced => player.sources = {} /\ player.bytes = 0

-----------------------------------------------------------------------------
(* What the methods of the player compute *)

\* Nothing of p plays past its own remainingMs.
CoveredIn(p) == \A s \in p.sources : s.wait + s.left <= RemainingMs(p)

\* A buffer that is not empty plays for at least a tick, and at most for one
\* tick a byte.
LEMMA TicksOfBytes ==
    ASSUME NEW b \in Nat \ {0}, NEW r \in Nat \ {0}
    PROVE  (b + r - 1) \div r \in 1 .. b
<1> DEFINE q == (b + r - 1) \div r
<1>1. q \in Int /\ r * q <= b + r - 1 /\ b + r - 1 < r * q + r
  BY Z3
<1>2. q >= 1
  BY <1>1, Z3
<1>3. q <= b
  BY <1>1, Z3
<1> QED
  BY <1>1, <1>2, <1>3

\* A flush schedules the buffer behind all that is scheduled: it lengthens the
\* drain by at most the bytes it held, and stays within it.
LEMMA FlushedFacts ==
    ASSUME NEW p \in PlayerState, CoveredIn(p),
           p.bytes > 0 => p.rate # NoContext
    PROVE  /\ Flushed(p) \in PlayerState /\ CoveredIn(Flushed(p))
           /\ Flushed(p).bytes = 0 /\ Flushed(p).rate = p.rate
           /\ RemainingMs(Flushed(p)) <= RemainingMs(p) + p.bytes
           /\ p.bytes = 0 => Flushed(p) = p
           /\ p.bytes > 0 =>
                \E d \in Nat \ {0} :
                   /\ RemainingMs(Flushed(p)) = RemainingMs(p) + d
                   /\ Flushed(p).sources =
                        p.sources \cup {[wait |-> RemainingMs(p), left |-> d]}
<1>1. CASE p.bytes = 0
  BY <1>1 DEF Flushed, PlayerState, RemainingMs
<1>2. CASE p.bytes > 0
  <2>0. p.bytes \in Nat \ {0} /\ p.rate \in Nat \ {0}
    <3>1. p.bytes \in Nat /\ p.rate \in Rates \cup {NoContext}
      BY DEF PlayerState
    <3>2. p.rate \in Rates
      BY <1>2, <3>1
    <3>3. Rates \subseteq Nat \ {0}
      BY PlayerAssumption
    <3>4. p.rate \in Nat \ {0}
      BY <3>2, <3>3
    <3>5. p.bytes \in Nat \ {0}
      BY <1>2, <3>1
    <3> QED
      BY <3>4, <3>5
  <2>1. Duration(p) \in 1 .. p.bytes
    BY <2>0, TicksOfBytes DEF Duration
  <2>2. RemainingMs(p) \in Nat
    BY DEF RemainingMs, PlayerState
  <2> DEFINE new == [wait |-> RemainingMs(p), left |-> Duration(p)]
  <2>3. new \in Source
    BY <2>1, <2>2 DEF Source
  <2>4. Flushed(p) = [p EXCEPT !.bytes = 0,
                              !.next = p.now + RemainingMs(p) + Duration(p),
                              !.sources = @ \cup {new}]
    BY <1>2 DEF Flushed
  <2>5. Flushed(p) \in PlayerState
    <3>1. p.sources \cup {new} \in SUBSET Source
      BY <2>3 DEF PlayerState
    <3>2. p.now + RemainingMs(p) + Duration(p) \in Nat
      BY <2>1, <2>2 DEF PlayerState
    <3>3. /\ p.rate \in Rates \cup {NoContext} /\ p.now \in 0 .. MaxAge
          /\ p = [rate |-> p.rate, now |-> p.now, next |-> p.next,
                  bytes |-> p.bytes, sources |-> p.sources]
      BY DEF PlayerState
    <3>4. Flushed(p) = [rate |-> p.rate, now |-> p.now,
                        next |-> p.now + RemainingMs(p) + Duration(p),
                        bytes |-> 0, sources |-> p.sources \cup {new}]
      BY <2>4, <3>3
    <3> HIDE DEF new
    <3> QED
      BY <3>1, <3>2, <3>3, <3>4 DEF PlayerState
  <2>6. RemainingMs(Flushed(p)) = RemainingMs(p) + Duration(p)
    BY <2>1, <2>2, <2>4 DEF RemainingMs, PlayerState
  <2>7. CoveredIn(Flushed(p))
    <3> SUFFICES ASSUME NEW s \in p.sources \cup {new}
                 PROVE  s.wait + s.left <= RemainingMs(p) + Duration(p)
      BY <2>4, <2>6 DEF CoveredIn, PlayerState
    <3>1. CASE s \in p.sources
      BY <2>1, <2>2, <3>1 DEF CoveredIn, PlayerState, Source
    <3>2. CASE s = new
      BY <2>1, <2>2, <3>2
    <3> QED
      BY <3>1, <3>2
  <2>8. /\ Duration(p) \in Nat \ {0}
        /\ Flushed(p).sources = p.sources \cup {new}
    BY <2>1, <2>4 DEF PlayerState
  <2>9. /\ Flushed(p).bytes = 0 /\ Flushed(p).rate = p.rate
        /\ RemainingMs(Flushed(p)) <= RemainingMs(p) + p.bytes
    BY <2>1, <2>2, <2>4, <2>6 DEF PlayerState
  <2> QED
    BY <1>2, <2>5, <2>6, <2>7, <2>8, <2>9
<1> QED
  BY <1>1, <1>2 DEF PlayerState

\* Whatever context a chunk is for, what is scheduled stays within the drain.
LEMMA EnsureContextFacts ==
    ASSUME NEW p \in PlayerState, CoveredIn(p), NEW r \in Rates
    PROVE  /\ EnsureContext(p, r) \in PlayerState /\ CoveredIn(EnsureContext(p, r))
           /\ EnsureContext(p, r).rate = r /\ EnsureContext(p, r).bytes = p.bytes
<1>1. CASE p.rate = r
  BY <1>1 DEF EnsureContext
<1>2. CASE p.rate # r
  <2>1. /\ EnsureContext(p, r) = [p EXCEPT !.rate = r, !.now = 0]
        /\ EnsureContext(p, r) \in PlayerState
    <3>1. 0 \in 0 .. MaxAge
      BY PlayerAssumption
    <3> QED
      BY <1>2, <3>1 DEF EnsureContext, PlayerState
  <2>2. RemainingMs(p) <= RemainingMs(EnsureContext(p, r))
    BY <2>1 DEF RemainingMs, PlayerState
  <2>3. CoveredIn(EnsureContext(p, r))
    BY <2>1, <2>2 DEF CoveredIn, PlayerState, Source, RemainingMs
  <2> QED
    BY <2>1, <2>3 DEF PlayerState
<1> QED
  BY <1>1, <1>2

\* A tick later what is scheduled is well typed and within a drain that is a
\* tick shorter, and nothing is scheduled that was not before.
LEMMA AdvancedFacts ==
    ASSUME NEW S \in SUBSET Source, NEW n \in Nat,
           \A s \in S : s.wait + s.left <= n
    PROVE  /\ Advanced(S) \in SUBSET Source
           /\ \A s \in Advanced(S) : s.wait + s.left <= n - 1
           /\ S = {} => Advanced(S) = {}
<1>1. ASSUME NEW t \in S, Later(t).left > 0
      PROVE  Later(t) \in Source /\ Later(t).wait + Later(t).left <= n - 1
  <2>1. t \in Source /\ t.wait \in Nat /\ t.left \in Nat \ {0}
        /\ t = [wait |-> t.wait, left |-> t.left]
    BY DEF Source
  <2>2. CASE t.wait > 0
    <3>1. Later(t) = [wait |-> t.wait - 1, left |-> t.left]
      BY <2>1, <2>2 DEF Later
    <3> QED
      BY <2>1, <2>2, <3>1 DEF Source
  <2>3. CASE t.wait = 0
    <3>1. Later(t) = [wait |-> 0, left |-> t.left - 1]
      BY <2>1, <2>3 DEF Later
    <3> QED
      BY <1>1, <2>1, <2>3, <3>1 DEF Source
  <2> QED
    BY <2>1, <2>2, <2>3
<1> QED
  BY <1>1 DEF Advanced

\* The player after a tick.
LEMMA TickFacts ==
    ASSUME PlayerTypeOK, Covered, Buffered, PlayerTick
    PROVE  /\ PlayerTypeOK' /\ Covered' /\ Buffered'
           /\ RemainingMs(player)' =
                IF RemainingMs(player) > 0 THEN RemainingMs(player) - 1 ELSE 0
           /\ player.sources = {} => player'.sources = {}
           /\ player'.bytes = player.bytes
<1>1. /\ player \in PlayerState /\ flush \in {Off} \cup 0 .. Coalesce
      /\ flush' \in {Off} \cup 0 .. Coalesce
      /\ flush' = Off <=> flush = Off
  BY PlayerAssumption DEF PlayerTypeOK, PlayerTick, Sooner, Off
<1>2. /\ player.rate \in Rates \cup {NoContext} /\ player.now \in 0 .. MaxAge
      /\ player.next \in Nat /\ player.bytes \in Nat
      /\ player.sources \in SUBSET Source
      /\ player = [rate |-> player.rate, now |-> player.now, next |-> player.next,
                   bytes |-> player.bytes, sources |-> player.sources]
  BY <1>1 DEF PlayerState
<1>3. RemainingMs(player) \in Nat
  BY <1>2 DEF RemainingMs
<1>4. /\ Advanced(player.sources) \in SUBSET Source
      /\ \A s \in Advanced(player.sources) :
           s.wait + s.left <= RemainingMs(player) - 1
      /\ player.sources = {} => Advanced(player.sources) = {}
  BY <1>2, <1>3, AdvancedFacts DEF Covered
<1>5. CASE player.rate = NoContext
  <2>1. player' = player /\ RemainingMs(player) = 0
    BY <1>2, <1>5 DEF PlayerTick, Buffered, RemainingMs
  <2> QED
    BY <1>1, <1>2, <2>1 DEF PlayerTypeOK, Covered, Buffered, RemainingMs
<1>6. CASE player.rate # NoContext
  <2>1. PICK m \in 0 .. MaxAge, k \in Nat :
           /\ player' = [rate |-> player.rate, now |-> m, next |-> k,
                         bytes |-> player.bytes,
                         sources |-> Advanced(player.sources)]
           /\ (IF k > m THEN k - m ELSE 0) =
                IF RemainingMs(player) > 0 THEN RemainingMs(player) - 1 ELSE 0
    <3>1. CASE player.now < MaxAge
      <4>1. player' = [rate |-> player.rate, now |-> player.now + 1,
                       next |-> player.next, bytes |-> player.bytes,
                       sources |-> Advanced(player.sources)]
        BY <1>2, <1>6, <3>1 DEF PlayerTick
      <4>2. player.now + 1 \in 0 .. MaxAge
        BY <1>2, <3>1, PlayerAssumption
      <4>3. (IF player.next > player.now + 1
             THEN player.next - (player.now + 1) ELSE 0) =
                IF RemainingMs(player) > 0 THEN RemainingMs(player) - 1 ELSE 0
        BY <1>2 DEF RemainingMs
      <4> QED
        BY <1>2, <4>1, <4>2, <4>3
    <3>2. CASE player.now = MaxAge
      <4> DEFINE k == IF player.next > MaxAge THEN player.next - 1 ELSE player.next
      <4>1. player' = [rate |-> player.rate, now |-> player.now,
                       next |-> k, bytes |-> player.bytes,
                       sources |-> Advanced(player.sources)]
        <5>1. ~ (player.now < MaxAge)
          BY <3>2, PlayerAssumption
        <5>2. player' = [player EXCEPT !.next = k,
                                      !.sources = Advanced(player.sources)]
          BY <1>2, <1>6, <5>1 DEF PlayerTick
        <5> HIDE DEF k
        <5> QED
          BY <1>2, <5>2
      <4>2. k \in Nat
        BY <1>2, PlayerAssumption
      <4>3. (IF k > player.now THEN k - player.now ELSE 0) =
                IF RemainingMs(player) > 0 THEN RemainingMs(player) - 1 ELSE 0
        BY <1>2, <3>2 DEF RemainingMs
      <4> HIDE DEF k
      <4> QED
        BY <1>2, <4>1, <4>2, <4>3
    <3> QED
      BY <1>2, <3>1, <3>2, PlayerAssumption
  <2>2. RemainingMs(player)' =
          IF RemainingMs(player) > 0 THEN RemainingMs(player) - 1 ELSE 0
    BY <2>1 DEF RemainingMs
  <2>3. player' \in PlayerState
    BY <1>2, <1>4, <2>1 DEF PlayerState
  <2>4. Covered'
    <3> SUFFICES ASSUME NEW s \in Advanced(player.sources)
                 PROVE  s.wait + s.left <= RemainingMs(player)'
      BY <2>1 DEF Covered
    <3>1. s.wait \in Nat /\ s.left \in Nat \ {0}
          /\ s.wait + s.left <= RemainingMs(player) - 1
      BY <1>4 DEF Source
    <3> QED
      BY <1>3, <2>2, <3>1
  <2>5. Buffered'
    BY <1>1, <1>6, <2>1 DEF Buffered
  <2> QED
    BY <1>1, <1>4, <2>1, <2>2, <2>3, <2>4, <2>5 DEF PlayerTypeOK
<1> QED
  BY <1>5, <1>6

-----------------------------------------------------------------------------
(* The invariant *)

\* What the conjuncts of the invariants say of the types, for the arithmetic.
LEMMA PlayerRanges ==
    ASSUME PInv
    PROVE  /\ player \in PlayerState /\ player.bytes \in Nat
           /\ player.sources \in SUBSET Source
           /\ RemainingMs(player) \in Nat
           /\ flush \in {Off} \cup 0 .. Coalesce
           /\ CoveredIn(player)
<1>1. player \in PlayerState /\ flush \in {Off} \cup 0 .. Coalesce
  BY DEF PInv, PlayerTypeOK
<1>2. RemainingMs(player) \in Nat
  BY <1>1 DEF PlayerState, RemainingMs
<1> QED
  BY <1>1, <1>2 DEF PInv, Covered, CoveredIn, PlayerState

LEMMA Ranges ==
    ASSUME IInv
    PROVE  /\ player \in PlayerState /\ player.bytes \in Nat
           /\ player.sources \in SUBSET Source
           /\ RemainingMs(player) \in Nat
           /\ flush \in {Off} \cup 0 .. Coalesce
           /\ tail \in Timer /\ fallback \in Timer
           /\ CoveredIn(player)
BY PlayerRanges DEF IInv, GuardTypeOK

LEMMA InitInv == Init => IInv
<1> SUFFICES ASSUME Init PROVE IInv
  OBVIOUS
<1>1. player \in PlayerState
  <2>1. 0 \in 0 .. MaxAge /\ {} \in SUBSET Source
    BY PlayerAssumption
  <2> QED
    BY <2>1 DEF Init, PlayerInit, PlayerState
<1>2. player.sources = {} /\ player.bytes = 0 /\ player.now = 0 /\ player.next = 0
  BY DEF Init, PlayerInit
<1> QED
  BY <1>1, <1>2 DEF Init, PlayerInit, GuardInit, PInv, IInv, PlayerTypeOK, GuardTypeOK,
     Covered, Buffered, Timed, Drained, Timer, Off

\* Steps of the guard on a player that the step leaves as it is, or has
\* brought to a state that satisfies its part of the invariant.
LEMMA GuardSteps ==
    ASSUME IInv, (PlayerTypeOK /\ Covered /\ Buffered)',
           stream' \in Rates \cup {NoContext}
    PROVE  /\ EnterSuppressed => IInv'
           /\ StartTail(RemainingMs(player)') => IInv'
           /\ Resume /\ (player.sources = {} /\ player.bytes = 0)' => IInv'
<1>1. /\ player' \in PlayerState /\ flush' \in {Off} \cup 0 .. Coalesce
      /\ RemainingMs(player)' \in Nat
  BY DEF PlayerTypeOK, PlayerState, RemainingMs
<1>2. EnterSuppressed => IInv'
  BY DEF EnterSuppressed, PInv, IInv, GuardTypeOK, Timed, Drained, Timer
<1>3. StartTail(RemainingMs(player)') => IInv'
  <2> SUFFICES ASSUME StartTail(RemainingMs(player)') PROVE IInv'
    OBVIOUS
  <2>1. /\ guard' = "tail"
        /\ tail' = RemainingMs(player)' + TailDelay
        /\ fallback' = RemainingMs(player)' + Fallback
    BY DEF StartTail
  <2>2. tail' \in Nat /\ fallback' \in Nat
    BY <1>1, <2>1, GuardAssumption
  <2>3. flush' # Off => flush' < tail'
    BY <1>1, <2>1, GuardAssumption, ClientAssumption, PlayerAssumption DEF Off
  <2>4. RemainingMs(player)' + Pending' <= fallback'
    BY <1>1, <2>1, GuardAssumption, ClientAssumption, PlayerAssumption
       DEF Pending, Off
  <2> QED
    BY <2>1, <2>2, <2>3, <2>4 DEF PInv, IInv, GuardTypeOK, Timed, Drained, Timer, Off
<1>4. Resume /\ (player.sources = {} /\ player.bytes = 0)' => IInv'
  BY DEF Resume, PInv, IInv, GuardTypeOK, Timed, Drained, Timer
<1> QED
  BY <1>2, <1>3, <1>4

\* An event that leaves the player alone may start the tail.
LEMMA ScheduleKeeps ==
    ASSUME IInv, UNCHANGED playerVars, stream' \in Rates \cup {NoContext},
           ScheduleResume(RemainingMs(player))
    PROVE  IInv'
<1>1. (PlayerTypeOK /\ Covered /\ Buffered)' /\ RemainingMs(player)' = RemainingMs(player)
  BY DEF PInv, IInv, playerVars, PlayerTypeOK, Covered, Buffered, RemainingMs
<1>2. CASE guard = "suppressed"
  BY <1>1, <1>2, GuardSteps DEF ScheduleResume
<1>3. CASE guard # "suppressed"
  BY <1>1, <1>3 DEF ScheduleResume, guardVars, playerVars, PInv, IInv, GuardTypeOK,
     Timed, Drained, Pending
<1> QED
  BY <1>2, <1>3

\* An event that nobody handles.
LEMMA UnheardKeeps ==
    ASSUME IInv, UNCHANGED <<playerVars, guardVars>>,
           stream' \in Rates \cup {NoContext}
    PROVE  IInv'
BY DEF PInv, IInv, playerVars, guardVars, PlayerTypeOK, GuardTypeOK, Covered, Buffered,
   Timed, Drained, Pending, RemainingMs

\* A player that is silenced.
LEMMA CancelKeeps ==
    ASSUME PInv, PlayerCancel
    PROVE  /\ (PlayerTypeOK /\ Covered /\ Buffered)'
           /\ (player.sources = {} /\ player.bytes = 0 /\ flush = Off)'
           /\ RemainingMs(player)' = 0
<1>1. /\ player.rate \in Rates \cup {NoContext} /\ player.now \in 0 .. MaxAge
      /\ player' = [rate |-> player.rate, now |-> player.now, next |-> 0,
                    bytes |-> 0, sources |-> {}]
      /\ flush' = Off
  BY PlayerRanges DEF PlayerCancel, Cancelled, PlayerState
<1>2. player' \in PlayerState
  <2>1. {} \in SUBSET Source
    OBVIOUS
  <2> QED
    BY <1>1, <2>1 DEF PlayerState
<1>3. player.rate = NoContext => player.now = 0
  BY DEF PInv, Buffered
<1> QED
  BY <1>1, <1>2, <1>3 DEF PlayerTypeOK, Covered, Buffered, RemainingMs

\* The player after a chunk of audio: flushed, or waiting with the timer armed.
LEMMA AudioFacts ==
    ASSUME PInv, NEW size \in Sizes, NEW final \in BOOLEAN, NEW rate \in Rates,
           PlayerOnAudio(size, final, rate)
    PROVE  (PlayerTypeOK /\ Covered /\ Buffered)'
<1> DEFINE c == EnsureContext(player, rate)
           p == [c EXCEPT !.bytes = @ + size]
<1>1. /\ c \in PlayerState /\ CoveredIn(c) /\ c.rate = rate
      /\ c.bytes = player.bytes /\ player.bytes \in Nat
  BY PlayerRanges, EnsureContextFacts
<1>2. rate \in Nat \ {0} /\ size \in Nat \ {0} /\ rate # NoContext
  BY PlayerAssumption DEF NoContext
<1>3. /\ p = [rate |-> rate, now |-> c.now, next |-> c.next,
              bytes |-> player.bytes + size, sources |-> c.sources]
      /\ c.now \in 0 .. MaxAge /\ c.next \in Nat /\ c.sources \in SUBSET Source
  BY <1>1 DEF PlayerState
<1>4. player.bytes + size \in Nat /\ player.bytes + size > 0
  BY <1>1, <1>2
<1> HIDE DEF c
<1>5. p \in PlayerState
  BY <1>3, <1>4 DEF PlayerState
<1>6. CoveredIn(p)
  BY <1>1, <1>3 DEF CoveredIn, RemainingMs
<1>7. p.rate = rate /\ p.bytes > 0
  BY <1>3, <1>4
<1>8. IF final \/ p.bytes >= MaxCoalesce THEN FlushNow(p) ELSE ScheduleFlush(p)
  BY DEF PlayerOnAudio, c
<1> HIDE DEF p
<1>9. CASE final \/ p.bytes >= MaxCoalesce
  <2>1. player' = Flushed(p) /\ flush' = Off
    BY <1>8, <1>9 DEF FlushNow
  <2> QED
    BY <1>2, <1>5, <1>6, <1>7, <2>1, FlushedFacts
       DEF PlayerTypeOK, Covered, CoveredIn, Buffered
<1>10. CASE ~ (final \/ p.bytes >= MaxCoalesce)
  <2>1. player' = p /\ flush' = IF flush = Off THEN Coalesce ELSE flush
    BY <1>8, <1>10 DEF ScheduleFlush
  <2>2. flush' \in 0 .. Coalesce /\ flush' # Off
    BY <2>1, PlayerRanges, PlayerAssumption DEF Off
  <2>3. p.bytes < MaxCoalesce
    BY <1>5, <1>10, PlayerAssumption DEF PlayerState
  <2> QED
    BY <1>2, <1>5, <1>6, <1>7, <2>1, <2>2, <2>3
       DEF PlayerTypeOK, Covered, CoveredIn, Buffered
<1> QED
  BY <1>9, <1>10

\* The step of the flush timer keeps the invariant: the fallback was budgeted
\* for what waited.
LEMMA FlushKeeps ==
    ASSUME IInv, Flushes
    PROVE  IInv'
<1>1. /\ flush = 0 /\ player' = Flushed(player) /\ flush' = Off
      /\ UNCHANGED <<guard, tail, fallback, stream>>
  BY DEF Flushes, FlushFires, FlushNow, guardVars, serverVars
<1>2. /\ player.bytes > 0 /\ player.rate # NoContext /\ player.bytes < MaxCoalesce
  BY <1>1 DEF PInv, IInv, Buffered, Off
<1>3. /\ player' \in PlayerState /\ CoveredIn(player)' /\ player'.bytes = 0
      /\ player'.rate = player.rate
      /\ RemainingMs(player)' <= RemainingMs(player) + player.bytes
  BY <1>1, <1>2, Ranges, FlushedFacts DEF CoveredIn, RemainingMs
<1>4. RemainingMs(player)' \in Nat
  BY <1>3 DEF PlayerState, RemainingMs
<1>5. (PlayerTypeOK /\ Covered /\ Buffered)'
  BY <1>1, <1>2, <1>3 DEF PlayerTypeOK, Covered, CoveredIn, Buffered
<1>6. Timed'
  <2>1. guard = "tail" => RemainingMs(player)' + Pending' <= fallback
    <3>1. Pending = MaxCoalesce /\ Pending' = 0
      BY <1>1, PlayerAssumption DEF Pending, Off
    <3>2. guard = "tail" =>
            fallback # Off /\ RemainingMs(player) + Pending <= fallback
      BY DEF PInv, IInv, Timed
    <3> QED
      BY <1>2, <1>3, <1>4, <3>1, <3>2, Ranges, PlayerAssumption DEF Timer, Off
  <2> QED
    BY <1>1, <2>1 DEF PInv, IInv, Timed
<1>7. Drained'
  BY <1>1, <1>2 DEF PInv, IInv, Drained
<1> QED
  BY <1>1, <1>5, <1>6, <1>7 DEF PInv, IInv, GuardTypeOK

\* A tick brings both timers of the guard and the drain nearer alike.
LEMMA TickKeeps ==
    ASSUME IInv, Tick
    PROVE  IInv'
<1>1. /\ (PlayerTypeOK /\ Covered /\ Buffered)'
      /\ RemainingMs(player)' =
           IF RemainingMs(player) > 0 THEN RemainingMs(player) - 1 ELSE 0
      /\ player.sources = {} => player'.sources = {}
      /\ player'.bytes = player.bytes
  BY TickFacts DEF PInv, IInv, Tick
<1>2. /\ tail # 0 /\ fallback # 0 /\ flush # 0
      /\ tail' = Sooner(tail) /\ fallback' = Sooner(fallback)
      /\ flush' = Sooner(flush) /\ guard' = guard /\ stream' = stream
  BY DEF Tick, GuardTick, PlayerTick, serverVars
<1>3. tail' \in Timer /\ fallback' \in Timer
  BY <1>2, Ranges DEF Sooner, Timer, Off
<1>4. guard = "tail" =>
        /\ tail' # Off /\ (flush' # Off => flush' < tail')
        /\ fallback' # Off /\ RemainingMs(player)' + Pending' <= fallback'
  <2> SUFFICES ASSUME guard = "tail"
               PROVE  /\ tail' # Off /\ (flush' # Off => flush' < tail')
                      /\ fallback' # Off
                      /\ RemainingMs(player)' + Pending' <= fallback'
    OBVIOUS
  <2>1. /\ tail # Off /\ (flush # Off => flush < tail)
        /\ fallback # Off /\ RemainingMs(player) + Pending <= fallback
    BY DEF PInv, IInv, Timed
  <2>2. /\ tail \in Nat \ {0} /\ fallback \in Nat \ {0}
        /\ tail' = tail - 1 /\ fallback' = fallback - 1
        /\ flush = Off \/ flush \in Nat \ {0}
        /\ flush' = IF flush = Off THEN Off ELSE flush - 1
    BY <1>2, <2>1, Ranges DEF Sooner, Timer, Off
  <2>3. RemainingMs(player)' + Pending' <= fallback - 1
    BY <1>1, <2>1, <2>2, Ranges, PlayerAssumption DEF Pending, Off
  <2> QED
    BY <2>1, <2>2, <2>3 DEF Off
<1>5. Timed'
  <2>1. guard # "tail" => tail' = Off /\ fallback' = Off
    BY <1>2 DEF PInv, IInv, Timed, Sooner, Off
  <2> QED
    BY <1>2, <1>4, <2>1 DEF Timed
<1> QED
  BY <1>1, <1>2, <1>3, <1>5 DEF PInv, IInv, GuardTypeOK, Drained

-----------------------------------------------------------------------------
(* The theorem *)

\* No step of the server, the timers or the application breaks the invariant,
\* when the guard reads the drain of the player.
LEMMA NextInv ==
    ASSUME ~Stuck, IInv, [Next]_vars
    PROVE  IInv'
<1> USE DEF RemainingPlayback
<1>0. stream \in Rates \cup {NoContext} /\ NoContext \in Rates \cup {NoContext}
  BY DEF PInv, IInv
<1>1. ASSUME NEW r \in Rates, FirstChunk(r) PROVE IInv'
  <2>1. stream' = r /\ UNCHANGED playerVars
    BY <1>1 DEF FirstChunk, Unheard, playerVars
  <2>2. CASE listening
    <3>1. (PlayerTypeOK /\ Covered /\ Buffered)'
      BY <2>1 DEF PInv, IInv, playerVars, PlayerTypeOK, Covered, Buffered, RemainingMs
    <3>2. EnterSuppressed
      BY <1>1, <2>2 DEF FirstChunk
    <3> QED
      BY <2>1, <3>1, <3>2, GuardSteps
  <2>3. CASE ~listening
    <3>1. UNCHANGED guardVars
      BY <1>1, <2>3 DEF FirstChunk, Unheard
    <3> QED
      BY <2>1, <3>1, UnheardKeeps DEF guardVars
  <2> QED
    BY <2>2, <2>3
<1>2. ASSUME NEW n \in Sizes, NEW f \in BOOLEAN, Audio(n, f) PROVE IInv'
  <2>1. stream \in Rates /\ stream' \in Rates \cup {NoContext}
    BY <1>0, <1>2 DEF Audio
  <2>2. CASE listening
    <3>1. /\ PlayerOnAudio(n, f, stream)
          /\ IF f THEN StartTail(RemainingMs(player)') ELSE EnterSuppressed
      BY <1>2, <2>2 DEF Audio, GuardOnAudio, RemainingMs
    <3>2. (PlayerTypeOK /\ Covered /\ Buffered)'
      BY <2>1, <3>1, AudioFacts DEF IInv
    <3> QED
      BY <2>1, <3>1, <3>2, GuardSteps
  <2>3. CASE ~listening
    <3>1. UNCHANGED <<playerVars, guardVars>>
      BY <1>2, <2>3 DEF Audio, Unheard
    <3> QED
      BY <2>1, <3>1, UnheardKeeps
  <2> QED
    BY <2>2, <2>3
<1>3. ASSUME SpeechCancelled PROVE IInv'
  <2>1. stream' \in Rates \cup {NoContext}
    BY <1>3 DEF SpeechCancelled
  <2>2. CASE listening
    <3>1. PlayerCancel /\ ScheduleResume(RemainingMs(player'))
      BY <1>3, <2>2 DEF SpeechCancelled
    <3>2. /\ (PlayerTypeOK /\ Covered /\ Buffered)' /\ RemainingMs(player)' = 0
          /\ (player.sources = {} /\ player.bytes = 0 /\ flush = Off)'
      BY <3>1, CancelKeeps DEF IInv
    <3>3. CASE guard = "suppressed"
      <4>1. StartTail(RemainingMs(player)')
        BY <3>1, <3>3 DEF ScheduleResume, RemainingMs
      <4> QED
        BY <2>1, <3>2, <4>1, GuardSteps
    <3>4. CASE guard # "suppressed"
      <4>1. UNCHANGED <<guard, tail, fallback>>
        BY <3>1, <3>4 DEF ScheduleResume, guardVars
      <4>2. guard = "tail" => 0 <= fallback
        BY Ranges DEF PInv, IInv, Timed, Timer
      <4>3. Timed'
        BY <3>2, <4>1, <4>2 DEF PInv, IInv, Timed, Pending
      <4> QED
        BY <2>1, <3>2, <4>1, <4>3 DEF PInv, IInv, GuardTypeOK, Drained
    <3> QED
      BY <3>3, <3>4
  <2>3. CASE ~listening
    <3>1. UNCHANGED <<playerVars, guardVars>>
      BY <1>3, <2>3 DEF SpeechCancelled, Unheard
    <3> QED
      BY <2>1, <3>1, UnheardKeeps
  <2> QED
    BY <2>2, <2>3
<1>4. ASSUME SpeechFails \/ TurnFinished PROVE IInv'
  <2>1. stream' \in Rates \cup {NoContext}
    BY <1>0, <1>4 DEF SpeechFails, TurnFinished
  <2>2. CASE listening
    BY <1>4, <2>1, <2>2, ScheduleKeeps DEF SpeechFails, TurnFinished
  <2>3. CASE ~listening
    BY <1>4, <2>1, <2>3, UnheardKeeps DEF SpeechFails, TurnFinished, Unheard
  <2> QED
    BY <2>2, <2>3
<1>5. ASSUME EndsUnmarked \/ Stop \/ Start PROVE IInv'
  BY <1>0, <1>5, UnheardKeeps DEF EndsUnmarked, Stop, Start, serverVars
<1>6. ASSUME TailTimer PROVE IInv'
  <2>1. /\ UNCHANGED <<playerVars, stream>> /\ TailFires(RemainingMs(player))
    BY <1>6 DEF TailTimer, serverVars
  <2>2. (PlayerTypeOK /\ Covered /\ Buffered)' /\ RemainingMs(player)' = RemainingMs(player)
    BY <2>1 DEF PInv, IInv, playerVars, PlayerTypeOK, Covered, Buffered, RemainingMs
  <2>3. guard = "tail" /\ flush = Off /\ player.bytes = 0
    <3>1. guard = "tail" /\ (flush # Off => flush < 0)
      BY <2>1 DEF PInv, IInv, Timed, TailFires, Off
    <3>2. flush = Off
      BY <3>1, Ranges, PlayerAssumption
    <3> QED
      BY <3>1, <3>2, Ranges DEF PInv, IInv, Buffered
  <2>4. CASE RemainingMs(player) > 0
    <3>1. /\ tail' = RemainingMs(player) + TailDelay
          /\ UNCHANGED <<guard, fallback, flush, player>>
      BY <2>1, <2>4 DEF TailFires, playerVars
    <3>2. tail' \in Nat
      BY <3>1, Ranges, GuardAssumption
    <3>3. Timed'
      BY <2>2, <2>3, <3>1, <3>2 DEF PInv, IInv, Timed, Pending, Off
    <3> QED
      BY <1>0, <2>1, <2>2, <3>1, <3>2, <3>3 DEF PInv, IInv, GuardTypeOK, Drained, Timer
  <2>5. CASE ~ (RemainingMs(player) > 0)
    <3>1. Resume
      BY <2>1, <2>5 DEF TailFires
    <3>2. player.sources = {}
      BY <2>5, Ranges DEF CoveredIn, Source
    <3> QED
      BY <1>0, <2>1, <2>2, <2>3, <3>1, <3>2, GuardSteps DEF playerVars
  <2> QED
    BY <2>4, <2>5
<1>7. ASSUME FallbackTimer PROVE IInv'
  <2>1. UNCHANGED <<playerVars, stream>> /\ fallback = 0 /\ Resume
    BY <1>7 DEF FallbackTimer, FallbackFires, serverVars
  <2>2. (PlayerTypeOK /\ Covered /\ Buffered)'
    BY <2>1 DEF PInv, IInv, playerVars, PlayerTypeOK, Covered, Buffered, RemainingMs
  <2>3. RemainingMs(player) + Pending <= 0
    BY <2>1 DEF PInv, IInv, Timed, Off
  <2>4. flush = Off /\ RemainingMs(player) = 0
    BY <2>3, Ranges, PlayerAssumption DEF Pending
  <2>5. player.sources = {} /\ player.bytes = 0
    <3>1. player.sources = {}
      BY <2>4, Ranges DEF CoveredIn, Source
    <3> QED
      BY <2>4, <3>1, Ranges DEF PInv, IInv, Buffered
  <2> QED
    BY <1>0, <2>1, <2>2, <2>5, GuardSteps DEF playerVars
<1>8. ASSUME Close PROVE IInv'
  <2>1. PlayerCancel /\ Resume /\ stream' = stream
    BY <1>8 DEF Close, serverVars
  <2> QED
    BY <1>0, <2>1, CancelKeeps, GuardSteps DEF IInv
<1>9. CASE UNCHANGED vars
  BY <1>0, <1>9, UnheardKeeps DEF vars, serverVars
<1> QED
  BY <1>1, <1>2, <1>3, <1>4, <1>5, <1>6, <1>7, <1>8, <1>9, FlushKeeps, TickKeeps
     DEF Next, ServerEvent

\* While a source can be heard the guard is not idling, whatever the rates,
\* sizes, delays and bounds: the invariant says an idling guard has nothing
\* that plays (speaker-echo-guard.js:5-8, 292-308).
THEOREM GuardOutlastsSpeech == ASSUME ~Stuck PROVE Spec => []EchoShut
<1>1. Init => IInv
  BY InitInv
<1>2. IInv /\ [Next]_vars => IInv'
  BY NextInv
<1>3. IInv => EchoShut
  BY DEF PInv, IInv, Drained, EchoShut, Audible
<1> QED
  BY <1>1, <1>2, <1>3, PTL DEF Spec

\* What the player guarantees does not depend on the guard: no step breaks its
\* part of the invariant, or lets a silenced speaker be heard.
LEMMA PlayerNextInv ==
    ASSUME PInv, Silent, [Next]_vars
    PROVE  PInv' /\ Silent'
<1>0. /\ stream \in Rates \cup {NoContext} /\ NoContext \in Rates \cup {NoContext}
      /\ player.bytes > 0 <=> flush # Off
  BY DEF PInv, Buffered
<1>1. ASSUME UNCHANGED playerVars, stream' \in Rates \cup {NoContext},
             silenced' => silenced
      PROVE  PInv' /\ Silent'
  BY <1>1 DEF PInv, Silent, playerVars, PlayerTypeOK, Covered, Buffered, RemainingMs
<1>2. ASSUME PlayerCancel, stream' \in Rates \cup {NoContext}
      PROVE  PInv' /\ Silent'
  BY <1>2, CancelKeeps DEF PInv, Silent
<1>3. ASSUME NEW r \in Rates, FirstChunk(r) PROVE PInv' /\ Silent'
  <2>1. stream' = r /\ UNCHANGED playerVars /\ (silenced' => silenced)
    BY <1>3 DEF FirstChunk, Unheard
  <2> QED
    BY <2>1, <1>1
<1>4. ASSUME NEW n \in Sizes, NEW f \in BOOLEAN, Audio(n, f) PROVE PInv' /\ Silent'
  <2>1. stream \in Rates /\ stream' \in Rates \cup {NoContext}
    BY <1>0, <1>4 DEF Audio
  <2>2. CASE listening
    <3>1. PlayerOnAudio(n, f, stream) /\ silenced' = FALSE
      BY <1>4, <2>2 DEF Audio
    <3> QED
      BY <2>1, <3>1, AudioFacts DEF PInv, Silent
  <2>3. CASE ~listening
    BY <1>1, <1>4, <2>1, <2>3 DEF Audio, Unheard
  <2> QED
    BY <2>2, <2>3
<1>5. ASSUME SpeechCancelled PROVE PInv' /\ Silent'
  BY <1>0, <1>1, <1>2, <1>5 DEF SpeechCancelled, Unheard
<1>6. ASSUME Close PROVE PInv' /\ Silent'
  BY <1>0, <1>2, <1>6 DEF Close, serverVars
<1>7. ASSUME SpeechFails \/ TurnFinished \/ EndsUnmarked \/ Stop \/ Start
             \/ TailTimer \/ FallbackTimer \/ UNCHANGED vars
      PROVE  PInv' /\ Silent'
  <2>1. UNCHANGED playerVars /\ stream' \in Rates \cup {NoContext} /\ silenced' = silenced
    BY <1>0, <1>7 DEF SpeechFails, TurnFinished, EndsUnmarked, Stop, Start,
       TailTimer, FallbackTimer, vars, Unheard, serverVars
  <2> QED
    BY <2>1, <1>1
<1>8. ASSUME Flushes PROVE PInv' /\ Silent'
  <2>1. /\ player' = Flushed(player) /\ flush = 0 /\ flush' = Off
        /\ stream' = stream /\ silenced' = silenced
    BY <1>8 DEF Flushes, FlushFires, FlushNow, serverVars
  <2>2. player.bytes > 0 /\ player.rate # NoContext
    BY <2>1 DEF PInv, Buffered, Off
  <2>3. /\ player' \in PlayerState /\ CoveredIn(player)' /\ player'.bytes = 0
        /\ player'.rate = player.rate
    BY <2>1, <2>2, PlayerRanges, FlushedFacts DEF CoveredIn, RemainingMs
  <2>4. ~silenced
    BY <2>2, PlayerRanges DEF Silent
  <2> QED
    BY <1>0, <2>1, <2>2, <2>3, <2>4
       DEF PInv, Silent, PlayerTypeOK, Covered, CoveredIn, Buffered
<1>9. ASSUME Tick PROVE PInv' /\ Silent'
  <2>1. /\ (PlayerTypeOK /\ Covered /\ Buffered)'
        /\ player.sources = {} => player'.sources = {}
        /\ player'.bytes = player.bytes
    BY <1>9, TickFacts DEF PInv, Tick
  <2>2. stream' = stream /\ (silenced' => silenced)
    BY <1>9 DEF Tick, serverVars, Off
  <2> QED
    BY <1>0, <2>1, <2>2 DEF PInv, Silent
<1> QED
  BY <1>3, <1>4, <1>5, <1>6, <1>7, <1>8, <1>9 DEF Next, ServerEvent

\* Once a tts.cancelled was handled nothing is heard until newer speech comes,
\* whatever was coalesced, scheduled or left on a replaced context, and whatever
\* the guard does meanwhile (tts-audio-player.js:102-107, 145-163).
THEOREM BargeInSilences == Spec => []SilentAfterCancel
<1>1. Init => PInv /\ Silent
  BY InitInv DEF IInv, Init, Silent
<1>2. PInv /\ Silent /\ [Next]_vars => PInv' /\ Silent'
  BY PlayerNextInv
<1>3. PInv /\ Silent => SilentAfterCancel
  BY DEF Silent, SilentAfterCancel, Audible
<1> QED
  BY <1>1, <1>2, <1>3, PTL DEF Spec

-----------------------------------------------------------------------------
(* What is scheduled plays without gap or overlap *)

End(s) == s.wait + s.left

\* The sources of S fill the time from now to n, one at a time.
Tiled(S, n) ==
    /\ \A s \in S : End(s) <= n
    /\ \A s \in S : s.wait = 0 \/ \E t \in S : End(t) = s.wait
    /\ \A s \in S : \A t \in S \ {s} : End(s) <= t.wait \/ End(t) <= s.wait
    /\ n = 0 \/ \E s \in S : End(s) = n

Laid == Tiled(player.sources, RemainingMs(player))

\* A source that starts where all others end goes on with them.
LEMMA TiledAppended ==
    ASSUME NEW S \in SUBSET Source, NEW n \in Nat, NEW d \in Nat \ {0}, Tiled(S, n)
    PROVE  Tiled(S \cup {[wait |-> n, left |-> d]}, n + d)
<1> DEFINE new == [wait |-> n, left |-> d]
           T == S \cup {new}
<1>1. \A s \in S : s.wait \in Nat /\ s.left \in Nat \ {0} /\ End(s) \in Nat /\ End(s) <= n
  BY DEF Tiled, Source, End
<1>2. new.wait = n /\ End(new) = n + d
  BY DEF End
<1> HIDE DEF new
<1>3. \A s \in T : End(s) <= n + d
  BY <1>1, <1>2
<1>4. \A s \in T : s.wait = 0 \/ \E t \in T : End(t) = s.wait
  BY <1>2 DEF Tiled
<1>5. \A s \in T : \A t \in T \ {s} : End(s) <= t.wait \/ End(t) <= s.wait
  BY <1>1, <1>2 DEF Tiled
<1> QED
  BY <1>2, <1>3, <1>4, <1>5 DEF Tiled, new

\* A tick later every source ends a tick earlier, and those that waited start
\* a tick earlier.
LEMMA LaterFacts ==
    ASSUME NEW s \in Source
    PROVE  /\ End(Later(s)) = End(s) - 1
           /\ Later(s).wait = IF s.wait > 0 THEN s.wait - 1 ELSE 0
           /\ End(s) >= 2 => Later(s).left > 0
<1>1. s.wait \in Nat /\ s.left \in Nat \ {0} /\ s = [wait |-> s.wait, left |-> s.left]
  BY DEF Source
<1>2. CASE s.wait > 0
  <2>1. Later(s) = [wait |-> s.wait - 1, left |-> s.left]
    BY <1>1, <1>2 DEF Later
  <2> QED
    BY <1>1, <1>2, <2>1 DEF End
<1>3. CASE s.wait = 0
  <2>1. Later(s) = [wait |-> 0, left |-> s.left - 1]
    BY <1>1, <1>3 DEF Later
  <2> QED
    BY <1>1, <1>3, <2>1 DEF End
<1> QED
  BY <1>1, <1>2, <1>3

\* Hence they fill a time that is a tick shorter.
LEMMA TiledAdvanced ==
    ASSUME NEW S \in SUBSET Source, NEW n \in Nat, Tiled(S, n)
    PROVE  Tiled(Advanced(S), IF n > 0 THEN n - 1 ELSE 0)
<1> DEFINE m == IF n > 0 THEN n - 1 ELSE 0
<1>1. \A s \in S : /\ s.wait \in Nat /\ s.left \in Nat \ {0} /\ End(s) \in Nat \ {0}
                   /\ s.wait < End(s) /\ End(s) <= n
  BY DEF Tiled, Source, End
<1>2. \A s \in S : /\ End(Later(s)) = End(s) - 1
                   /\ Later(s).wait = IF s.wait > 0 THEN s.wait - 1 ELSE 0
                   /\ End(s) >= 2 => Later(s) \in Advanced(S)
  BY LaterFacts DEF Advanced
<1>3. \A u \in Advanced(S) : \E s \in S : u = Later(s)
  BY DEF Advanced
<1>4. \A u \in Advanced(S) : End(u) <= m
  BY <1>1, <1>2, <1>3
<1>5. ASSUME NEW u \in Advanced(S), u.wait # 0
      PROVE  \E v \in Advanced(S) : End(v) = u.wait
  <2>1. PICK s \in S : u = Later(s)
    BY <1>3
  <2>2. s.wait >= 2 /\ u.wait = s.wait - 1
    BY <1>1, <1>2, <1>5, <2>1
  <2>3. PICK t \in S : End(t) = s.wait
    BY <2>2 DEF Tiled
  <2> QED
    BY <1>1, <1>2, <2>2, <2>3
<1>6. ASSUME NEW u \in Advanced(S), NEW v \in Advanced(S) \ {u}
      PROVE  End(u) <= v.wait \/ End(v) <= u.wait
  <2>1. PICK s \in S : u = Later(s)
    BY <1>3
  <2>2. PICK t \in S \ {s} : v = Later(t)
    BY <1>3, <1>6, <2>1
  <2>3. End(s) <= t.wait \/ End(t) <= s.wait
    BY DEF Tiled
  <2> QED
    BY <1>1, <1>2, <2>1, <2>2, <2>3
<1>7. m = 0 \/ \E u \in Advanced(S) : End(u) = m
  <2> SUFFICES ASSUME n >= 2 PROVE \E u \in Advanced(S) : End(u) = n - 1
    OBVIOUS
  <2>1. PICK s \in S : End(s) = n
    BY DEF Tiled
  <2> QED
    BY <1>2, <2>1
<1> HIDE DEF m
<1>8. Tiled(Advanced(S), m)
  BY <1>4, <1>5, <1>6, <1>7 DEF Tiled
<1> QED
  BY <1>8 DEF m

\* A flush continues what is laid.
LEMMA FlushedLaid ==
    ASSUME NEW p \in PlayerState, CoveredIn(p), p.bytes > 0 => p.rate # NoContext,
           Tiled(p.sources, RemainingMs(p))
    PROVE  Tiled(Flushed(p).sources, RemainingMs(Flushed(p)))
<1>1. CASE p.bytes = 0
  BY <1>1, FlushedFacts
<1>2. CASE p.bytes > 0
  <2>1. PICK d \in Nat \ {0} :
           /\ RemainingMs(Flushed(p)) = RemainingMs(p) + d
           /\ Flushed(p).sources = p.sources \cup {[wait |-> RemainingMs(p), left |-> d]}
    BY <1>2, FlushedFacts
  <2>2. RemainingMs(p) \in Nat /\ p.sources \in SUBSET Source
    BY DEF RemainingMs, PlayerState
  <2> QED
    BY <2>1, <2>2, TiledAppended
<1> QED
  BY <1>1, <1>2 DEF PlayerState

\* A tick of the context's clock.
LEMMA TickLaid ==
    ASSUME PInv, Laid, Tick
    PROVE  Laid'
<1>1. /\ RemainingMs(player)' =
           IF RemainingMs(player) > 0 THEN RemainingMs(player) - 1 ELSE 0
      /\ PlayerTick
  BY TickFacts DEF PInv, Tick
<1>2. player \in PlayerState /\ player.sources \in SUBSET Source
      /\ RemainingMs(player) \in Nat
  BY PlayerRanges
<1>3. CASE player.rate = NoContext
  BY <1>1, <1>3 DEF PlayerTick, Laid, RemainingMs
<1>4. CASE player.rate # NoContext
  <2>1. player'.sources = Advanced(player.sources)
    BY <1>1, <1>2, <1>4 DEF PlayerTick, PlayerState
  <2> QED
    BY <1>1, <1>2, <2>1, TiledAdvanced DEF Laid
<1> QED
  BY <1>3, <1>4

\* A chunk of audio at the one rate there is: the context is that of the
\* chunks before it, or the first.
LEMMA AudioLaid ==
    ASSUME \A r, q \in Rates : r = q, PInv, Laid,
           NEW size \in Sizes, NEW final \in BOOLEAN, NEW rate \in Rates,
           PlayerOnAudio(size, final, rate)
    PROVE  Laid'
<1> DEFINE c == EnsureContext(player, rate)
           p == [c EXCEPT !.bytes = @ + size]
<1>1. /\ c \in PlayerState /\ CoveredIn(c) /\ c.rate = rate
      /\ c.bytes = player.bytes /\ player.bytes \in Nat
  BY PlayerRanges, EnsureContextFacts
<1>2. Tiled(c.sources, RemainingMs(c))
  <2>1. player.rate \in Rates \cup {NoContext}
    BY PlayerRanges DEF PlayerState
  <2>2. CASE player.rate = rate
    BY <2>2 DEF EnsureContext, Laid
  <2>3. CASE player.rate = NoContext
    <3>1. player.now = 0 /\ player.next = 0 /\ player.sources = {}
      BY <2>3 DEF PInv, Buffered
    <3>2. c.sources = {} /\ c.now = 0 /\ c.next = 0
      BY <3>1, PlayerRanges DEF EnsureContext, PlayerState
    <3> QED
      BY <3>2 DEF Tiled, RemainingMs
  <2> QED
    BY <2>1, <2>2, <2>3
<1>3. /\ p = [rate |-> rate, now |-> c.now, next |-> c.next,
              bytes |-> player.bytes + size, sources |-> c.sources]
      /\ c.now \in 0 .. MaxAge /\ c.next \in Nat /\ c.sources \in SUBSET Source
  BY <1>1 DEF PlayerState
<1>4. size \in Nat /\ player.bytes + size \in Nat /\ rate # NoContext
  BY <1>1, PlayerAssumption DEF NoContext
<1>5. IF final \/ p.bytes >= MaxCoalesce THEN FlushNow(p) ELSE ScheduleFlush(p)
  BY DEF PlayerOnAudio, c
<1> HIDE DEF c
<1>6. p \in PlayerState
  BY <1>3, <1>4 DEF PlayerState
<1>7. /\ CoveredIn(p) /\ p.rate # NoContext
      /\ Tiled(p.sources, RemainingMs(p))
  BY <1>1, <1>2, <1>3, <1>4 DEF CoveredIn, RemainingMs
<1>8. player' = Flushed(p) \/ player' = p
  BY <1>5 DEF FlushNow, ScheduleFlush
<1> HIDE DEF p
<1>9. CASE player' = p
  BY <1>7, <1>9 DEF Laid
<1>10. CASE player' = Flushed(p)
  BY <1>6, <1>7, <1>10, FlushedLaid DEF Laid
<1> QED
  BY <1>8, <1>9, <1>10

\* A player that is silenced.
LEMMA CancelLaid ==
    ASSUME PInv, PlayerCancel
    PROVE  Laid'
<1>1. player'.sources = {} /\ RemainingMs(player)' = 0
  BY CancelKeeps
<1> QED
  BY <1>1 DEF Laid, Tiled

LEMMA LaidNext ==
    ASSUME \A r, q \in Rates : r = q, PInv, Laid, [Next]_vars
    PROVE  Laid'
<1>1. ASSUME UNCHANGED playerVars PROVE Laid'
  BY <1>1 DEF Laid, playerVars, RemainingMs
<1>2. ASSUME NEW n \in Sizes, NEW f \in BOOLEAN, Audio(n, f) PROVE Laid'
  <2>1. stream \in Rates
    BY <1>2 DEF Audio, PInv
  <2>2. CASE listening
    BY <1>2, <2>1, <2>2, AudioLaid DEF Audio
  <2>3. CASE ~listening
    BY <1>1, <1>2, <2>3 DEF Audio, Unheard
  <2> QED
    BY <2>2, <2>3
<1>3. ASSUME SpeechCancelled \/ Close PROVE Laid'
  BY <1>1, <1>3, CancelLaid DEF SpeechCancelled, Close, Unheard
<1>4. ASSUME Flushes PROVE Laid'
  <2>1. player' = Flushed(player) /\ flush = 0
    BY <1>4 DEF Flushes, FlushFires, FlushNow
  <2>2. player.rate # NoContext
    BY <2>1 DEF PInv, Buffered, Off
  <2> QED
    BY <2>1, <2>2, PlayerRanges, FlushedLaid DEF Laid
<1>5. ASSUME \/ \E r \in Rates : FirstChunk(r)
             \/ SpeechFails \/ TurnFinished \/ EndsUnmarked \/ Stop \/ Start
             \/ TailTimer \/ FallbackTimer \/ UNCHANGED vars
      PROVE  Laid'
  <2>1. UNCHANGED playerVars
    BY <1>5 DEF FirstChunk, SpeechFails, TurnFinished, EndsUnmarked, Stop, Start,
       TailTimer, FallbackTimer, vars, Unheard
  <2> QED
    BY <1>1, <2>1
<1> QED
  BY <1>2, <1>3, <1>4, <1>5, TickLaid DEF Next, ServerEvent

\* While the sample rate stays, what is scheduled plays without a gap and
\* without two sources at once, and remainingMs is exactly its end, whatever
\* the sizes, coalescing windows, cancellations and failures
\* (tts-audio-player.js:170-183, 260-268).
THEOREM SpeechIsSeamless == ASSUME \A r, q \in Rates : r = q PROVE Spec => []Seamless
<1>1. Init => PInv /\ Silent /\ Laid
  <2>1. Init => PInv /\ Silent
    BY InitInv DEF IInv, Init, Silent
  <2>2. Init => Laid
    BY DEF Init, PlayerInit, Laid, Tiled, RemainingMs
  <2> QED
    BY <2>1, <2>2
<1>2. PInv /\ Silent /\ Laid /\ [Next]_vars => (PInv /\ Silent /\ Laid)'
  BY PlayerNextInv, LaidNext
<1>3. Laid => Seamless
  BY DEF Laid, Tiled, Seamless, End
<1> QED
  BY <1>1, <1>2, <1>3, PTL DEF Spec
=============================================================================
