---------------------- MODULE UtteranceCollectorProofs ----------------------
(***************************************************************************)
(* What the collector promises for any VADs, any lengths of its buffers    *)
(* and of silence, any number of frames, and whatever the application does *)
(* between them.                                                           *)
(***************************************************************************)
EXTENDS UtteranceCollector, SequenceTheorems, TLAPS

Mode == Modes \cup {NoMode}
Onset == [frame : Nat, mode : Mode, vad : Vads]
Utterance == [pcm : Seq(Nat), raw : Seq(Nat), mode : Mode, onset : Onset]

CollectorType ==
    /\ frames \in Nat
    /\ pre \in Seq(Nat) /\ buf \in Seq(Nat)
    /\ recording \in BOOLEAN
    /\ recMode \in Mode
    /\ vad \in Vads
    /\ speaking \in [Vads -> BOOLEAN]
    /\ silence \in [Vads -> Nat]
    /\ rx \in [pc : {"idle", "vad", "barge_in", "gates", "turn"}, mode : Mode, pcm : Seq(Nat)]
    /\ updates \in Nat
    /\ onset \in Onset
    /\ voiced \in SUBSET Nat
    /\ out \in Seq(Utterance)

\* Every kind of step but those that say more.
Settles ==
    /\ rx' = Idle /\ updates' \in {updates, updates + 1}
    /\ UNCHANGED <<frames, pre, buf, recording, recMode, vad, detector, history, out>>

\* A stretch of q.
Part(s, q) ==
    /\ s \in Seq(Nat)
    /\ \E k \in Nat : \A n \in 1 .. Len(s) : n + k \in 1 .. Len(q) /\ s[n] = q[n + k]

-----------------------------------------------------------------------------
(* Sequences of frames *)

LEMMA AddedFrame ==
    ASSUME NEW q \in Seq(Nat), NEW f \in Nat
    PROVE  /\ Append(q, f) \in Seq(Nat) /\ Len(Append(q, f)) = Len(q) + 1
           /\ \A i \in 1 .. Len(q) : Append(q, f)[i] = q[i]
           /\ Append(q, f)[Len(q) + 1] = f
           /\ FramesIn(Append(q, f)) = FramesIn(q) \cup {f}
<1>1. /\ Append(q, f) \in Seq(Nat) /\ Len(Append(q, f)) = Len(q) + 1
      /\ \A i \in 1 .. Len(q) : Append(q, f)[i] = q[i]
      /\ Append(q, f)[Len(q) + 1] = f
  BY AppendProperties
<1>2. 1 .. Len(q) + 1 = (1 .. Len(q)) \cup {Len(q) + 1}
  BY LenProperties
<1>3. QED
  BY <1>1, <1>2 DEF FramesIn

LEMMA TrimmedPart ==
    ASSUME NEW q \in Seq(Nat), NEW energy, NEW s \in Trimmed(q, energy), s # <<>>
    PROVE  Part(s, q) /\ FramesIn(s) \subseteq FramesIn(q)
<1>1. PICK i \in 0 .. MaxTrim, j \in 0 .. MaxTrim : s = SubSeq(q, i + 1, Len(q) - j)
  BY DEF Trimmed
<1>2. i \in Nat /\ j \in Nat /\ Len(q) \in Nat /\ i + 1 \in Int /\ Len(q) - j \in Int
      /\ \A k \in i + 1 .. Len(q) - j : k \in 1 .. Len(q) /\ q[k] \in Nat
  BY CollectorAssumption, ElementOfSeq, LenProperties
<1>3. /\ s \in Seq(Nat)
      /\ Len(s) = IF i + 1 <= Len(q) - j THEN Len(q) - j - (i + 1) + 1 ELSE 0
      /\ \A k \in 1 .. Len(q) - j - (i + 1) + 1 : s[k] = q[i + 1 + k - 1]
  BY <1>1, <1>2, SubSeqProperties
<1>4. \A n \in 1 .. Len(s) : n + i \in 1 .. Len(q) /\ s[n] = q[n + i]
  <2> SUFFICES ASSUME NEW n \in 1 .. Len(s) PROVE n + i \in 1 .. Len(q) /\ s[n] = q[n + i]
    OBVIOUS
  <2>1. n \in 1 .. Len(q) - j - (i + 1) + 1 /\ i + 1 + n - 1 = n + i
    BY <1>2, <1>3
  <2>2. n + i \in i + 1 .. Len(q) - j
    BY <1>2, <2>1
  <2>3. QED
    BY <1>2, <1>3, <2>1, <2>2
<1>5. QED
  BY <1>2, <1>3, <1>4 DEF Part, FramesIn

LEMMA ConsecutivePart ==
    ASSUME NEW q \in Seq(Nat), NEW s, Part(s, q), Consecutive(q)
    PROVE  Consecutive(s)
<1>1. PICK k \in Nat : \A n \in 1 .. Len(s) : n + k \in 1 .. Len(q) /\ s[n] = q[n + k]
  BY DEF Part
<1>2. Len(s) \in Nat /\ Len(q) \in Nat
  BY LenProperties DEF Part
<1> SUFFICES ASSUME NEW i \in 1 .. Len(s) - 1 PROVE s[i + 1] = s[i] + 1
  BY DEF Consecutive
<1>3. i \in 1 .. Len(s) /\ i + 1 \in 1 .. Len(s)
  BY <1>2
<1>4. i + k \in 1 .. Len(q) - 1 /\ s[i] = q[i + k] /\ s[i + 1] = q[(i + k) + 1]
  <2>1. (i + 1) + k = (i + k) + 1
    BY <1>3
  <2>2. s[i + 1] = q[(i + 1) + k] /\ (i + 1) + k \in 1 .. Len(q)
    BY <1>1, <1>3
  <2>3. QED
    BY <1>1, <1>2, <1>3, <2>1, <2>2
<1>5. QED
  BY <1>4 DEF Consecutive

\* q holds the latest of the frames up to n.
Latest(q, n) ==
    /\ Len(q) <= PreFrames /\ Len(q) <= n
    /\ \A i \in 1 .. Len(q) : q[i] = n - Len(q) + i

LEMMA PushedFrame ==
    ASSUME NEW q \in Seq(Nat), NEW n \in Nat, Latest(q, n), NEW f \in Nat, f = n + 1
    PROVE  /\ Latest(Push(q, f), f) /\ Push(q, f) \in Seq(Nat) /\ Push(q, f) # <<>>
           /\ FramesIn(Push(q, f)) \subseteq FramesIn(q) \cup {f}
<1> DEFINE r == Push(q, f)
<1>0. Len(q) \in Nat /\ PreFrames \in Nat /\ PreFrames >= 1
  BY CollectorAssumption, LenProperties
<1>1. CASE Len(q) < PreFrames
  <2>1. r = Append(q, f)
    BY <1>1 DEF Push
  <2> HIDE DEF r
  <2>2. /\ r \in Seq(Nat) /\ Len(r) = Len(q) + 1
        /\ \A i \in 1 .. Len(q) : r[i] = q[i]
        /\ r[Len(q) + 1] = f
        /\ FramesIn(r) = FramesIn(q) \cup {f}
    BY <2>1, AddedFrame
  <2>3. \A i \in 1 .. Len(r) : r[i] = f - Len(r) + i
    BY <1>0, <2>2 DEF Latest
  <2>4. Latest(r, f) /\ r # <<>>
    BY <1>0, <1>1, <2>2, <2>3, EmptySeq DEF Latest
  <2>5. QED
    BY <2>2, <2>4 DEF r
<1>2. CASE ~(Len(q) < PreFrames)
  <2>1. r = Append(Tail(q), f) /\ Len(q) = PreFrames /\ q # <<>>
    BY <1>0, <1>2, EmptySeq DEF Push, Latest
  <2> HIDE DEF r
  <2>2. /\ Tail(q) \in Seq(Nat) /\ Len(Tail(q)) = Len(q) - 1
        /\ \A i \in 1 .. Len(q) - 1 : Tail(q)[i] = q[i + 1]
    BY <1>0, <2>1, HeadTailProperties
  <2>3. /\ r \in Seq(Nat) /\ Len(r) = Len(Tail(q)) + 1
        /\ \A i \in 1 .. Len(Tail(q)) : r[i] = Tail(q)[i]
        /\ r[Len(Tail(q)) + 1] = f
        /\ FramesIn(r) = FramesIn(Tail(q)) \cup {f}
    BY <2>1, <2>2, AddedFrame
  <2>4. \A i \in 1 .. Len(r) : r[i] = f - Len(r) + i
    <3> SUFFICES ASSUME NEW i \in 1 .. Len(q) PROVE r[i] = f - Len(q) + i
      BY <1>0, <2>2, <2>3
    <3>1. CASE i = Len(q)
      BY <1>0, <2>2, <2>3, <3>1
    <3>2. CASE i # Len(q)
      <4>1. i \in 1 .. Len(q) - 1 /\ i + 1 \in 1 .. Len(q)
        BY <1>0, <3>2
      <4>2. r[i] = q[i + 1] /\ q[i + 1] = n - Len(q) + (i + 1)
        BY <2>2, <2>3, <4>1 DEF Latest
      <4>3. QED
        BY <1>0, <4>1, <4>2
    <3>3. QED
      BY <3>1, <3>2
  <2>5. FramesIn(Tail(q)) \subseteq FramesIn(q)
    <3>1. \A i \in 1 .. Len(q) - 1 : i + 1 \in 1 .. Len(q)
      BY <1>0
    <3>2. QED
      BY <2>2, <3>1 DEF FramesIn
  <2>6. Latest(r, f) /\ r # <<>>
    BY <1>0, <2>1, <2>2, <2>3, <2>4, EmptySeq DEF Latest
  <2>7. QED
    BY <2>3, <2>5, <2>6 DEF r
<1>3. QED
  BY <1>1, <1>2

-----------------------------------------------------------------------------
(* Types, and the order of the pre-speech buffer *)

PreIsLast == Latest(pre, frames)

TypeInv == CollectorType /\ PreIsLast

LEMMA SettlingSteps ==
    ASSUME NothingHeard \/ Deaf \/ RejectsFrame \/ BargeInFails \/ RejectUtterance \/ TurnReturns
    PROVE  Settles
BY DEF NothingHeard, Deaf, RejectsFrame, BargeInFails, RejectUtterance, TurnReturns, Settles,
       Update, Hears

LEMMA CollectorInit == Init => TypeInv
<1> SUFFICES ASSUME Init PROVE TypeInv
  OBVIOUS
<1>1. /\ <<>> \in Seq(Nat) /\ Len(<<>>) = 0 /\ <<>> \in Seq(Utterance)
      /\ PreFrames \in Nat /\ FirstVad \in Vads
  BY CollectorAssumption, EmptySeq
<1>2. rx.pc = "idle" /\ rx.mode = NoMode /\ rx.pcm = <<>>
      /\ rx = [pc |-> "idle", mode |-> NoMode, pcm |-> <<>>]
  BY DEF Init, Idle
<1>3. rx \in [pc : {"idle", "vad", "barge_in", "gates", "turn"}, mode : Mode, pcm : Seq(Nat)]
  BY <1>1, <1>2 DEF Mode
<1>4. onset \in Onset
  BY <1>1 DEF Init, Onset, Mode
<1>5. PreIsLast
  BY <1>1 DEF Init, PreIsLast, Latest
<1>6. CollectorType
  BY <1>1, <1>3, <1>4 DEF Init, CollectorType, Mode
<1>7. QED
  BY <1>5, <1>6 DEF TypeInv

LEMMA DispatchType ==
    ASSUME TypeInv, DispatchUtterance
    PROVE  \E u \in Utterance :
              /\ out' = Append(out, u) /\ out' \in Seq(Utterance) /\ Len(out') = Len(out) + 1
              /\ \A i \in 1 .. Len(out) : out'[i] = out[i]
              /\ out'[Len(out) + 1] = u
              /\ u.raw = rx.pcm /\ u.mode = recMode /\ u.onset = onset
              /\ Part(u.pcm, rx.pcm) /\ FramesIn(u.pcm) \subseteq FramesIn(rx.pcm)
<1>0. PICK energy \in Energies : \E pcm \in Trimmed(rx.pcm, energy) :
         /\ pcm # <<>>
         /\ out' = Append(out, [pcm |-> pcm, raw |-> rx.pcm, mode |-> recMode,
                                onset |-> onset])
  BY DEF DispatchUtterance
<1>1. PICK pcm \in Trimmed(rx.pcm, energy) :
         /\ pcm # <<>>
         /\ out' = Append(out, [pcm |-> pcm, raw |-> rx.pcm, mode |-> recMode,
                                onset |-> onset])
  BY <1>0
<1> DEFINE u == [pcm |-> pcm, raw |-> rx.pcm, mode |-> recMode, onset |-> onset]
<1>2. rx.pcm \in Seq(Nat) /\ recMode \in Mode /\ onset \in Onset /\ out \in Seq(Utterance)
  BY DEF TypeInv, CollectorType
<1>3. Part(pcm, rx.pcm) /\ FramesIn(pcm) \subseteq FramesIn(rx.pcm) /\ pcm \in Seq(Nat)
  <2>1. Part(pcm, rx.pcm) /\ FramesIn(pcm) \subseteq FramesIn(rx.pcm)
    BY <1>1, <1>2, TrimmedPart
  <2>2. QED
    BY <2>1 DEF Part
<1>4. u \in Utterance
  BY <1>2, <1>3 DEF Utterance
<1>5. u.pcm = pcm /\ u.raw = rx.pcm /\ u.mode = recMode /\ u.onset = onset /\ out' = Append(out, u)
  BY <1>1
<1> HIDE DEF u
<1>6. /\ out' \in Seq(Utterance) /\ Len(out') = Len(out) + 1
      /\ \A i \in 1 .. Len(out) : out'[i] = out[i]
      /\ out'[Len(out) + 1] = u
  BY <1>2, <1>4, <1>5, AppendProperties
<1>7. QED
  BY <1>3, <1>4, <1>5, <1>6

LEMMA CollectorStep ==
    ASSUME TypeInv, [Next]_vars
    PROVE  TypeInv'
<1>0. /\ CollectorType /\ PreIsLast /\ Idle.pc = "idle" /\ <<>> \in Seq(Nat) /\ Len(<<>>) = 0
      /\ PreFrames \in Nat
      /\ Idle \in [pc : {"idle", "vad", "barge_in", "gates", "turn"}, mode : Mode,
                   pcm : Seq(Nat)]
  BY CollectorAssumption, EmptySeq DEF TypeInv, Idle, Mode
<1>1. ASSUME NEW m \in Modes, IngestFrame(m) PROVE TypeInv'
  <2>0. frames + 1 \in Nat /\ frames' = frames + 1 /\ pre' = Push(pre, frames')
        /\ pre \in Seq(Nat) /\ buf \in Seq(Nat) /\ frames \in Nat
    BY <1>0, <1>1 DEF IngestFrame, Ingest, CollectorType
  <2>1. PreIsLast' /\ pre' \in Seq(Nat)
    BY <1>0, <2>0, PushedFrame DEF PreIsLast
  <2>2. buf' \in Seq(Nat)
    BY <1>1, <2>0, AddedFrame DEF IngestFrame, Ingest
  <2>3. rx'.pc = "vad" /\ rx'.mode = m /\ rx'.pcm = <<>>
        /\ rx' = [pc |-> "vad", mode |-> m, pcm |-> <<>>]
    BY <1>1 DEF IngestFrame, Ingest, Idle
  <2>4. rx' \in [pc : {"idle", "vad", "barge_in", "gates", "turn"}, mode : Mode,
                 pcm : Seq(Nat)]
    BY <1>0, <2>3 DEF Mode
  <2>5. recording' \in BOOLEAN
    BY <1>0, <1>1 DEF IngestFrame, Ingest, CollectorType
  <2>6. QED
    BY <1>0, <1>1, <2>0, <2>1, <2>2, <2>4, <2>5
       DEF IngestFrame, Ingest, TypeInv, CollectorType, detector, history
<1>2. CASE SpeechStarts
  BY <1>0, <1>2 DEF SpeechStarts, Hears, Goto, TypeInv, CollectorType, PreIsLast, Latest, Onset
<1>3. CASE SpeechGoesOn
  BY <1>0, <1>3 DEF SpeechGoesOn, Hears, TypeInv, CollectorType, PreIsLast, Latest
<1>4. CASE SilenceGrows
  <2>1. silence[vad] + 1 \in Nat
    BY <1>0 DEF CollectorType
  <2>2. QED
    BY <1>0, <1>4, <2>1
       DEF SilenceGrows, Hears, TypeInv, CollectorType, PreIsLast, Latest, history
<1>5. CASE SpeechEnds
  BY <1>0, <1>5 DEF SpeechEnds, EndSpeech, Hears, TypeInv, CollectorType, PreIsLast, Latest, history
<1>6. CASE Settles
  BY <1>0, <1>6 DEF Settles, TypeInv, CollectorType, PreIsLast, Latest, history,
                     detector
<1>7. CASE BeginRecording
  BY <1>0, <1>7 DEF BeginRecording, Begin, TypeInv, CollectorType, PreIsLast, Latest, history,
                     detector
<1>8. CASE DispatchUtterance
  <2>1. out' \in Seq(Utterance)
    BY <1>8, DispatchType
  <2>2. QED
    BY <1>0, <1>8, <2>1
       DEF DispatchUtterance, Goto, TypeInv, CollectorType, PreIsLast, Latest, history,
                     detector
<1>9. ASSUME NEW v \in Vads, UpdateVadProvider(v) PROVE TypeInv'
  BY <1>0, <1>9
     DEF UpdateVadProvider, Update, TypeInv, CollectorType, PreIsLast, Latest, history,
                     detector
<1>10. ASSUME NEW v \in Vads, UnloadVad(v) PROVE TypeInv'
  BY <1>0, <1>10 DEF UnloadVad, Update, TypeInv, CollectorType, PreIsLast, Latest, history,
                     detector
<1>11. CASE UpdateConfig
  BY <1>0, <1>11 DEF UpdateConfig, Update, TypeInv, CollectorType, PreIsLast, Latest, history,
                     detector
<1>12. CASE UNCHANGED vars
  BY <1>0, <1>12 DEF vars, TypeInv, CollectorType, PreIsLast, Latest, history,
                     detector
<1>13. QED
  BY <1>1, <1>2, <1>3, <1>4, <1>5, <1>6, <1>7, <1>8, <1>9, <1>10, <1>11, <1>12, SettlingSteps
     DEF Next

-----------------------------------------------------------------------------
(***************************************************************************)
(* Memory.  A buffer that is still recorded into has not passed the limit. *)
(***************************************************************************)
BoundInv ==
    /\ TypeInv /\ BuffersBounded
    /\ recording => Len(buf) <= MaxUtterance \/ Len(buf) <= PreFrames

\* The buffers hold a bounded number of frames, for all lengths, VADs, swaps,
\* updates and raising callbacks (utterance_collector.py:134-260).
THEOREM BuffersAreBounded == Spec => []BuffersBounded
<1>1. Init => BoundInv
  <2> SUFFICES ASSUME Init PROVE BoundInv
    OBVIOUS
  <2>1. Len(pre) = 0 /\ Len(buf) = 0 /\ MaxUtterance \in Nat /\ PreFrames \in Nat
    BY CollectorAssumption, EmptySeq DEF Init
  <2>2. QED
    BY <2>1, CollectorInit DEF Init, BoundInv, BuffersBounded
<1>2. BoundInv /\ [Next]_vars => BoundInv'
  <2> SUFFICES ASSUME BoundInv, [Next]_vars PROVE BoundInv'
    OBVIOUS
  <2>0. /\ TypeInv' /\ MaxUtterance \in Nat /\ PreFrames \in Nat
        /\ Len(<<>>) = 0 /\ Len(buf) \in Nat /\ Len(pre) <= PreFrames /\ Len(pre)' <= PreFrames
        /\ buf \in Seq(Nat) /\ frames + 1 \in Nat
    <3>1. TypeInv /\ TypeInv'
      BY CollectorStep DEF BoundInv
    <3>2. Len(pre) <= PreFrames /\ Len(pre)' <= PreFrames
      BY <3>1 DEF TypeInv, PreIsLast, Latest
    <3>3. buf \in Seq(Nat) /\ frames + 1 \in Nat
      BY <3>1 DEF TypeInv, CollectorType
    <3>4. QED
      BY <3>1, <3>2, <3>3, CollectorAssumption, EmptySeq, LenProperties
  <2>1. ASSUME NEW m \in Modes, IngestFrame(m) PROVE BoundInv'
    <3>1. CASE recording
      <4>1. /\ Len(buf') = Len(buf) + 1
            /\ Len(buf) <= MaxUtterance \/ Len(buf) <= PreFrames
            /\ recording' => Len(buf) < MaxUtterance
        BY <2>0, <2>1, <3>1, AddedFrame DEF IngestFrame, Ingest, BoundInv
      <4>2. Len(buf') <= MaxUtterance + 1 \/ Len(buf') <= PreFrames + 1
        BY <2>0, <4>1
      <4>3. recording' => Len(buf') <= MaxUtterance \/ Len(buf') <= PreFrames
        BY <2>0, <4>1
      <4>4. QED
        BY <2>0, <4>2, <4>3 DEF BoundInv, BuffersBounded
    <3>2. CASE ~recording
      BY <2>0, <2>1, <3>2 DEF IngestFrame, Ingest, BoundInv, BuffersBounded
    <3>3. QED
      BY <3>1, <3>2
  <2>2. CASE UNCHANGED <<buf, recording>>
    BY <2>0, <2>2 DEF BoundInv, BuffersBounded
  <2>3. CASE SpeechEnds \/ UpdateConfig
    BY <2>0, <2>3 DEF SpeechEnds, EndSpeech, UpdateConfig, BoundInv, BuffersBounded
  <2>4. CASE BeginRecording
    BY <2>0, <2>4 DEF BeginRecording, Begin, BoundInv, BuffersBounded
  <2>5. ASSUME NEW v \in Vads, UpdateVadProvider(v) \/ UnloadVad(v)
        PROVE  UNCHANGED <<buf, recording>>
    BY <2>5 DEF UpdateVadProvider, UnloadVad
  <2>6. QED
    BY <2>1, <2>2, <2>3, <2>4, <2>5, SettlingSteps
       DEF Next, vars, SpeechStarts, SpeechGoesOn, SilenceGrows, DispatchUtterance, Settles
<1>3. BoundInv => BuffersBounded
  BY DEF BoundInv
<1>4. QED
  BY <1>1, <1>2, <1>3, PTL DEF Spec

-----------------------------------------------------------------------------
(***************************************************************************)
(* Speech is handed over once.  An utterance takes what is in the buffer;  *)
(* the next one can repeat only what the pre-speech buffer still holds of  *)
(* it.  When the hangover has passed, that is quiet up to its oldest       *)
(* frame, and that one has left before speech can start again.             *)
(***************************************************************************)
ShortPre == PreFrames <= Hangover + 1

Raw(i) == FramesIn(out[i].raw)
Ending == IF rx.pc = "gates" THEN FramesIn(rx.pcm) ELSE {}
Handed == Ending \cup UNION {Raw(i) : i \in 1 .. Len(out)}

HandedOnce ==
    \A i \in 1 .. Len(out) :
        /\ FramesIn(out[i].pcm) \subseteq Raw(i)
        /\ Raw(i) \cap Ending \cap voiced = {}
        /\ \A j \in 1 .. Len(out) : i # j => Raw(i) \cap Raw(j) \cap voiced = {}

\* Nothing is known of a frame before the VAD has heard it.
Past ==
    /\ \A f \in Handed \cup voiced : f <= frames /\ (rx.pc = "vad" => f < frames)
    /\ \A f \in FramesIn(buf) : f <= frames

BufferUnheard == Handed \cap voiced \cap FramesIn(buf) = {}

OldestHeard ==
    \A f \in Handed \cap voiced \cap FramesIn(pre) :
        f <= frames + 1 - PreFrames /\ rx.pc \notin {"vad", "barge_in"}

QuietSince(n) == \A f \in voiced \cap FramesIn(pre) : f + n <= frames

Quiet ==
    speaking[vad] => QuietSince(IF rx.pc = "vad" THEN silence[vad] + 1 ELSE silence[vad])

OnceInv ==
    /\ TypeInv /\ HandedOnce /\ Past /\ BufferUnheard /\ OldestHeard /\ Quiet

LEMMA LatestFrames ==
    ASSUME NEW q \in Seq(Nat), NEW n \in Nat, Latest(q, n)
    PROVE  \A f \in FramesIn(q) : f \in Nat /\ n + 1 - PreFrames <= f /\ f <= n
<1> SUFFICES ASSUME NEW i \in 1 .. Len(q)
             PROVE  q[i] \in Nat /\ n + 1 - PreFrames <= q[i] /\ q[i] <= n
  BY DEF FramesIn
<1>1. /\ Len(q) \in Nat /\ PreFrames \in Nat /\ q[i] \in Nat
      /\ Len(q) <= PreFrames /\ q[i] = n - Len(q) + i
  BY CollectorAssumption, LenProperties, ElementOfSeq DEF Latest
<1>2. QED
  BY <1>1

\* Frames are numbers, and the pre-speech buffer holds the last few.
LEMMA FrameTypes ==
    ASSUME TypeInv
    PROVE  /\ frames \in Nat /\ FramesIn(buf) \subseteq Nat /\ Handed \subseteq Nat
           /\ voiced \subseteq Nat /\ silence[vad] \in Nat
           /\ \A f \in FramesIn(pre) : f \in Nat /\ frames + 1 - PreFrames <= f /\ f <= frames
<1>1. /\ frames \in Nat /\ buf \in Seq(Nat) /\ pre \in Seq(Nat) /\ rx.pcm \in Seq(Nat)
      /\ voiced \subseteq Nat /\ silence[vad] \in Nat
      /\ \A i \in 1 .. Len(out) : out[i].raw \in Seq(Nat)
  <2>1. CollectorType
    BY DEF TypeInv
  <2>2. \A i \in 1 .. Len(out) : out[i] \in Utterance
    BY <2>1, ElementOfSeq DEF CollectorType
  <2>3. QED
    BY <2>1, <2>2 DEF CollectorType, Utterance
<1>2. \A q \in Seq(Nat) : FramesIn(q) \subseteq Nat
  BY ElementOfSeq DEF FramesIn
<1>3. Handed \subseteq Nat
  BY <1>1, <1>2 DEF Handed, Ending, Raw
<1>4. \A f \in FramesIn(pre) : f \in Nat /\ frames + 1 - PreFrames <= f /\ f <= frames
  BY <1>1, LatestFrames DEF TypeInv, PreIsLast
<1>5. QED
  BY <1>1, <1>2, <1>3, <1>4

\* Steps that hand nothing over and let nobody be heard.
LEMMA OnceStays ==
    ASSUME OnceInv, TypeInv', UNCHANGED <<frames, voiced, out>>, Ending' \subseteq Ending,
           FramesIn(buf)' \subseteq FramesIn(buf), FramesIn(pre)' \subseteq FramesIn(pre),
           rx'.pc \notin {"vad", "barge_in"} \/ rx'.pc = rx.pc, Quiet'
    PROVE  OnceInv'
<1>1. \A i \in 1 .. Len(out) : Raw(i)' = Raw(i)
  BY DEF Raw
<1>2. Handed' \subseteq Handed
  BY <1>1 DEF Handed
<1>3. HandedOnce'
  BY <1>1 DEF OnceInv, HandedOnce
<1>4. Past' /\ BufferUnheard'
  BY <1>2 DEF OnceInv, Past, BufferUnheard
<1>5. OldestHeard'
  BY <1>2 DEF OnceInv, OldestHeard
<1>6. QED
  BY <1>3, <1>4, <1>5 DEF OnceInv

LEMMA IngestOnce ==
    ASSUME OnceInv, TypeInv', NEW m \in Modes, IngestFrame(m)
    PROVE  OnceInv'
<1> DEFINE f == frames + 1
<1>0. /\ TypeInv /\ frames \in Nat /\ f \in Nat /\ pre \in Seq(Nat) /\ buf \in Seq(Nat)
      /\ frames' = f /\ rx.pc = "idle" /\ rx'.pc = "vad" /\ pre' = Push(pre, f)
      /\ UNCHANGED <<voiced, out, speaking, silence, vad>>
  BY DEF OnceInv, IngestFrame, Ingest, Idle, TypeInv, CollectorType, detector, history
<1>1. FramesIn(pre)' \subseteq FramesIn(pre) \cup {f}
  BY <1>0, PushedFrame DEF TypeInv, PreIsLast
<1>2. pre' \in Seq(Nat) /\ Latest(pre', f)
  BY <1>0, PushedFrame DEF TypeInv, PreIsLast
<1>3. FramesIn(buf)' \subseteq FramesIn(buf) \cup {f}
  BY <1>0, AddedFrame DEF IngestFrame, Ingest
<1>4. /\ \A i \in 1 .. Len(out) : Raw(i)' = Raw(i)
      /\ Ending' = Ending /\ Ending = {}
  BY <1>0 DEF Raw, Ending
<1>5. Handed' = Handed
  BY <1>0, <1>4 DEF Handed
<1>6. \A g \in Handed \cup voiced : g \in Nat /\ g <= frames
  BY <1>0, FrameTypes DEF OnceInv, Past
<1>7. HandedOnce'
  BY <1>0, <1>4 DEF OnceInv, HandedOnce
<1>8. Past'
  BY <1>0, <1>3, <1>5, <1>6, FrameTypes DEF OnceInv, Past
<1>9. BufferUnheard'
  BY <1>0, <1>3, <1>5, <1>6 DEF OnceInv, BufferUnheard
<1>10. OldestHeard'
  <2> SUFFICES ASSUME NEW g \in Handed \cap voiced, g \in FramesIn(pre)' PROVE FALSE
    BY <1>0, <1>5 DEF OldestHeard
  <2>1. g \in FramesIn(pre)
    BY <1>0, <1>1, <1>6
  <2>2. g <= frames + 1 - PreFrames /\ g \in Nat /\ PreFrames \in Nat
    BY <1>6, <2>1, CollectorAssumption DEF OnceInv, OldestHeard
  <2>3. frames' + 1 - PreFrames <= g
    <3>1. \A h \in FramesIn(pre)' : frames' + 1 - PreFrames <= h
      BY <1>0, <1>2, LatestFrames
    <3>2. QED
      BY <3>1
  <2>4. QED
    BY <1>0, <2>2, <2>3
<1>11. Quiet'
  <2> SUFFICES ASSUME speaking[vad], NEW g \in voiced, g \in FramesIn(pre)'
               PROVE  g + (silence[vad] + 1) <= f
    BY <1>0 DEF Quiet, QuietSince
  <2>1. g \in FramesIn(pre) /\ g \in Nat
    BY <1>0, <1>1, <1>6
  <2>2. g + silence[vad] <= frames /\ silence[vad] \in Nat
    BY <1>0, <2>1, FrameTypes DEF OnceInv, Quiet, QuietSince
  <2>3. QED
    BY <1>0, <2>1, <2>2
<1>12. QED
  BY <1>7, <1>8, <1>9, <1>10, <1>11 DEF OnceInv

\* A window of speech: the frame was not known before.
LEMMA VoicedOnce ==
    ASSUME OnceInv, TypeInv', SpeechStarts \/ SpeechGoesOn
    PROVE  OnceInv'
<1>0. /\ TypeInv /\ frames \in Nat /\ rx.pc = "vad" /\ rx'.pc \in {"idle", "barge_in"}
      /\ voiced' = voiced \cup {frames} /\ UNCHANGED <<frames, pre, buf, vad, out>>
      /\ silence'[vad] = 0
  <2>1. rx'.pc \in {"idle", "barge_in"}
    BY DEF OnceInv, TypeInv, CollectorType, SpeechStarts, SpeechGoesOn, Goto, Idle
  <2>2. QED
    BY <2>1 DEF OnceInv, TypeInv, CollectorType, SpeechStarts, SpeechGoesOn, Hears
<1>1. /\ \A i \in 1 .. Len(out) : Raw(i)' = Raw(i)
      /\ Ending' = {} /\ Ending = {}
  BY <1>0 DEF Raw, Ending
<1>2. Handed' = Handed
  BY <1>0, <1>1 DEF Handed
<1>3. frames \notin Handed /\ \A i \in 1 .. Len(out) : frames \notin Raw(i)
  <2>1. frames \notin Handed
    BY <1>0, FrameTypes DEF OnceInv, Past
  <2>2. QED
    BY <2>1 DEF Handed
<1>4. HandedOnce'
  BY <1>0, <1>1, <1>3 DEF OnceInv, HandedOnce
<1>5. Past'
  BY <1>0, <1>2, FrameTypes DEF OnceInv, Past
<1>6. BufferUnheard'
  BY <1>0, <1>2, <1>3 DEF OnceInv, BufferUnheard
<1>7. OldestHeard'
  BY <1>0, <1>2, <1>3 DEF OnceInv, OldestHeard
<1>8. Quiet'
  BY <1>0, FrameTypes DEF Quiet, QuietSince
<1>9. QED
  BY <1>4, <1>5, <1>6, <1>7, <1>8 DEF OnceInv

\* The hangover has passed: what is handed over and still in the pre-speech
\* buffer is quiet, but for its oldest frame.
LEMMA EndOnce ==
    ASSUME ShortPre, OnceInv, TypeInv', SpeechEnds
    PROVE  OnceInv'
<1>0. /\ TypeInv /\ frames \in Nat /\ rx.pc = "vad" /\ rx'.pc = "gates" /\ rx'.pcm = buf
      /\ speaking[vad] /\ silence[vad] + 1 >= Hangover /\ buf' = <<>>
      /\ UNCHANGED <<frames, pre, vad, out, voiced>> /\ ~speaking'[vad]
  BY DEF OnceInv, SpeechEnds, EndSpeech, Hears, TypeInv, CollectorType, history
<1>1. /\ \A i \in 1 .. Len(out) : Raw(i)' = Raw(i)
      /\ Ending' = FramesIn(buf) /\ Ending = {}
  BY <1>0 DEF Raw, Ending
<1>2. Handed' = Handed \cup FramesIn(buf) /\ \A i \in 1 .. Len(out) : Raw(i) \subseteq Handed
  BY <1>0, <1>1 DEF Handed
<1>3. FramesIn(buf)' = {}
  BY <1>0, EmptySeq DEF FramesIn
<1>4. HandedOnce'
  BY <1>0, <1>1, <1>2 DEF OnceInv, HandedOnce, BufferUnheard
<1>5. Past'
  BY <1>0, <1>2, <1>3 DEF OnceInv, Past
<1>6. BufferUnheard'
  BY <1>3 DEF BufferUnheard
<1>7. OldestHeard'
  <2> SUFFICES ASSUME NEW g \in voiced \cap FramesIn(pre) PROVE g <= frames + 1 - PreFrames
    BY <1>0 DEF OldestHeard
  <2>1. /\ g + (silence[vad] + 1) <= frames /\ g \in Nat /\ silence[vad] \in Nat
        /\ Hangover \in Nat /\ PreFrames \in Nat
    BY <1>0, FrameTypes, CollectorAssumption DEF OnceInv, Quiet, QuietSince
  <2>2. QED
    BY <1>0, <2>1 DEF ShortPre
<1>8. Quiet'
  BY <1>0 DEF Quiet
<1>9. QED
  BY <1>4, <1>5, <1>6, <1>7, <1>8 DEF OnceInv

LEMMA BeginOnce ==
    ASSUME OnceInv, TypeInv', BeginRecording
    PROVE  OnceInv'
<1>0. /\ TypeInv /\ rx.pc = "barge_in" /\ rx'.pc = "idle" /\ buf' = pre
      /\ UNCHANGED <<frames, pre, vad, speaking, silence, out, voiced>>
  BY DEF OnceInv, BeginRecording, Begin, Idle, detector, history
<1>1. /\ \A i \in 1 .. Len(out) : Raw(i)' = Raw(i)
      /\ Ending' = {} /\ Ending = {}
  BY <1>0 DEF Raw, Ending
<1>2. Handed' = Handed
  BY <1>0, <1>1 DEF Handed
<1>3. HandedOnce'
  BY <1>0, <1>1 DEF OnceInv, HandedOnce
<1>4. Past'
  BY <1>0, <1>2, FrameTypes DEF OnceInv, Past
<1>5. BufferUnheard' /\ OldestHeard'
  BY <1>0, <1>2 DEF OnceInv, OldestHeard, BufferUnheard
<1>6. Quiet'
  BY <1>0 DEF OnceInv, Quiet, QuietSince
<1>7. QED
  BY <1>3, <1>4, <1>5, <1>6 DEF OnceInv

LEMMA DispatchOnce ==
    ASSUME OnceInv, TypeInv', DispatchUtterance
    PROVE  OnceInv'
<1>0. /\ TypeInv /\ rx.pc = "gates" /\ rx'.pc = "turn"
      /\ UNCHANGED <<frames, pre, buf, vad, speaking, silence, voiced>>
  BY DEF OnceInv, DispatchUtterance, Goto, TypeInv, CollectorType, detector, history
<1>1. PICK u \in Utterance :
         /\ Len(out') = Len(out) + 1
         /\ \A i \in 1 .. Len(out) : out'[i] = out[i]
         /\ out'[Len(out) + 1] = u /\ u.raw = rx.pcm
         /\ FramesIn(u.pcm) \subseteq FramesIn(rx.pcm)
  BY <1>0, DispatchType
<1>2. Len(out) \in Nat
  BY <1>0, LenProperties DEF TypeInv, CollectorType
<1>3. PICK k \in Nat : k = Len(out) + 1
  BY <1>2
<1>4. 1 .. Len(out') = (1 .. Len(out)) \cup {k} /\ k \notin 1 .. Len(out)
  BY <1>1, <1>2, <1>3
<1>5. /\ \A i \in 1 .. Len(out) : Raw(i)' = Raw(i)
      /\ Raw(k)' = Ending /\ Ending' = {}
  BY <1>0, <1>1, <1>3 DEF Raw, Ending
<1>6. Handed' = Handed
  BY <1>0, <1>4, <1>5 DEF Handed
<1>7. HandedOnce'
  <2>1. FramesIn(u.pcm) \subseteq Ending
    BY <1>0, <1>1 DEF Ending
  <2>2. ASSUME NEW i \in 1 .. Len(out')
        PROVE  /\ FramesIn(out'[i].pcm) \subseteq Raw(i)'
               /\ \A j \in 1 .. Len(out') : i # j => Raw(i)' \cap Raw(j)' \cap voiced = {}
    BY <1>1, <1>3, <1>4, <1>5, <2>1 DEF OnceInv, HandedOnce
  <2>3. QED
    BY <1>0, <1>5, <2>2 DEF HandedOnce
<1>8. Past' /\ BufferUnheard' /\ OldestHeard' /\ Quiet'
  BY <1>0, <1>6 DEF OnceInv, Past, BufferUnheard, OldestHeard, Quiet, QuietSince
<1>9. QED
  BY <1>7, <1>8 DEF OnceInv

LEMMA OnceStep ==
    ASSUME ShortPre, OnceInv, [Next]_vars
    PROVE  OnceInv'
<1>0. TypeInv /\ TypeInv' /\ FramesIn(<<>>) = {}
  BY CollectorStep, EmptySeq DEF OnceInv, FramesIn
<1>1. CASE Settles
  <2>1. /\ UNCHANGED <<frames, pre, buf, vad, speaking, silence, voiced, out>>
        /\ rx'.pc = "idle"
    BY <1>1 DEF Settles, Idle, detector, history
  <2>2. Quiet'
    BY <2>1, FrameTypes, <1>0 DEF OnceInv, Quiet, QuietSince
  <2>3. QED
    BY <1>0, <2>1, <2>2, OnceStays DEF Ending
<1>2. CASE SilenceGrows
  <2>1. /\ UNCHANGED <<frames, pre, buf, vad, speaking, voiced, out>>
        /\ rx'.pc = "idle" /\ rx.pc = "vad" /\ silence'[vad] = silence[vad] + 1
    BY <1>0, <1>2 DEF SilenceGrows, Hears, Idle, history, TypeInv, CollectorType
  <2>2. Quiet'
    BY <2>1 DEF OnceInv, Quiet, QuietSince
  <2>3. QED
    BY <1>0, <2>1, <2>2, OnceStays DEF Ending
<1>3. ASSUME UNCHANGED <<frames, voiced, out, rx>>, pre' = <<>>, buf' \in {buf, <<>>}
      PROVE  OnceInv'
  <2>1. FramesIn(pre)' = {} /\ FramesIn(buf)' \subseteq FramesIn(buf) /\ Ending' = Ending
    BY <1>0, <1>3 DEF Ending
  <2>2. Quiet'
    BY <2>1 DEF Quiet, QuietSince
  <2>3. QED
    BY <1>0, <1>3, <2>1, <2>2, OnceStays
<1>4. ASSUME UNCHANGED <<frames, pre, buf, vad, speaking, silence, voiced, out, rx>>
      PROVE  OnceInv'
  <2>1. Quiet' /\ Ending' = Ending
    BY <1>4 DEF OnceInv, Quiet, QuietSince, Ending
  <2>2. QED
    BY <1>0, <1>4, <2>1, OnceStays
<1>5. ASSUME NEW v \in Vads, UpdateVadProvider(v) \/ UnloadVad(v) PROVE OnceInv'
  BY <1>3, <1>4, <1>5 DEF UpdateVadProvider, UnloadVad, detector, history
<1>6. CASE UpdateConfig
  BY <1>3, <1>6 DEF UpdateConfig, history
<1>7. CASE UNCHANGED vars
  BY <1>4, <1>7 DEF vars, detector, history
<1>8. QED
  BY <1>0, <1>1, <1>2, <1>5, <1>6, <1>7, SettlingSteps, IngestOnce, VoicedOnce, EndOnce,
     BeginOnce, DispatchOnce DEF Next

\* No frame of speech is in two utterances, for all VADs, swaps and updates, as
\* long as the pre-speech buffer holds at most one frame more than the hangover
\* (utterance_collector.py:181-250).
THEOREM SpeechGoesOutOnce ==
    ASSUME ShortPre
    PROVE  Spec => []SpeechHeardOnce
<1>1. Init => OnceInv
  <2> SUFFICES ASSUME Init PROVE OnceInv
    OBVIOUS
  <2>1. Handed = {} /\ Len(out) = 0 /\ voiced = {} /\ FramesIn(buf) = {}
    BY EmptySeq DEF Init, Handed, Ending, Idle, FramesIn
  <2>2. QED
    BY <2>1, CollectorInit
       DEF Init, OnceInv, HandedOnce, Past, BufferUnheard, OldestHeard, Quiet, QuietSince
<1>2. OnceInv /\ [Next]_vars => OnceInv'
  BY OnceStep
<1>3. OnceInv => SpeechHeardOnce
  BY DEF OnceInv, HandedOnce, SpeechHeardOnce
<1>4. QED
  BY <1>1, <1>2, <1>3, PTL DEF Spec

-----------------------------------------------------------------------------
(***************************************************************************)
(* Utterances are whole.  While nothing is swapped, reconfigured or raised *)
(* the buffer is an uninterrupted stretch from before the onset on: up to  *)
(* the latest frame while it is recorded into, and to the limit after.     *)
(***************************************************************************)
Stretch(q) ==
    Consecutive(q) /\ onset.frame \in FramesIn(q) /\ recMode = onset.mode

Recorded ==
    /\ recording => speaking[vad] /\ buf # <<>> /\ buf[Len(buf)] = frames
    /\ speaking[vad] => Stretch(buf)
    /\ speaking[vad] /\ ~recording => Len(buf) > MaxUtterance

Undisturbed ==
    /\ rx.pc \in {"vad", "barge_in"} => pre # <<>>
    /\ rx.pc # "barge_in" => Recorded
    /\ rx.pc = "barge_in" =>
          ~recording /\ speaking[vad] /\ onset.frame = frames /\ recMode = onset.mode
    /\ rx.pc = "gates" => Stretch(rx.pcm)
    /\ UtterancesWhole

WholeInv == TypeInv /\ (updates = 0 => Undisturbed)

\* A stretch that ends with the latest frame goes on with the next.
LEMMA LongerStretch ==
    ASSUME NEW q \in Seq(Nat), NEW n \in Nat, Consecutive(q), q # <<>>, q[Len(q)] = n,
           NEW f \in Nat, f = n + 1
    PROVE  Consecutive(Append(q, f))
<1> DEFINE r == Append(q, f)
<1>1. /\ Len(q) \in Nat /\ Len(q) >= 1 /\ Len(r) = Len(q) + 1
      /\ \A i \in 1 .. Len(q) : r[i] = q[i]
      /\ r[Len(q) + 1] = f
  BY AddedFrame, EmptySeq
<1> HIDE DEF r
<1> SUFFICES ASSUME NEW i \in 1 .. Len(r) - 1 PROVE r[i + 1] = r[i] + 1
  BY DEF Consecutive, r
<1>2. CASE i = Len(q)
  BY <1>1, <1>2
<1>3. CASE i # Len(q)
  <2>1. i \in 1 .. Len(q) - 1 /\ i + 1 \in 1 .. Len(q) /\ i \in 1 .. Len(q)
    BY <1>1, <1>3
  <2>2. QED
    BY <1>1, <2>1 DEF Consecutive
<1>4. QED
  BY <1>2, <1>3

\* The pre-speech buffer is a stretch up to the latest frame.
LEMMA LatestStretch ==
    ASSUME NEW q \in Seq(Nat), NEW n \in Nat, Latest(q, n), q # <<>>
    PROVE  Consecutive(q) /\ q[Len(q)] = n /\ n \in FramesIn(q)
<1>1. Len(q) \in Nat /\ Len(q) >= 1 /\ Len(q) \in 1 .. Len(q)
  BY EmptySeq, LenProperties
<1>2. q[Len(q)] = n
  BY <1>1 DEF Latest
<1>3. Consecutive(q)
  <2> SUFFICES ASSUME NEW i \in 1 .. Len(q) - 1 PROVE q[i + 1] = q[i] + 1
    BY DEF Consecutive
  <2>1. i \in 1 .. Len(q) /\ i + 1 \in 1 .. Len(q)
    BY <1>1
  <2>2. QED
    BY <1>1, <2>1 DEF Latest
<1>4. QED
  BY <1>1, <1>2, <1>3 DEF FramesIn

LEMMA IngestWhole ==
    ASSUME TypeInv, Undisturbed, NEW m \in Modes, IngestFrame(m)
    PROVE  Undisturbed'
<1> DEFINE f == frames + 1
<1>0. /\ frames \in Nat /\ f \in Nat /\ pre \in Seq(Nat) /\ buf \in Seq(Nat)
      /\ frames' = f /\ rx.pc = "idle" /\ rx'.pc = "vad" /\ pre' = Push(pre, f)
      /\ UNCHANGED <<onset, recMode, out, speaking, vad, updates>>
  BY DEF IngestFrame, Ingest, Idle, TypeInv, CollectorType, detector, history
<1>1. pre' # <<>>
  BY <1>0, PushedFrame DEF TypeInv, PreIsLast
<1>2. CASE recording
  <2>1. /\ buf' = Append(buf, f)
        /\ recording' => Len(buf) < MaxUtterance
        /\ Len(buf) < MaxUtterance => recording'
    BY <1>0, <1>2 DEF IngestFrame, Ingest
  <2>2. speaking[vad] /\ buf # <<>> /\ buf[Len(buf)] = frames /\ Stretch(buf)
    BY <1>0, <1>2 DEF Undisturbed, Recorded
  <2>3. /\ Consecutive(buf') /\ FramesIn(buf)' = FramesIn(buf) \cup {f}
        /\ Len(buf') = Len(buf) + 1 /\ buf'[Len(buf) + 1] = f /\ buf' # <<>>
        /\ Len(buf) \in Nat
    <3>1. FramesIn(Append(buf, f)) = FramesIn(buf) \cup {f}
      BY <1>0, AddedFrame
    <3>2. Len(Append(buf, f)) = Len(buf) + 1 /\ Append(buf, f)[Len(buf) + 1] = f
      BY <1>0, AddedFrame
    <3>3. Consecutive(Append(buf, f))
      BY <1>0, <2>2, LongerStretch DEF Stretch
    <3>4. Len(buf) \in Nat
      BY <1>0, LenProperties
    <3>5. Append(buf, f) # <<>>
      BY <1>0, AppendProperties
    <3>6. QED
      BY <2>1, <3>1, <3>2, <3>3, <3>4, <3>5
  <2>4. Stretch(buf)'
    BY <1>0, <2>2, <2>3 DEF Stretch
  <2>5. ~recording' => Len(buf') > MaxUtterance
    BY <2>1, <2>3, CollectorAssumption
  <2>6. Recorded'
    BY <1>0, <2>2, <2>3, <2>4, <2>5 DEF Recorded
  <2>7. QED
    BY <1>0, <1>1, <2>6 DEF Undisturbed, UtterancesWhole
<1>3. CASE ~recording
  <2>1. ~recording' /\ buf' = buf
    BY <1>3 DEF IngestFrame, Ingest
  <2>2. Recorded'
    BY <1>0, <1>3, <2>1 DEF Undisturbed, Recorded, Stretch
  <2>3. QED
    BY <1>0, <1>1, <2>2 DEF Undisturbed, UtterancesWhole
<1>4. QED
  BY <1>2, <1>3

LEMMA HearWhole ==
    ASSUME TypeInv, Undisturbed, SpeechStarts \/ SpeechGoesOn \/ SilenceGrows
    PROVE  Undisturbed'
<1>0. rx \in [pc : {"idle", "vad", "barge_in", "gates", "turn"}, mode : Mode, pcm : Seq(Nat)]
      /\ rx.pc = "vad" /\ vad \in Vads /\ speaking \in [Vads -> BOOLEAN]
  BY DEF TypeInv, CollectorType, SpeechStarts, SpeechGoesOn, SilenceGrows, Hears
<1>1. CASE SpeechStarts
  <2>1. /\ rx'.pc = "barge_in" /\ speaking'[vad] /\ ~speaking[vad]
        /\ onset'.frame = frames /\ recMode' = onset'.mode
        /\ UNCHANGED <<frames, pre, buf, vad, recording, out, updates>>
    BY <1>0, <1>1 DEF SpeechStarts, Hears, Goto
  <2>2. QED
    BY <1>0, <2>1 DEF Undisturbed, Recorded, UtterancesWhole
<1>2. CASE SpeechGoesOn \/ SilenceGrows
  <2>1. rx'.pc = "idle"
        /\ UNCHANGED <<frames, pre, buf, vad, speaking, onset, recMode, recording, out, updates>>
    BY <1>2 DEF SpeechGoesOn, SilenceGrows, Hears, Idle, history
  <2>2. QED
    BY <1>0, <2>1 DEF Undisturbed, Recorded, Stretch, UtterancesWhole
<1>3. QED
  BY <1>1, <1>2

LEMMA EndWhole ==
    ASSUME TypeInv, Undisturbed, SpeechEnds
    PROVE  Undisturbed'
<1>1. /\ rx.pc = "vad" /\ rx'.pc = "gates" /\ rx'.pcm = buf /\ speaking[vad]
      /\ ~speaking'[vad] /\ ~recording'
      /\ UNCHANGED <<frames, pre, vad, onset, recMode, out, updates>>
  BY DEF TypeInv, CollectorType, SpeechEnds, EndSpeech, Hears, history
<1>2. QED
  BY <1>1 DEF Undisturbed, Recorded, Stretch, UtterancesWhole

LEMMA BeginWhole ==
    ASSUME TypeInv, Undisturbed, BeginRecording
    PROVE  Undisturbed'
<1>1. /\ rx.pc = "barge_in" /\ rx'.pc = "idle" /\ buf' = pre /\ recording' = TRUE
      /\ UNCHANGED <<frames, pre, vad, speaking, onset, recMode, out, updates>>
  BY DEF BeginRecording, Begin, Idle, detector, history
<1>2. Consecutive(pre) /\ pre # <<>> /\ pre[Len(pre)] = frames /\ frames \in FramesIn(pre)
  BY <1>1, LatestStretch DEF Undisturbed, TypeInv, CollectorType, PreIsLast
<1>3. Recorded'
  BY <1>1, <1>2 DEF Undisturbed, Recorded, Stretch
<1>4. QED
  BY <1>1, <1>3 DEF Undisturbed, UtterancesWhole

LEMMA DispatchWhole ==
    ASSUME TypeInv, Undisturbed, DispatchUtterance
    PROVE  Undisturbed'
<1>0. /\ rx.pc = "gates" /\ rx'.pc = "turn" /\ updates' = updates
      /\ UNCHANGED <<frames, pre, buf, vad, speaking, onset, recMode, recording>>
      /\ rx.pcm \in Seq(Nat)
  BY DEF DispatchUtterance, Goto, TypeInv, CollectorType, detector, history
<1>1. PICK u \in Utterance :
         /\ Len(out') = Len(out) + 1
         /\ \A i \in 1 .. Len(out) : out'[i] = out[i]
         /\ out'[Len(out) + 1] = u
         /\ u.raw = rx.pcm /\ u.mode = recMode /\ u.onset = onset /\ Part(u.pcm, rx.pcm)
  BY DispatchType
<1>2. Stretch(rx.pcm) /\ Recorded
  BY <1>0 DEF Undisturbed
<1>3. Consecutive(u.pcm) /\ u.onset.frame \in FramesIn(u.raw) /\ u.mode = u.onset.mode
  BY <1>0, <1>1, <1>2, ConsecutivePart DEF Stretch
<1>4. Len(out) \in Nat
  BY LenProperties DEF TypeInv, CollectorType
<1>5. UtterancesWhole'
  <2> SUFFICES ASSUME updates' = 0, NEW i \in 1 .. Len(out')
               PROVE  /\ Consecutive(out'[i].pcm)
                      /\ out'[i].onset.frame \in FramesIn(out'[i].raw)
                      /\ out'[i].mode = out'[i].onset.mode
    BY DEF UtterancesWhole
  <2>1. CASE i = Len(out) + 1
    BY <1>1, <1>3, <2>1
  <2>2. CASE i # Len(out) + 1
    <3>1. i \in 1 .. Len(out)
      BY <1>1, <1>4, <2>2
    <3>2. QED
      BY <1>0, <1>1, <3>1 DEF Undisturbed, UtterancesWhole
  <2>3. QED
    BY <2>1, <2>2
<1>6. Recorded'
  BY <1>0, <1>2 DEF Recorded, Stretch
<1>7. QED
  BY <1>0, <1>5, <1>6 DEF Undisturbed

LEMMA WholeStep ==
    ASSUME WholeInv, [Next]_vars
    PROVE  WholeInv'
<1>0. TypeInv /\ TypeInv' /\ updates \in Nat
  BY CollectorStep DEF WholeInv, TypeInv, CollectorType
<1> SUFFICES ASSUME updates' = 0 PROVE Undisturbed'
  BY <1>0 DEF WholeInv
<1>1. \A v \in Vads : ~UpdateVadProvider(v) /\ ~UnloadVad(v)
  BY <1>0 DEF UpdateVadProvider, UnloadVad, Update
<1>2. ~UpdateConfig /\ ~BargeInFails
  BY <1>0 DEF UpdateConfig, BargeInFails, Update
<1>3. updates' = updates \/ updates' = updates + 1
  BY <1>1, <1>2, SettlingSteps
     DEF Next, vars, IngestFrame, Ingest, SpeechStarts, SpeechGoesOn, SilenceGrows, SpeechEnds,
         EndSpeech, BeginRecording, Begin, DispatchUtterance, Settles, history
<1>4. updates = 0 /\ Undisturbed
  BY <1>0, <1>3 DEF WholeInv
<1>5. CASE Settles /\ rx.pc # "barge_in"
  <2>1. rx'.pc = "idle"
        /\ UNCHANGED <<frames, pre, buf, vad, speaking, onset, recMode, recording, out>>
    BY <1>5 DEF Settles, Idle, detector, history
  <2>2. QED
    BY <1>4, <1>5, <2>1 DEF Undisturbed, Recorded, Stretch, UtterancesWhole
<1>6. ASSUME NothingHeard \/ Deaf \/ RejectsFrame \/ RejectUtterance \/ TurnReturns
      PROVE  rx.pc # "barge_in"
  BY <1>6 DEF NothingHeard, Hears, Deaf, RejectsFrame, RejectUtterance, TurnReturns
<1>7. CASE UNCHANGED vars
  BY <1>4, <1>7 DEF vars, detector, history, Undisturbed, Recorded, Stretch, UtterancesWhole
<1>8. QED
  BY <1>0, <1>1, <1>2, <1>4, <1>5, <1>6, <1>7, SettlingSteps, IngestWhole, HearWhole, EndWhole,
     BeginWhole, DispatchWhole DEF Next

LEMMA WholeInit == Init => WholeInv
<1> SUFFICES ASSUME Init PROVE WholeInv
  OBVIOUS
<1>1. rx.pc = "idle" /\ Len(out) = 0 /\ ~speaking[vad] /\ ~recording
  BY EmptySeq, CollectorAssumption DEF Init, Idle
<1>2. QED
  BY <1>1, CollectorInit DEF WholeInv, Undisturbed, Recorded, UtterancesWhole

\* As long as nothing is swapped, reconfigured or raised, what ASR gets is an
\* uninterrupted stretch of the microphone, cut from one that holds the onset,
\* in the mode of the onset, for all lengths (utterance_collector.py:181-250).
THEOREM UtterancesAreWhole == Spec => []UtterancesWhole
<1>1. WholeInv => UtterancesWhole
  BY DEF WholeInv, Undisturbed, UtterancesWhole
<1>2. WholeInv /\ [Next]_vars => WholeInv'
  BY WholeStep
<1>3. QED
  BY <1>1, <1>2, WholeInit, PTL DEF Spec

\* And what is recorded will end: the VAD hears speech, and one that is not
\* recorded is too long (utterance_collector.py:191-201).
THEOREM RecordingsLive == Spec => []RecordingLive
<1>1. WholeInv => RecordingLive
  <2> SUFFICES ASSUME WholeInv, rx.pc = "idle", updates = 0 PROVE RecordingLive
    BY DEF RecordingLive
  <2>1. Recorded
    BY DEF WholeInv, Undisturbed
  <2>2. buf # <<>> => Len(buf) \in 1 .. Len(buf)
    BY EmptySeq DEF WholeInv, TypeInv, CollectorType
  <2>3. QED
    BY <2>1, <2>2 DEF Recorded, Stretch, FramesIn, RecordingLive
<1>2. WholeInv /\ [Next]_vars => WholeInv'
  BY WholeStep
<1>3. QED
  BY <1>1, <1>2, WholeInit, PTL DEF Spec
=============================================================================
