---------------------------- MODULE SessionProofs ----------------------------
(***************************************************************************)
(* For any callers, configurations and number of reloads: a bundle that    *)
(* the pipeline had is unloaded once, and no other bundle is; and as long  *)
(* as calls do not overlap, session, pipeline and collector come to agree, *)
(* and what replaced providers held is released.                           *)
(***************************************************************************)
EXTENDS Session, SequenceTheorems, FiniteSetTheorems, TLAPS

Labels == {"idle", "turn", "status", "before", "cancel", "emit", "load", "after"}
CallType == [at : Labels, old : Nat, new : Nat, rest : Seq(Kind), on : Nat]
TaskType == [old : Nat, rest : Seq(Kind)]
HistType == [overlap : BOOLEAN, refused : BOOLEAN, unsent : SUBSET Nat]

\* What is left of a turn, and who waits for threads: a turn for that of its ASR.
TurnRests ==
    {s \in Seq(Kind) : s # <<>> /\ \A i \in 1 .. Len(s) : s[i] = "tts" <=> i = Len(s)}
Shape(call) ==
    /\ call.at = "turn" => call.rest \in TurnRests
    /\ call.on # 0 => /\ call.at \in {"turn", "status", "load"}
                      /\ call.rest # <<>> /\ Head(call.rest) \in {"asr", "tts"}
                      /\ call.at = "turn" => Head(call.rest) = "asr"

\* Types, and which bundles there are.
Kept ==
    /\ built \in Seq([Kind -> Importable \cup {Unavailable}])
    /\ bundle \in Nat
    /\ calls \in [Callers -> CallType]
    /\ \A c \in Callers : Shape(calls[c])
    /\ unloads \in Seq(TaskType)
    /\ hist \in HistType /\ hist.unsent \subseteq replaced
    /\ replaced \subseteq Bundles
    /\ active \in Bundles \ replaced

\* What is to be unloaded: a bundle that was replaced, and whose swap was sent.
Due == replaced \ hist.unsent

\* A bundle that a reload is about to swap in is new to the pipeline, and it is
\* that reload's alone.
Fresh ==
    /\ \A c \in Callers : calls[c].at = "cancel" =>
            calls[c].new \in Bundles \ (replaced \cup {active})
    /\ \A c, d \in Callers :
            calls[c].at = "cancel" /\ calls[d].at = "cancel" /\ calls[c].new = calls[d].new
                => c = d

\* What a call is about to hand over, and what a task has been handed, is due;
\* no bundle is with two of them, and each that is due is with one.
WithCalls ==
    /\ \A c \in Callers : calls[c].at = "emit" => calls[c].old \in Due
    /\ \A c, d \in Callers :
            calls[c].at = "emit" /\ calls[d].at = "emit" /\ calls[c].old = calls[d].old
                => c = d
WithTasks ==
    /\ \A i \in DOMAIN unloads : unloads[i].old \in Due
    /\ \A i, j \in DOMAIN unloads : unloads[i].old = unloads[j].old => i = j
Apart ==
    \A c \in Callers : \A i \in DOMAIN unloads :
        calls[c].at = "emit" => calls[c].old # unloads[i].old
Handed ==
    \A b \in Due : \/ \E c \in Callers : calls[c].at = "emit" /\ calls[c].old = b
                   \/ \E i \in DOMAIN unloads : unloads[i].old = b

Once == WithCalls /\ WithTasks /\ Apart /\ Handed
IInv == Kept /\ Fresh /\ Once

-----------------------------------------------------------------------------
(* The invariant says that each bundle is unloaded once *)

LEMMA OnceCounts ==
    ASSUME IInv
    PROVE  UnloadedOnce
<1> SUFFICES ASSUME NEW b \in Bundles
             PROVE  Cardinality(OwedBy(b)) + Cardinality(TasksOf(b)) =
                        IF b \in Due THEN 1 ELSE 0
  BY DEF UnloadedOnce, Due
<1>1. Cardinality({}) = 0
  BY FS_EmptySet
<1>2. CASE b \notin Due
  <2>1. OwedBy(b) = {} /\ TasksOf(b) = {}
    BY <1>2 DEF IInv, Once, WithCalls, WithTasks, OwedBy, TasksOf
  <2> QED
    BY <1>1, <1>2, <2>1
<1>3. ASSUME b \in Due, NEW c \in Callers, calls[c].at = "emit", calls[c].old = b
      PROVE  Cardinality(OwedBy(b)) + Cardinality(TasksOf(b)) = 1
  <2>1. OwedBy(b) = {c} /\ TasksOf(b) = {}
    BY <1>3 DEF IInv, Once, WithCalls, Apart, OwedBy, TasksOf
  <2>2. Cardinality({c}) = 1
    BY FS_Singleton
  <2> QED
    BY <1>1, <2>1, <2>2
<1>4. ASSUME b \in Due, NEW i \in DOMAIN unloads, unloads[i].old = b
      PROVE  Cardinality(OwedBy(b)) + Cardinality(TasksOf(b)) = 1
  <2>1. OwedBy(b) = {} /\ TasksOf(b) = {i}
    BY <1>4 DEF IInv, Once, WithTasks, Apart, OwedBy, TasksOf
  <2>2. Cardinality({i}) = 1
    BY FS_Singleton
  <2> QED
    BY <1>1, <2>1, <2>2
<1> QED
  BY <1>2, <1>3, <1>4 DEF IInv, Once, Handed

-----------------------------------------------------------------------------
(* What is built, and where calls begin *)

LEMMA BuildBundleType ==
    ASSUME NEW config
    PROVE  BuildBundle(config) \in [Kind -> Importable \cup {Unavailable}]
BY DEF BuildBundle, BuildProvider

LEMMA RestType ==
    /\ Kinds \in Seq(Kind)
    /\ \A m \in {2, 3} : SubSeq(Kinds, m, 4) \in Seq(Kind) \cap TurnRests
    /\ \A s \in TurnRests : Head(s) # "tts" => Tail(s) \in TurnRests
    /\ \A s \in Seq(Kind) : s # <<>> => Head(s) \in Kind /\ Tail(s) \in Seq(Kind)
<1>1. Kinds \in Seq(Kind) /\ Len(Kinds) = 4
  BY DEF Kinds, Kind
<1>2. ASSUME NEW m \in {2, 3}
      PROVE  SubSeq(Kinds, m, 4) \in Seq(Kind) \cap TurnRests
  <2> DEFINE s == SubSeq(Kinds, m, 4)
  <2>1. /\ s \in Seq(Kind) /\ Len(s) = 5 - m
        /\ \A i \in 1 .. 5 - m : s[i] = Kinds[m + i - 1]
    BY <1>1, SubSeqProperties
  <2>2. \A i \in 1 .. 4 : Kinds[i] = "tts" <=> i = 4
    BY DEF Kinds
  <2> HIDE DEF s
  <2>3. \A i \in 1 .. Len(s) : s[i] = "tts" <=> i = Len(s)
    BY <2>1, <2>2
  <2>4. s # <<>>
    BY <2>1, EmptySeq
  <2> QED
    BY <2>1, <2>3, <2>4 DEF s, TurnRests
<1>3. ASSUME NEW s \in TurnRests, Head(s) # "tts"
      PROVE  Tail(s) \in TurnRests
  <2>1. s \in Seq(Kind) /\ s # <<>> /\ \A i \in 1 .. Len(s) : s[i] = "tts" <=> i = Len(s)
    BY DEF TurnRests
  <2> DEFINE t == Tail(s)
  <2>2. /\ Head(s) = s[1] /\ t \in Seq(Kind) /\ Len(t) = Len(s) - 1
        /\ \A i \in 1 .. Len(s) - 1 : t[i] = s[i + 1]
    BY <2>1, HeadTailProperties
  <2>3. Len(s) \in Nat /\ Len(s) # 0
    BY <2>1, EmptySeq
  <2>4. Len(s) # 1
    <3>1. s[1] # "tts"
      BY <1>3, <2>2
    <3>2. 1 \in 1 .. Len(s)
      BY <2>3
    <3> QED
      BY <2>1, <3>1, <3>2
  <2> HIDE DEF t
  <2>5. t # <<>>
    BY <2>2, <2>3, <2>4, EmptySeq
  <2>6. \A i \in 1 .. Len(t) : t[i] = "tts" <=> i = Len(t)
    <3> SUFFICES ASSUME NEW i \in 1 .. Len(t)
                 PROVE  t[i] = "tts" <=> i = Len(t)
      OBVIOUS
    <3>1. i + 1 \in 1 .. Len(s) /\ (i + 1 = Len(s) <=> i = Len(t)) /\ i \in 1 .. Len(s) - 1
      BY <2>2, <2>3, <2>4
    <3> QED
      BY <2>1, <2>2, <3>1
  <2> QED
    BY <2>2, <2>5, <2>6 DEF t, TurnRests
<1> QED
  BY <1>1, <1>2, <1>3, HeadTailProperties

\* The call of c, and no other, has gone somewhere.
Goes(c, labels) ==
    /\ calls' \in [Callers -> CallType]
    /\ \A d \in Callers \ {c} : calls'[d] = calls[d]
    /\ calls'[c].at \in labels /\ Shape(calls'[c])

LEMMA Going ==
    ASSUME Kept, NEW c \in Callers
    PROVE  /\ Goto(c, "after") /\ calls[c].on = 0 => Goes(c, {"after"})
           /\ Return(c) => Goes(c, {"idle"})
<1>0. calls \in [Callers -> CallType] /\ Shape(calls[c])
  BY DEF Kept
<1>1. ASSUME Goto(c, "after"), calls[c].on = 0
      PROVE  Goes(c, {"after"})
  BY <1>0, <1>1 DEF Goes, Goto, CallType, Labels, Shape
<1>2. ASSUME Return(c)
      PROVE  Goes(c, {"idle"})
  <2>1. Idle \in CallType /\ Idle.at = "idle" /\ Shape(Idle)
    BY DEF Idle, CallType, Labels, Shape
  <2> QED
    BY <1>0, <1>2, <2>1 DEF Goes, Return
<1> QED
  BY <1>1, <1>2

\* It waits for a thread, or is done with one kind.
LEMMA Waiting ==
    ASSUME Kept, NEW c \in Callers, NEW b \in Nat, Waits(c, b),
           calls[c].at \in {"turn", "status", "load"},
           calls[c].rest # <<>>, Head(calls[c].rest) \in {"asr", "tts"},
           calls[c].at = "turn" => Head(calls[c].rest) = "asr"
    PROVE  /\ Goes(c, {calls[c].at}) /\ calls'[c].on = b
           /\ calls'[c].new = calls[c].new /\ calls'[c].old = calls[c].old
<1>1. calls \in [Callers -> CallType] /\ Shape(calls[c])
  BY DEF Kept
<1>2. /\ calls' \in [Callers -> CallType]
      /\ \A d \in Callers \ {c} : calls'[d] = calls[d]
      /\ calls'[c].at = calls[c].at /\ calls'[c].rest = calls[c].rest
      /\ calls'[c].on = b
      /\ calls'[c].new = calls[c].new /\ calls'[c].old = calls[c].old
  BY <1>1 DEF Waits, CallType
<1> QED
  BY <1>1, <1>2 DEF Goes, Shape

LEMMA Advancing ==
    ASSUME Kept, NEW c \in Callers, Advance(c), calls[c].rest # <<>>,
           calls[c].at = "turn" => Head(calls[c].rest) # "tts"
    PROVE  /\ Goes(c, {calls[c].at}) /\ calls'[c].on = 0
           /\ calls'[c].new = calls[c].new /\ calls'[c].old = calls[c].old
<1> DEFINE s == Tail(calls[c].rest)
<1>1. calls \in [Callers -> CallType] /\ Shape(calls[c]) /\ s \in Seq(Kind)
  BY RestType DEF Kept, CallType
<1>2. calls[c].at = "turn" => s \in TurnRests
  BY <1>1, RestType DEF Shape
<1>3. calls' = [calls EXCEPT ![c].rest = s, ![c].on = 0]
  BY DEF Advance
<1> HIDE DEF s
<1>4. /\ calls' \in [Callers -> CallType]
      /\ \A d \in Callers \ {c} : calls'[d] = calls[d]
      /\ calls'[c].at = calls[c].at /\ calls'[c].rest = s
      /\ calls'[c].on = 0
      /\ calls'[c].new = calls[c].new /\ calls'[c].old = calls[c].old
  BY <1>1, <1>3 DEF CallType
<1> QED
  BY <1>2, <1>4 DEF Goes, Shape

-----------------------------------------------------------------------------
(* Steps that neither swap nor hand over *)

LEMMA Elsewhere ==
    ASSUME IInv, NEW c \in Callers, Goes(c, Labels \ {"cancel", "emit"}),
           calls[c].at # "emit",
           UNCHANGED <<built, active, replaced, unloads>>,
           bundle' \in Nat, hist' \in HistType, hist'.unsent = hist.unsent
    PROVE  IInv'
<1>1. Kept'
  BY DEF IInv, Kept, Goes, Bundles
<1>2. Due' = Due /\ Bundles' = Bundles
  BY DEF Due, Bundles
<1>3. \A d \in Callers : calls'[d].at \in {"cancel", "emit"} => calls'[d] = calls[d]
  BY DEF Goes
<1>4. \A d \in Callers : calls[d].at = "emit" => calls'[d] = calls[d]
  BY DEF Goes
<1>5. Fresh'
  BY <1>2, <1>3 DEF IInv, Fresh
<1>6. WithCalls' /\ Apart'
  BY <1>2, <1>3 DEF IInv, Once, WithCalls, Apart
<1>7. WithTasks' /\ Handed'
  BY <1>2, <1>4 DEF IInv, Once, WithTasks, Handed
<1> QED
  BY <1>1, <1>5, <1>6, <1>7 DEF IInv, Once

LEMMA ReceiveInv ==
    ASSUME IInv, NEW c \in Callers, Receive(c)
    PROVE  IInv'
<1>0. Idle \in CallType /\ Idle.on = 0
  BY DEF Idle, CallType, Labels
<1>2. bundle \in Nat /\ "turn" \in Labels /\ "status" \in Labels /\ "before" \in Labels
  BY DEF IInv, Kept, Labels
<1>3. \A text \in BOOLEAN :
        SubSeq(Kinds, IF text THEN 3 ELSE 2, 4) \in Seq(Kind) \cap TurnRests
  BY RestType
<1>4. PICK call \in CallType : /\ Begin(c, call) /\ Shape(call)
                              /\ call.at \in {"turn", "status", "before"}
  <2>1. CASE \E text \in BOOLEAN :
                Begin(c, [Idle EXCEPT !.at = "turn",
                                      !.rest = SubSeq(Kinds, IF text THEN 3 ELSE 2, 4)])
    <3>1. PICK text \in BOOLEAN :
            Begin(c, [Idle EXCEPT !.at = "turn",
                                  !.rest = SubSeq(Kinds, IF text THEN 3 ELSE 2, 4)])
      BY <2>1
    <3> DEFINE call == [Idle EXCEPT !.at = "turn",
                                    !.rest = SubSeq(Kinds, IF text THEN 3 ELSE 2, 4)]
    <3>2. call \in CallType /\ call.at = "turn" /\ Shape(call)
      BY <1>0, <1>2, <1>3 DEF CallType, Shape
    <3>3. Begin(c, call)
      BY <3>1
    <3> HIDE DEF call
    <3> QED
      BY <3>2, <3>3
  <2>2. CASE Begin(c, [Idle EXCEPT !.at = "status", !.old = bundle, !.rest = Kinds])
    <3> DEFINE call == [Idle EXCEPT !.at = "status", !.old = bundle, !.rest = Kinds]
    <3>1. call \in CallType /\ call.at = "status" /\ Shape(call)
      BY <1>0, <1>2, RestType DEF CallType, Shape
    <3>3. Begin(c, call)
      BY <2>2
    <3> HIDE DEF call
    <3> QED
      BY <3>1, <3>3
  <2>3. CASE Begin(c, [Idle EXCEPT !.at = "before", !.old = bundle])
    <3> DEFINE call == [Idle EXCEPT !.at = "before", !.old = bundle]
    <3>1. call \in CallType /\ call.at = "before" /\ Shape(call)
      BY <1>0, <1>2, RestType DEF CallType, Shape
    <3>3. Begin(c, call)
      BY <2>3
    <3> HIDE DEF call
    <3> QED
      BY <3>1, <3>3
  <2> QED
    BY <2>1, <2>2, <2>3 DEF Receive
<1>5. Goes(c, Labels \ {"cancel", "emit"})
  BY <1>4 DEF IInv, Kept, Begin, Goes, Labels
<1>6. calls[c].at # "emit" /\ hist' \in HistType /\ hist'.unsent = hist.unsent
  <2>1. hist' = [hist EXCEPT !.overlap = hist.overlap \/ Busy # {}]
    BY <1>4 DEF Begin
  <2>2. (hist.overlap \/ Busy # {}) \in BOOLEAN
    OBVIOUS
  <2> QED
    BY <1>4, <2>1, <2>2 DEF Begin, IInv, Kept, HistType
<1>7. UNCHANGED <<built, active, replaced, unloads>> /\ bundle' \in Nat
  BY DEF Receive, uses, IInv, Kept
<1> QED
  BY <1>5, <1>6, <1>7, Elsewhere

LEMMA LoadNextGoes ==
    ASSUME Kept, NEW c \in Callers, NEW b \in Nat, LoadNext(c, b),
           calls[c].at \in {"status", "load"}
    PROVE  /\ Goes(c, {calls[c].at, "idle"})
           /\ calls'[c].at # "idle" => /\ calls'[c].new = calls[c].new
                                       /\ calls'[c].old = calls[c].old
                                       /\ calls'[c].on \in {0, b}
<1> DEFINE k == Head(calls[c].rest)
<1>1. calls[c].rest # <<>>
  BY DEF LoadNext
<1>2. CASE Return(c)
  <2>1. Goes(c, {"idle"}) /\ calls'[c].at = "idle"
    BY <1>2, Going DEF Goes
  <2> QED
    BY <2>1 DEF Goes
<1>3. CASE InThread(b, k) /\ Waits(c, b)
  BY <1>1, <1>3, Waiting DEF InThread, Goes
<1>4. CASE Advance(c)
  BY <1>1, <1>4, Advancing DEF Goes
<1> QED
  BY <1>2, <1>3, <1>4 DEF LoadNext

\* A step of a turn, or the end of what a call waits for.
LEMMA TurnGoes ==
    ASSUME Kept, NEW c \in Callers, TurnStep(c)
    PROVE  /\ calls[c].at = "turn" /\ Goes(c, {"turn", "idle"})
           /\ calls'[c].at # "idle" => calls'[c].on \in {0, active}
<1> DEFINE k == Head(calls[c].rest)
<1>1. calls[c].at = "turn" /\ calls[c].on = 0 /\ Shape(calls[c]) /\ active \in Nat
  BY DEF TurnStep, Kept, Bundles
<1>2. calls[c].rest # <<>>
  BY <1>1 DEF Shape, TurnRests
<1>3. CASE Return(c)
  <2>1. Goes(c, {"idle"}) /\ calls'[c].at = "idle"
    BY <1>3, Going DEF Goes
  <2> QED
    BY <1>1, <2>1 DEF Goes
<1>4. CASE k = "asr" /\ Waits(c, active)
  BY <1>1, <1>2, <1>4, Waiting DEF Goes
<1>5. CASE k # "tts" /\ Advance(c)
  BY <1>1, <1>2, <1>5, Advancing DEF Goes
<1>6. CASE UNCHANGED calls
  BY <1>1, <1>6 DEF Goes, Kept
<1> QED
  BY <1>3, <1>4, <1>5, <1>6 DEF TurnStep

LEMMA ThreadGoes ==
    ASSUME Kept, NEW c \in Callers, ThreadEnds(c) \/ TimesOut(c)
    PROVE  /\ calls[c].at \in {"turn", "status", "load"} /\ calls[c].on # 0
           /\ Goes(c, {calls[c].at, "idle"})
           /\ calls'[c].at # "idle" => /\ calls'[c].new = calls[c].new
                                       /\ calls'[c].old = calls[c].old
                                       /\ calls'[c].on = 0
<1>1. /\ calls[c].on # 0 /\ Shape(calls[c])
      /\ Return(c) \/ Advance(c)
  BY DEF ThreadEnds, TimesOut, Kept
<1>2. calls[c].at \in {"turn", "status", "load"} /\ calls[c].rest # <<>>
  BY <1>1 DEF Shape
<1>3. CASE Return(c)
  <2>1. Goes(c, {"idle"}) /\ calls'[c].at = "idle"
    BY <1>3, Going DEF Goes
  <2> QED
    BY <1>1, <1>2, <2>1 DEF Goes
<1>4. CASE Advance(c)
  <2>1. calls[c].at = "turn" => Head(calls[c].rest) # "tts"
    BY <1>1 DEF Shape
  <2> QED
    BY <1>1, <1>2, <1>4, <2>1, Advancing DEF Goes
<1> QED
  BY <1>1, <1>3, <1>4

LEMMA TurnInv ==
    ASSUME IInv, NEW c \in Callers, TurnStep(c) \/ ThreadEnds(c) \/ TimesOut(c)
    PROVE  IInv'
<1>1. /\ calls[c].at \in {"turn", "status", "load"}
      /\ Goes(c, Labels \ {"cancel", "emit"})
  BY TurnGoes, ThreadGoes DEF IInv, Goes, Labels
<1>2. /\ UNCHANGED <<built, active, replaced, unloads, hist>> /\ bundle' \in Nat
      /\ hist' \in HistType /\ hist'.unsent = hist.unsent
  BY DEF TurnStep, ThreadEnds, TimesOut, uses, IInv, Kept
<1> QED
  BY <1>1, <1>2, Elsewhere

LEMMA LoadingInv ==
    ASSUME IInv, NEW c \in Callers,
           StatusStep(c) \/ LoadStep(c) \/ Reloaded(c) \/ SweepFails(c)
    PROVE  IInv'
<1>1. /\ Kept /\ calls[c].at \in {"status", "load", "after", "cancel"}
      /\ calls[c].old \in Nat /\ calls[c].new \in Nat
  BY DEF IInv, StatusStep, LoadStep, Reloaded, SweepFails, Kept, CallType
<1>2. Goes(c, Labels \ {"cancel", "emit"})
  <2>1. CASE Return(c)
    BY <1>1, <2>1, Going DEF Goes, Labels
  <2>2. CASE Goto(c, "after") /\ calls[c].rest = <<>>
    <3>1. calls[c].on = 0
      BY <1>1, <2>2 DEF Kept, Shape
    <3> QED
      BY <1>1, <2>2, <3>1, Going DEF Goes, Labels
  <2>3. ASSUME NEW b \in Nat, LoadNext(c, b), calls[c].at \in {"status", "load"}
        PROVE  Goes(c, Labels \ {"cancel", "emit"})
    BY <1>1, <2>3, LoadNextGoes DEF Goes, Labels
  <2> QED
    BY <1>1, <2>1, <2>2, <2>3 DEF StatusStep, LoadStep, Reloaded, SweepFails
<1>3. /\ UNCHANGED <<built, active, replaced, unloads, hist>> /\ bundle' \in Nat
      /\ hist' \in HistType /\ hist'.unsent = hist.unsent
  BY DEF StatusStep, LoadStep, Reloaded, SweepFails, uses, IInv, Kept
<1> QED
  BY <1>1, <1>2, <1>3, Elsewhere

\* Unloading goes on; whose bundle it is stays.
LEMMA UnloadInv ==
    ASSUME IInv, NEW i \in DOMAIN unloads, UnloadNext(i)
    PROVE  IInv'
<1>1. /\ unloads \in [1 .. Len(unloads) -> TaskType] /\ Len(unloads) \in Nat
      /\ DOMAIN unloads = 1 .. Len(unloads)
  BY DEF IInv, Kept
<1>2. unloads[i].rest \in Seq(Kind) /\ unloads[i].old \in Nat
  BY <1>1 DEF TaskType
<1>3. Tail(unloads[i].rest) \in Seq(Kind)
  BY <1>2, RestType DEF UnloadNext
<1>4. unloads' \in [1 .. Len(unloads) -> TaskType]
  BY <1>1, <1>2, <1>3 DEF UnloadNext, TaskType
<1>5. \A j \in DOMAIN unloads : unloads'[j].old = unloads[j].old
  BY <1>1 DEF UnloadNext, TaskType
<1>6. unloads' \in Seq(TaskType) /\ DOMAIN unloads' = DOMAIN unloads
  BY <1>1, <1>4
<1>7. UNCHANGED <<built, bundle, active, replaced, calls, hist>>
  BY DEF UnloadNext, uses
<1>8. Kept' /\ Fresh' /\ Due' = Due
  BY <1>6, <1>7 DEF IInv, Kept, Fresh, Due, Bundles
<1> QED
  BY <1>5, <1>6, <1>7, <1>8 DEF IInv, Once, WithCalls, WithTasks, Apart, Handed

-----------------------------------------------------------------------------
(* A reload *)

\* The bundle it builds is one nobody has seen.
LEMMA BuildInv ==
    ASSUME IInv, NEW c \in Callers, Build(c)
    PROVE  IInv'
<1>1. calls[c].at = "before" /\ Kept
  BY DEF Build, IInv
<1>2. UNCHANGED <<bundle, active, replaced, unloads, hist>>
  BY DEF Build
<1>3. CASE Return(c) /\ UNCHANGED built
  BY <1>1, <1>2, <1>3, Going, Elsewhere DEF Goes, Labels, Kept
<1>4. ASSUME NEW config, built' = Append(built, BuildBundle(config)),
             calls' = [calls EXCEPT ![c].at = "cancel", ![c].new = Len(built) + 1]
      PROVE  IInv'
  <2>1. /\ built' \in Seq([Kind -> Importable \cup {Unavailable}])
        /\ Len(built') = Len(built) + 1
    BY <1>1, <1>4, BuildBundleType, AppendProperties DEF Kept
  <2>2. /\ Len(built) \in Nat /\ Len(built) + 1 \in Nat
        /\ Bundles' = Bundles \cup {Len(built) + 1} /\ Len(built) + 1 \notin Bundles
    <3>1. Len(built) \in Nat
      BY <1>1 DEF Kept
    <3>2. 1 .. Len(built) + 1 = (1 .. Len(built)) \cup {Len(built) + 1}
      BY <3>1
    <3> QED
      BY <2>1, <3>1, <3>2 DEF Bundles
  <2>3. /\ calls' \in [Callers -> CallType]
        /\ \A d \in Callers \ {c} : calls'[d] = calls[d]
        /\ calls'[c].at = "cancel" /\ calls'[c].new = Len(built) + 1
        /\ Shape(calls'[c])
    <3> DEFINE n == Len(built) + 1
    <3>1. n \in Nat /\ calls' = [calls EXCEPT ![c].at = "cancel", ![c].new = n]
      BY <1>4, <2>2
    <3> HIDE DEF n
    <3>2. /\ calls' \in [Callers -> CallType]
          /\ \A d \in Callers \ {c} : calls'[d] = calls[d]
          /\ calls'[c].at = "cancel" /\ calls'[c].new = n /\ calls'[c].on = calls[c].on
      BY <1>1, <3>1 DEF Kept, CallType, Labels
    <3>3. calls[c].on = 0
      BY <1>1 DEF Kept, Shape
    <3> QED
      BY <3>2, <3>3 DEF n, Shape
  <2>4. Kept' /\ Due' = Due
    <3>1. /\ replaced' \subseteq Bundles' /\ active' \in Bundles' \ replaced'
          /\ hist' \in HistType /\ hist'.unsent \subseteq replaced'
      BY <1>1, <1>2, <2>2 DEF Kept
    <3>2. /\ bundle' \in Nat /\ unloads' \in Seq(TaskType)
          /\ \A d \in Callers : Shape(calls'[d])
      BY <1>1, <1>2, <2>3 DEF Kept
    <3> QED
      BY <1>2, <2>1, <2>3, <3>1, <3>2 DEF Kept, Due
  <2>5. Fresh'
    BY <1>1, <1>2, <2>2, <2>3 DEF IInv, Fresh, Kept
  <2>6. \A d \in Callers : /\ calls'[d].at = "emit" <=> calls[d].at = "emit"
                           /\ calls[d].at = "emit" => calls'[d] = calls[d]
    BY <1>1, <2>3
  <2>7. Once'
    BY <1>2, <2>4, <2>6 DEF IInv, Once, WithCalls, WithTasks, Apart, Handed
  <2> QED
    BY <2>4, <2>5, <2>7 DEF IInv
<1> QED
  BY <1>3, <1>4 DEF Build

\* It takes the pipeline's bundle, whichever that is now, and owes its unload.
LEMMA SwapInv ==
    ASSUME IInv, NEW c \in Callers, SwapPipeline(c)
    PROVE  IInv'
<1>1. /\ calls[c].at = "cancel" /\ Kept
      /\ active' = calls[c].new /\ replaced' = replaced \cup {active}
      /\ UNCHANGED <<built, bundle, unloads, hist>>
  BY DEF SwapPipeline, Swap, IInv
<1>2. active \in Nat /\ Bundles' = Bundles /\ active \in Bundles \ replaced
  BY <1>1 DEF Kept, Bundles
<1>3. /\ calls' \in [Callers -> CallType]
      /\ \A d \in Callers \ {c} : calls'[d] = calls[d]
      /\ calls'[c].at = "emit" /\ calls'[c].old = active /\ calls'[c].on = calls[c].on
  BY <1>1, <1>2 DEF SwapPipeline, Swap, Kept, CallType, Labels
<1>3a. \A d \in Callers : Shape(calls'[d])
  BY <1>1, <1>3 DEF Kept, Shape
<1>4. active' \in Bundles \ replaced'
  BY <1>1 DEF IInv, Fresh
<1>5. Kept'
  BY <1>1, <1>2, <1>3, <1>3a, <1>4 DEF Kept
<1>6. Due' = Due \cup {active} /\ active \notin Due
  BY <1>1, <1>2 DEF Due, Kept
<1>7. Fresh'
  BY <1>1, <1>2, <1>3 DEF IInv, Fresh
<1>8. WithCalls'
  BY <1>1, <1>3, <1>6 DEF IInv, Once, WithCalls
<1>9. WithTasks' /\ Apart'
  BY <1>1, <1>3, <1>6 DEF IInv, Once, WithTasks, Apart
<1>10. Handed'
  BY <1>1, <1>3, <1>6 DEF IInv, Once, Handed
<1> QED
  BY <1>5, <1>7, <1>8, <1>9, <1>10 DEF IInv, Once

\* The event was sent: what the call owed is a task's.
LEMMA UpdatedInv ==
    ASSUME IInv, NEW c \in Callers, Updated(c)
    PROVE  IInv'
<1>1. /\ calls[c].at = "emit" /\ Kept
      /\ unloads' = Append(unloads, [old |-> calls[c].old,
                                     rest |-> <<"vad", "asr", "tts">>])
      /\ UNCHANGED <<built, active, replaced>> /\ bundle' = calls[c].new
      /\ hist' = hist \/ hist' = [hist EXCEPT !.refused = TRUE]
  BY DEF Updated, TakeVad, LoadOrNot, Schedule, IInv
<1>1a. hist' \in HistType /\ hist'.unsent = hist.unsent
  BY <1>1 DEF Kept, HistType
<1>2. <<"vad", "asr", "tts">> \in Seq(Kind) /\ calls[c].old \in Nat /\ calls[c].new \in Nat
  BY <1>1 DEF Kept, CallType, Kind
<1>3. /\ unloads' \in Seq(TaskType)
      /\ DOMAIN unloads' = DOMAIN unloads \cup {Len(unloads) + 1}
      /\ Len(unloads) + 1 \notin DOMAIN unloads
      /\ unloads'[Len(unloads) + 1].old = calls[c].old
      /\ \A i \in DOMAIN unloads : unloads'[i] = unloads[i]
  BY <1>1, <1>2 DEF Kept, TaskType
<1>4. Goes(c, Labels \ {"cancel", "emit"})
  <2>1. CASE Return(c)
    BY <1>1, <2>1, Going DEF Goes, Labels
  <2>2. CASE Goto(c, "after")
    <3>1. calls[c].on = 0
      BY <1>1 DEF Kept, Shape
    <3> QED
      BY <1>1, <2>2, <3>1, Going DEF Goes, Labels
  <2>3. CASE calls' = [calls EXCEPT ![c].at = "load", ![c].rest = Kinds]
    <3>1. /\ calls' \in [Callers -> CallType]
          /\ \A d \in Callers \ {c} : calls'[d] = calls[d]
          /\ calls'[c].at = "load" /\ calls'[c].on = calls[c].on
      BY <1>1, <2>3, RestType DEF Kept, Labels, CallType
    <3>2. calls[c].on = 0
      BY <1>1 DEF Kept, Shape
    <3> QED
      BY <3>1, <3>2 DEF Goes, Labels, Shape
  <2> QED
    BY <2>1, <2>2, <2>3 DEF Updated, TakeVad, LoadOrNot
<1>5. Kept' /\ Due' = Due /\ Bundles' = Bundles
  BY <1>1a, <1>1, <1>2, <1>3, <1>4 DEF Kept, Goes, Due, Bundles
<1>6. \A d \in Callers : calls'[d].at \in {"cancel", "emit"} => d # c /\ calls'[d] = calls[d]
  BY <1>4 DEF Goes
<1>7. \A d \in Callers \ {c} : calls'[d] = calls[d]
  BY <1>4 DEF Goes
<1>8. Fresh' /\ WithCalls'
  BY <1>1, <1>5, <1>6 DEF IInv, Fresh, Once, WithCalls
<1>9. WithTasks'
  BY <1>1, <1>3, <1>5 DEF IInv, Once, WithTasks, WithCalls, Apart
<1>10. Apart'
  BY <1>1, <1>3, <1>6 DEF IInv, Once, Apart, WithCalls
<1>11. Handed'
  BY <1>1, <1>3, <1>5, <1>7 DEF IInv, Once, Handed
<1> QED
  BY <1>5, <1>8, <1>9, <1>10, <1>11 DEF IInv, Once

\* The event was not sent: nobody is to unload what was replaced.
LEMMA UnsentInv ==
    ASSUME IInv, NEW c \in Callers, UpdateUnsent(c)
    PROVE  IInv'
<1>1. /\ calls[c].at = "emit" /\ Kept
      /\ UNCHANGED <<built, bundle, active, replaced, unloads>>
  BY DEF UpdateUnsent, uses, IInv
<1>2. Goes(c, {"idle"})
  BY <1>1, Going DEF UpdateUnsent
<1>3. calls[c].old \in Due /\ calls[c].old \in Nat
  BY <1>1 DEF IInv, Once, WithCalls, Kept, CallType
<1>4. hist' \in HistType /\ hist'.unsent = hist.unsent \cup {calls[c].old}
  BY <1>1, <1>3 DEF UpdateUnsent, Kept, HistType
<1>5. Kept' /\ Due' = Due \ {calls[c].old} /\ Bundles' = Bundles
  BY <1>1, <1>2, <1>3, <1>4 DEF Kept, Goes, Due, Bundles
<1>6. \A d \in Callers : calls'[d].at \in {"cancel", "emit"} => d # c /\ calls'[d] = calls[d]
  BY <1>2 DEF Goes
<1>7. \A d \in Callers \ {c} : calls'[d] = calls[d]
  BY <1>2 DEF Goes
<1>8. Fresh'
  BY <1>1, <1>5, <1>6 DEF IInv, Fresh
<1>9. WithCalls' /\ Apart'
  BY <1>1, <1>5, <1>6 DEF IInv, Once, WithCalls, Apart
<1>10. WithTasks'
  BY <1>1, <1>5 DEF IInv, Once, WithTasks, Apart
<1>11. Handed'
  BY <1>1, <1>5, <1>7 DEF IInv, Once, Handed
<1> QED
  BY <1>5, <1>8, <1>9, <1>10, <1>11 DEF IInv, Once

-----------------------------------------------------------------------------
LEMMA InitInv ==
    ASSUME Init
    PROVE  IInv
<1>1. PICK config : built = <<BuildBundle(config)>>
  BY DEF Init
<1>2. built \in Seq([Kind -> Importable \cup {Unavailable}]) /\ Bundles = {1}
  BY <1>1, BuildBundleType DEF Bundles
<1>3. Idle \in CallType /\ Idle.at = "idle" /\ Shape(Idle)
  BY DEF Idle, CallType, Labels, Shape
<1>4. /\ calls \in [Callers -> CallType]
      /\ \A c \in Callers : calls[c].at = "idle" /\ Shape(calls[c])
  BY <1>3 DEF Init
<1>5. unloads = <<>> /\ unloads \in Seq(TaskType) /\ DOMAIN unloads = {}
  BY DEF Init
<1>6. hist \in HistType /\ hist.unsent = {} /\ replaced = {} /\ active = 1 /\ bundle = 1
  BY DEF Init, NoTrouble, HistType
<1> QED
  BY <1>2, <1>4, <1>5, <1>6 DEF IInv, Kept, Fresh, Once, WithCalls, WithTasks, Apart, Handed, Due

LEMMA NextInv ==
    ASSUME IInv, [Next]_vars
    PROVE  IInv'
<1>1. ASSUME UNCHANGED <<uses, calls, unloads, hist>>
      PROVE  IInv'
  BY <1>1 DEF uses, IInv, Kept, Fresh, Once, WithCalls, WithTasks, Apart, Handed, Due,
              Bundles
<1>2. ASSUME NEW c \in Callers, HearFrame(c)
      PROVE  IInv'
  BY <1>1, <1>2 DEF HearFrame
<1>3. CASE SpeakChunk \/ SpeechEnds \/ \E p \in strays : StrayEnds(p)
  BY <1>1, <1>3 DEF SpeakChunk, SpeechEnds, StrayEnds
<1>4. CASE UNCHANGED vars
  BY <1>1, <1>4 DEF vars
<1> QED
  BY <1>2, <1>3, <1>4, ReceiveInv, TurnInv, LoadingInv, BuildInv, SwapInv, UpdatedInv,
     UnsentInv, UnloadInv DEF Next

\* However many reloads overlap, fail or are refused, unload_replaced is given
\* each bundle that the pipeline had, once, unless the event of the swap could
\* not be sent, and no other (pipeline.py:183-197).
THEOREM ReplacedOnce == Spec => []UnloadedOnce
<1>1. Init => IInv
  BY InitInv
<1>2. IInv /\ [Next]_vars => IInv'
  BY NextInv
<1>3. IInv => UnloadedOnce
  BY OnceCounts
<1> QED
  BY <1>1, <1>2, <1>3, PTL DEF Spec

-----------------------------------------------------------------------------
(***************************************************************************)
(* Serial calls.  Between its swap and its event a reload is all that is   *)
(* under way, and the session and the collector still have the bundle it   *)
(* replaced; otherwise the three agree.                                    *)
(***************************************************************************)
Alone == \A c, d \in Busy : c = d

InStep ==
    /\ \A c \in Callers : calls[c].at = "emit" =>
            calls[c].new = active /\ calls[c].old = bundle /\ vad = bundle
    /\ (\A c \in Callers : calls[c].at # "emit") => bundle = active /\ vad = active
    /\ \A c \in Callers :
            /\ calls[c].at \in {"load", "after"} => calls[c].new = active
            /\ calls[c].at = "status" => calls[c].old = active
            /\ calls[c].on \in {0, active}

\* Provider p of a replaced bundle will be unloaded.
Pending(p) ==
    \/ \E c \in Callers : calls[c].at = "emit" /\ calls[c].old = p[1]
    \/ \E i \in DOMAIN unloads :
            /\ unloads[i].old = p[1]
            /\ \E k \in DOMAIN unloads[i].rest : unloads[i].rest[k] = p[2]

\* What holds a model, or is about to by a thread, is the active bundle's, or it
\* will be unloaded, or was while a thread loaded it.
Covered ==
    /\ held \subseteq Nat \X Kind /\ strays \subseteq Nat \X Kind
    /\ \A p \in held \cup strays :
            p[2] # "llm" /\ p[1] # active => Pending(p) \/ p \in late

SerialInv == IInv /\ (Clean => Alone /\ InStep /\ Covered)

LEMMA SerialInit ==
    ASSUME Init
    PROVE  SerialInv
<1>1. \A c \in Callers : calls[c].at = "idle" /\ calls[c].on = 0
  BY DEF Init, Idle
<1> QED
  BY <1>1, InitInv DEF Init, SerialInv, Alone, Busy, InStep, Covered

\* Trouble does not go away.
LEMMA StaysClean ==
    ASSUME Kept, Next, Clean'
    PROVE  Clean
<1> USE DEF Kept, HistType, Clean, NoTrouble
<1>1. ASSUME NEW c \in Callers, Receive(c)
      PROVE  Clean
  <2>1. hist' = [hist EXCEPT !.overlap = hist.overlap \/ Busy # {}]
    BY <1>1 DEF Receive, Begin
  <2> QED
    BY <2>1
<1>2. ASSUME NEW c \in Callers, Updated(c)
      PROVE  Clean
  BY <1>2 DEF Updated, TakeVad
<1>3. ASSUME NEW c \in Callers, UpdateUnsent(c)
      PROVE  Clean
  BY <1>3 DEF UpdateUnsent
<1>4. ASSUME NEW c \in Callers,
             HearFrame(c) \/ TurnStep(c) \/ StatusStep(c) \/ ThreadEnds(c) \/ TimesOut(c)
             \/ Build(c) \/ SweepFails(c) \/ SwapPipeline(c) \/ LoadStep(c) \/ Reloaded(c)
      PROVE  Clean
  BY <1>4 DEF HearFrame, TurnStep, StatusStep, ThreadEnds, TimesOut, Build, SweepFails,
              SwapPipeline, LoadStep, Reloaded
<1>5. ASSUME NEW i \in DOMAIN unloads, UnloadNext(i)
      PROVE  Clean
  BY <1>5 DEF UnloadNext
<1>6. CASE SpeakChunk \/ SpeechEnds \/ \E p \in strays : StrayEnds(p)
  BY <1>6 DEF SpeakChunk, SpeechEnds, StrayEnds
<1> QED
  BY <1>1, <1>2, <1>3, <1>4, <1>5, <1>6 DEF Next

\* Of serial calls only one is under way.
LEMMA OthersIdle ==
    ASSUME Alone, NEW c \in Callers, calls[c].at # "idle"
    PROVE  \A d \in Callers \ {c} : calls[d].at = "idle"
BY DEF Alone, Busy

\* What is acquired or loaded is of the active bundle.
LEMMA StaysCovered ==
    ASSUME Kept, Covered,
           \A x \in held' \cup strays' : x \in held \cup strays \/ x \in {active} \X Kind,
           UNCHANGED <<active, unloads, late>>,
           \A x : (\E c \in Callers : calls[c].at = "emit" /\ calls[c].old = x) =>
                    \E c \in Callers : calls'[c].at = "emit" /\ calls'[c].old = x
    PROVE  Covered'
<1>1. active \in Nat
  BY DEF Kept, Bundles
<1>2. held' \subseteq Nat \X Kind /\ strays' \subseteq Nat \X Kind
  BY <1>1 DEF Covered
<1>3. ASSUME NEW p \in held' \cup strays', p[2] # "llm", p[1] # active
      PROVE  Pending(p)' \/ p \in late
  <2>1. p \in held \cup strays
    BY <1>3
  <2>2. Pending(p) \/ p \in late
    BY <1>3, <2>1 DEF Covered
  <2> QED
    BY <2>2 DEF Pending
<1> QED
  BY <1>2, <1>3 DEF Covered

\* The only call goes on, and what it acquires is of the active bundle.
LEMMA GoesOn ==
    ASSUME Kept, Alone, InStep, Covered, NEW c \in Callers,
           calls[c].at \notin {"idle", "cancel", "emit"},
           Goes(c, Labels \ {"emit", "status", "turn"}) \/ Goes(c, {calls[c].at, "idle"}),
           calls'[c].at \in {"load", "after"} => calls'[c].new = active,
           calls'[c].at = "status" => calls'[c].old = active,
           calls'[c].at # "idle" => calls'[c].on \in {0, active},
           \A x \in held' \cup strays' : x \in held \cup strays \/ x \in {active} \X Kind,
           UNCHANGED <<bundle, active, vad, unloads, late>>
    PROVE  Alone' /\ InStep' /\ Covered'
<1>1. \A d \in Callers \ {c} : calls[d].at = "idle" /\ calls'[d] = calls[d]
  BY OthersIdle DEF Goes
<1>2. \A d \in Callers : calls[d].at # "emit" /\ calls'[d].at # "emit"
  BY <1>1 DEF Goes
<1>3. Alone'
  BY <1>1 DEF Alone, Busy
<1>4. calls'[c].on \in {0, active}
  BY DEF Goes, Shape
<1>5. InStep'
  BY <1>1, <1>2, <1>4 DEF InStep
<1>6. Covered'
  BY <1>2, StaysCovered
<1> QED
  BY <1>3, <1>5, <1>6

LEMMA AcquireOne ==
    ASSUME NEW k \in Kind, NEW b, Acquire(b, k)
    PROVE  \A x \in held' : x \in held \/ x \in {b} \X Kind
BY DEF Acquire

LEMMA ReceiveSerial ==
    ASSUME Kept, Clean, Alone, InStep, Covered, NEW c \in Callers, Receive(c), Clean'
    PROVE  Alone' /\ InStep' /\ Covered'
<1>1. PICK call : /\ Begin(c, call)
                  /\ call.on = 0
                  /\ \/ call.at = "turn"
                     \/ call.at = "status" /\ call.old = bundle
                     \/ call.at = "before"
  <2>2. ASSUME NEW text \in BOOLEAN,
               Begin(c, [Idle EXCEPT !.at = "turn",
                                     !.rest = SubSeq(Kinds, IF text THEN 3 ELSE 2, 4)])
        PROVE  \E call : Begin(c, call) /\ call.at = "turn" /\ call.on = 0
    <3> DEFINE call == [Idle EXCEPT !.at = "turn",
                                    !.rest = SubSeq(Kinds, IF text THEN 3 ELSE 2, 4)]
    <3>1. call.at = "turn" /\ call.on = 0
      BY DEF Idle
    <3>2. Begin(c, call)
      BY <2>2
    <3> HIDE DEF call
    <3> QED
      BY <3>1, <3>2
  <2>3. ASSUME Begin(c, [Idle EXCEPT !.at = "status", !.old = bundle, !.rest = Kinds])
        PROVE  \E call : /\ Begin(c, call) /\ call.at = "status" /\ call.old = bundle
                         /\ call.on = 0
    <3> DEFINE call == [Idle EXCEPT !.at = "status", !.old = bundle, !.rest = Kinds]
    <3>1. call.at = "status" /\ call.old = bundle /\ call.on = 0
      BY DEF Idle
    <3>2. Begin(c, call)
      BY <2>3
    <3> HIDE DEF call
    <3> QED
      BY <3>1, <3>2
  <2>4. ASSUME Begin(c, [Idle EXCEPT !.at = "before", !.old = bundle])
        PROVE  \E call : Begin(c, call) /\ call.at = "before" /\ call.on = 0
    <3> DEFINE call == [Idle EXCEPT !.at = "before", !.old = bundle]
    <3>1. call.at = "before" /\ call.on = 0
      BY DEF Idle
    <3>2. Begin(c, call)
      BY <2>4
    <3> HIDE DEF call
    <3> QED
      BY <3>1, <3>2
  <2> QED
    BY <2>2, <2>3, <2>4 DEF Receive
<1>2. Busy = {}
  <2>1. hist' = [hist EXCEPT !.overlap = hist.overlap \/ Busy # {}]
    BY <1>1 DEF Begin
  <2>2. hist'.overlap = (hist.overlap \/ Busy # {}) /\ hist'.overlap = FALSE
    BY <2>1 DEF Kept, HistType, Clean, NoTrouble
  <2> QED
    BY <2>2
<1>3. \A d \in Callers : calls[d].at = "idle"
  BY <1>2 DEF Busy
<1>4. calls'[c] = call /\ \A d \in Callers \ {c} : calls'[d].at = "idle"
  BY <1>1, <1>3 DEF Begin, Kept
<1>5. /\ bundle = active /\ vad = active
      /\ UNCHANGED <<bundle, active, vad, unloads, held, strays, late>>
  BY <1>3 DEF InStep, Receive, uses, models
<1>6. \A d \in Callers : calls'[d].at # "emit" /\ calls'[d].on \in {0, active}
  BY <1>1, <1>4, <1>5 DEF Begin, InStep, Kept
<1>7. InStep'
  BY <1>1, <1>4, <1>5, <1>6 DEF InStep
<1>8. Alone'
  BY <1>4 DEF Alone, Busy
<1>9. Covered'
  BY <1>3, <1>5, StaysCovered
<1> QED
  BY <1>7, <1>8, <1>9

\* A frame during a reload may load the VAD that is about to be unloaded.
LEMMA HearSerial ==
    ASSUME Kept, InStep, Alone, Covered, NEW c \in Callers, HearFrame(c)
    PROVE  Alone' /\ InStep' /\ Covered'
<1>1. /\ UNCHANGED <<bundle, active, vad, calls, unloads, strays, late>>
      /\ held' = held \/ held' = held \cup {<<vad, "vad">>}
  BY DEF HearFrame, uses, Acquire
<1>2. Alone' /\ InStep'
  BY <1>1 DEF Alone, Busy, InStep
<1>3. vad \in Nat /\ "vad" \in Kind
  BY DEF InStep, Kept, Bundles, Kind
<1>4. vad # active => \E d \in Callers : calls[d].at = "emit" /\ calls[d].old = vad
  BY DEF InStep
<1>5. Covered'
  <2>1. held' \subseteq Nat \X Kind /\ strays' \subseteq Nat \X Kind
    BY <1>1, <1>3 DEF Covered
  <2>2. ASSUME NEW p \in held' \cup strays', p[2] # "llm", p[1] # active
        PROVE  Pending(p) \/ p \in late
    <3>1. CASE p \in held \cup strays
      BY <2>2, <3>1 DEF Covered
    <3>2. CASE p = <<vad, "vad">>
      BY <1>4, <2>2, <3>2 DEF Pending
    <3> QED
      BY <1>1, <2>2, <3>1, <3>2
  <2>3. \A p : Pending(p)' <=> Pending(p)
    BY <1>1 DEF Pending
  <2> QED
    BY <1>1, <2>1, <2>2, <2>3 DEF Covered
<1> QED
  BY <1>2, <1>5

LEMMA TurnSerial ==
    ASSUME Kept, InStep, Alone, Covered, NEW c \in Callers, TurnStep(c)
    PROVE  Alone' /\ InStep' /\ Covered'
<1> DEFINE k == Head(calls[c].rest)
<1>1. /\ calls[c].at = "turn" /\ Goes(c, {"turn", "idle"})
      /\ calls'[c].at # "idle" => calls'[c].on \in {0, active}
  BY TurnGoes
<1>2. k \in Kind
  BY <1>1, RestType DEF Kept, Shape, TurnRests
<1>3. held' = held \/ Acquire(active, k)
  BY DEF TurnStep
<1>4. UNCHANGED <<bundle, active, vad, unloads, strays, late>>
  BY DEF TurnStep, uses
<1>5. \A x \in held' : x \in held \/ x \in {active} \X Kind
  BY <1>2, <1>3, AcquireOne
<1> HIDE DEF k
<1> QED
  BY <1>1, <1>4, <1>5, GoesOn DEF Goes

\* What a thread was awaited for is of the active bundle.
LEMMA ThreadSerial ==
    ASSUME Kept, InStep, Alone, Covered, NEW c \in Callers, ThreadEnds(c) \/ TimesOut(c)
    PROVE  Alone' /\ InStep' /\ Covered'
<1>1. /\ calls[c].at \in {"turn", "status", "load"} /\ calls[c].on # 0
      /\ Goes(c, {calls[c].at, "idle"})
      /\ calls'[c].at # "idle" => /\ calls'[c].new = calls[c].new
                                  /\ calls'[c].old = calls[c].old
                                  /\ calls'[c].on = 0
  BY ThreadGoes
<1>2. Awaited(c) \in {active} \X Kind
  BY <1>1 DEF Awaited, InStep, Kept, Shape, Kind
<1>3. /\ held' \cup strays' \subseteq held \cup strays \cup {Awaited(c)}
      /\ UNCHANGED <<bundle, active, vad, unloads, late>>
  BY DEF ThreadEnds, TimesOut, uses
<1>4. \A x \in held' \cup strays' : x \in held \cup strays \/ x \in {active} \X Kind
  BY <1>2, <1>3
<1>5. /\ calls'[c].at \in {"load", "after"} => calls'[c].new = active
      /\ calls'[c].at = "status" => calls'[c].old = active
  BY <1>1 DEF Goes, InStep
<1> QED
  BY <1>1, <1>3, <1>4, <1>5, GoesOn

\* A TTS task has the pipeline's provider load; a thread is done.
LEMMA SpeechSerial ==
    ASSUME Kept, InStep, Alone, Covered,
           SpeakChunk \/ SpeechEnds \/ \E p \in strays : StrayEnds(p)
    PROVE  Alone' /\ InStep' /\ Covered'
<1>1. UNCHANGED <<bundle, active, vad, calls, unloads, late>>
  BY DEF SpeakChunk, SpeechEnds, StrayEnds, uses
<1>2. \A x \in held' \cup strays' : x \in held \cup strays \/ x \in {active} \X Kind
  BY DEF SpeakChunk, SpeechEnds, StrayEnds, Kind
<1>3. Alone' /\ InStep'
  BY <1>1 DEF Alone, Busy, InStep
<1> QED
  BY <1>1, <1>2, <1>3, StaysCovered

LEMMA LoadNextSerial ==
    ASSUME Kept, InStep, Alone, Covered, NEW c \in Callers, LoadNext(c, active),
           calls[c].at \in {"status", "load"},
           UNCHANGED <<bundle, active, vad, unloads, strays, late>>
    PROVE  Alone' /\ InStep' /\ Covered'
<1> DEFINE k == Head(calls[c].rest)
<1>1. active \in Nat /\ k \in Kind
  BY RestType DEF LoadNext, Kept, CallType, Bundles
<1>2. held' = held \/ Acquire(active, k)
  BY DEF LoadNext
<1>3. \A x \in held' : x \in held \/ x \in {active} \X Kind
  BY <1>1, <1>2, AcquireOne
<1> HIDE DEF k
<1>4. /\ Goes(c, {calls[c].at, "idle"})
      /\ calls'[c].at # "idle" => /\ calls'[c].new = calls[c].new
                                  /\ calls'[c].old = calls[c].old
                                  /\ calls'[c].on \in {0, active}
  BY <1>1, LoadNextGoes
<1>5. /\ calls'[c].at \in {"load", "after"} => calls'[c].new = active
      /\ calls'[c].at = "status" => calls'[c].old = active
  BY <1>4 DEF Goes, InStep
<1> QED
  BY <1>3, <1>4, <1>5, GoesOn

LEMMA StatusSerial ==
    ASSUME Kept, InStep, Alone, Covered, NEW c \in Callers,
           StatusStep(c) \/ LoadStep(c) \/ Reloaded(c)
    PROVE  Alone' /\ InStep' /\ Covered'
<1>1. /\ UNCHANGED <<bundle, active, vad, unloads, strays, late>>
      /\ calls[c].at \in {"status", "load", "after"}
  BY DEF StatusStep, LoadStep, Reloaded, uses, models
<1>2. ASSUME NEW b, LoadNext(c, b), b = active, calls[c].at \in {"status", "load"}
      PROVE  Alone' /\ InStep' /\ Covered'
  BY <1>1, <1>2, LoadNextSerial
<1>3. CASE Return(c) /\ held' = held
  <2>1. Goes(c, {"idle"}) /\ calls'[c].at = "idle"
    BY <1>3, Going DEF Goes
  <2> QED
    BY <1>1, <1>3, <2>1, GoesOn DEF Goes, Labels
<1>4. CASE Goto(c, "after") /\ held' = held /\ calls[c].at = "load" /\ calls[c].rest = <<>>
  <2>1. calls[c].on = 0
    BY <1>4 DEF Kept, Shape
  <2>2. /\ Goes(c, {"after"}) /\ calls'[c].new = calls[c].new
        /\ calls'[c].on = 0
    BY <1>4, <2>1, Going DEF Labels, Goto, Kept, CallType
  <2> QED
    BY <1>1, <1>4, <2>2, GoesOn DEF Goes, Labels, InStep
<1> QED
  BY <1>1, <1>2, <1>3, <1>4 DEF StatusStep, LoadStep, Reloaded, InStep, models

\* The bundle is built, or building it is given up.
LEMMA BuildSerial ==
    ASSUME Kept, InStep, Alone, Covered, NEW c \in Callers, Build(c) \/ SweepFails(c)
    PROVE  Alone' /\ InStep' /\ Covered'
<1>0. calls[c].on = 0
  BY DEF Build, SweepFails, Kept, Shape
<1>1. /\ UNCHANGED <<bundle, active, vad, unloads, held, strays, late>>
      /\ calls[c].at \in {"before", "cancel"}
      /\ \A d \in Callers \ {c} : calls'[d] = calls[d]
      /\ calls'[c].at \in {"idle", "cancel"} /\ calls'[c].on = 0
  BY <1>0 DEF Build, SweepFails, uses, models, Kept, CallType, Return, Idle
<1>2. \A d \in Callers \ {c} : calls[d].at = "idle"
  BY <1>1, OthersIdle
<1>3. \A d \in Callers : calls[d].at # "emit" /\ calls'[d].at # "emit"
  BY <1>1, <1>2
<1>4. Covered'
  BY <1>1, <1>3, StaysCovered
<1> QED
  BY <1>1, <1>2, <1>3, <1>4 DEF Alone, Busy, InStep

LEMMA SwapSerial ==
    ASSUME Kept, InStep, Alone, Covered, NEW c \in Callers, SwapPipeline(c)
    PROVE  Alone' /\ InStep' /\ Covered'
<1>1. /\ calls[c].at = "cancel" /\ active' = calls[c].new
      /\ UNCHANGED <<bundle, vad, unloads, held, strays, late>>
      /\ \A d \in Callers \ {c} : calls'[d] = calls[d]
      /\ calls'[c].at = "emit" /\ calls'[c].old = active /\ calls'[c].new = calls[c].new
      /\ calls'[c].on = calls[c].on
  BY DEF SwapPipeline, Swap, models, Kept, CallType
<1>2. \A d \in Callers \ {c} : calls[d].at = "idle"
  BY <1>1, OthersIdle
<1>3. bundle = active /\ vad = active
  BY <1>1, <1>2 DEF InStep
<1>4. \A d \in Callers : calls'[d].on = 0
  BY <1>1, <1>2 DEF Kept, Shape
<1>5. Alone' /\ InStep'
  BY <1>1, <1>2, <1>3, <1>4 DEF Alone, Busy, InStep
<1>6. ASSUME NEW p \in held \cup strays, p[2] # "llm"
      PROVE  Pending(p)' \/ p \in late
  <2>1. CASE p[1] = active
    BY <1>1, <2>1 DEF Pending
  <2>2. CASE p[1] # active
    BY <1>1, <1>2, <1>6, <2>2 DEF Covered, Pending
  <2> QED
    BY <2>1, <2>2
<1> QED
  BY <1>1, <1>5, <1>6 DEF Covered

LEMMA UpdatedSerial ==
    ASSUME Kept, Clean, InStep, Alone, Covered, NEW c \in Callers, Updated(c), Clean'
    PROVE  Alone' /\ InStep' /\ Covered'
<1> DEFINE task == [old |-> calls[c].old, rest |-> <<"vad", "asr", "tts">>]
<1>1. calls[c].at = "emit" /\ unloads' = Append(unloads, task)
  BY DEF Updated, Schedule
<1>2. /\ ~recording /\ vad' = calls[c].new /\ LoadOrNot(c)
      /\ bundle' = calls[c].new /\ UNCHANGED <<active, held, strays, late>>
  <2>1. CASE recording
    <3>1. hist' = [hist EXCEPT !.refused = TRUE]
      BY <2>1 DEF Updated, TakeVad
    <3> QED
      BY <3>1 DEF Clean, NoTrouble
  <2>2. CASE ~recording
    BY <2>2 DEF Updated, TakeVad, models
  <2> QED
    BY <2>1, <2>2
<1>3. \A d \in Callers \ {c} : calls[d].at = "idle" /\ calls'[d] = calls[d]
  BY <1>1, <1>2, OthersIdle DEF LoadOrNot, Goto, Kept
<1>4. /\ calls'[c].at \in {"load", "after"} /\ calls'[c].new = calls[c].new
      /\ calls'[c].on = calls[c].on
  BY <1>2 DEF LoadOrNot, Goto, Kept, CallType
<1>5. calls[c].new = active /\ \A d \in Callers : calls[d].on = 0
  BY <1>1, <1>3 DEF InStep, Kept, Shape
<1>6. Alone'
  BY <1>3 DEF Alone, Busy
<1>7. InStep'
  BY <1>2, <1>3, <1>4, <1>5 DEF InStep
<1>8. ASSUME NEW p \in held \cup strays, p[2] # "llm", p[1] # active, p \notin late
      PROVE  Pending(p)'
  <2>1. p[2] \in {"vad", "asr", "tts"}
    BY <1>8 DEF Covered, Kind
  <2>2. \A i \in DOMAIN unloads : i \in DOMAIN unloads' /\ unloads'[i] = unloads[i]
    BY <1>1 DEF Kept
  <2>3. CASE \E d \in Callers : calls[d].at = "emit" /\ calls[d].old = p[1]
    <3>1. calls[c].old = p[1]
      BY <1>3, <2>3
    <3>2. Len(unloads) + 1 \in DOMAIN unloads' /\ unloads'[Len(unloads) + 1] = task
      BY <1>1 DEF Kept
    <3>3. PICK k \in 1 .. 3 : <<"vad", "asr", "tts">>[k] = p[2]
      BY <2>1
    <3>4. k \in DOMAIN task.rest /\ task.rest[k] = p[2] /\ task.old = p[1]
      BY <3>1, <3>3
    <3> HIDE DEF task
    <3> QED
      BY <3>2, <3>4 DEF Pending
  <2>4. CASE \E i \in DOMAIN unloads :
                /\ unloads[i].old = p[1]
                /\ \E k \in DOMAIN unloads[i].rest : unloads[i].rest[k] = p[2]
    BY <2>2, <2>4 DEF Pending
  <2> QED
    BY <1>8, <2>3, <2>4 DEF Covered, Pending
<1> QED
  BY <1>2, <1>6, <1>7, <1>8 DEF Covered

\* What a task has yet to unload, but the first of it, is left.
LEMMA UnloadSerial ==
    ASSUME Kept, InStep, Alone, Covered, NEW i \in DOMAIN unloads, UnloadNext(i)
    PROVE  Alone' /\ InStep' /\ Covered'
<1>0. /\ unloads \in [1 .. Len(unloads) -> TaskType]
      /\ DOMAIN unloads = 1 .. Len(unloads)
  BY DEF Kept
<1>1. /\ unloads[i].rest \in Seq(Kind) /\ unloads[i].rest # <<>>
      /\ held' = held \ {<<unloads[i].old, Head(unloads[i].rest)>>}
      /\ UNCHANGED <<bundle, active, vad, calls, strays>>
      /\ late \subseteq late'
      /\ <<unloads[i].old, Head(unloads[i].rest)>> \in strays =>
            <<unloads[i].old, Head(unloads[i].rest)>> \in late'
  BY <1>0 DEF UnloadNext, uses, TaskType, Loading
<1>2. /\ DOMAIN unloads' = DOMAIN unloads
      /\ \A j \in DOMAIN unloads : unloads'[j].old = unloads[j].old
      /\ \A j \in DOMAIN unloads \ {i} : unloads'[j] = unloads[j]
      /\ unloads'[i].rest = Tail(unloads[i].rest)
  <2>1. unloads' = [unloads EXCEPT ![i].rest = Tail(unloads[i].rest)]
    BY DEF UnloadNext
  <2>2. \A j \in DOMAIN unloads : unloads[j] \in TaskType
    BY <1>0
  <2> QED
    BY <2>1, <2>2 DEF TaskType
<1>3. Alone' /\ InStep'
  BY <1>1 DEF Alone, Busy, InStep
<1>4. ASSUME NEW p \in held' \cup strays', p[2] # "llm", p[1] # active, p \notin late'
      PROVE  Pending(p)'
  <2>1. /\ Pending(p) /\ p = <<p[1], p[2]>>
        /\ p # <<unloads[i].old, Head(unloads[i].rest)>>
    BY <1>1, <1>4 DEF Covered
  <2>2. CASE \E c \in Callers : calls[c].at = "emit" /\ calls[c].old = p[1]
    BY <1>1, <2>2 DEF Pending
  <2>3. ASSUME NEW j \in DOMAIN unloads, unloads[j].old = p[1],
               NEW k \in DOMAIN unloads[j].rest, unloads[j].rest[k] = p[2]
        PROVE  Pending(p)'
    <3>1. CASE j # i
      BY <1>2, <2>3, <3>1 DEF Pending
    <3>2. CASE j = i
      <4>1. k # 1
        BY <1>1, <1>4, <2>1, <2>3, <3>2
      <4>2. /\ k - 1 \in DOMAIN Tail(unloads[i].rest)
            /\ Tail(unloads[i].rest)[k - 1] = unloads[i].rest[k]
        BY <1>1, <2>3, <3>2, <4>1
      <4>3. i \in DOMAIN unloads' /\ unloads'[i].old = p[1]
        BY <1>2, <2>3, <3>2
      <4>4. k - 1 \in DOMAIN unloads'[i].rest /\ unloads'[i].rest[k - 1] = p[2]
        BY <1>2, <2>3, <3>2, <4>2
      <4> QED
        BY <4>3, <4>4 DEF Pending
    <3> QED
      BY <3>1, <3>2
  <2> QED
    BY <2>1, <2>2, <2>3 DEF Pending
<1>5. held' \subseteq Nat \X Kind
  BY <1>1 DEF Covered
<1> QED
  BY <1>1, <1>3, <1>4, <1>5 DEF Covered

LEMMA SerialStep ==
    ASSUME SerialInv, [Next]_vars
    PROVE  SerialInv'
<1>1. IInv'
  BY NextInv DEF SerialInv
<1>2. CASE UNCHANGED vars
  BY <1>1, <1>2 DEF vars, uses, models, SerialInv, Clean, Alone, Busy, InStep, Covered, Pending
<1>3. ASSUME Next, Clean'
      PROVE  Alone' /\ InStep' /\ Covered'
  <2>1. Kept /\ Clean /\ Alone /\ InStep /\ Covered
    BY <1>3, StaysClean DEF SerialInv, IInv
  <2>2. ASSUME NEW c \in Callers, UpdateUnsent(c)
        PROVE  FALSE
    <3>1. hist'.unsent # {}
      BY <2>1, <2>2 DEF UpdateUnsent, Kept, HistType
    <3> QED
      BY <1>3, <3>1 DEF Clean, NoTrouble
  <2> QED
    BY <1>3, <2>1, <2>2, ReceiveSerial, HearSerial, TurnSerial, ThreadSerial, SpeechSerial,
       StatusSerial, BuildSerial, SwapSerial, UpdatedSerial, UnloadSerial DEF Next
<1> QED
  BY <1>1, <1>2, <1>3 DEF SerialInv

LEMMA AlwaysSerial == Spec => []SerialInv
<1>1. Init => SerialInv
  BY SerialInit
<1>2. SerialInv /\ [Next]_vars => SerialInv'
  BY SerialStep
<1> QED
  BY <1>1, <1>2, PTL DEF Spec

\* Session, pipeline and collector use the same bundle whenever no reload is
\* between its cancellation and its event, for any number of reloads that do
\* not overlap, and of which none was refused or lost (session.py:292-330).
THEOREM ReloadsAgree == Spec => []SessionAgrees
<1>1. SerialInv => SessionAgrees
  BY DEF SerialInv, SessionAgrees, InStep
<1> QED
  BY <1>1, AlwaysSerial, PTL

\* Under the same conditions, nothing that a replaced VAD, ASR or TTS had loaded, by
\* a frame, a turn, a TTS task or a thread that outlived them, is left when the
\* background tasks are done, and nothing loads it again, except that a thread may
\* that was at work while the provider was unloaded (pipeline.py:195-197,
\* registry.py:208-240, kokoro_onnx.py:180-190, faster_whisper.py:268-278).
THEOREM ReplacedIsReleased == Spec => []ReplacedReleased
<1>1. SerialInv => ReplacedReleased
  <2> SUFFICES ASSUME SerialInv, Clean, Quiet, NEW p \in held, p[2] # "llm"
               PROVE  p[1] = active \/ p \in late
    BY DEF ReplacedReleased
  <2>1. ~Pending(p)
    <3>1. \A c \in Callers : calls[c].at # "emit"
      BY DEF Quiet, Busy
    <3>2. \A i \in DOMAIN unloads : unloads[i].rest = <<>>
      BY DEF Quiet
    <3> QED
      BY <3>1, <3>2 DEF Pending
  <2> QED
    BY <2>1 DEF SerialInv, Covered
<1> QED
  BY <1>1, AlwaysSerial, PTL
=============================================================================
