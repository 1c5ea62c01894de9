-------------------------- MODULE SpeakerEchoGuard --------------------------
(***************************************************************************)
(* The echo guard of js/speaker-echo-guard.js: no microphone frame is sent *)
(* while the speaker plays and for TailDelay ticks more.                   *)
(*                                                                         *)
(* Its steps take the drain estimate they read, the ticks of audio that    *)
(* are still to play.  What its modes do to the capture belongs to the     *)
(* microphone; here a frame is sent exactly while the guard is idling.     *)
(***************************************************************************)
EXTENDS Timers

CONSTANTS TailDelay,  \* tailDelayMs
          Fallback    \* FALLBACK_TIMEOUT_MS

ASSUME GuardAssumption ==
    /\ TailDelay \in Nat \ {0}
    /\ Fallback \in Nat
    /\ Fallback > TailDelay

VARIABLES
    guard,    \* _state
    tail,     \* _tailTimer
    fallback  \* _fallbackTimer

guardVars == <<guard, tail, fallback>>

GuardInit == guard = "idling" /\ tail = Off /\ fallback = Off

\* _enterSuppressed
EnterSuppressed == guard' = "suppressed" /\ tail' = Off /\ fallback' = Off

\* Mutant of StartTail: the fallback is forgotten.
StartTailOnly(drain) ==
    /\ guard' = "tail"
    /\ tail' = drain + TailDelay
    /\ fallback' = Off

\* _scheduleResume of a guard that is suppressed
StartTail(drain) ==
    /\ guard' = "tail"
    /\ tail' = drain + TailDelay
    /\ fallback' = drain + Fallback

\* _scheduleResume: in the tail, or idling, it does nothing.
ScheduleResume(drain) ==
    IF guard = "suppressed" THEN StartTail(drain) ELSE UNCHANGED guardVars

\* onTtsEvent of a tts.audio
GuardOnAudio(final, drain) == IF final THEN StartTail(drain) ELSE EnterSuppressed

\* _resume, and release
Resume == guard' = "idling" /\ tail' = Off /\ fallback' = Off

\* Mutant of TailFires: the drain is not looked at again.
TailFiresBlindly(drain) == tail = 0 /\ Resume

\* The tail timer: what was scheduled while it ran is waited for as well.
TailFires(drain) ==
    /\ tail = 0
    /\ IF drain > 0
       THEN tail' = drain + TailDelay /\ UNCHANGED <<guard, fallback>>
       ELSE Resume

FallbackFires == fallback = 0 /\ Resume

GuardTick ==
    /\ tail # 0 /\ fallback # 0
    /\ tail' = Sooner(tail)
    /\ fallback' = Sooner(fallback)
    /\ UNCHANGED guard

GuardTypeOK ==
    /\ guard \in {"idling", "suppressed", "tail"}
    /\ tail \in Timer
    /\ fallback \in Timer
=============================================================================
