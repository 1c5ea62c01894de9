----------------------------- MODULE SpeechQueue -----------------------------
(***************************************************************************)
(* What SpeechPipeline promises a caller that awaits each of its calls:    *)
(* one speech queue per mode.  The chunks of the current turn are spoken   *)
(* one by one in the order they were handed over; a new turn, or a         *)
(* cancellation, empties the queue and silences the voice at once; nothing *)
(* else drops a chunk.                                                     *)
(***************************************************************************)
EXTENDS Naturals

CONSTANTS Modes,     \* one queue per mode
          MaxTasks   \* bound: chunks ever handed over

VARIABLES
    turn,      \* turn[m]: the current turn of mode m
    handed,    \* number of chunks handed over; chunks are 1..handed
    queue,     \* queue[m]: the chunks of mode m that wait, with their turns
    speaking   \* speaking[m]: the chunk mode m speaks, if any

vars == <<turn, handed, queue, speaking>>

Chunk == [id : 1 .. MaxTasks, turn : Nat]

Init ==
    /\ turn = [m \in Modes |-> 0]
    /\ handed = 0
    /\ queue = [m \in Modes |-> {}]
    /\ speaking = [m \in Modes |-> {}]

\* A chunk of the current turn joins the queue.
Hand(m) ==
    /\ handed < MaxTasks
    /\ handed' = handed + 1
    /\ queue' = [queue EXCEPT ![m] = @ \cup {[id |-> handed + 1, turn |-> turn[m]]}]
    /\ UNCHANGED <<turn, speaking>>

\* The oldest chunk is spoken, once nothing of its mode speaks.
Begin(m) ==
    /\ speaking[m] = {}
    /\ \E k \in queue[m] :
          /\ \A l \in queue[m] : k.id <= l.id
          /\ queue' = [queue EXCEPT ![m] = @ \ {k}]
          /\ speaking' = [speaking EXCEPT ![m] = {k}]
    /\ UNCHANGED <<turn, handed>>

End(m) ==
    /\ speaking[m] # {}
    /\ speaking' = [speaking EXCEPT ![m] = {}]
    /\ UNCHANGED <<turn, handed, queue>>

Silence(m) ==
    /\ queue' = [queue EXCEPT ![m] = {}]
    /\ speaking' = [speaking EXCEPT ![m] = {}]

Flush(m) == Silence(m) /\ UNCHANGED <<turn, handed>>

NewTurn(m) ==
    /\ turn' = [turn EXCEPT ![m] = @ + 1]
    /\ Silence(m)
    /\ UNCHANGED handed

Next == \E m \in Modes : Hand(m) \/ Begin(m) \/ End(m) \/ Flush(m) \/ NewTurn(m)

Spec == Init /\ [][Next]_vars
=============================================================================
