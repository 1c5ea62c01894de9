------------------------------ MODULE MCSession ------------------------------
(***************************************************************************)
(* Small instances of Session: every kind has a provider with a model, one *)
(* that is mocked and, for the ASR, one whose package is not installed.    *)
(***************************************************************************)
EXTENDS Session

RegisteredNames ==
    [k \in Kind |-> IF k = "asr" THEN {"mock", "model", "other"} ELSE {"mock", "model"}]

\* The ASR is not installed; or it is all that has a model; and a mistake.
SmallConfigs ==
    {[k \in {"vad", "asr", "tts"} |-> IF k = "asr" THEN "other" ELSE "model"],
     [k \in {"asr"} |-> "model"],
     [k \in {"tts"} |-> "bad"]}

\* Bound: providers that threads load for no call.
MaxStrays == 2

\* Threads are followed as long as calls are serial and succeed: only of these is
\* something claimed of models, and no other part of a state depends on threads.
Followed == IF Clean THEN Cardinality(strays) <= MaxStrays
            ELSE Loading = {} /\ late = {} /\ ~speech

\* Only the LLM has a client to close.
LLMConfigs == {[k \in {"llm"} |-> "model"]}
=============================================================================
