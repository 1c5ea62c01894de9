------------------------------ MODULE LlamaCpp ------------------------------
(***************************************************************************)
(* LlamaCppProvider of providers/llamacpp.py, and its subclass for other   *)
(* servers in openai_compat.py, with model "auto": the name of the model   *)
(* is asked of the server once and kept until a stream fails or a check    *)
(* sees another one, and all streams share one HTTP client.                *)
(***************************************************************************)
EXTENDS Integers, FiniteSets

CONSTANTS Turns,  \* coroutines that call the provider, again and again
          Names,  \* names of models
          Swaps   \* bound: times that the server is given another model

VARIABLES
    llamad,    \* external: the model that the server has, and whether it
               \* refuses a request for another
    swaps,     \* bound: times it was changed so far
    useHealth, \* use_health_endpoint: FALSE in the subclass
    resolved,  \* _resolved_model
    client,    \* _stream_client
    open,      \* clients that are not closed
    turns      \* turns[t]: where call t is, the name it has and its client

llamaVars == <<llamad, swaps, useHealth, resolved, client, open, turns>>

Unknown == "none"
NoClient == 0
Client == 1 .. Cardinality(Turns) + 1
Idle == [at |-> "idle", name |-> Unknown, client |-> NoClient]

\* __init__, with model "auto"
Init ==
    /\ llamad \in [name : Names, strict : BOOLEAN]
    /\ swaps = 0
    /\ useHealth \in BOOLEAN
    /\ resolved = Unknown
    /\ client = NoClient
    /\ open = {}
    /\ turns = [t \in Turns |-> Idle]

Return(t) == turns' = [turns EXCEPT ![t] = Idle]
Goto(t, label) == turns' = [turns EXCEPT ![t].at = label]
outside == <<llamad, swaps, useHealth>>

ServerSwaps ==
    /\ swaps < Swaps /\ swaps' = swaps + 1
    /\ \E name \in Names : llamad' = [llamad EXCEPT !.name = name]
    /\ UNCHANGED <<useHealth, resolved, client, open, turns>>

-----------------------------------------------------------------------------
(* stream_response *)

\* A client that no call refers to stands for a new one.
NewClient == CHOOSE n \in Client :
                 n \notin open \cup {client} \cup {turns[t].client : t \in Turns}

\* Mutant of EnsureClient: every stream has a client of its own.
EnsureNewClient == NewClient

\* _ensure_stream_client
EnsureClient == IF client = NoClient THEN NewClient ELSE client

\* The request is sent, with the name and over the client there is.
Stream(t, name) ==
    /\ client' = EnsureClient
    /\ open' = open \cup {client'}
    /\ turns' = [turns EXCEPT ![t] = [at |-> "stream", name |-> name, client |-> client']]

\* A call whose name is not known asks for it first.
Begin(t) ==
    /\ turns[t].at = "idle"
    /\ IF resolved = Unknown
       THEN Goto(t, "resolve") /\ UNCHANGED <<client, open>>
       ELSE Stream(t, resolved)
    /\ UNCHANGED <<outside, resolved>>

\* _resolve_model: the server answers with the model it has now, or the call
\* raises.
Resolve(t) ==
    /\ turns[t].at = "resolve"
    /\ \/ turns' = [turns EXCEPT ![t].at = "resolved", ![t].name = llamad.name]
       \/ Return(t)
    /\ UNCHANGED <<outside, resolved, client, open>>

\* The answer arrives.
Resolved(t) ==
    /\ turns[t].at = "resolved"
    /\ resolved' = turns[t].name
    /\ Stream(t, turns[t].name)
    /\ UNCHANGED outside

Accepted(t) ==
    /\ turns[t].client \in open
    /\ llamad.strict => turns[t].name = llamad.name

\* The stream ends, or its consumer is cancelled: the name is kept.
StreamEnds(t) ==
    /\ turns[t].at = "stream"
    /\ Return(t)
    /\ UNCHANGED <<outside, resolved, client, open>>

\* Mutant of Forget: the name is kept when a stream fails.
ForgetNothing == UNCHANGED resolved

\* The except clause of stream_response.
Forget == resolved' = Unknown

\* The connection fails or was closed.
StreamFails(t) ==
    /\ turns[t].at = "stream"
    /\ Forget
    /\ Return(t)
    /\ UNCHANGED <<outside, client, open>>

\* The server refuses a name that it no longer has.
Refused(t) ==
    /\ turns[t].at = "stream"
    /\ turns[t].client \in open /\ ~Accepted(t)
    /\ Forget
    /\ Return(t)
    /\ UNCHANGED <<outside, client, open>>

-----------------------------------------------------------------------------
(* check_status and unload *)

Check(t) ==
    /\ turns[t].at = "idle"
    /\ Goto(t, IF useHealth THEN "health" ELSE "models")
    /\ UNCHANGED <<outside, resolved, client, open>>

\* _http_check_status: an answer that is missing or not well ends it.
Health(t) ==
    /\ turns[t].at = "health"
    /\ Goto(t, "models") \/ Return(t)
    /\ UNCHANGED <<outside, resolved, client, open>>

ListModels(t) ==
    /\ turns[t].at = "models"
    /\ \/ turns' = [turns EXCEPT ![t].at = "listed", ![t].name = llamad.name]
       \/ Return(t)
    /\ UNCHANGED <<outside, resolved, client, open>>

\* A name that is not the one listed is forgotten.
Listed(t) ==
    /\ turns[t].at = "listed"
    /\ resolved' = IF resolved # turns[t].name THEN Unknown ELSE resolved
    /\ Return(t)
    /\ UNCHANGED <<outside, client, open>>

\* unload: the provider has no client from here on, and this one is closed.
TakeClient(t) ==
    /\ client' = NoClient
    /\ turns' = [turns EXCEPT ![t] = [Idle EXCEPT !.at = "close", !.client = client]]

Unload(t) ==
    /\ turns[t].at = "idle" /\ client # NoClient
    /\ TakeClient(t)
    /\ UNCHANGED <<outside, resolved, open>>

Closed(t) ==
    /\ turns[t].at = "close"
    /\ open' = open \ {turns[t].client}
    /\ Return(t)
    /\ UNCHANGED <<outside, resolved, client>>

Next ==
    \/ ServerSwaps
    \/ \E t \in Turns :
        \/ Begin(t) \/ Resolve(t) \/ Resolved(t)
        \/ StreamEnds(t) \/ StreamFails(t) \/ Refused(t)
        \/ Check(t) \/ Health(t) \/ ListModels(t) \/ Listed(t) \/ Unload(t) \/ Closed(t)

Spec == Init /\ [][Next]_llamaVars

-----------------------------------------------------------------------------
(* Properties *)

\* The variables have their types.
TypeOK ==
    /\ llamad \in [name : Names, strict : BOOLEAN]
    /\ swaps \in 0 .. Swaps /\ useHealth \in BOOLEAN
    /\ resolved \in Names \cup {Unknown}
    /\ client \in Client \cup {NoClient} /\ open \subseteq Client
    /\ turns \in [Turns -> [at : {"idle", "resolve", "resolved", "stream", "health", "models",
                                  "listed", "close"},
                            name : Names \cup {Unknown}, client : Client \cup {NoClient}]]

\* "reuse the TCP connection ... closed in unload()" (llamacpp.py:51-53): a
\* client that is open is the provider's own, or an unload is closing it,
\* however streams fail, are cancelled and overlap with unloads.
ClientsKept ==
    open \subseteq {client} \cup {turns[t].client : t \in {u \in Turns : turns[u].at = "close"}}

\* The stale name heals: once the server keeps its model, requests stop being
\* refused for the name, whichever calls were under way when it changed.
RefusalsCease == <>[][\A t \in Turns : ~Refused(t)]_llamaVars
=============================================================================
