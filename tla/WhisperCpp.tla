----------------------------- MODULE WhisperCpp -----------------------------
(***************************************************************************)
(* WhisperCppProvider of providers/whisper_cpp.py: utterances are posted   *)
(* to one of two endpoints, of which a whisper-server has one or both; the *)
(* provider finds out which, and remembers it.                             *)
(***************************************************************************)
EXTENDS Integers, Sequences

CONSTANTS Posts,  \* calls of transcribe_audio, check_status and unload
          Moves   \* bound: times that the server is replaced by another build

Inference == "/inference"
OpenAI == "/v1/audio/transcriptions"
Endpoints == {Inference, OpenAI}
Unknown == "none"

VARIABLES
    whisperd,  \* external: whether the server answers, and its endpoints
    moves,     \* bound: times it was replaced so far
    endpoint,  \* _endpoint
    unwell,    \* _last_error is set
    posts,     \* posts[p]: where call p is, the endpoints it has yet to try
               \* and the one it posts to
    guessed,   \* history: an endpoint was not tried because of a failure, or
               \* the server was replaced
    checked    \* history: check_status has chosen the endpoint

whispercppVars == <<whisperd, moves, endpoint, unwell, posts, guessed, checked>>

\* __init__
Init ==
    /\ whisperd \in [up : BOOLEAN, has : (SUBSET Endpoints) \ {{}}]
    /\ moves = 0
    /\ endpoint = Unknown
    /\ unwell = FALSE
    /\ posts = [p \in Posts |-> [at |-> "idle", try |-> <<>>, to |-> Unknown]]
    /\ guessed = FALSE /\ checked = FALSE

Goto(p, label) == posts' = [posts EXCEPT ![p].at = label]
history == <<guessed, checked>>

\* The server is started, stopped or replaced.
ServerMoves ==
    /\ moves < Moves /\ moves' = moves + 1
    /\ whisperd' \in [up : BOOLEAN, has : (SUBSET Endpoints) \ {{}}]
    /\ guessed' = (guessed \/ whisperd'.has # whisperd.has)
    /\ UNCHANGED <<endpoint, unwell, posts, checked>>

\* unload forgets the endpoint, and then it does what check_status does.
Unload(p) ==
    /\ posts[p].at = "idle"
    /\ endpoint' = Unknown
    /\ Goto(p, "health")
    /\ UNCHANGED <<whisperd, moves, unwell, history>>

Check(p) ==
    /\ posts[p].at = "idle"
    /\ Goto(p, "health")
    /\ UNCHANGED <<whisperd, moves, endpoint, unwell, history>>

\* _http_check_status: a server that answers /health is taken to have
\* /inference.
Health(p) ==
    /\ posts[p].at = "health"
    /\ \/ whisperd.up /\ endpoint' = Inference /\ unwell' = FALSE /\ checked' = TRUE
       \/ endpoint' = Unknown /\ unwell' = TRUE /\ UNCHANGED checked
    /\ Goto(p, "returned")
    /\ UNCHANGED <<whisperd, moves, guessed>>

-----------------------------------------------------------------------------
\* transcribe_audio: it posts to the endpoint that is known, or tries them.
Transcribe(p) ==
    /\ posts[p].at = "idle"
    /\ posts' = [posts EXCEPT ![p] =
                    IF endpoint # Unknown
                    THEN [at |-> "queued", try |-> <<>>, to |-> endpoint]
                    ELSE [at |-> "resolving", try |-> <<Inference, OpenAI>>, to |-> Unknown]]
    /\ UNCHANGED <<whisperd, moves, endpoint, unwell, history>>

Resolve(p, found) ==
    /\ endpoint' = found
    /\ posts' = [posts EXCEPT ![p] = [at |-> "queued", try |-> <<>>, to |-> found]]

\* Mutant of Exists: only an answer with status 200 counts, which an endpoint
\* that accepts nothing but POST does not give.
ExistsIf200(candidate) == FALSE

\* The answer has status 200 or 405.
Exists(candidate) == whisperd.up /\ candidate \in whisperd.has

\* _resolve_endpoint: a candidate answers that it exists, or else the next one
\* is tried, and after the last one the first is settled on.
Try(p) ==
    /\ posts[p].at = "resolving"
    /\ LET candidate == Head(posts[p].try)
           rest == Tail(posts[p].try)
       IN  IF Exists(candidate) THEN Resolve(p, candidate) /\ UNCHANGED guessed
           ELSE /\ IF rest # <<>>
                   THEN posts' = [posts EXCEPT ![p].try = rest] /\ UNCHANGED endpoint
                   ELSE Resolve(p, Inference)
                /\ guessed' = (guessed \/ ~whisperd.up)
    /\ UNCHANGED <<whisperd, moves, unwell, checked>>

\* A candidate times out.
TryFails(p) ==
    /\ posts[p].at = "resolving"
    /\ IF Tail(posts[p].try) # <<>>
       THEN posts' = [posts EXCEPT ![p].try = Tail(@)] /\ UNCHANGED endpoint
       ELSE Resolve(p, Inference)
    /\ guessed' = TRUE
    /\ UNCHANGED <<whisperd, moves, unwell, checked>>

\* The progress callback has returned.
Send(p) ==
    /\ posts[p].at = "queued"
    /\ Goto(p, "posted")
    /\ UNCHANGED <<whisperd, moves, endpoint, unwell, history>>

\* A transcript, or an error, which leaves the endpoint as it is.
Answered(p) ==
    /\ posts[p].at = "posted"
    /\ \/ whisperd.up /\ posts[p].to \in whisperd.has /\ Goto(p, "returned") /\ UNCHANGED unwell
       \/ Goto(p, "raised") /\ unwell' = TRUE
    /\ UNCHANGED <<whisperd, moves, endpoint, history>>

Next ==
    \/ ServerMoves
    \/ \E p \in Posts :
        \/ Unload(p) \/ Check(p) \/ Health(p)
        \/ Transcribe(p) \/ Try(p) \/ TryFails(p) \/ Send(p) \/ Answered(p)

Spec == Init /\ [][Next]_whispercppVars

-----------------------------------------------------------------------------
(* Properties *)

\* The variables have their types.
TypeOK ==
    /\ whisperd \in [up : BOOLEAN, has : SUBSET Endpoints]
    /\ moves \in 0 .. Moves
    /\ endpoint \in Endpoints \cup {Unknown} /\ unwell \in BOOLEAN
    /\ \A p \in Posts :
        /\ posts[p].at \in {"idle", "health", "resolving", "queued", "posted", "returned",
                            "raised"}
        /\ posts[p].to \in Endpoints \cup {Unknown}
        /\ posts[p].at = "resolving" => posts[p].try # <<>>
    /\ guessed \in BOOLEAN /\ checked \in BOOLEAN

Exposed == \A p \in Posts : posts[p].at = "posted" => posts[p].to \in whisperd.has

\* What _resolve_endpoint finds, and every later call takes from it, is an
\* endpoint the server has, if it answered when it was asked, the server is
\* the same, and no status check has intervened.
ResolvedExposed == ~guessed /\ ~checked => Exposed
=============================================================================
