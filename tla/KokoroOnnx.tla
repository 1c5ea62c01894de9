----------------------------- MODULE KokoroOnnx -----------------------------
(***************************************************************************)
(* KokoroOnnxProvider of providers/kokoro_onnx.py.  A stream of speech and *)
(* a load both run _ensure_model in a thread of the executor, where it     *)
(* downloads what the cache directory does not have, to a .part file that  *)
(* it renames when it is complete.  The thread outlives a stream that is   *)
(* cancelled.  The process may crash; the cache directory stays.           *)
(*                                                                         *)
(* A file is an inode with the pieces of the asset that it has right: two  *)
(* threads that open the same path for writing write to the same inode.    *)
(***************************************************************************)
EXTENDS Integers, Sequences, FiniteSets

CONSTANTS Streams,   \* calls of stream_audio and load, each made once at most
          Assets,    \* sequence: the files that the model is made of
          Pieces,    \* number of pieces in which an asset is received
          MaxChunks  \* bound: pieces of audio that a stream generates

VARIABLES
    streams,  \* streams[s]: where call s is, and the audio it has passed on
    loaders,  \* loaders[s]: where its thread is in _ensure_model
    disk,     \* disk[path]: the inode that the path names
    content,  \* content[inode]: the pieces it has right
    kokoro,   \* _model and _g2p are set
    raced     \* history: two threads have downloaded the same asset at a time

kokoroVars == <<streams, loaders, disk, content, kokoro, raced>>

Nowhere == <<>>
Asset == 1 .. Len(Assets)
Inode == Streams \X Asset

Unloaded == [model |-> FALSE, g2p |-> FALSE]
NoStream == [at |-> "idle", made |-> 0, held |-> 0, out |-> <<>>]
NoThread == [at |-> "none", asset |-> 1, got |-> 0, inode |-> Nowhere]

Init ==
    /\ streams = [s \in Streams |-> NoStream]
    /\ loaders = [s \in Streams |-> NoThread]
    /\ disk = [path \in {"part", "target"} \X Asset |-> Nowhere]
    /\ content = [inode \in Inode |-> {}]
    /\ kokoro = Unloaded
    /\ raced = FALSE

-----------------------------------------------------------------------------
(* _ensure_model, in a thread *)

Downloading(a) == {s \in Streams : loaders[s].at = "writing" /\ loaders[s].asset = a}

Thread(s, to) == loaders' = [loaders EXCEPT ![s].at = to]

\* The thread begins, and ends at once if there is a model.
EnsureModel(s) ==
    /\ loaders[s].at = "queued"
    /\ Thread(s, IF kokoro.model THEN "done" ELSE "asset")
    /\ UNCHANGED <<streams, disk, content, kokoro, raced>>

\* _ensure_model goes on to the next asset, and after the last to the model.
NextAsset(s) ==
    loaders' = [loaders EXCEPT ![s] =
                    IF loaders[s].asset < Len(Assets)
                    THEN [NoThread EXCEPT !.at = "asset", !.asset = @ + loaders[s].asset]
                    ELSE [NoThread EXCEPT !.at = "construct"]]

\* Mutant of TempName: the asset is written where it is looked for.
TempNameIsTarget(a) == <<"target", a>>

TempName(a) == <<"part", a>>

\* _download_asset takes the file that exists; or else it opens the temporary
\* file, which makes one or empties the one that is there.
DownloadAsset(s) ==
    /\ loaders[s].at = "asset"
    /\ LET a == loaders[s].asset
           inode == IF disk[TempName(a)] = Nowhere THEN <<s, a>> ELSE disk[TempName(a)]
       IN  IF disk[<<"target", a>>] # Nowhere
           THEN NextAsset(s) /\ UNCHANGED <<disk, content, raced>>
           ELSE /\ disk' = [disk EXCEPT ![TempName(a)] = inode]
                /\ content' = [content EXCEPT ![inode] = {}]
                /\ loaders' = [loaders EXCEPT ![s].at = "writing", ![s].got = 0,
                                              ![s].inode = inode]
                /\ raced' = (raced \/ Downloading(a) # {})
    /\ UNCHANGED <<streams, kokoro>>

\* A piece is received, and written where the ones before it end.
WritePiece(s) ==
    /\ loaders[s].at = "writing" /\ loaders[s].got < Pieces
    /\ content' = [content EXCEPT ![loaders[s].inode] = @ \cup {loaders[s].got + 1}]
    /\ loaders' = [loaders EXCEPT ![s].got = @ + 1]
    /\ UNCHANGED <<streams, disk, kokoro, raced>>

\* The response has ended, and the file is closed.
Complete(s) == loaders[s].got = Pieces

\* The temporary file is renamed, whoever made it; it may be gone.
Publish(s) ==
    /\ loaders[s].at = "writing" /\ Complete(s)
    /\ LET a == loaders[s].asset
       IN  IF disk[TempName(a)] = Nowhere
           THEN Thread(s, "failed") /\ UNCHANGED disk
           ELSE /\ disk' = [disk EXCEPT ![TempName(a)] = Nowhere,
                                        ![<<"target", a>>] = disk[TempName(a)]]
                /\ NextAsset(s)
    /\ UNCHANGED <<streams, content, kokoro, raced>>

\* The server answers with an error, or the connection breaks.
DownloadFails(s) ==
    /\ loaders[s].at = "writing" /\ loaders[s].got < Pieces
    /\ Thread(s, "failed")
    /\ UNCHANGED <<streams, disk, content, kokoro, raced>>

\* The model is made and given its session; the first step may raise, or the
\* second, which leaves the model.
Construct(s) ==
    /\ loaders[s].at = "construct"
    /\ \/ Thread(s, "done") /\ kokoro' = [kokoro EXCEPT !.model = TRUE]
       \/ /\ Thread(s, "failed")
          /\ \E model \in {kokoro.model, TRUE} : kokoro' = [kokoro EXCEPT !.model = model]
    /\ UNCHANGED <<streams, disk, content, raced>>

-----------------------------------------------------------------------------
(* stream_audio_with_progress and load *)

Goto(s, label) == streams' = [streams EXCEPT ![s].at = label]
OnDisk == <<disk, content, raced>>

Request(s) ==
    /\ streams[s].at = "idle"
    /\ \E call \in {"loading", "speaking"} : Goto(s, call)
    /\ loaders' = [loaders EXCEPT ![s].at = "queued"]
    /\ UNCHANGED <<OnDisk, kokoro>>

\* The thread has ended: a load goes on to _ensure_g2p, a stream to the
\* generation lock.
Loaded(s) ==
    /\ streams[s].at \in {"loading", "speaking"}
    /\ \/ loaders[s].at = "failed" /\ Goto(s, "raised")
       \/ loaders[s].at = "done" /\ streams[s].at = "loading" /\ Goto(s, "g2p")
       \/ loaders[s].at = "done" /\ streams[s].at = "speaking" /\ Goto(s, "lock")
    /\ UNCHANGED <<loaders, OnDisk, kokoro>>

\* load has preloaded the phonemizer.
Preloaded(s) ==
    /\ streams[s].at = "g2p"
    /\ kokoro' = [kokoro EXCEPT !.g2p = TRUE]
    /\ Goto(s, "returned")
    /\ UNCHANGED <<loaders, OnDisk>>

TakeLock(s) ==
    /\ streams[s].at = "lock"
    /\ \A q \in Streams : streams[q].at \notin {"phonemizing", "generating"}
    /\ Goto(s, "phonemizing")
    /\ UNCHANGED <<loaders, OnDisk, kokoro>>

\* _phonemize_english has returned, or raised; without a model the assertion
\* fails.
Phonemized(s) ==
    /\ streams[s].at = "phonemizing"
    /\ \/ Goto(s, IF kokoro.model THEN "generating" ELSE "raised")
          /\ kokoro' = [kokoro EXCEPT !.g2p = TRUE]
       \/ Goto(s, "raised") /\ UNCHANGED kokoro
    /\ UNCHANGED <<loaders, OnDisk>>

\* Mutant of PassOn: every chunk is passed on as it comes.
PassOnAtOnce(stream, n) == [stream EXCEPT !.out = Append(@, [chunk |-> n, final |-> FALSE])]

\* A chunk is held back until the next one comes.
PassOn(stream, n) ==
    [stream EXCEPT !.held = n,
                   !.out = IF stream.held = 0 THEN @
                           ELSE Append(@, [chunk |-> stream.held, final |-> FALSE])]

\* The model generates audio, which may be empty.
Generate(s) ==
    /\ streams[s].at = "generating" /\ streams[s].made < MaxChunks
    /\ \/ UNCHANGED streams
       \/ LET made == streams[s].made + 1
          IN  streams' = [streams EXCEPT ![s] = PassOn([@ EXCEPT !.made = made], made)]
    /\ UNCHANGED <<loaders, OnDisk, kokoro>>

\* The model has no more; the chunk that is held is the last.
Finish(s) ==
    /\ streams[s].at = "generating"
    /\ streams' = [streams EXCEPT ![s].at = "returned",
                       ![s].out = IF streams[s].held = 0 THEN @
                                  ELSE Append(@, [chunk |-> streams[s].held, final |-> TRUE])]
    /\ UNCHANGED <<loaders, OnDisk, kokoro>>

\* The task of the stream is cancelled, at any await; the thread is not.
Cancel(s) ==
    /\ streams[s].at \in {"speaking", "lock", "phonemizing", "generating"}
    /\ Goto(s, "cancelled")
    /\ UNCHANGED <<loaders, OnDisk, kokoro>>

Unload ==
    /\ kokoro' = Unloaded
    /\ UNCHANGED <<streams, loaders, OnDisk>>

\* The process ends, and another one starts.
Crash ==
    /\ streams' = [s \in Streams |-> IF streams[s].at = "idle" THEN NoStream
                                     ELSE [NoStream EXCEPT !.at = "crashed"]]
    /\ loaders' = [s \in Streams |-> NoThread]
    /\ kokoro' = Unloaded
    /\ UNCHANGED OnDisk

Next ==
    \/ Unload \/ Crash
    \/ \E s \in Streams :
        \/ Request(s) \/ Loaded(s) \/ Preloaded(s) \/ TakeLock(s) \/ Phonemized(s)
        \/ Generate(s) \/ Finish(s) \/ Cancel(s)
        \/ EnsureModel(s) \/ DownloadAsset(s) \/ WritePiece(s) \/ Publish(s)
        \/ DownloadFails(s) \/ Construct(s)

Spec == Init /\ [][Next]_kokoroVars

-----------------------------------------------------------------------------
(* Properties *)

\* The variables have their types.
TypeOK ==
    /\ \A s \in Streams :
        /\ streams[s].at \in {"idle", "loading", "speaking", "g2p", "lock", "phonemizing",
                              "generating", "returned", "raised", "cancelled", "crashed"}
        /\ streams[s].made \in 0 .. MaxChunks /\ streams[s].held \in 0 .. MaxChunks
        /\ loaders[s] \in [at : {"none", "queued", "asset", "writing", "construct", "done",
                                 "failed"},
                           asset : Asset, got : 0 .. Pieces, inode : Inode \cup {Nowhere}]
    /\ disk \in [{"part", "target"} \X Asset -> Inode \cup {Nowhere}]
    /\ content \in [Inode -> SUBSET (1 .. Pieces)]
    /\ kokoro \in [model : BOOLEAN, g2p : BOOLEAN]
    /\ raced \in BOOLEAN

\* The file that later starts take without a check (kokoro_onnx.py:355) is the
\* whole asset, whatever was cancelled, broke off or crashed before it was
\* there, as long as no two threads downloaded it at the same time.
PublishedWhole ==
    ~raced => \A a \in Asset : disk[<<"target", a>>] # Nowhere =>
                  content[disk[<<"target", a>>]] = 1 .. Pieces

\* A stream that ends passes on all the audio that was generated, once and in
\* order, and marks the last chunk as final and no other (protocols.py:186).
SpokenWhole ==
    \A s \in Streams :
        /\ \A i \in DOMAIN streams[s].out :
              /\ streams[s].out[i].chunk = i
              /\ streams[s].out[i].final => i = streams[s].made
        /\ streams[s].at = "returned" /\ streams[s].made > 0 =>
              /\ Len(streams[s].out) = streams[s].made
              /\ streams[s].out[streams[s].made].final
=============================================================================
