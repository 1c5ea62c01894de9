--------------------------- MODULE KokoroOnnxProofs ---------------------------
(***************************************************************************)
(* For any number of streams, assets and pieces: what _download_asset has  *)
(* published is whole, unless two threads raced for it, and a stream       *)
(* passes on all its audio.                                                *)
(***************************************************************************)
EXTENDS KokoroOnnx, SequenceTheorems, TLAPS

\* A model is made of some files, which come in some pieces, and a stream makes
\* some number of chunks at most.
Sizes == Len(Assets) \in Nat \ {0} /\ Pieces \in Nat /\ MaxChunks \in Nat

ThreadType == [at : {"none", "queued", "asset", "writing", "construct", "done", "failed"},
               asset : Asset, got : 0 .. Pieces, inode : Inode \cup {Nowhere}]

Part(a) == disk[<<"part", a>>]
Target(a) == disk[<<"target", a>>]
Writes(s, a) == loaders[s].at = "writing" /\ loaders[s].asset = a

-----------------------------------------------------------------------------
(* The cache directory *)

Typed ==
    /\ loaders \in [Streams -> ThreadType]
    /\ disk \in [{"part", "target"} \X Asset -> Inode \cup {Nowhere}]
    /\ content \in [Inode -> SUBSET (1 .. Pieces)]
    /\ raced \in BOOLEAN

\* An inode is of one asset.
OfAsset ==
    /\ \A a \in Asset : /\ Part(a) # Nowhere => Part(a)[2] = a
                        /\ Target(a) # Nowhere => Target(a)[2] = a
    /\ \A s \in Streams : loaders[s].at = "writing" =>
            loaders[s].inode \in Inode /\ loaders[s].inode[2] = loaders[s].asset

\* Nothing is downloaded once it is there.
NoPart == \A a \in Asset : Target(a) # Nowhere => Part(a) = Nowhere

\* One thread writes what is on the disk, and has written all it got.
Alone ==
    ~raced =>
        /\ \A s, t \in Streams, a \in Asset : Writes(s, a) /\ Writes(t, a) => s = t
        /\ \A s \in Streams, a \in Asset : Writes(s, a) =>
                /\ Part(a) = loaders[s].inode
                /\ content[loaders[s].inode] = 1 .. loaders[s].got

DInv == Typed /\ OfAsset /\ NoPart /\ Alone /\ PublishedWhole

LEMMA InodeIsSomewhere == Nowhere \notin Inode
<1> SUFFICES ASSUME NEW s \in Streams, NEW a \in Asset, Nowhere = <<s, a>>
             PROVE  FALSE
  BY DEF Inode
<1>1. Len(<<s, a>>) = 2 /\ Len(<<>>) = 0
  OBVIOUS
<1> QED
  BY <1>1 DEF Nowhere

LEMMA DiskInit ==
    ASSUME Sizes, Init
    PROVE  DInv
<1>1. NoThread \in ThreadType /\ NoThread.at = "none"
  BY DEF Sizes, NoThread, ThreadType, Asset
<1>2. Typed /\ \A s \in Streams : loaders[s].at = "none"
  BY <1>1 DEF Init, Typed
<1>3. \A a \in Asset : Part(a) = Nowhere /\ Target(a) = Nowhere
  BY DEF Init, Part, Target
<1> QED
  BY <1>2, <1>3 DEF DInv, OfAsset, NoPart, Alone, Writes, PublishedWhole, Target

\* A step that writes nothing: threads go on, or no longer write.
LEMMA Leaves ==
    ASSUME DInv, loaders' \in [Streams -> ThreadType],
           \A t \in Streams : loaders'[t].at = "writing" => loaders'[t] = loaders[t],
           UNCHANGED <<disk, content, raced>>
    PROVE  DInv'
<1>1. Typed' /\ NoPart' /\ PublishedWhole'
  BY DEF DInv, Typed, NoPart, PublishedWhole, Part, Target
<1>2. OfAsset'
  BY DEF DInv, OfAsset, Part, Target
<1>3. Alone'
  BY DEF DInv, Alone, Writes, Part
<1> QED
  BY <1>1, <1>2, <1>3 DEF DInv

\* Thread s is somewhere else, where it does not write; the others stay.
Elsewhere(s) ==
    /\ loaders' \in [Streams -> ThreadType]
    /\ loaders'[s].at # "writing"
    /\ \A t \in Streams \ {s} : loaders'[t] = loaders[t]

LEMMA NextAssetGoes ==
    ASSUME Sizes, Typed, NEW s \in Streams, NextAsset(s)
    PROVE  Elsewhere(s)
<1>1. loaders[s].asset \in Asset /\ NoThread \in ThreadType /\ NoThread.asset = 1
  BY DEF Sizes, Typed, ThreadType, NoThread, Asset
<1>2. CASE loaders[s].asset < Len(Assets)
  <2> DEFINE next == 1 + loaders[s].asset
  <2>1. next \in Asset
    BY <1>1, <1>2 DEF Sizes, Asset
  <2>2. loaders' = [loaders EXCEPT ![s] = [NoThread EXCEPT !.at = "asset", !.asset = next]]
    BY <1>1, <1>2 DEF NextAsset
  <2> HIDE DEF next
  <2>3. /\ [NoThread EXCEPT !.at = "asset", !.asset = next] \in ThreadType
        /\ [NoThread EXCEPT !.at = "asset", !.asset = next].at = "asset"
    BY <1>1, <2>1 DEF ThreadType
  <2> QED
    BY <2>2, <2>3 DEF Typed, Elsewhere
<1>3. CASE ~(loaders[s].asset < Len(Assets))
  <2>1. loaders' = [loaders EXCEPT ![s] = [NoThread EXCEPT !.at = "construct"]]
    BY <1>3 DEF NextAsset
  <2>2. /\ [NoThread EXCEPT !.at = "construct"] \in ThreadType
        /\ [NoThread EXCEPT !.at = "construct"].at = "construct"
    BY <1>1 DEF ThreadType
  <2> QED
    BY <2>1, <2>2 DEF Typed, Elsewhere
<1> QED
  BY <1>2, <1>3

LEMMA ThreadGoes ==
    ASSUME Typed, NEW s \in Streams,
           NEW label \in {"queued", "asset", "construct", "done", "failed"},
           Thread(s, label)
    PROVE  Elsewhere(s)
BY DEF Typed, Thread, Elsewhere, ThreadType

-----------------------------------------------------------------------------
(* A download *)

\* It begins with an empty file that no other asset has a share in.
LEMMA DownloadBegins ==
    ASSUME Sizes, DInv, NEW s \in Streams, DownloadAsset(s)
    PROVE  DInv'
<1>1. PICK a \in Asset : loaders[s].at = "asset" /\ loaders[s].asset = a /\ Typed
  BY DEF DownloadAsset, DInv, Typed, ThreadType
<1>2. CASE Target(a) # Nowhere
  <2>1. NextAsset(s) /\ UNCHANGED <<disk, content, raced>>
    BY <1>1, <1>2 DEF DownloadAsset, Target
  <2> QED
    BY <1>1, <2>1, NextAssetGoes, Leaves DEF Elsewhere
<1>3. CASE Target(a) = Nowhere
  <2>1. PICK inode \in Inode : /\ inode = IF Part(a) = Nowhere THEN <<s, a>> ELSE Part(a)
                             /\ inode[2] = a /\ inode # Nowhere
    <3>1. <<s, a>> \in Inode /\ <<s, a>>[2] = a
      BY DEF Inode
    <3>2. Part(a) # Nowhere => Part(a) \in Inode /\ Part(a)[2] = a
      BY <1>1 DEF DInv, Typed, OfAsset, Part
    <3> QED
      BY <3>1, <3>2, InodeIsSomewhere
  <2>2. /\ disk' = [disk EXCEPT ![<<"part", a>>] = inode]
        /\ content' = [content EXCEPT ![inode] = {}]
        /\ loaders' = [loaders EXCEPT ![s].at = "writing", ![s].got = 0, ![s].inode = inode]
        /\ raced' = (raced \/ Downloading(a) # {})
    BY <1>1, <1>3, <2>1 DEF DownloadAsset, TempName, Part, Target
  <2>3. /\ loaders' \in [Streams -> ThreadType]
        /\ \A t \in Streams \ {s} : loaders'[t] = loaders[t]
        /\ loaders'[s].at = "writing" /\ loaders'[s].asset = a
        /\ loaders'[s].got = 0 /\ loaders'[s].inode = inode
    <3>1. 0 \in 0 .. Pieces /\ loaders \in [Streams -> ThreadType]
      BY <1>1 DEF Sizes, Typed
    <3> QED
      BY <1>1, <2>2, <3>1 DEF ThreadType
  <2>4. /\ Part(a)' = inode /\ Target(a)' = Nowhere
        /\ \A b \in Asset \ {a} : Part(b)' = Part(b) /\ Target(b)' = Target(b)
    BY <1>1, <1>3, <2>2 DEF Typed, Part, Target
  <2>5. Typed'
    BY <1>1, <2>1, <2>2, <2>3 DEF Typed
  <2>6. OfAsset' /\ NoPart'
    BY <2>1, <2>3, <2>4 DEF DInv, OfAsset, NoPart
  <2>7. /\ content'[inode] = {}
        /\ \A i \in Inode : i[2] # a => content'[i] = content[i]
    BY <1>1, <2>1, <2>2 DEF Typed
  <2>8. ~raced' => ~raced /\ \A t \in Streams : ~Writes(t, a)
    BY <2>2 DEF Downloading, Writes
  <2>9. \A b \in Asset : Target(b)' # Nowhere =>
            b # a /\ Target(b) # Nowhere /\ Target(b) \in Inode /\ Target(b)[2] # a
    BY <1>1, <2>4 DEF DInv, OfAsset, Typed, Target
  <2>10. PublishedWhole'
    BY <2>4, <2>7, <2>8, <2>9 DEF DInv, PublishedWhole, Target
  <2>11. Alone'
    <3> SUFFICES ASSUME ~raced'
                 PROVE  Alone'
      BY DEF Alone
    <3>1. \A t \in Streams, b \in Asset : Writes(t, b)' =>
              \/ t = s /\ b = a
              \/ t # s /\ b # a /\ Writes(t, b) /\ loaders'[t] = loaders[t]
      BY <2>3, <2>8 DEF Writes
    <3>2. \A t, u \in Streams, b \in Asset : Writes(t, b)' /\ Writes(u, b)' => t = u
      BY <2>8, <3>1 DEF DInv, Alone
    <3>3. ASSUME NEW t \in Streams, NEW b \in Asset, t # s, b # a, Writes(t, b),
                 loaders'[t] = loaders[t]
          PROVE  Part(b)' = loaders'[t].inode
                 /\ content'[loaders'[t].inode] = 1 .. loaders'[t].got
      <4>1. loaders[t].inode \in Inode /\ loaders[t].inode[2] # a
        BY <3>3 DEF DInv, OfAsset, Writes
      <4> QED
        BY <2>4, <2>7, <2>8, <3>3, <4>1 DEF DInv, Alone
    <3>4. Part(a)' = loaders'[s].inode /\ content'[loaders'[s].inode] = 1 .. loaders'[s].got
      BY <2>3, <2>4, <2>7
    <3> QED
      BY <3>1, <3>2, <3>3, <3>4 DEF Alone
  <2> QED
    BY <2>5, <2>6, <2>10, <2>11 DEF DInv
<1> QED
  BY <1>2, <1>3

\* A piece goes to the file of the one thread that has the asset.
LEMMA PieceIsWritten ==
    ASSUME Sizes, DInv, NEW s \in Streams, WritePiece(s)
    PROVE  DInv'
<1>1. PICK a \in Asset, n \in 0 .. Pieces, inode \in Inode :
          /\ Writes(s, a) /\ loaders[s].got = n /\ loaders[s].inode = inode
          /\ inode[2] = a /\ n < Pieces /\ Typed
  BY DEF WritePiece, DInv, Typed, OfAsset, ThreadType, Writes
<1>2. /\ content' = [content EXCEPT ![inode] = @ \cup {n + 1}]
      /\ loaders' = [loaders EXCEPT ![s].got = n + 1]
      /\ UNCHANGED <<disk, raced>>
  BY <1>1 DEF WritePiece, Typed
<1>3. n + 1 \in 0 .. Pieces /\ n + 1 \in 1 .. Pieces /\ (1 .. n) \cup {n + 1} = 1 .. n + 1
  BY <1>1 DEF Sizes
<1>4. /\ loaders' \in [Streams -> ThreadType]
      /\ \A t \in Streams \ {s} : loaders'[t] = loaders[t]
      /\ loaders'[s].at = "writing" /\ loaders'[s].asset = a
      /\ loaders'[s].got = n + 1 /\ loaders'[s].inode = inode
  BY <1>1, <1>2, <1>3 DEF Typed, ThreadType, Writes
<1>5. /\ content'[inode] = content[inode] \cup {n + 1}
      /\ \A i \in Inode : i[2] # a => content'[i] = content[i]
  BY <1>1, <1>2 DEF Typed
<1>6. Typed'
  BY <1>1, <1>2, <1>3, <1>4 DEF Typed
<1>7. OfAsset' /\ NoPart'
  <2>1. NoPart'
    BY <1>2 DEF DInv, NoPart, Part, Target
  <2>2. OfAsset'
    BY <1>1, <1>2, <1>4 DEF DInv, OfAsset, Part, Target
  <2> QED
    BY <2>1, <2>2
<1>8. ASSUME ~raced
      PROVE  /\ Target(a) = Nowhere
             /\ content'[inode] = 1 .. n + 1
             /\ \A t \in Streams \ {s}, b \in Asset : Writes(t, b) => b # a
  <2>1. Part(a) = inode /\ content[inode] = 1 .. n
    BY <1>1, <1>8 DEF DInv, Alone
  <2>2. Target(a) = Nowhere
    BY <1>1, <2>1, InodeIsSomewhere DEF DInv, NoPart
  <2>3. \A t \in Streams \ {s}, b \in Asset : Writes(t, b) => b # a
    BY <1>1, <1>8 DEF DInv, Alone
  <2> QED
    BY <1>3, <1>5, <2>1, <2>2, <2>3
<1>9. PublishedWhole'
  <2> SUFFICES ASSUME ~raced, NEW b \in Asset, Target(b) # Nowhere
               PROVE  content'[Target(b)] = 1 .. Pieces
    BY <1>2 DEF PublishedWhole, Target
  <2>1. Target(b) \in Inode /\ Target(b)[2] = b /\ b # a
    BY <1>1, <1>8 DEF DInv, OfAsset, Typed, Target
  <2> QED
    BY <1>5, <2>1 DEF DInv, PublishedWhole, Target
<1>10. Alone'
  <2> SUFFICES ASSUME ~raced
               PROVE  Alone'
    BY <1>2 DEF Alone
  <2>1. \A t \in Streams, b \in Asset : Writes(t, b)' => Writes(t, b) /\ (t = s => b = a)
    BY <1>1, <1>4 DEF Writes
  <2>2. \A t, u \in Streams, b \in Asset : Writes(t, b)' /\ Writes(u, b)' => t = u
    BY <2>1 DEF DInv, Alone
  <2>3. ASSUME NEW t \in Streams \ {s}, NEW b \in Asset, Writes(t, b)
        PROVE  Part(b)' = loaders'[t].inode
               /\ content'[loaders'[t].inode] = 1 .. loaders'[t].got
    <3>1. loaders[t].inode \in Inode /\ loaders[t].inode[2] # a
      BY <1>8, <2>3 DEF DInv, OfAsset, Writes
    <3>2. Part(b) = loaders[t].inode /\ content[loaders[t].inode] = 1 .. loaders[t].got
      BY <2>3 DEF DInv, Alone
    <3> QED
      BY <1>2, <1>4, <1>5, <3>1, <3>2 DEF Part
  <2>4. Part(a)' = loaders'[s].inode /\ content'[loaders'[s].inode] = 1 .. loaders'[s].got
    BY <1>1, <1>2, <1>4, <1>8 DEF DInv, Alone, Part
  <2> QED
    BY <2>1, <2>2, <2>3, <2>4 DEF Alone
<1> QED
  BY <1>6, <1>7, <1>9, <1>10 DEF DInv

\* What is renamed is whole, when its writer was alone.
LEMMA PartIsPublished ==
    ASSUME Sizes, DInv, NEW s \in Streams, Publish(s)
    PROVE  DInv'
<1>1. PICK a \in Asset : Writes(s, a) /\ loaders[s].got = Pieces /\ Typed
  BY DEF Publish, Complete, DInv, Typed, ThreadType, Writes
<1>2. CASE Part(a) = Nowhere
  <2>1. Thread(s, "failed") /\ UNCHANGED <<disk, content, raced>>
    BY <1>1, <1>2 DEF Publish, TempName, Part, Writes
  <2> QED
    BY <1>1, <2>1, ThreadGoes, Leaves DEF Elsewhere
<1>3. CASE Part(a) # Nowhere
  <2>1. PICK inode \in Inode : inode = Part(a) /\ inode[2] = a
    BY <1>1, <1>3 DEF DInv, Typed, OfAsset, Part
  <2>2. /\ disk' = [disk EXCEPT ![<<"part", a>>] = Nowhere, ![<<"target", a>>] = inode]
        /\ NextAsset(s) /\ UNCHANGED <<content, raced>>
    BY <1>1, <1>3, <2>1 DEF Publish, TempName, Part, Writes
  <2>3. Elsewhere(s)
    BY <1>1, <2>2, NextAssetGoes
  <2>4. /\ Part(a)' = Nowhere /\ Target(a)' = inode
        /\ \A b \in Asset \ {a} : Part(b)' = Part(b) /\ Target(b)' = Target(b)
    BY <1>1, <2>2 DEF Typed, Part, Target
  <2>5. Typed'
    <3>1. disk' \in [{"part", "target"} \X Asset -> Inode \cup {Nowhere}]
      BY <1>1, <2>1, <2>2 DEF Typed
    <3> QED
      BY <1>1, <2>2, <2>3, <3>1 DEF Typed, Elsewhere
  <2>6. NoPart'
    BY <2>4 DEF DInv, NoPart
  <2>7. OfAsset'
    BY <2>1, <2>3, <2>4 DEF DInv, OfAsset, Elsewhere
  <2>8. PublishedWhole'
    <3> SUFFICES ASSUME ~raced, NEW b \in Asset, Target(b)' # Nowhere
                 PROVE  content[Target(b)'] = 1 .. Pieces
      BY <2>2 DEF PublishedWhole, Target
    <3>1. content[inode] = 1 .. Pieces
      BY <1>1, <2>1 DEF DInv, Alone
    <3>2. b # a => content[Target(b)] = 1 .. Pieces
      BY <2>4 DEF DInv, PublishedWhole, Target
    <3> QED
      BY <2>4, <3>1, <3>2
  <2>9. Alone'
    <3> SUFFICES ASSUME ~raced
                 PROVE  Alone'
      BY <2>2 DEF Alone
    <3>1. \A t \in Streams, b \in Asset : Writes(t, b)' =>
              Writes(t, b) /\ t # s /\ b # a /\ loaders'[t] = loaders[t]
      BY <1>1, <2>3 DEF DInv, Alone, Elsewhere, Writes
    <3> QED
      BY <2>2, <2>4, <3>1 DEF DInv, Alone
  <2> QED
    BY <2>5, <2>6, <2>7, <2>8, <2>9 DEF DInv
<1> QED
  BY <1>2, <1>3

\* The other steps leave what is written alone.
LEMMA OtherStep ==
    ASSUME Sizes, DInv, NEW s \in Streams,
           \/ Request(s) \/ Loaded(s) \/ Preloaded(s) \/ TakeLock(s) \/ Phonemized(s)
           \/ Generate(s) \/ Finish(s) \/ Cancel(s)
           \/ EnsureModel(s) \/ DownloadFails(s) \/ Construct(s)
    PROVE  DInv'
<1> USE DEF OnDisk
<1>1. Typed
  BY DEF DInv
<1>2. CASE Loaded(s) \/ Preloaded(s) \/ TakeLock(s) \/ Phonemized(s)
           \/ Generate(s) \/ Finish(s) \/ Cancel(s)
  <2>1. UNCHANGED <<loaders, disk, content, raced>>
    BY <1>2 DEF Loaded, Preloaded, TakeLock, Phonemized, Generate, Finish, Cancel
  <2> QED
    BY <1>1, <2>1, Leaves DEF Typed
<1>3. CASE Request(s)
  <2>1. Thread(s, "queued") /\ UNCHANGED <<disk, content, raced>>
    BY <1>3 DEF Request, Thread
  <2> QED
    BY <1>1, <2>1, ThreadGoes, Leaves DEF Elsewhere
<1>4. CASE EnsureModel(s)
  <2>1. PICK label \in {"done", "asset"} : Thread(s, label)
    BY <1>4 DEF EnsureModel
  <2>2. UNCHANGED <<disk, content, raced>>
    BY <1>4 DEF EnsureModel
  <2> QED
    BY <1>1, <2>1, <2>2, ThreadGoes, Leaves DEF Elsewhere
<1>5. CASE DownloadFails(s) \/ Construct(s)
  <2>1. PICK label \in {"done", "failed"} : Thread(s, label)
    BY <1>5 DEF DownloadFails, Construct
  <2>2. UNCHANGED <<disk, content, raced>>
    BY <1>5 DEF DownloadFails, Construct
  <2> QED
    BY <1>1, <2>1, <2>2, ThreadGoes, Leaves DEF Elsewhere
<1> QED
  BY <1>2, <1>3, <1>4, <1>5

LEMMA DiskNext ==
    ASSUME Sizes, DInv, [Next]_kokoroVars
    PROVE  DInv'
<1>1. Typed
  BY DEF DInv
<1>2. CASE UNCHANGED kokoroVars \/ Unload
  <2>1. UNCHANGED <<loaders, disk, content, raced>>
    BY <1>2 DEF kokoroVars, Unload, OnDisk
  <2> QED
    BY <1>1, <2>1, Leaves DEF Typed
<1>3. CASE Crash
  <2>1. NoThread \in ThreadType /\ NoThread.at = "none"
    BY DEF Sizes, NoThread, ThreadType, Asset
  <2>2. /\ loaders' = [t \in Streams |-> NoThread]
        /\ UNCHANGED <<disk, content, raced>>
    BY <1>3 DEF Crash, OnDisk
  <2> QED
    BY <2>1, <2>2, Leaves
<1>4. ASSUME NEW s \in Streams, DownloadAsset(s) \/ WritePiece(s) \/ Publish(s)
      PROVE  DInv'
  BY <1>4, DownloadBegins, PieceIsWritten, PartIsPublished
<1> QED
  BY <1>2, <1>3, <1>4, OtherStep DEF Next

\* A file in the cache directory that later starts take without a check is the
\* whole asset, whatever was cancelled, broke off or crashed, unless two threads
\* downloaded it at the same time (_download_asset, kokoro_onnx.py:355).
THEOREM CacheIsWhole == Sizes => (Spec => []PublishedWhole)
<1> SUFFICES ASSUME Sizes
             PROVE  Spec => []PublishedWhole
  OBVIOUS
<1>1. Init => DInv
  BY DiskInit
<1>2. DInv /\ [Next]_kokoroVars => DInv'
  BY DiskNext
<1>3. DInv => PublishedWhole
  BY DEF DInv
<1> QED
  BY <1>1, <1>2, <1>3, PTL DEF Spec

-----------------------------------------------------------------------------
(* The audio of a stream *)

Chunk == [chunk : Nat, final : BOOLEAN]
Place == {"idle", "loading", "speaking", "g2p", "lock", "phonemizing", "generating",
          "returned", "raised", "cancelled", "crashed"}
StreamType == [at : Place, made : Nat, held : Nat, out : Seq(Chunk)]

\* A stream that has not ended holds the last chunk back.
Unfinished(x) ==
    /\ x.held = x.made
    /\ Len(x.out) = IF x.made = 0 THEN 0 ELSE x.made - 1
    /\ \A i \in 1 .. Len(x.out) : x.out[i].chunk = i /\ ~x.out[i].final

Whole(x) ==
    /\ Len(x.out) = x.made
    /\ \A i \in 1 .. Len(x.out) : x.out[i].chunk = i /\ (x.out[i].final <=> i = x.made)

Silent(x) == x.made = 0 /\ x.held = 0 /\ x.out = <<>>

StreamInv(x) ==
    /\ x \in StreamType
    /\ CASE x.at = "returned" -> Whole(x)
         [] x.at \in {"generating", "cancelled"} -> Unfinished(x)
         [] OTHER -> Silent(x)

SInv ==
    /\ streams = [s \in Streams |-> streams[s]]
    /\ \A s \in Streams : StreamInv(streams[s])

LEMMA SilentIsBoth == ASSUME NEW x, Silent(x) PROVE Unfinished(x) /\ Whole(x)
BY DEF Silent, Unfinished, Whole

LEMMA SilentStarts ==
    /\ NoStream \in StreamType /\ NoStream.at = "idle" /\ Silent(NoStream)
    /\ [NoStream EXCEPT !.at = "crashed"] \in StreamType
    /\ [NoStream EXCEPT !.at = "crashed"].at = "crashed"
    /\ Silent([NoStream EXCEPT !.at = "crashed"])
<1>1. <<>> \in Seq(Chunk)
  OBVIOUS
<1>2. NoStream \in StreamType /\ NoStream.at = "idle" /\ Silent(NoStream)
  BY <1>1 DEF NoStream, StreamType, Silent, Place
<1>3. [NoStream EXCEPT !.at = "crashed"] \in StreamType
  BY <1>2 DEF StreamType, Place
<1>4. /\ [NoStream EXCEPT !.at = "crashed"].at = "crashed"
      /\ Silent([NoStream EXCEPT !.at = "crashed"])
  BY <1>2 DEF StreamType, Silent
<1> QED
  BY <1>2, <1>3, <1>4

LEMMA ChunkIsAdded ==
    ASSUME NEW out \in Seq(Chunk), NEW e \in Chunk
    PROVE  /\ Append(out, e) \in Seq(Chunk)
           /\ Len(Append(out, e)) = Len(out) + 1
           /\ Append(out, e)[Len(out) + 1] = e
           /\ \A i \in 1 .. Len(out) : Append(out, e)[i] = out[i]
BY AppendProperties

\* One stream is changed, the others are not.
LEMMA OneStream ==
    ASSUME SInv, NEW s \in Streams, NEW x, StreamInv(x), streams' = [streams EXCEPT ![s] = x]
    PROVE  SInv'
<1>1. streams' = [t \in Streams |-> IF t = s THEN x ELSE streams[t]]
  BY DEF SInv
<1>2. \A t \in Streams : streams'[t] = IF t = s THEN x ELSE streams[t]
  BY <1>1
<1>3. streams' = [t \in Streams |-> streams'[t]]
  BY <1>1
<1> QED
  BY <1>2, <1>3 DEF SInv

\* A stream goes to a place where what it has said so far is right.
LEMMA StreamGoes ==
    ASSUME SInv, NEW s \in Streams, NEW label \in Place, Goto(s, label),
           \/ streams[s].at \notin {"returned", "generating", "cancelled"}
           \/ streams[s].at = "generating" /\ label = "cancelled"
    PROVE  SInv'
<1> DEFINE x == [streams[s] EXCEPT !.at = label]
<1>1. StreamInv(streams[s]) /\ streams[s] \in StreamType
  BY DEF SInv, StreamInv
<1>2. streams' = [streams EXCEPT ![s] = x]
  BY DEF Goto
<1>3. /\ x \in StreamType /\ x.at = label /\ x.made = streams[s].made
      /\ x.held = streams[s].held /\ x.out = streams[s].out
  BY <1>1 DEF StreamType
<1> HIDE DEF x
<1>4. CASE streams[s].at \notin {"returned", "generating", "cancelled"}
  <2>1. Silent(x)
    BY <1>1, <1>3, <1>4 DEF StreamInv, Silent
  <2>2. StreamInv(x)
    BY <1>3, <2>1, SilentIsBoth DEF StreamInv
  <2> QED
    BY <1>2, <2>2, OneStream
<1>5. CASE streams[s].at = "generating" /\ label = "cancelled"
  <2>1. Unfinished(x)
    BY <1>1, <1>3, <1>5 DEF StreamInv, Unfinished
  <2>2. StreamInv(x)
    BY <1>3, <1>5, <2>1 DEF StreamInv
  <2> QED
    BY <1>2, <2>2, OneStream
<1> QED
  BY <1>4, <1>5

\* The audio with the chunk that was held back, if there is one.
Passed(y, e) == IF y.held = 0 THEN y.out ELSE Append(y.out, e)

LEMMA HeldChunkIsAdded ==
    ASSUME NEW y \in StreamType, Unfinished(y), NEW e \in Chunk, e.chunk = y.held,
           NEW out, out = Passed(y, e)
    PROVE  /\ out \in Seq(Chunk) /\ Len(out) = y.made /\ y.made \in Nat
           /\ \A i \in 1 .. Len(out) : out[i].chunk = i
           /\ \A i \in 1 .. Len(out) : IF i = y.made THEN out[i] = e ELSE ~out[i].final
<1>1. y.made \in Nat /\ y.held = y.made /\ y.out \in Seq(Chunk)
  BY DEF StreamType, Unfinished
<1>2. CASE y.made = 0
  BY <1>1, <1>2 DEF Unfinished, Passed
<1>3. CASE y.made # 0
  <2>1. out = Append(y.out, e) /\ Len(y.out) = y.made - 1
    BY <1>1, <1>3 DEF Unfinished, Passed
  <2>2. out \in Seq(Chunk) /\ Len(out) = y.made /\ out[y.made] = e
        /\ \A i \in 1 .. y.made - 1 : out[i] = y.out[i]
    BY <1>1, <2>1, ChunkIsAdded
  <2>3. \A i \in 1 .. y.made - 1 : out[i].chunk = i /\ ~out[i].final
    BY <1>1, <2>1, <2>2 DEF Unfinished
  <2>4. \A i \in 1 .. y.made : i = y.made \/ i \in 1 .. y.made - 1
    BY <1>1
  <2> QED
    BY <1>1, <1>3, <2>2, <2>3, <2>4
<1> QED
  BY <1>2, <1>3

\* Its audio comes out one chunk late.
LEMMA ChunkComes ==
    ASSUME SInv, NEW s \in Streams, Generate(s)
    PROVE  SInv'
<1>1. CASE streams' = streams
  BY <1>1 DEF SInv
<1>2. CASE streams' # streams
  <2>1. PICK y \in StreamType : y = streams[s] /\ y.at = "generating" /\ Unfinished(y)
    BY DEF SInv, StreamInv, Generate
  <2>2. PICK n \in Nat : n = y.made + 1
    BY <2>1 DEF StreamType
  <2>3. PICK e : e = [chunk |-> y.held, final |-> FALSE]
    OBVIOUS
  <2>4. PICK out : out = Passed(y, e)
    OBVIOUS
  <2>5. e \in Chunk /\ e.chunk = y.held /\ ~e.final
    BY <2>3 DEF Chunk, StreamType
  <2>6. /\ out \in Seq(Chunk) /\ Len(out) = y.made /\ y.made \in Nat
        /\ \A i \in 1 .. Len(out) : out[i].chunk = i /\ ~out[i].final
    <3>1. /\ out \in Seq(Chunk) /\ Len(out) = y.made /\ y.made \in Nat
          /\ \A i \in 1 .. Len(out) : out[i].chunk = i
          /\ \A i \in 1 .. Len(out) : IF i = y.made THEN out[i] = e ELSE ~out[i].final
      BY <2>1, <2>4, <2>5, HeldChunkIsAdded
    <3> QED
      BY <2>5, <3>1
  <2>7. PICK z : z = [y EXCEPT !.made = n]
    OBVIOUS
  <2>8. /\ z \in StreamType /\ z.at = "generating" /\ z.made = n
        /\ z.held = y.held /\ z.out = y.out
    BY <2>1, <2>2, <2>7 DEF StreamType
  <2>9. streams' = [streams EXCEPT ![s] = PassOn(z, n)]
    BY <1>2, <2>1, <2>2, <2>7 DEF Generate, SInv
  <2>10. PICK x : x = PassOn(z, n)
    OBVIOUS
  <2>11. x = [z EXCEPT !.held = n, !.out = out]
    BY <2>3, <2>4, <2>8, <2>10 DEF PassOn, Passed
  <2>12. x \in StreamType /\ x.at = "generating" /\ x.made = n /\ x.held = n /\ x.out = out
    BY <2>2, <2>6, <2>8, <2>11 DEF StreamType
  <2>13. Unfinished(x)
    BY <2>2, <2>6, <2>12 DEF Unfinished
  <2>14. StreamInv(x)
    BY <2>12, <2>13 DEF StreamInv
  <2> QED
    BY <2>9, <2>10, <2>14, OneStream
<1> QED
  BY <1>1, <1>2

\* The chunk that is held back is the last, and final.
LEMMA StreamEnds ==
    ASSUME SInv, NEW s \in Streams, Finish(s)
    PROVE  SInv'
<1>1. PICK y \in StreamType : y = streams[s] /\ Unfinished(y)
  BY DEF SInv, StreamInv, Finish
<1>2. PICK e : e = [chunk |-> y.held, final |-> TRUE]
  OBVIOUS
<1>3. PICK out : out = Passed(y, e)
  OBVIOUS
<1>4. e \in Chunk /\ e.chunk = y.held /\ e.final
  BY <1>2 DEF Chunk, StreamType
<1>5. /\ out \in Seq(Chunk) /\ Len(out) = y.made
      /\ \A i \in 1 .. Len(out) : out[i].chunk = i /\ (out[i].final <=> i = y.made)
  <2>1. /\ out \in Seq(Chunk) /\ Len(out) = y.made /\ y.made \in Nat
        /\ \A i \in 1 .. Len(out) : out[i].chunk = i
        /\ \A i \in 1 .. Len(out) : IF i = y.made THEN out[i] = e ELSE ~out[i].final
    BY <1>1, <1>3, <1>4, HeldChunkIsAdded
  <2> QED
    BY <1>4, <2>1
<1>6. PICK x : x = [y EXCEPT !.at = "returned", !.out = out]
  OBVIOUS
<1>7. streams' = [streams EXCEPT ![s] = x]
  BY <1>1, <1>2, <1>3, <1>6 DEF Finish, SInv, Passed
<1>8. x \in StreamType /\ x.at = "returned" /\ x.made = y.made /\ x.out = out
  BY <1>5, <1>6 DEF StreamType, Place
<1>9. StreamInv(x)
  BY <1>5, <1>8 DEF StreamInv, Whole
<1> QED
  BY <1>7, <1>9, OneStream

LEMMA StreamNext ==
    ASSUME SInv, [Next]_kokoroVars
    PROVE  SInv'
<1>1. CASE UNCHANGED streams
  BY <1>1 DEF SInv
<1>2. CASE Crash
  <2>1. \A s \in Streams : streams'[s] = NoStream
                           \/ streams'[s] = [NoStream EXCEPT !.at = "crashed"]
    BY <1>2 DEF Crash
  <2>2. \A s \in Streams : StreamInv(streams'[s])
    BY <2>1, SilentStarts DEF StreamInv
  <2>3. streams' = [s \in Streams |-> streams'[s]]
    BY <1>2 DEF Crash
  <2> QED
    BY <2>2, <2>3 DEF SInv
<1>3. ASSUME NEW s \in Streams,
             \/ Request(s) \/ Loaded(s) \/ Preloaded(s) \/ TakeLock(s) \/ Phonemized(s)
             \/ Cancel(s)
      PROVE  SInv'
  <2>1. CASE Cancel(s)
    BY <2>1, StreamGoes DEF Cancel, Place
  <2>2. CASE ~Cancel(s)
    <3>1. \E label \in {"loading", "speaking", "raised", "g2p", "lock", "returned",
                       "phonemizing", "generating"} : Goto(s, label)
      BY <1>3, <2>2 DEF Request, Loaded, Preloaded, TakeLock, Phonemized
    <3>2. streams[s].at \in {"idle", "loading", "speaking", "g2p", "lock", "phonemizing"}
      BY <1>3, <2>2 DEF Request, Loaded, Preloaded, TakeLock, Phonemized
    <3> QED
      BY <3>1, <3>2, StreamGoes DEF Place
  <2> QED
    BY <2>1, <2>2
<1>4. ASSUME NEW s \in Streams,
             \/ EnsureModel(s) \/ DownloadAsset(s) \/ WritePiece(s) \/ Publish(s)
             \/ DownloadFails(s) \/ Construct(s)
      PROVE  SInv'
  BY <1>1, <1>4 DEF EnsureModel, DownloadAsset, WritePiece, Publish, DownloadFails, Construct
<1>5. ASSUME NEW s \in Streams, Generate(s) \/ Finish(s)
      PROVE  SInv'
  BY <1>5, ChunkComes, StreamEnds
<1> QED
  BY <1>1, <1>2, <1>3, <1>4, <1>5 DEF Next, Unload, kokoroVars

LEMMA StreamIsWhole ==
    ASSUME SInv
    PROVE  SpokenWhole
<1> SUFFICES ASSUME NEW s \in Streams
             PROVE  /\ \A i \in DOMAIN streams[s].out :
                          /\ streams[s].out[i].chunk = i
                          /\ streams[s].out[i].final => i = streams[s].made
                    /\ streams[s].at = "returned" /\ streams[s].made > 0 =>
                          /\ Len(streams[s].out) = streams[s].made
                          /\ streams[s].out[streams[s].made].final
  BY DEF SpokenWhole
<1>1. StreamInv(streams[s]) /\ streams[s].made \in Nat
      /\ streams[s].out \in Seq(Chunk)
  BY DEF SInv, StreamInv, StreamType
<1>2. DOMAIN streams[s].out = 1 .. Len(streams[s].out)
  BY <1>1
<1>3. streams[s].at = "returned" \/ Unfinished(streams[s])
  BY <1>1, SilentIsBoth DEF StreamInv
<1>4. CASE streams[s].at = "returned"
  <2>1. Whole(streams[s])
    BY <1>1, <1>4 DEF StreamInv
  <2> QED
    BY <1>1, <1>2, <2>1 DEF Whole
<1>5. CASE streams[s].at # "returned"
  BY <1>2, <1>3, <1>5 DEF Unfinished
<1> QED
  BY <1>4, <1>5

\* A stream that ends has passed on all that the model generated, in order, with
\* the last chunk and no other marked final (stream_audio_with_progress).
THEOREM StreamsAreWhole == Spec => []SpokenWhole
<1>1. Init => SInv
  BY SilentStarts DEF Init, SInv, StreamInv
<1>2. SInv /\ [Next]_kokoroVars => SInv'
  BY StreamNext
<1> QED
  BY <1>1, <1>2, StreamIsWhole, PTL DEF Spec

-----------------------------------------------------------------------------
(* The types *)

\* What the other invariants do not say of the variables.
Bounded ==
    /\ kokoro \in [model : BOOLEAN, g2p : BOOLEAN]
    /\ \A s \in Streams : streams[s].made <= MaxChunks /\ streams[s].held <= MaxChunks

LEMMA BoundedNext ==
    ASSUME Sizes, SInv, Bounded, [Next]_kokoroVars
    PROVE  Bounded'
<1>0. /\ MaxChunks \in Nat
      /\ \A s \in Streams : streams[s] \in StreamType
      /\ streams = [s \in Streams |-> streams[s]]
  BY DEF Sizes, SInv, StreamInv
<1>1. CASE UNCHANGED kokoroVars
  BY <1>1 DEF Bounded, kokoroVars
<1>2. CASE Unload \/ Crash
  <2>1. kokoro' \in [model : BOOLEAN, g2p : BOOLEAN]
    <3>1. kokoro' = Unloaded
      BY <1>2 DEF Unload, Crash
    <3> QED
      BY <3>1 DEF Unloaded
  <2>2. ASSUME NEW s \in Streams
        PROVE  streams'[s].made <= MaxChunks /\ streams'[s].held <= MaxChunks
    <3>1. streams'[s] \in {streams[s], NoStream, [NoStream EXCEPT !.at = "crashed"]}
      BY <1>2 DEF Unload, Crash
    <3> QED
      BY <1>0, <3>1 DEF Bounded, NoStream
  <2> QED
    BY <2>1, <2>2 DEF Bounded
<1>3. ASSUME NEW s \in Streams,
             \/ Request(s) \/ Loaded(s) \/ Preloaded(s) \/ TakeLock(s) \/ Phonemized(s)
             \/ Cancel(s)
      PROVE  Bounded'
  <2>1. PICK label : Goto(s, label)
    BY <1>3 DEF Request, Loaded, Preloaded, TakeLock, Phonemized, Cancel
  <2>2. \A t \in Streams : streams'[t].made = streams[t].made
                          /\ streams'[t].held = streams[t].held
    BY <1>0, <2>1 DEF Goto, StreamType
  <2>3. kokoro' \in [model : BOOLEAN, g2p : BOOLEAN]
    BY <1>3 DEF Request, Loaded, Preloaded, TakeLock, Phonemized, Cancel, Bounded
  <2> QED
    BY <2>2, <2>3 DEF Bounded
<1>4. ASSUME NEW s \in Streams, Generate(s)
      PROVE  Bounded'
  <2>1. CASE streams' = streams
    BY <1>4, <2>1 DEF Generate, Bounded
  <2>2. CASE streams' # streams
    <3> DEFINE n == streams[s].made + 1
               z == [streams[s] EXCEPT !.made = n]
    <3>1. streams' = [streams EXCEPT ![s] = PassOn(z, n)] /\ kokoro' = kokoro
      BY <1>0, <1>4, <2>2 DEF Generate
    <3>2. n \in Nat /\ n <= MaxChunks
      BY <1>0, <1>4 DEF Generate, StreamType
    <3>3. PassOn(z, n).made = n /\ PassOn(z, n).held = n
      BY <1>0 DEF PassOn, StreamType
    <3>4. \A t \in Streams : t # s => streams'[t] = streams[t]
      BY <1>0, <3>1
    <3>5. streams'[s].made = n /\ streams'[s].held = n
      BY <1>0, <3>1, <3>3
    <3> QED
      BY <3>1, <3>2, <3>4, <3>5 DEF Bounded
  <2> QED
    BY <2>1, <2>2
<1>5. ASSUME NEW s \in Streams, Finish(s)
      PROVE  Bounded'
  <2>1. \A t \in Streams : streams'[t].made = streams[t].made
                          /\ streams'[t].held = streams[t].held
    BY <1>0, <1>5 DEF Finish, StreamType
  <2> QED
    BY <1>5, <2>1 DEF Finish, Bounded
<1>6. ASSUME NEW s \in Streams,
             \/ EnsureModel(s) \/ DownloadAsset(s) \/ WritePiece(s) \/ Publish(s)
             \/ DownloadFails(s) \/ Construct(s)
      PROVE  Bounded'
  <2>1. streams' = streams
    BY <1>6 DEF EnsureModel, DownloadAsset, WritePiece, Publish, DownloadFails, Construct
  <2>2. kokoro' \in [model : BOOLEAN, g2p : BOOLEAN]
    BY <1>6 DEF EnsureModel, DownloadAsset, WritePiece, Publish, DownloadFails, Construct, Bounded
  <2> QED
    BY <2>1, <2>2 DEF Bounded
<1> QED
  BY <1>1, <1>2, <1>3, <1>4, <1>5, <1>6 DEF Next

\* Every variable of KokoroOnnx has its type, whatever threads, streams and
\* crashes there are.
THEOREM TypesAreRight == Sizes => (Spec => []TypeOK)
<1> SUFFICES ASSUME Sizes
             PROVE  Spec => []TypeOK
  OBVIOUS
<1> DEFINE Inv == DInv /\ SInv /\ Bounded
<1>1. Init => Inv
  <2> SUFFICES ASSUME Init PROVE Inv
    OBVIOUS
  <2>1. SInv
    BY SilentStarts DEF Init, SInv, StreamInv
  <2>2. Bounded
    BY DEF Init, Bounded, NoStream, Unloaded, Sizes
  <2> QED
    BY <2>1, <2>2, DiskInit
<1>2. Inv /\ [Next]_kokoroVars => Inv'
  BY DiskNext, StreamNext, BoundedNext
<1>3. Inv => TypeOK
  BY DEF DInv, Typed, SInv, StreamInv, StreamType, Place, Bounded, TypeOK, ThreadType, Sizes
<1> QED
  BY <1>1, <1>2, <1>3, PTL DEF Spec
=============================================================================
