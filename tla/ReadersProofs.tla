---------------------------- MODULE ReadersProofs ----------------------------
(***************************************************************************)
(* Where images come from and the commands, for any images, layouts,       *)
(* repositories and commands.  Each component has an inductive invariant   *)
(* of its own variables, and a run never leaves the component it started   *)
(* in.                                                                     *)
(***************************************************************************)
EXTENDS Readers, TLAPS

-----------------------------------------------------------------------------
(* Layouts *)

Contents ==
  {Layout!Bytes(d, n) : d \in Digests, n \in Lengths} \cup Layout!Indexes \cup {Layout!Short}

\* The archive and the directory answer alike.
Same(n) == Layout!TarRead(n) = Layout!DirRead(n)

\* The readers agree whenever the archive opens; only the last entry may be
\* incomplete, and an entry found is one of the archive.
LayoutInv ==
  /\ archive \in Seq([name : Layout!Names, content : Contents, complete : BOOLEAN])
  /\ \A k \in 1..Len(archive) - 1 : archive[k].complete
  /\ \A n \in Layout!Names : Layout!TarEntry(n) \in 0..Len(archive)
  /\ tarState \in {"open", "closed", "failed"}
  /\ tarState = "closed" => Layout!TarOpens
  /\ Layout!TarOpens =>
       \A n \in Layout!Names : Same(n) \/ (tarState = "failed" /\ Layout!CutAtSize(n))

LayoutPart == component = "layout" => LayoutInv

-----------------------------------------------------------------------------

\* A step of the composition is a step of the layouts, or leaves them alone.
LEMMA LayoutSteps ==
  ASSUME component = "layout", [Next]_vars
  PROVE  component' = "layout" /\ [Layout!Next]_layoutVars
BY DEF Next, vars

\* The last entry of a name, after one more has been appended.
LEMMA LastEntry ==
  ASSUME NEW S, archive \in Seq(S), NEW e, archive' = Append(archive, e), NEW name
  PROVE  Layout!TarEntry(name)' =
           IF e.name = name THEN Len(archive) + 1 ELSE Layout!TarEntry(name)
<1> DEFINE I == {k \in 1..Len(archive) : archive[k].name = name}
           J == {k \in 1..Len(archive') : archive'[k].name = name}
<1>1. Len(archive) \in Nat /\ Len(archive') = Len(archive) + 1
  OBVIOUS
<1>2. J = IF e.name = name THEN I \cup {Len(archive) + 1} ELSE I
  BY <1>1
<1>3. Layout!TarEntry(name) = IF I # {} THEN Layout!Max(I) ELSE 0
  BY DEF Layout!TarEntry, Layout!SelectLastInSeq
<1>4. Layout!TarEntry(name)' = IF J # {} THEN Layout!Max(J) ELSE 0
  BY DEF Layout!TarEntry, Layout!SelectLastInSeq
<1>5. CASE e.name = name
  <2>1. Len(archive) + 1 \in J /\ \A k \in J : k <= Len(archive) + 1
    BY <1>1, <1>2, <1>5
  <2>2. J \subseteq Nat
    BY <1>1
  <2> HIDE DEF J
  <2>3. \A x \in J : (\A y \in J : x >= y) => x = Len(archive) + 1
    BY <1>1, <2>1, <2>2
  <2>4. Layout!Max(J) = Len(archive) + 1
    BY <1>1, <2>1, <2>2, <2>3 DEF Layout!Max
  <2>5. QED
    BY <1>4, <1>5, <2>1, <2>4
<1>6. CASE e.name # name
  BY <1>2, <1>3, <1>4, <1>6
<1>7. QED
  BY <1>5, <1>6

\* A stream that is longer than was announced, and what the archive keeps of it.
Cut(name, kept, content) ==
  /\ name \in Digests
  /\ \E size, length \in Lengths :
       size < length /\ kept = Layout!Bytes(name, size) /\ content = Layout!Bytes(name, length)

\* A call of the writers, whatever it writes and whatever the archive keeps of it.
LEMMA WriteInv ==
  ASSUME LayoutInv, tarState = "open", NEW name \in Layout!Names,
         NEW content \in Contents, NEW kept \in Contents, NEW complete \in BOOLEAN,
         Layout!TarWrite(name, kept, complete), Layout!DirWrite(name, content),
         tarState' \in {"open", "failed"},
         complete => kept = content \/ (tarState' = "failed" /\ Cut(name, kept, content))
  PROVE  LayoutInv'
<1> DEFINE Entries == [name : Layout!Names, content : Contents, complete : BOOLEAN]
           e == [name |-> name, content |-> kept, complete |-> complete]
<1>1. archive \in Seq(Entries)
  BY DEF LayoutInv
<1>3. CASE Layout!Pending
  <2>1. archive' = archive
    BY <1>3 DEF Layout!TarWrite
  <2>2. Len(archive) \in DOMAIN archive /\ ~archive[Len(archive)].complete
    BY <1>1, <1>3 DEF Layout!Pending, Layout!Last
  <2>3. ~Layout!TarOpens'
    BY <2>1, <2>2 DEF Layout!TarOpens
  <2>4. \A n \in Layout!Names : Layout!TarEntry(n)' = Layout!TarEntry(n)
    BY <2>1 DEF Layout!TarEntry, Layout!SelectLastInSeq
  <2>5. QED
    BY <2>1, <2>3, <2>4 DEF LayoutInv
<1>4. CASE ~Layout!Pending
  <2>1. archive' = Append(archive, e)
    BY <1>4 DEF Layout!TarWrite
  <2>2. e \in Entries
    OBVIOUS
  <2>3. /\ archive' \in Seq(Entries)
        /\ Len(archive) \in Nat /\ Len(archive') = Len(archive) + 1
        /\ DOMAIN archive = 1..Len(archive) /\ DOMAIN archive' = 1..(Len(archive) + 1)
        /\ archive'[Len(archive) + 1] = e
        /\ \A k \in DOMAIN archive : k \in DOMAIN archive' /\ archive'[k] = archive[k]
    BY <1>1, <2>1, <2>2
  <2>4. e.name = name /\ e.content = kept /\ e.complete = complete
    OBVIOUS
  <2> HIDE DEF e, Entries
  <2>5. \A n \in Layout!Names :
          Layout!TarEntry(n)' = IF name = n THEN Len(archive) + 1 ELSE Layout!TarEntry(n)
    BY <1>1, <2>1, <2>4, LastEntry
  <2>6. \A n \in Layout!Names : Layout!TarEntry(n)' \in 0..Len(archive')
    BY <2>3, <2>5 DEF LayoutInv
  <2>7. \A k \in 1..Len(archive') - 1 : archive'[k].complete
    <3>1. archive # <<>> => archive[Len(archive)].complete
      BY <1>4 DEF Layout!Pending, Layout!Last
    <3>2. SUFFICES ASSUME NEW k \in 1..Len(archive) PROVE archive[k].complete
      BY <2>3
    <3>. Len(archive) \in Nat
      BY <2>3
    <3>3. CASE k = Len(archive)
      BY <2>3, <3>1, <3>3
    <3>4. CASE k # Len(archive)
      <4>1. k \in 1..Len(archive) - 1
        BY <3>4
      <4>2. \A j \in 1..Len(archive) - 1 : archive[j].complete
        BY DEF LayoutInv
      <4>3. QED
        BY <4>1, <4>2
    <3>5. QED
      BY <3>3, <3>4
  <2>8. ASSUME Layout!TarOpens', NEW n \in Layout!Names
        PROVE  Same(n)' \/ (tarState' = "failed" /\ Layout!CutAtSize(n)')
    <3>1. Layout!TarOpens /\ complete
      BY <2>3, <2>4, <2>8 DEF Layout!TarOpens
    <3>2. CASE n = name
      <4>1. Layout!TarRead(n)' = kept
        BY <2>3, <2>4, <2>5, <3>2 DEF Layout!TarRead
      <4>2. Layout!DirRead(n)' = content
        BY <3>2 DEF Layout!DirRead, Layout!DirWrite
      <4>3. CASE kept = content
        BY <4>1, <4>2, <4>3 DEF Same
      <4>4. CASE tarState' = "failed" /\ Cut(name, kept, content)
        <5>1. Layout!Last(archive').name = n
          BY <2>3, <2>4, <3>2 DEF Layout!Last
        <5>2. QED
          BY <3>2, <4>1, <4>2, <4>4, <5>1 DEF Cut, Layout!CutAtSize
      <4>5. QED
        BY <3>1, <4>3, <4>4
    <3>3. CASE n # name
      <4>1. Layout!DirRead(n)' = Layout!DirRead(n)
        BY <3>3 DEF Layout!DirRead, Layout!DirWrite
      <4>2. Layout!TarEntry(n)' = Layout!TarEntry(n)
        BY <2>5, <3>3
      <4>3. ASSUME Layout!TarEntry(n) = 0 PROVE Layout!TarRead(n)' = Layout!TarRead(n)
        BY <4>2, <4>3 DEF Layout!TarRead
      <4>4. ASSUME Layout!TarEntry(n) # 0 PROVE Layout!TarRead(n)' = Layout!TarRead(n)
        <5>1. Layout!TarEntry(n) \in 0..Len(archive)
          BY DEF LayoutInv
        <5>2. Layout!TarEntry(n) \in DOMAIN archive
          BY <2>3, <4>4, <5>1
        <5>3. archive'[Layout!TarEntry(n)] = archive[Layout!TarEntry(n)]
          BY <2>3, <5>2
        <5>4. QED
          BY <4>2, <4>4, <5>3 DEF Layout!TarRead
      <4>5. Layout!TarRead(n)' = Layout!TarRead(n)
        BY <4>3, <4>4
      <4>6. Same(n)
        BY <3>1 DEF LayoutInv
      <4>7. QED
        BY <4>1, <4>5, <4>6 DEF Same
    <3>4. QED
      BY <3>2, <3>3
  <2>9. QED
    BY <2>3, <2>6, <2>7, <2>8 DEF LayoutInv, Entries
<1>5. QED
  BY <1>3, <1>4

\* A call that writes nothing: Close, or none at all.
LEMMA NoWriteInv ==
  ASSUME LayoutInv, archive' = archive, dir' = dir,
         tarState' = tarState \/
           (tarState = "open" /\ tarState' = IF Layout!Pending THEN "failed" ELSE "closed") \/
           (tarState = "open" /\ tarState' = "failed")
  PROVE  LayoutInv'
<1>1. /\ Layout!TarOpens' = Layout!TarOpens
      /\ \A n : /\ Layout!TarEntry(n)' = Layout!TarEntry(n)
                /\ Layout!TarRead(n)' = Layout!TarRead(n)
                /\ Layout!DirRead(n)' = Layout!DirRead(n)
                /\ Same(n)' = Same(n)
  BY DEF Layout!TarOpens, Layout!TarEntry, Layout!SelectLastInSeq, Layout!TarRead,
     Layout!DirRead, Same
<1>2. CASE tarState' = tarState
  <2>1. \A n : Layout!CutAtSize(n)' = Layout!CutAtSize(n)
    BY <1>1, <1>2 DEF Layout!CutAtSize, Layout!Last
  <2>2. QED
    BY <1>1, <1>2, <2>1 DEF LayoutInv
<1>3. ~Layout!Pending => Layout!TarOpens
  <2>1. SUFFICES ASSUME ~Layout!Pending, NEW k \in DOMAIN archive PROVE archive[k].complete
    BY DEF Layout!TarOpens
  <2>2. k \in 1..Len(archive) /\ Len(archive) \in Nat
    BY DEF LayoutInv
  <2>3. CASE k = Len(archive)
    BY <2>1, <2>2, <2>3 DEF Layout!Pending, Layout!Last
  <2>4. CASE k # Len(archive)
    BY <2>2, <2>4 DEF LayoutInv
  <2>5. QED
    BY <2>3, <2>4
<1>4. CASE tarState = "open" /\ tarState' \in {"closed", "failed"}
  <2>1. Layout!TarOpens => \A n \in Layout!Names : Same(n)
    BY <1>4 DEF LayoutInv
  <2>2. tarState' = "closed" => Layout!TarOpens
    BY <1>3, <1>4
  <2>3. QED
    BY <1>1, <1>4, <2>1, <2>2 DEF LayoutInv
<1>5. QED
  BY <1>2, <1>4

\* Every step of the layouts keeps their invariant.
LEMMA LayoutNext ==
  ASSUME LayoutInv, [Layout!Next]_layoutVars
  PROVE  LayoutInv'
<1>1. ASSUME NEW d \in Digests, NEW size \in Lengths, NEW n \in Lengths,
             Layout!WriteFileFromReader(d, size, n)
      PROVE  LayoutInv'
  <2> DEFINE kept == Layout!Bytes(d, IF n < size THEN n ELSE size)
             content == Layout!Bytes(d, n)
             complete == n >= size
  <2>1. d \in Layout!Names /\ content \in Contents /\ kept \in Contents
    BY DEF Layout!Names, Contents
  <2>2. /\ tarState = "open" /\ tarState' \in {"open", "failed"}
        /\ n > size => tarState' = "failed"
        /\ Layout!TarWrite(d, kept, complete) /\ Layout!DirWrite(d, content)
    BY <1>1 DEF Layout!WriteFileFromReader, Layout!Writing
  <2>3. n \in Nat /\ size \in Nat
    BY LayoutAssumption
  <2>4. ASSUME complete PROVE kept = content \/ (tarState' = "failed" /\ Cut(d, kept, content))
    <3>1. CASE n = size
      BY <2>3, <3>1
    <3>2. CASE n > size
      <4>1. kept = Layout!Bytes(d, size) /\ size < n
        BY <2>3, <3>2
      <4>2. QED
        BY <2>2, <3>2, <4>1 DEF Cut
    <3>3. QED
      BY <2>3, <2>4, <3>1, <3>2
  <2>5. complete \in BOOLEAN
    BY <2>3
  <2> HIDE DEF kept, content, complete
  <2>6. QED
    BY <2>1, <2>2, <2>4, <2>5, WriteInv
<1>2. ASSUME NEW content \in Layout!Indexes, Layout!WriteFile(IndexJSON, content)
      PROVE  LayoutInv'
  <2>1. IndexJSON \in Layout!Names /\ content \in Contents
    BY <1>2 DEF Layout!Names, Contents
  <2>2. QED
    BY <1>2, <2>1, WriteInv DEF Layout!WriteFile, Layout!Writing
<1>3. ASSUME NEW name \in Layout!Names, Layout!WriteCutOff(name)
      PROVE  LayoutInv'
  <2>1. Layout!Short \in Contents
    BY DEF Contents
  <2>2. QED
    BY <1>3, <2>1, WriteInv DEF Layout!WriteCutOff, Layout!Writing
<1>4. CASE Layout!CloseWriter
  BY <1>4, NoWriteInv DEF Layout!CloseWriter
<1>5. CASE Layout!Stop
  BY <1>5, NoWriteInv DEF Layout!Stop
<1>6. CASE UNCHANGED layoutVars
  BY <1>6, NoWriteInv DEF layoutVars
<1>7. QED
  BY <1>1, <1>2, <1>3, <1>4, <1>5, <1>6 DEF Layout!Next, Layout!vars, layoutVars, Layout!Names

\* An empty archive.
LEMMA LayoutInit == component = "layout" /\ Init => LayoutInv
<1>1. SUFFICES ASSUME archive = <<>>, dir = [n \in {} |-> Layout!Short], tarState = "open"
               PROVE  LayoutInv
  BY DEF Init, Layout!Init
<1>2. \A n \in Layout!Names : Layout!TarEntry(n) = 0
  BY <1>1 DEF Layout!TarEntry, Layout!SelectLastInSeq
<1>3. QED
  BY <1>1, <1>2 DEF LayoutInv, Same, Layout!TarRead, Layout!DirRead

\* The invariant of the layouts.
LEMMA LayoutInvariant == Spec => []LayoutPart
<1>1. Init => LayoutPart
  BY LayoutInit DEF LayoutPart
<1>2. ASSUME LayoutPart, [Next]_vars PROVE LayoutPart'
  <2>1. SUFFICES ASSUME component' = "layout" PROVE LayoutInv'
    BY DEF LayoutPart
  <2>2. component = "layout"
    BY <1>2, <2>1 DEF Next, vars
  <2>3. QED
    BY <1>2, <2>2, LayoutSteps, LayoutNext DEF LayoutPart
<1>3. QED
  BY <1>1, <1>2, PTL DEF Spec

\* For any calls, as many as one likes, of any lengths: an archive closed without
\* an error opens, and one that opens answers every read as the directory that
\* was given the same calls, but for a last stream that was longer than announced,
\* which it has cut and reported (common.go:142-154, ocistorage.go:197-212 and
\* 369-394).
THEOREM ArchiveReadsLikeDirectory == Spec => []ReadersAgree
<1>1. ASSUME LayoutInv PROVE Layout!ReadersAgree
  <2>1. Layout!TarOpens =>
          \A n \in Layout!Names : Layout!TarRead(n) = Layout!DirRead(n) \/ Layout!CutAtSize(n)
    BY <1>1 DEF LayoutInv, Same
  <2>2. IndexJSON \in Layout!Names /\ ~Layout!CutAtSize(IndexJSON)
    BY LayoutAssumption DEF Layout!Names, Layout!CutAtSize
  <2>3. QED
    BY <1>1, <2>1, <2>2 DEF LayoutInv, Layout!ReadersAgree
<1>2. QED
  BY <1>1, LayoutInvariant, PTL DEF ReadersAgree, LayoutPart

-----------------------------------------------------------------------------
(* StorageReader *)

\* A step of the composition is a step of the reader, or leaves it alone.
LEMMA StorageSteps ==
  ASSUME component = "storage", [Next]_vars
  PROVE  component' = "storage" /\ [Storage!Next]_storageVars
BY DEF Next, vars

\* The first n chunks of a layer's compressed content.
Beginning(diffID, n) == [k \in 1..n |-> Storage!Chunk(diffID, k)]

\* What was hashed is a beginning of the content, and the file holds as much,
\* or a part more if the end is missing.
Served(file, digest, diffID) ==
  \E n \in 0..Chunks :
    /\ digest = Beginning(diffID, n)
    /\ \/ file = digest
       \/ n < Chunks /\ file = Append(digest, Storage!Part(diffID))

\* While a layer is copied, its file is there and is what was hashed.
Copying ==
  exportPc = "copy" =>
    /\ i <= Len(image.layers) /\ i <= Len(image.diffIDs)
    /\ image.layers[i] \in onDisk
    /\ written = hashed
    /\ \E n \in 0..Chunks - 1 : hashed = Beginning(image.diffIDs[i], n)

Exported(k) == image.layers[k] \in DOMAIN layerFiles /\ image.layers[k] \in onDisk

\* Every file is of a layer that has been exported.
FilesServed ==
  /\ DOMAIN layerDigests = DOMAIN layerFiles
  /\ \A n \in DOMAIN layerFiles :
       \E k \in 1..(i - 1) :
         /\ n = image.layers[k]
         /\ Served(layerFiles[n], layerDigests[n], image.diffIDs[k])

StorageInv ==
  /\ image \in Images
  /\ i \in Nat \ {0} /\ i - 1 <= Len(image.layers) /\ i - 1 <= Len(image.diffIDs)
  /\ FilesServed
  /\ Copying
  /\ exportPc \in {"layer", "copy", "open"} => \A k \in 1..(i - 1) : Exported(k)
  /\ exportPc = "open" => i > Len(image.layers) \/ i > Len(image.diffIDs)
  /\ exportPc \in {"closed", "error"} => onDisk = {}

StoragePart == component = "storage" => StorageInv

-----------------------------------------------------------------------------

\* No file is exported when the reader opens.
LEMMA StorageInit == component = "storage" /\ Init => StorageInv
BY ImagesAssumption DEF Init, Storage!Init, StorageInv, FilesServed, Copying

\* Lengths are numbers.
LEMMA ImageLists ==
  ASSUME image \in Images
  PROVE  /\ Len(image.layers) \in Nat /\ DOMAIN image.layers = 1..Len(image.layers)
         /\ Len(image.diffIDs) \in Nat /\ DOMAIN image.diffIDs = 1..Len(image.diffIDs)
<1>1. image.layers \in Seq({image.layers[k] : k \in DOMAIN image.layers})
  BY ImagesAssumption
<1>2. image.diffIDs \in Seq({image.diffIDs[k] : k \in DOMAIN image.diffIDs})
  BY ImagesAssumption
<1>3. QED
  BY <1>1, <1>2

\* Another chunk continues a beginning.
LEMMA NextChunk ==
  ASSUME NEW diffID, NEW n \in Nat
  PROVE  /\ Beginning(diffID, n) \in Seq({Storage!Chunk(diffID, k) : k \in 1..n})
         /\ Len(Beginning(diffID, n)) = n
         /\ Append(Beginning(diffID, n), Storage!Chunk(diffID, n + 1)) = Beginning(diffID, n + 1)
<1>1. Beginning(diffID, n) \in Seq({Storage!Chunk(diffID, k) : k \in 1..n})
  BY DEF Beginning
<1>2. Len(Beginning(diffID, n)) = n
  BY DEF Beginning
<1>3. QED
  BY <1>1, <1>2 DEF Beginning

\* What holds of the exported files depends on nothing else.
LEMMA FilesStay ==
  ASSUME FilesServed, UNCHANGED <<image, layerFiles, layerDigests, i>>
  PROVE  FilesServed'
BY DEF FilesServed, Served, Beginning

\* The directory goes away and the reader with it.
LEMMA RemoveExportInv ==
  ASSUME StorageInv, NEW next \in {"closed", "error"}, Storage!RemoveExport(next)
  PROVE  StorageInv'
BY FilesStay DEF StorageInv, Copying, Storage!RemoveExport, Storage!export

\* A new layer begins with an empty file and an empty digest.
LEMMA StartLayerInv ==
  ASSUME StorageInv, Storage!StartLayer
  PROVE  StorageInv'
<1>1. CASE Copies[Storage!DiffID] \cap present = {}
  BY <1>1, RemoveExportInv DEF Storage!StartLayer
<1>2. CASE Copies[Storage!DiffID] \cap present # {}
  <2>1. /\ exportPc = "layer" /\ exportPc' = "copy"
        /\ i <= Len(image.layers) /\ i <= Len(image.diffIDs)
        /\ onDisk' = onDisk \cup {image.layers[i]}
        /\ written' = <<>> /\ hashed' = <<>>
        /\ UNCHANGED <<image, present, layerFiles, layerDigests, i>>
    BY <1>2 DEF Storage!StartLayer, Storage!export
  <2>2. 0 \in 0..Chunks - 1 /\ Beginning(image.diffIDs[i], 0) = <<>>
    BY ChunksAssumption DEF Beginning
  <2>3. Copying'
    BY <2>1, <2>2 DEF Copying, Beginning
  <2>4. \A k \in 1..(i - 1) : Exported(k)'
    BY <2>1 DEF StorageInv, Exported
  <2>5. QED
    BY <2>1, <2>3, <2>4, FilesStay DEF StorageInv
<1>3. QED
  BY <1>1, <1>2

\* What a write of chunk k leaves in the file and in the hasher.
LEMMA WriteFacts ==
  ASSUME NEW diffID, NEW n \in 0..Chunks - 1,
         Storage!DiffID = diffID, hashed = Beginning(diffID, n), written = hashed,
         Storage!Write(n + 1)
  PROVE  /\ Served(written', hashed', diffID)
         /\ Storage!Written(n + 1) =>
              hashed' = Beginning(diffID, n + 1) /\ written' = hashed'
<1>1. n \in Nat /\ n + 1 \in 0..Chunks /\ n \in 0..Chunks /\ n < Chunks
  BY ChunksAssumption
<1>2. Append(hashed, Storage!Chunk(diffID, n + 1)) = Beginning(diffID, n + 1)
  BY <1>1, NextChunk
<1>3. Len(hashed) = n
  BY <1>1, NextChunk
<1>4. CASE written' = Append(written, Storage!Chunk(diffID, n + 1)) /\
           hashed' = Append(hashed, Storage!Chunk(diffID, n + 1))
  BY <1>1, <1>2, <1>4 DEF Served
<1>5. CASE written' \in {written, Append(written, Storage!Part(diffID))} /\ hashed' = hashed
  BY <1>1, <1>3, <1>5 DEF Served, Storage!Written
<1>6. QED
  BY <1>4, <1>5 DEF Storage!Write

\* A chunk goes to the file and to the digest, or the layer fails.
LEMMA CopyChunkInv ==
  ASSUME StorageInv, Storage!CopyChunk
  PROVE  StorageInv'
<1>1. PICK n \in 0..Chunks - 1 : hashed = Beginning(image.diffIDs[i], n)
  BY DEF StorageInv, Copying, Storage!CopyChunk
<1>2. n \in Nat /\ Len(hashed) + 1 = n + 1
  <2>1. n \in Nat
    BY ChunksAssumption
  <2>2. QED
    BY <1>1, <2>1, NextChunk
<1>3. /\ exportPc = "copy" /\ n + 1 < Chunks
      /\ Storage!Write(n + 1)
      /\ UNCHANGED <<image, present, layerFiles, layerDigests, i>>
  BY <1>2 DEF Storage!CopyChunk, Storage!export
<1>4. Storage!Written(n + 1) =>
        hashed' = Beginning(image.diffIDs[i], n + 1) /\ written' = hashed'
  BY <1>1, <1>3, WriteFacts DEF StorageInv, Copying, Storage!DiffID
<1>5. CASE Storage!Written(n + 1)
  <2>1. exportPc' = exportPc /\ onDisk' = onDisk
    BY <1>2, <1>5 DEF Storage!CopyChunk
  <2>2. n + 1 \in 0..Chunks - 1
    BY <1>2, <1>3, ChunksAssumption
  <2>3. Copying'
    BY <1>3, <1>4, <1>5, <2>1, <2>2 DEF StorageInv, Copying, Beginning
  <2>4. QED
    BY <1>3, <2>1, <2>3, FilesStay DEF StorageInv, Exported
<1>6. CASE ~Storage!Written(n + 1)
  <2>1. exportPc' = "error" /\ onDisk' = {}
    BY <1>2, <1>6 DEF Storage!CopyChunk
  <2>2. QED
    BY <1>3, <2>1, FilesStay DEF StorageInv, Copying
<1>7. QED
  BY <1>5, <1>6

\* A layer is entered when its file is complete.
LEMMA CloseFileInv ==
  ASSUME StorageInv, Storage!CloseFile
  PROVE  StorageInv'
<1> DEFINE name == image.layers[i]
           diffID == image.diffIDs[i]
<1>1. PICK n \in 0..Chunks - 1 : hashed = Beginning(diffID, n)
  BY DEF StorageInv, Copying, Storage!CloseFile
<1>2. n \in Nat /\ Len(hashed) = n /\ n + 1 = Chunks
  <2>1. n \in Nat
    BY ChunksAssumption
  <2>2. Len(hashed) = n
    BY <1>1, <2>1, NextChunk
  <2>3. Len(hashed) = Chunks - 1
    BY DEF Storage!CloseFile
  <2>4. QED
    BY <2>1, <2>2, <2>3, ChunksAssumption
<1>3. /\ exportPc = "copy" /\ exportPc' = "layer" /\ i' = i + 1
      /\ Storage!Write(n + 1)
      /\ UNCHANGED <<image, present, onDisk>>
  BY <1>2 DEF Storage!CloseFile
<1>4. Served(written', hashed', diffID)
  BY <1>1, <1>3, WriteFacts DEF StorageInv, Copying, Storage!DiffID
<1>5. /\ DOMAIN layerFiles' = DOMAIN layerFiles \cup {name}
      /\ DOMAIN layerDigests' = DOMAIN layerFiles'
      /\ layerFiles'[name] = written' /\ layerDigests'[name] = hashed'
      /\ \A x \in DOMAIN layerFiles \ {name} :
           layerFiles'[x] = layerFiles[x] /\ layerDigests'[x] = layerDigests[x]
  BY DEF Storage!CloseFile
<1>6. /\ i \in Nat \ {0} /\ i <= Len(image.layers) /\ i <= Len(image.diffIDs)
      /\ name \in onDisk
      /\ Len(image.layers) \in Nat /\ Len(image.diffIDs) \in Nat
  BY <1>3, ImageLists DEF StorageInv, Copying
<1>7. i' - 1 = i /\ 1..(i' - 1) = (1..(i - 1)) \cup {i}
  BY <1>3, <1>6
<1>8. ASSUME NEW x \in DOMAIN layerFiles'
      PROVE  \E k \in 1..(i' - 1) :
               x = image'.layers[k] /\ Served(layerFiles'[x], layerDigests'[x], image'.diffIDs[k])
  BY <1>3, <1>4, <1>5, <1>7 DEF StorageInv, FilesServed
<1>9. ASSUME NEW k \in 1..(i' - 1) PROVE Exported(k)'
  BY <1>3, <1>5, <1>6, <1>7 DEF StorageInv, Exported
<1>10. Copying'
  BY <1>3 DEF Copying
<1>11. FilesServed'
  BY <1>5, <1>8 DEF FilesServed
<1> HIDE DEF name, diffID
<1>12. QED
  BY <1>3, <1>5, <1>6, <1>7, <1>9, <1>10, <1>11 DEF StorageInv

\* The reader opens when every layer is entered.
LEMMA ExportedInv ==
  ASSUME StorageInv, Storage!Exported
  PROVE  StorageInv'
<1>1. /\ exportPc = "layer" /\ exportPc' = "open"
      /\ i > Len(image.layers) \/ i > Len(image.diffIDs)
      /\ UNCHANGED <<image, present, layerFiles, layerDigests, i, onDisk, written, hashed>>
  BY DEF Storage!Exported, Storage!export
<1>2. \A k \in 1..(i - 1) : Exported(k)'
  BY <1>1 DEF StorageInv, Exported
<1>3. QED
  BY <1>1, <1>2, FilesStay DEF StorageInv, Copying

\* Another process removes a layer of the image; no exported file goes.
LEMMA LayerRemovedInv ==
  ASSUME StorageInv, NEW l, Storage!LayerRemoved(l)
  PROVE  StorageInv'
BY FilesStay DEF StorageInv, Copying, Exported, Beginning, Storage!LayerRemoved, Storage!export

\* Every step of the storage reader keeps its invariant.
LEMMA StorageNext ==
  ASSUME StorageInv, [Storage!Next]_storageVars
  PROVE  StorageInv'
<1>1. CASE \E l \in present : Storage!LayerRemoved(l)
  BY <1>1, LayerRemovedInv
<1>2. CASE Storage!StartLayer
  BY <1>2, StartLayerInv
<1>3. CASE Storage!CopyChunk
  BY <1>3, CopyChunkInv
<1>4. CASE Storage!DiffFails
  BY <1>4, RemoveExportInv DEF Storage!DiffFails
<1>5. CASE Storage!CloseFile
  BY <1>5, CloseFileInv
<1>6. CASE Storage!Exported
  BY <1>6, ExportedInv
<1>7. CASE Storage!CloseReader
  BY <1>7, RemoveExportInv DEF Storage!CloseReader
<1>8. CASE UNCHANGED storageVars
  BY <1>8, FilesStay DEF storageVars, StorageInv, Copying, Exported, Beginning
<1>9. CASE UNCHANGED Storage!vars
  BY <1>8, <1>9 DEF Storage!vars, storageVars
<1>10. QED
  BY <1>1, <1>2, <1>3, <1>4, <1>5, <1>6, <1>7, <1>8, <1>9 DEF Storage!Next

\* The invariant of the storage reader.
LEMMA StorageInvariant == Spec => []StoragePart
<1>1. Init => StoragePart
  BY StorageInit DEF StoragePart
<1>2. ASSUME StoragePart, [Next]_vars PROVE StoragePart'
  <2>1. SUFFICES ASSUME component' = "storage" PROVE StorageInv'
    BY DEF StoragePart
  <2>2. component = "storage"
    BY <1>2, <2>1 DEF Next, vars
  <2>3. QED
    BY <1>2, <2>2, StorageSteps, StorageNext DEF StoragePart
<1>3. QED
  BY <1>1, <1>2, PTL DEF Spec

\* No exported layer is served with a digest that promises more than its file
\* holds, for any images, stores and numbers of chunks (ocistorage.go:471-500).
THEOREM DigestNeverAhead == Spec => []DigestIsNotAhead
<1>1. ASSUME StorageInv PROVE Storage!DigestIsNotAhead
  <2>1. SUFFICES ASSUME NEW x \in DOMAIN layerFiles
                 PROVE  /\ /\ Len(layerDigests[x]) <= Len(layerFiles[x])
                           /\ SubSeq(layerDigests[x], 1, Len(layerDigests[x])) = SubSeq(layerFiles[x], 1, Len(layerDigests[x]))
                        /\ \A t \in DOMAIN Copies : layerDigests[x] = Storage!Whole(t) =>
                             layerFiles[x] = Storage!Whole(t)
    BY DEF Storage!DigestIsNotAhead, Storage!IsPrefix
  <2>2. PICK k \in 1..(i - 1) : Served(layerFiles[x], layerDigests[x], image.diffIDs[k])
    BY <1>1 DEF StorageInv, FilesServed
  <2> DEFINE t == image.diffIDs[k]
  <2>3. PICK n \in 0..Chunks : /\ layerDigests[x] = Beginning(t, n)
                               /\ \/ layerFiles[x] = layerDigests[x]
                                  \/ n < Chunks /\ layerFiles[x] = Append(layerDigests[x], Storage!Part(t))
    BY <2>2 DEF Served
  <2>4. n \in Nat /\ Chunks \in Nat
    BY ChunksAssumption
  <2>5. Len(layerDigests[x]) = n /\ layerDigests[x] \in Seq({Storage!Chunk(t, j) : j \in 1..n})
    BY <2>3, <2>4, NextChunk
  <2>6. /\ Len(layerDigests[x]) <= Len(layerFiles[x])
        /\ SubSeq(layerDigests[x], 1, Len(layerDigests[x])) = SubSeq(layerFiles[x], 1, Len(layerDigests[x]))
    BY <2>3, <2>4, <2>5
  <2>7. ASSUME NEW u \in DOMAIN Copies, layerDigests[x] = Storage!Whole(u)
        PROVE  layerFiles[x] = Storage!Whole(u)
    <3>1. Len(Storage!Whole(u)) = Chunks
      BY <2>4 DEF Storage!Whole
    <3>2. QED
      BY <2>3, <2>4, <2>5, <2>7, <3>1
  <2>8. QED
    BY <2>6, <2>7
<1>2. QED
  BY <1>1, StorageInvariant, PTL DEF DigestIsNotAhead, StoragePart

\* An open reader has, for every layer that the config lists too, a file of its
\* own that was made from a layer of this diff_id; a reader that failed or was
\* closed has left none (ocistorage.go:451-468, 502-518, 594-598).
THEOREM ReaderHasItsLayers == Spec => []OpenReaderHasItsLayers
<1>1. ASSUME StorageInv, exportPc = "open",
             NEW k \in DOMAIN image.layers \cap DOMAIN image.diffIDs
      PROVE  /\ image.layers[k] \in DOMAIN layerFiles \cap onDisk
             /\ \A c \in Storage!ToSet(layerFiles[image.layers[k]]) : c.diffID = image.diffIDs[k]
  <2>1. k \in 1..(i - 1)
    BY <1>1, ImageLists DEF StorageInv
  <2>2. image.layers[k] \in DOMAIN layerFiles \cap onDisk
    BY <1>1, <2>1 DEF StorageInv, Exported
  <2> DEFINE file == layerFiles[image.layers[k]]
             digest == layerDigests[image.layers[k]]
  <2>3. PICK l \in 1..(i - 1) : image.layers[k] = image.layers[l] /\ Served(file, digest, image.diffIDs[l])
    BY <1>1, <2>2 DEF StorageInv, FilesServed
  <2>4. l \in DOMAIN image.layers \cap DOMAIN image.diffIDs
    BY <1>1, ImageLists DEF StorageInv
  <2>5. image.diffIDs[l] = image.diffIDs[k]
    BY <1>1, <2>3, <2>4, ImagesAssumption DEF StorageInv
  <2> DEFINE diffID == image.diffIDs[k]
  <2>6. PICK n \in 0..Chunks : /\ digest = Beginning(diffID, n)
                               /\ file = digest \/ file = Append(digest, Storage!Part(diffID))
    BY <2>3, <2>5 DEF Served
  <2>7. ASSUME NEW c \in Storage!ToSet(file) PROVE c.diffID = diffID
    <3>1. PICK x \in DOMAIN file : c = file[x]
      BY DEF Storage!ToSet
    <3>2. \A y \in DOMAIN digest : digest[y].diffID = diffID
      BY <2>6 DEF Beginning, Storage!Chunk
    <3>3. CASE file = digest
      BY <3>1, <3>2, <3>3
    <3>4. CASE file = Append(digest, Storage!Part(diffID))
      <4>1. n \in Nat
        BY ChunksAssumption
      <4>2. digest \in Seq({Storage!Chunk(diffID, y) : y \in 1..n}) /\ Len(digest) = n
        BY <2>6, <4>1, NextChunk
      <4>3. x \in 1..(n + 1)
        BY <3>1, <3>4, <4>1, <4>2
      <4>4. CASE x = n + 1
        BY <3>1, <3>4, <4>1, <4>2, <4>4 DEF Storage!Part
      <4>5. CASE x \in 1..n
        BY <3>1, <3>2, <3>4, <4>1, <4>2, <4>5
      <4>6. QED
        BY <4>1, <4>3, <4>4, <4>5
    <3>5. QED
      BY <2>6, <3>3, <3>4
  <2>8. QED
    BY <2>2, <2>7
<1>2. ASSUME StorageInv PROVE Storage!OpenReaderHasItsLayers
  BY <1>1, <1>2 DEF Storage!OpenReaderHasItsLayers, StorageInv
<1>3. QED
  BY <1>2, StorageInvariant, PTL DEF OpenReaderHasItsLayers, StoragePart

-----------------------------------------------------------------------------
(* OstreeSource *)

\* Before the commit is read, and before the ref is found.
Searching == sourcePc \in {"list", "scan"}
Unread == Searching \/ sourcePc = "enumerate"

\* Every ref leads to a commit that is there.
RefsResolve ==
  /\ DOMAIN refs \subseteq Refs /\ stored \subseteq Commits
  /\ \A r \in DOMAIN refs : refs[r] \in stored

\* The refs that stayed in place and have been looked at are of other images.
OthersScanned ==
  sourcePc = "scan" \/ (sourcePc = "error" /\ found = None) =>
    \A r \in DOMAIN refs \ excused :
      (sourcePc = "scan" /\ r \in toScan) \/ ConfigOf[refs[r]] # Wanted

\* The ref that was found is of the old image, unless it was changed since.
FoundMatches ==
  /\ Searching => found = None
  /\ sourcePc = "enumerate" =>
       /\ found \in Refs
       /\ found \notin excused => found \in DOMAIN refs /\ ConfigOf[refs[found]] = Wanted

\* What is listed and opened is of the commit that was read.
FilesOfCommit ==
  /\ Unread => commit = None /\ opened = {} /\ DOMAIN pathToObj = {}
  /\ sourcePc \in {"listing", "patch"} => commit # None
  /\ commit # None =>
       /\ found \in Refs /\ commit \in Commits
       /\ found \notin excused => ConfigOf[commit] = Wanted
       /\ toList \subseteq DOMAIN Tree[commit]
       /\ \A p \in DOMAIN pathToObj : p \in DOMAIN Tree[commit] /\ pathToObj[p] = Tree[commit][p]
  /\ \A file \in opened :
       \E p \in DOMAIN Tree[commit] :
         /\ p = file[1] \/ (file[1] \in DOMAIN UsrEtc /\ p = UsrEtc[file[1]])
         /\ Tree[commit][p] = file[2]

OstreeInv == RefsResolve /\ OthersScanned /\ FoundMatches /\ FilesOfCommit

OstreePart == component = "ostree" => OstreeInv

-----------------------------------------------------------------------------

\* A step of the composition is a step of the data source, or leaves it alone.
LEMMA OstreeSteps ==
  ASSUME component = "ostree", [Next]_vars
  PROVE  component' = "ostree" /\ [Ostree!Next]_ostreeVars
BY DEF Next, vars

\* At first nothing was listed.
LEMMA OstreeInit == component = "ostree" /\ Init => OstreeInv
BY NoneAssumption
   DEF Init, Ostree!Init, OstreeInv, RefsResolve, OthersScanned, FoundMatches, FilesOfCommit,
       Searching, Unread

\* What another process does to the refs: r is excused once the refs are listed,
\* the others stay where they are.
LEMMA RefChanges ==
  ASSUME OstreeInv, NEW r \in Refs,
         UNCHANGED <<sourcePc, toScan, found, commit, toList, pathToObj, opened>>,
         Ostree!Excuse(r), RefsResolve',
         \A x \in DOMAIN refs' \ {r} : x \in DOMAIN refs /\ refs'[x] = refs[x],
         DOMAIN refs \ {r} \subseteq DOMAIN refs'
  PROVE  OstreeInv'
<1>1. sourcePc # "list" => excused' = excused \cup {r}
  BY DEF Ostree!Excuse
<1>2. excused \subseteq excused'
  BY DEF Ostree!Excuse
<1>3. OthersScanned'
  <2>1. SUFFICES ASSUME sourcePc = "scan" \/ (sourcePc = "error" /\ found = None),
                        NEW x \in DOMAIN refs' \ excused'
                 PROVE  (sourcePc = "scan" /\ x \in toScan) \/ ConfigOf[refs'[x]] # Wanted
    BY DEF OthersScanned
  <2>2. x \in DOMAIN refs \ excused /\ refs'[x] = refs[x]
    BY <1>1, <1>2, <2>1 DEF OstreeInv, RefsResolve
  <2>3. QED
    BY <2>1, <2>2 DEF OstreeInv, OthersScanned
<1>4. FoundMatches'
  <2>1. SUFFICES ASSUME sourcePc = "enumerate", found \notin excused'
                 PROVE  found \in DOMAIN refs' /\ ConfigOf[refs'[found]] = Wanted
    BY DEF OstreeInv, FoundMatches, Searching
  <2>2. QED
    BY <1>1, <1>2, <2>1 DEF OstreeInv, FoundMatches
<1>5. FilesOfCommit'
  BY <1>2 DEF OstreeInv, FilesOfCommit, Unread, Searching
<1>6. QED
  BY <1>3, <1>4, <1>5 DEF OstreeInv

\* What others do to the repository keeps its refs resolved.
LEMMA RepositoryInv ==
  ASSUME OstreeInv,
         \/ \E r \in Refs : Ostree!DeleteRef(r) \/ (\E c \in Commits : Ostree!MoveRef(r, c))
         \/ Ostree!Prune
  PROVE  OstreeInv'
<1>1. ASSUME NEW r \in Refs, Ostree!DeleteRef(r) PROVE OstreeInv'
  <2>1. RefsResolve'
    BY <1>1 DEF Ostree!DeleteRef, OstreeInv, RefsResolve
  <2>2. QED
    BY <1>1, <2>1, RefChanges DEF Ostree!DeleteRef, Ostree!program, OstreeInv, RefsResolve
<1>2. ASSUME NEW r \in Refs, NEW c \in Commits, Ostree!MoveRef(r, c) PROVE OstreeInv'
  <2>1. RefsResolve'
    BY <1>2 DEF Ostree!MoveRef, OstreeInv, RefsResolve
  <2>2. QED
    BY <1>2, <2>1, RefChanges DEF Ostree!MoveRef, Ostree!program, OstreeInv, RefsResolve
<1>3. CASE Ostree!Prune
  BY <1>3 DEF Ostree!Prune, Ostree!program, OstreeInv, RefsResolve, OthersScanned, FoundMatches,
     FilesOfCommit, Searching, Unread
<1>4. QED
  BY <1>1, <1>2, <1>3

\* What is opened is what the list has under the path, or under the one below usr/.
LEMMA ObjectFacts ==
  ASSUME OstreeInv, NEW path, commit # None, Ostree!Object(path) # None
  PROVE  \E p \in DOMAIN Tree[commit] :
           /\ p = path \/ (path \in DOMAIN UsrEtc /\ p = UsrEtc[path])
           /\ Tree[commit][p] = Ostree!Object(path)
BY DEF OstreeInv, FilesOfCommit, Ostree!Object

\* Every step of the data source keeps its invariant.
LEMMA OstreeNext ==
  ASSUME OstreeInv, [Ostree!Next]_ostreeVars
  PROVE  OstreeInv'
<1> USE DEF Ostree!repository
<1>1. CASE \E r \in Refs : Ostree!DeleteRef(r) \/ (\E c \in Commits : Ostree!MoveRef(r, c))
  BY <1>1, RepositoryInv
<1>2. CASE Ostree!Prune
  BY <1>2, RepositoryInv
<1>3. CASE Ostree!ListRefs
  BY <1>3 DEF Ostree!ListRefs, OstreeInv, RefsResolve, OthersScanned, FoundMatches, FilesOfCommit,
     Searching, Unread
<1>4. CASE Ostree!NotFound
  BY <1>4 DEF Ostree!NotFound, OstreeInv, RefsResolve, OthersScanned, FoundMatches, FilesOfCommit,
     Searching, Unread
<1>5. CASE Ostree!ReadCommit
  <2>1. /\ sourcePc = "enumerate" /\ sourcePc' = "listing"
        /\ found \in DOMAIN refs /\ commit' = refs[found] /\ toList' = DOMAIN Tree[commit']
        /\ UNCHANGED <<refs, stored, toScan, found, pathToObj, opened, excused>>
    BY <1>5 DEF Ostree!ReadCommit, Ostree!Resolves
  <2>2. commit' \in Commits /\ commit' # None
    BY <2>1, NoneAssumption DEF OstreeInv, RefsResolve
  <2>3. QED
    BY <2>1, <2>2 DEF OstreeInv, RefsResolve, OthersScanned, FoundMatches, FilesOfCommit,
       Searching, Unread
<1>6. CASE Ostree!Listed \/ Ostree!Done \/ Ostree!Fail
  BY <1>6 DEF Ostree!Listed, Ostree!Done, Ostree!Fail, Ostree!Ends, OstreeInv, RefsResolve,
     OthersScanned, FoundMatches, FilesOfCommit, Searching, Unread
<1>7. ASSUME NEW r \in toScan, Ostree!Scan(r) \/ Ostree!ScanUnreadable(r) PROVE OstreeInv'
  <2>1. CASE Ostree!Scan(r)
    BY <1>7, <2>1 DEF Ostree!Scan, Ostree!Scanned, Ostree!Resolves, OstreeInv, RefsResolve,
       OthersScanned, FoundMatches, FilesOfCommit, Searching, Unread
  <2>2. CASE Ostree!ScanUnreadable(r)
    BY <1>7, <2>2 DEF Ostree!ScanUnreadable, Ostree!Scanned, Ostree!Excuse, OstreeInv, RefsResolve,
       OthersScanned, FoundMatches, FilesOfCommit, Searching, Unread
  <2>3. QED
    BY <1>7, <2>1, <2>2
<1>8. ASSUME NEW p \in toList, Ostree!ListFile(p) \/ Ostree!SkipFile(p) PROVE OstreeInv'
  BY <1>8 DEF Ostree!ListFile, Ostree!SkipFile, OstreeInv, RefsResolve, OthersScanned,
     FoundMatches, FilesOfCommit, Searching, Unread
<1>9. ASSUME NEW path \in Requests, Ostree!SetCurrentFile(path) PROVE OstreeInv'
  <2>1. /\ sourcePc = "patch"
        /\ UNCHANGED <<refs, stored, toScan, found, commit, toList, pathToObj, excused>>
    BY <1>9 DEF Ostree!SetCurrentFile
  <2>2. CASE opened' = opened /\ sourcePc' = "error"
    BY <2>1, <2>2, NoneAssumption DEF OstreeInv, RefsResolve, OthersScanned, FoundMatches,
       FilesOfCommit, Searching, Unread
  <2>3. CASE Ostree!HasObject(Ostree!Object(path)) /\ sourcePc' = sourcePc /\
             opened' = opened \cup {<<path, Ostree!Object(path)>>}
    <3>1. commit # None
      BY <2>1 DEF OstreeInv, FilesOfCommit
    <3>2. Ostree!Object(path) # None
      BY <2>3, NoneAssumption DEF Ostree!HasObject, OstreeInv, RefsResolve
    <3>3. \E p \in DOMAIN Tree[commit] :
            /\ p = path \/ (path \in DOMAIN UsrEtc /\ p = UsrEtc[path])
            /\ Tree[commit][p] = Ostree!Object(path)
      BY <3>1, <3>2, ObjectFacts
    <3>4. FilesOfCommit'
      BY <2>1, <2>3, <3>3 DEF OstreeInv, FilesOfCommit, Unread, Searching
    <3>5. QED
      BY <2>1, <2>3, <3>4 DEF OstreeInv, RefsResolve, OthersScanned, FoundMatches, Searching
  <2>4. QED
    BY <1>9, <2>2, <2>3 DEF Ostree!SetCurrentFile
<1>10. CASE UNCHANGED ostreeVars
  BY <1>10 DEF ostreeVars, OstreeInv, RefsResolve, OthersScanned, FoundMatches, FilesOfCommit,
     Searching, Unread
<1>11. CASE UNCHANGED Ostree!vars
  BY <1>10, <1>11 DEF Ostree!vars, ostreeVars
<1>12. QED
  BY <1>1, <1>2, <1>3, <1>4, <1>5, <1>6, <1>7, <1>8, <1>9, <1>10, <1>11 DEF Ostree!Next

\* The invariant of the OSTree data source.
LEMMA OstreeInvariant == Spec => []OstreePart
<1>1. Init => OstreePart
  BY OstreeInit DEF OstreePart
<1>2. ASSUME OstreePart, [Next]_vars PROVE OstreePart'
  <2>1. SUFFICES ASSUME component' = "ostree" PROVE OstreeInv'
    BY DEF OstreePart
  <2>2. component = "ostree"
    BY <1>2, <2>1 DEF Next, vars
  <2>3. QED
    BY <1>2, <2>2, OstreeSteps, OstreeNext DEF OstreePart
<1>3. QED
  BY <1>1, <1>2, PTL DEF Spec

\* Whatever happens to the repository meanwhile, all files patched from are of
\* one commit, and it is the old image's unless its ref was changed during the
\* run: for any refs, commits and trees (ostreerepo.go:218-251).
THEOREM FilesFromOneCommit == Spec => []PatchesFromOneCommit
<1>1. ASSUME OstreeInv PROVE Ostree!PatchesFromOneCommit
  BY <1>1 DEF OstreeInv, FilesOfCommit, Ostree!PatchesFromOneCommit
<1>2. QED
  BY <1>1, OstreeInvariant, PTL DEF PatchesFromOneCommit, OstreePart

\* The search fails only when no ref that stayed in place holds the old image
\* (ostreerepo.go:301-324).
THEOREM SearchFindsWhatStays == Spec => []FindsWhatStays
<1>1. ASSUME OstreeInv PROVE Ostree!FindsWhatStays
  BY <1>1 DEF OstreeInv, OthersScanned, Ostree!FindsWhatStays
<1>2. QED
  BY <1>1, OstreeInvariant, PTL DEF FindsWhatStays, OstreePart

-----------------------------------------------------------------------------
(* Commands *)

Statement == {"tmpDir", "old", "new", "signature", "delta", "parse", "verify", "store",
              "mount", "source", "writer", "work"}

Configured ==
  /\ command \in {"create", "apply", "import"}
  /\ source \in {"storage", "other"}
  /\ inStorage \subseteq Command!Readers

\* What the order of the statements gives.
StatementOrder(stmts) ==
  /\ stmts \in Seq(Statement) /\ Len(stmts) \in Nat \ {0}
  /\ \A k \in 1..Len(stmts) :
       /\ stmts[k] = "work" <=> k = Len(stmts)
       /\ stmts[k] = "delta" => stmts[k + 1] = "parse"
       /\ stmts[k] = "writer" => stmts[k + 1] = "work"
       /\ stmts[k] = "mount" =>
            /\ stmts[k + 1] \in {"writer", "work"}
            /\ \E j \in 1..k - 1 : stmts[j] = "store"

\* The statement a running command is at.
AtStep(s) == commandPc = "running" /\ Command!Statements[step] = s

\* The store has been opened by a statement before this one.
StoreOpened == \E j \in 1..step - 1 : Command!Statements[j] = "store"

Deferred(d) == \E k \in DOMAIN deferred : deferred[k] = d

\* What is acquired will be released: by a deferred call, by the statement that
\* comes next, or by the failure of it; or its release has failed.
Accounted ==
  \A h \in held :
    \/ Deferred(h) \/ h \in left
    \/ (h = "delta" /\ AtStep("parse")) \/ (h = "writer" /\ AtStep("work"))

\* Whoever shuts the store down when it is released.
Owner(d) == d = "store" \/ d \in inStorage

\* Nobody will shut the store down any more.
StoreLeft == left \cap {"shutdown", "mount", "unresolved"} # {}

\* While the store is open, one of its owners is still to be released, or there
\* is a reason why nobody closes it.
StoreIsOwned ==
  storeUp =>
    \/ \E d \in Statement : Owner(d) /\ Deferred(d)
    \/ "delta" \in inStorage /\ AtStep("parse")
    \/ StoreLeft

\* The mount is released before everything else, with the store still open.
MountIsLast ==
  /\ "mount" \in held => Deferred("mount") \/ "mount" \in left
  /\ Deferred("mount") =>
       /\ "mount" \in held /\ storeUp
       /\ deferred[Len(deferred)] = "mount"
       /\ \A k \in 1..Len(deferred) - 1 : deferred[k] # "mount"
       /\ commandPc = "running" => AtStep("writer") \/ AtStep("work")

CommandInv ==
  /\ Configured
  /\ deferred \in Seq(Statement)
  /\ commandPc \in {"running", "returning", "done"}
  /\ commandPc = "running" =>
       /\ step \in 1..Len(Command!Statements) /\ (StoreOpened => storeUp)
       /\ left = {}
  /\ storeUp \in BOOLEAN
  /\ Accounted /\ StoreIsOwned /\ MountIsLast
  /\ ~misused
  /\ commandPc = "done" => held \subseteq left /\ (storeUp => StoreLeft)

CommandPart == component = "command" => CommandInv

-----------------------------------------------------------------------------

\* The statements of every command open a resource before they need it.
LEMMA StatementsOrdered ==
  ASSUME Configured
  PROVE  /\ StatementOrder(Command!Statements)
         /\ command = "import" => Command!Statements[1] = "store"
<1>1. CASE command = "create"
  <2>1. Command!Statements = <<"tmpDir", "old", "new", "signature", "writer", "work">>
    BY <1>1 DEF Command!Statements
  <2>2. QED
    BY <1>1, <2>1 DEF StatementOrder, Statement
<1>2. CASE command = "apply" /\ source = "storage"
  <2>1. Command!Statements =
          <<"tmpDir", "delta", "parse", "verify", "store", "mount", "writer", "work">>
    BY <1>2 DEF Command!Statements
  <2>2. QED
    BY <1>2, <2>1 DEF StatementOrder, Statement
<1>3. CASE command = "apply" /\ source # "storage"
  <2>1. Command!Statements =
          <<"tmpDir", "delta", "parse", "verify", "source", "writer", "work">>
    BY <1>3 DEF Command!Statements
  <2>2. QED
    BY <1>3, <2>1 DEF StatementOrder, Statement
<1>4. CASE command = "import"
  <2>1. Command!Statements =
          <<"store", "tmpDir", "delta", "parse", "verify", "mount", "work">>
    BY <1>4 DEF Command!Statements
  <2>2. QED
    BY <1>4, <2>1 DEF StatementOrder, Statement
<1>5. QED
  BY <1>1, <1>2, <1>3, <1>4 DEF Configured

\* A step of the composition is a step of the command, or leaves it alone.
LEMMA CommandSteps ==
  ASSUME component = "command", [Next]_vars
  PROVE  component' = "command" /\ [Command!Next]_commandVars
BY DEF Next, vars

\* A command starts with nothing open.
LEMMA CommandInit == component = "command" /\ Init => CommandInv
<1> SUFFICES ASSUME component = "command", Init PROVE CommandInv
  OBVIOUS
<1>1. Configured
  BY DEF Init, Command!Init, Configured
<1>2. StatementOrder(Command!Statements)
  BY <1>1, StatementsOrdered
<1>3. step \in 1..Len(Command!Statements) /\ ~StoreOpened
  BY <1>2 DEF Init, Command!Init, StatementOrder, StoreOpened
<1>4. deferred = <<>> /\ \A d : ~Deferred(d)
  BY DEF Init, Command!Init, Deferred
<1>5. /\ deferred \in Seq(Statement) /\ commandPc = "running" /\ storeUp = FALSE /\ held = {}
      /\ left = {} /\ misused = FALSE
  BY DEF Init, Command!Init
<1>6. QED
  BY <1>1, <1>3, <1>4, <1>5 DEF CommandInv, Accounted, StoreIsOwned, MountIsLast

\* What statement s puts on the deferred calls.
DeferredBy(s) ==
  CASE s = "parse" -> {"delta"}
    [] s \in {"tmpDir", "old", "new", "signature", "store", "source", "mount"} -> {s}
    [] OTHER -> {}

\* A statement defers at most one release.
LEMMA DefersAtMostOne ==
  ASSUME NEW s \in Statement
  PROVE  \/ Command!Defers(s) = <<>> /\ DeferredBy(s) = {}
         \/ \E d \in Statement : Command!Defers(s) = <<d>> /\ DeferredBy(s) = {d}
BY DEF Command!Defers, DeferredBy, Statement

\* A list with one more element.
LEMMA Appended ==
  ASSUME CommandInv, NEW s \in Statement, deferred' = deferred \o Command!Defers(s)
  PROVE  /\ deferred' \in Seq(Statement)
         /\ \A d : Deferred(d)' <=> Deferred(d) \/ d \in DeferredBy(s)
         /\ DeferredBy(s) = {} => deferred' = deferred
         /\ s = "mount" =>
              /\ Len(deferred') = Len(deferred) + 1
              /\ deferred'[Len(deferred')] = "mount"
              /\ \A k \in 1..Len(deferred) : deferred'[k] = deferred[k]
<1>0. deferred \in Seq(Statement)
  BY DEF CommandInv
<1>1. CASE Command!Defers(s) = <<>> /\ DeferredBy(s) = {}
  <2>1. deferred' = deferred
    BY <1>0, <1>1
  <2>2. s # "mount"
    BY <1>1 DEF DeferredBy
  <2>3. QED
    BY <1>0, <1>1, <2>1, <2>2 DEF Deferred
<1>2. ASSUME NEW d \in Statement, Command!Defers(s) = <<d>>, DeferredBy(s) = {d}
      PROVE  /\ deferred' \in Seq(Statement)
             /\ \A e : Deferred(e)' <=> Deferred(e) \/ e = d
             /\ Len(deferred') = Len(deferred) + 1
             /\ deferred'[Len(deferred')] = d
             /\ \A k \in 1..Len(deferred) : deferred'[k] = deferred[k]
  <2>1. deferred' = deferred \o <<d>> /\ deferred' \in Seq(Statement)
    BY <1>0, <1>2
  <2>2. /\ Len(deferred') = Len(deferred) + 1
        /\ deferred'[Len(deferred) + 1] = d
        /\ \A k \in 1..Len(deferred) : deferred'[k] = deferred[k]
    BY <1>0, <2>1
  <2>3. ASSUME NEW e PROVE Deferred(e)' <=> Deferred(e) \/ e = d
    BY <1>0, <2>1, <2>2 DEF Deferred
  <2>4. QED
    BY <2>1, <2>2, <2>3
<1>3. s = "mount" => DeferredBy(s) = {"mount"}
  BY DEF DeferredBy
<1>4. QED
  BY <1>1, <1>2, <1>3, DefersAtMostOne

\* A statement that succeeds.
LEMMA AdvanceKeeps ==
  ASSUME CommandInv, NEW s \in Statement, Command!At(s), Command!Advance(s),
         UNCHANGED <<command, source, inStorage, left>>,
         held' \subseteq held \cup {s},
         s \in {"parse", "verify", "work"} => held' \subseteq held,
         s = "work" => "writer" \notin held',
         "mount" \in held' <=> "mount" \in held \/ s = "mount",
         storeUp' = (storeUp \/ s = "store" \/ s \in inStorage),
         ~misused'
  PROVE  CommandInv'
<1> DEFINE S == Command!Statements
<1>1. Configured /\ Configured' /\ Command!Statements' = Command!Statements
  BY DEF CommandInv, Configured, Command!Statements, Command!Readers
<1>2. StatementOrder(S)
  BY <1>1, StatementsOrdered
<1>3. commandPc = "running" /\ S[step] = s /\ step \in 1..Len(S) /\ (StoreOpened => storeUp)
      /\ left = {} /\ left' = {}
  BY DEF Command!At, CommandInv
<1>4. step' = step + 1 /\ commandPc' = IF step = Len(S) THEN "returning" ELSE "running"
  BY DEF Command!Advance
<1>5. Len(S) \in Nat
  BY <1>2 DEF StatementOrder
<1>6. commandPc' = "running" => step' \in 1..Len(S)
  BY <1>3, <1>4, <1>5
<1>7. s = "work" <=> commandPc' # "running"
  BY <1>2, <1>3, <1>4 DEF StatementOrder
<1>8. /\ s = "delta" => AtStep("parse")'
      /\ s = "writer" => AtStep("work")'
      /\ s = "mount" => AtStep("writer")' \/ AtStep("work")'
      /\ s = "mount" => StoreOpened
  BY <1>1, <1>2, <1>3, <1>4, <1>7 DEF StatementOrder, AtStep, StoreOpened
<1>9. \A x : AtStep(x) => x = s
  BY <1>3 DEF AtStep
<1> HIDE DEF S
<1>10. /\ deferred' \in Seq(Statement)
       /\ \A d : Deferred(d)' <=> Deferred(d) \/ d \in DeferredBy(s)
       /\ DeferredBy(s) = {} => deferred' = deferred
       /\ s = "mount" =>
            /\ Len(deferred') = Len(deferred) + 1
            /\ deferred'[Len(deferred')] = "mount"
            /\ \A k \in 1..Len(deferred) : deferred'[k] = deferred[k]
  BY Appended DEF Command!Advance
<1>11. (StoreOpened => storeUp)'
  <2>1. SUFFICES ASSUME NEW j \in 1..step' - 1, S[j] = "store" PROVE storeUp'
    BY <1>1 DEF StoreOpened, S
  <2>2. CASE j = step
    BY <1>3, <2>1, <2>2
  <2>3. CASE j # step
    <3>1. j \in 1..step - 1
      BY <1>3, <1>4, <1>5, <2>1, <2>3
    <3>2. QED
      BY <1>3, <2>1, <3>1 DEF StoreOpened, S
  <2>4. QED
    BY <2>2, <2>3
<1>12. storeUp' \in BOOLEAN
  BY DEF CommandInv
<1>13. s \in {"tmpDir", "old", "new", "signature", "store", "source", "mount"} => s \in DeferredBy(s)
  BY DEF DeferredBy
<1>14. "delta" \in DeferredBy("parse")
  BY DEF DeferredBy
<1>15. Accounted'
  <2>1. SUFFICES ASSUME NEW h \in held'
                 PROVE  \/ Deferred(h)' \/ h \in left' \/ (h = "delta" /\ AtStep("parse")')
                        \/ (h = "writer" /\ AtStep("work")')
    BY DEF Accounted
  <2>2. CASE h \in held
    BY <1>9, <1>10, <1>14, <2>1, <2>2 DEF CommandInv, Accounted
  <2>3. CASE h \notin held
    <3>1. h = s /\ s \notin {"parse", "verify", "work"}
      BY <2>1, <2>3
    <3>2. QED
      BY <1>8, <1>10, <1>13, <3>1 DEF Statement
  <2>4. QED
    BY <2>2, <2>3
<1>16. StoreIsOwned'
  <2>1. SUFFICES ASSUME storeUp'
                 PROVE  \/ \E d \in Statement : Owner(d)' /\ Deferred(d)'
                        \/ "delta" \in inStorage' /\ AtStep("parse")'
    BY DEF StoreIsOwned
  <2>2. \A d : Owner(d)' <=> Owner(d)
    BY DEF Owner
  <2>3. CASE storeUp
    <3>1. CASE \E d \in Statement : Owner(d) /\ Deferred(d)
      BY <1>10, <2>2, <3>1
    <3>2. CASE "delta" \in inStorage /\ AtStep("parse")
      BY <1>9, <1>10, <1>14, <2>2, <3>2 DEF Owner, Statement
    <3>3. QED
      BY <1>3, <2>3, <3>1, <3>2 DEF CommandInv, StoreIsOwned, StoreLeft
  <2>4. CASE s = "store" \/ s \in inStorage
    <3>1. s \in {"store", "old", "new", "signature", "delta"}
      BY <1>1, <2>4 DEF Configured, Command!Readers
    <3>2. CASE s = "delta"
      BY <1>8, <2>4, <3>2
    <3>3. CASE s # "delta"
      BY <1>10, <1>13, <2>2, <2>4, <3>1, <3>3 DEF Owner
    <3>4. QED
      BY <3>2, <3>3
  <2>5. QED
    BY <2>1, <2>3, <2>4
<1>17. MountIsLast'
  <2>1. CASE s = "mount"
    <3>1. storeUp' /\ Deferred("mount")' /\ "mount" \in held'
      BY <1>3, <1>8, <1>10, <1>13, <2>1
    <3>2. ~Deferred("mount")
      BY <1>3, <1>9, <2>1 DEF CommandInv, MountIsLast
    <3>3. deferred \in Seq(Statement)
      BY DEF CommandInv
    <3>4. \A k \in 1..Len(deferred') - 1 : deferred'[k] # "mount"
      BY <1>10, <2>1, <3>2, <3>3 DEF Deferred
    <3>5. QED
      BY <1>8, <1>10, <2>1, <3>1, <3>4 DEF MountIsLast
  <2>2. CASE s # "mount"
    <3>1. "mount" \notin DeferredBy(s)
      BY <2>2 DEF DeferredBy
    <3>2. CASE Deferred("mount")
      <4>1. s \in {"writer", "work"}
        BY <1>3, <1>9, <3>2 DEF CommandInv, MountIsLast
      <4>2. deferred' = deferred
        BY <1>10, <4>1 DEF DeferredBy
      <4>3. "mount" \in held' /\ storeUp'
        BY <3>2 DEF CommandInv, MountIsLast
      <4>4. commandPc' = "running" => AtStep("work")'
        BY <1>7, <1>8, <4>1
      <4>5. QED
        BY <1>10, <3>2, <4>2, <4>3, <4>4 DEF CommandInv, MountIsLast
    <3>3. CASE ~Deferred("mount")
      BY <1>10, <2>2, <3>1, <3>3 DEF CommandInv, MountIsLast
    <3>4. QED
      BY <3>2, <3>3
  <2>3. QED
    BY <2>1, <2>2
<1>18. commandPc' \in {"running", "returning"}
  BY <1>4
<1>19. QED
  BY <1>1, <1>3, <1>6, <1>10, <1>11, <1>12, <1>15, <1>16, <1>17, <1>18 DEF CommandInv, S

\* What a release leaves, whether it fails or not.
LEMMA ReleaseFacts ==
  ASSUME NEW d, NEW had, NEW up \in BOOLEAN, Command!Release(d, had, up)
  PROVE  /\ left \subseteq left' /\ held' \subseteq had
         /\ \A h \in had : h # d => h \in held'
         /\ d \in held' => d \in left'
         /\ storeUp' \in BOOLEAN
         /\ storeUp' => up
         /\ ~Owner(d) => storeUp' = up
         /\ Owner(d) /\ storeUp' => "shutdown" \in left' \/ "mount" \in had
BY DEF Command!Release, Command!Shuts, Owner

\* The command returns: nothing runs any more but what is deferred.
LEMMA FailingFacts ==
  ASSUME CommandInv, NEW s, Command!Failing(s)
  PROVE  /\ commandPc = "running" /\ commandPc' = "returning" /\ left = {}
         /\ Configured /\ Configured'
         /\ deferred' \in Seq(Statement) /\ ~misused' /\ deferred' = deferred
         /\ inStorage' = inStorage
         /\ \A x : (AtStep(x) <=> x = s) /\ ~AtStep(x)'
         /\ \A d : (Deferred(d)' <=> Deferred(d)) /\ (Owner(d)' <=> Owner(d))
         /\ s \notin {"writer", "work"} => "mount" \notin held /\ ~Deferred("mount")
<1>1. /\ commandPc = "running" /\ commandPc' = "returning"
      /\ Command!Statements[step] = s
      /\ UNCHANGED <<command, source, inStorage, step, deferred, misused>>
  BY DEF Command!Failing, Command!At, Command!config
<1>2. \A x : (AtStep(x) <=> x = s) /\ ~AtStep(x)'
  BY <1>1 DEF AtStep
<1>3. Configured /\ Configured'
  BY <1>1 DEF CommandInv, Configured, Command!Readers
<1>4. \A d : (Deferred(d)' <=> Deferred(d)) /\ (Owner(d)' <=> Owner(d))
  BY <1>1 DEF Deferred, Owner
<1>5. left = {}
  BY <1>1 DEF CommandInv
<1>6. s \notin {"writer", "work"} => "mount" \notin held /\ ~Deferred("mount")
  BY <1>1, <1>2, <1>5 DEF CommandInv, MountIsLast
<1>7. QED
  BY <1>1, <1>2, <1>3, <1>4, <1>5, <1>6 DEF CommandInv

\* A reader of storage fails: before the store opens, on an image that it does
\* not find, or with a shutdown.
LEMMA StorageReaderFailsKeeps ==
  ASSUME CommandInv, NEW r \in Command!Readers, Command!StorageReaderFails(r)
  PROVE  CommandInv'
<1>1. Command!Failing(r) /\ r \in inStorage
  BY DEF Command!StorageReaderFails
<1>2. /\ commandPc = "running" /\ commandPc' = "returning" /\ left = {}
      /\ Configured /\ Configured'
      /\ deferred' \in Seq(Statement) /\ ~misused' /\ deferred' = deferred
      /\ \A x : (AtStep(x) <=> x = r) /\ ~AtStep(x)'
      /\ \A d : (Deferred(d)' <=> Deferred(d)) /\ (Owner(d)' <=> Owner(d))
      /\ "mount" \notin held /\ ~Deferred("mount")
  BY <1>1, FailingFacts DEF Command!Readers
<1>3. storeUp \in BOOLEAN /\ Accounted /\ StoreIsOwned
  BY DEF CommandInv
<1>4. r \notin {"parse", "work", "mount"}
  BY DEF Command!Readers
<1>5. CASE UNCHANGED <<held, left, storeUp>>
  <2>1. "delta" \in inStorage /\ AtStep("parse") => FALSE
    BY <1>2, <1>4
  <2>2. Accounted' /\ StoreIsOwned' /\ MountIsLast'
    BY <1>2, <1>3, <1>4, <1>5, <2>1 DEF Accounted, StoreIsOwned, StoreLeft, MountIsLast
  <2>3. QED
    BY <1>2, <1>3, <1>5, <2>2 DEF CommandInv
<1>6. CASE storeUp' = TRUE /\ left' = left \cup {"unresolved"} /\ UNCHANGED held
  <2>1. Accounted' /\ StoreIsOwned' /\ MountIsLast'
    BY <1>2, <1>3, <1>4, <1>6 DEF Accounted, StoreIsOwned, StoreLeft, MountIsLast
  <2>2. QED
    BY <1>2, <1>6, <2>1 DEF CommandInv
<1>7. CASE Command!Release(r, held \cup {r}, TRUE)
  <2>1. /\ left \subseteq left' /\ held' \subseteq held \cup {r}
        /\ r \in held' => r \in left'
        /\ storeUp' \in BOOLEAN
        /\ Owner(r) /\ storeUp' => "shutdown" \in left' \/ "mount" \in held \cup {r}
    BY <1>7, ReleaseFacts
  <2>2. Owner(r) /\ (storeUp' => StoreLeft')
    BY <1>1, <1>2, <1>4, <2>1 DEF Owner, StoreLeft
  <2>3. Accounted'
    <3>1. SUFFICES ASSUME NEW h \in held' PROVE Deferred(h)' \/ h \in left'
      BY DEF Accounted
    <3>2. CASE h = r
      BY <2>1, <3>1, <3>2
    <3>3. CASE h # r
      BY <1>2, <1>3, <1>4, <2>1, <3>1, <3>3 DEF Accounted
    <3>4. QED
      BY <3>2, <3>3
  <2>4. StoreIsOwned' /\ MountIsLast'
    BY <1>2, <1>4, <2>1, <2>2 DEF StoreIsOwned, MountIsLast
  <2>5. QED
    BY <1>2, <2>1, <2>3, <2>4 DEF CommandInv
<1>8. QED
  BY <1>5, <1>6, <1>7 DEF Command!StorageReaderFails

\* A delta that does not parse is closed: no layer is mounted then.
LEMMA ParseFailsKeeps ==
  ASSUME CommandInv, Command!ParseDeltaFails
  PROVE  CommandInv'
<1>1. Command!Failing("parse") /\ Command!Release("delta", held, storeUp)
  BY DEF Command!ParseDeltaFails
<1>2. /\ commandPc = "running" /\ commandPc' = "returning" /\ left = {}
      /\ Configured /\ Configured'
      /\ deferred' \in Seq(Statement) /\ ~misused' /\ deferred' = deferred
      /\ \A x : (AtStep(x) <=> x = "parse") /\ ~AtStep(x)'
      /\ \A d : (Deferred(d)' <=> Deferred(d)) /\ (Owner(d)' <=> Owner(d))
      /\ "mount" \notin held /\ ~Deferred("mount")
  BY <1>1, FailingFacts
<1>3. storeUp \in BOOLEAN /\ Accounted /\ StoreIsOwned
  BY DEF CommandInv
<1>4. /\ left \subseteq left' /\ held' \subseteq held
      /\ "delta" \in held' => "delta" \in left'
      /\ storeUp' \in BOOLEAN /\ (storeUp' => storeUp)
      /\ Owner("delta") /\ storeUp' => "shutdown" \in left' \/ "mount" \in held
  BY <1>1, <1>3, ReleaseFacts
<1>5. Accounted'
  BY <1>2, <1>3, <1>4 DEF Accounted
<1>6. StoreIsOwned'
  BY <1>2, <1>3, <1>4 DEF StoreIsOwned, StoreLeft, Owner
<1>7. MountIsLast'
  BY <1>2, <1>4 DEF MountIsLast
<1>8. QED
  BY <1>2, <1>4, <1>5, <1>6, <1>7 DEF CommandInv

\* Another statement fails: at most the writer was its own.
LEMMA FailureKeeps ==
  ASSUME CommandInv, Command!StatementFails
  PROVE  CommandInv'
<1>1. PICK s \in {"tmpDir", "verify", "store", "source", "mount", "writer", "work"} \cup
                 (Command!Readers \ inStorage) :
        /\ Command!Failing(s)
        /\ held' = IF s = "work" THEN held \ {"writer"} ELSE held
        /\ UNCHANGED <<left, storeUp>>
  BY DEF Command!StatementFails
<1>2. /\ commandPc = "running" /\ commandPc' = "returning" /\ left = {}
      /\ Configured /\ Configured'
      /\ deferred' \in Seq(Statement) /\ ~misused' /\ deferred' = deferred
      /\ \A x : (AtStep(x) <=> x = s) /\ ~AtStep(x)'
      /\ \A d : (Deferred(d)' <=> Deferred(d)) /\ (Owner(d)' <=> Owner(d))
  BY <1>1, FailingFacts
<1>3. s # "parse"
  BY <1>1 DEF Command!Readers
<1>4. storeUp \in BOOLEAN /\ Accounted /\ StoreIsOwned /\ MountIsLast
  BY DEF CommandInv
<1>5. Accounted'
  BY <1>1, <1>2, <1>3, <1>4 DEF Accounted
<1>6. StoreIsOwned'
  BY <1>1, <1>2, <1>3, <1>4 DEF StoreIsOwned, StoreLeft
<1>7. MountIsLast'
  BY <1>1, <1>2, <1>4 DEF MountIsLast
<1>8. QED
  BY <1>1, <1>2, <1>4, <1>5, <1>6, <1>7 DEF CommandInv

\* A deferred call: the mount's comes before any that shuts the store down.
LEMMA DeferredKeeps ==
  ASSUME CommandInv, Command!RunDeferred
  PROVE  CommandInv'
<1> DEFINE d == deferred[Len(deferred)]
<1>1. deferred \in Seq(Statement) /\ deferred # <<>>
  BY DEF CommandInv, Command!RunDeferred
<1>2. Len(deferred) \in Nat \ {0}
  BY <1>1
<1>3. /\ commandPc = "returning" /\ Command!Release(d, held, storeUp)
      /\ misused' = (misused \/ (d = "mount" /\ ~storeUp))
      /\ deferred' = SubSeq(deferred, 1, Len(deferred) - 1)
      /\ UNCHANGED <<command, source, inStorage, step, commandPc>>
  BY DEF Command!RunDeferred, Command!config, Command!Last, Command!Front
<1>4. /\ deferred' \in Seq(Statement) /\ Len(deferred') = Len(deferred) - 1
      /\ \A k \in 1..Len(deferred) - 1 : deferred'[k] = deferred[k]
  <2>1. Len(deferred) - 1 \in Nat
    BY <1>2
  <2>2. deferred' = [k \in 1..Len(deferred) - 1 |-> deferred[k]]
    BY <1>1, <1>2, <1>3, <2>1
  <2>3. \A k \in 1..Len(deferred) - 1 : deferred[k] \in Statement
    BY <1>1, <1>2
  <2>4. QED
    BY <2>1, <2>2, <2>3
<1>5. d \in Statement /\ Deferred(d)
  BY <1>1, <1>2 DEF Deferred
<1>6. \A e : Deferred(e) => e = d \/ Deferred(e)'
  BY <1>1, <1>2, <1>4 DEF Deferred
<1>7. \A e : Deferred(e)' => \E k \in 1..Len(deferred) - 1 : deferred[k] = e
  BY <1>1, <1>2, <1>4 DEF Deferred
<1>8. \A e : ~AtStep(e) /\ ~AtStep(e)' /\ (Owner(e)' <=> Owner(e))
  BY <1>3 DEF AtStep, Owner
<1>9. Configured /\ Configured'
  BY <1>3 DEF CommandInv, Configured, Command!Readers
<1>10. ~Deferred("mount")'
  BY <1>6, <1>7, <1>4 DEF CommandInv, MountIsLast, Deferred
<1>11. "mount" \in held => d = "mount" \/ "mount" \in left
  BY DEF CommandInv, MountIsLast
<1>12. d = "mount" => storeUp /\ ~Owner(d)
  BY <1>5, <1>9 DEF CommandInv, MountIsLast, Configured, Command!Readers, Owner
<1> HIDE DEF d
<1>13. storeUp \in BOOLEAN /\ Accounted /\ StoreIsOwned
  BY DEF CommandInv
<1>14. /\ left \subseteq left' /\ held' \subseteq held
       /\ d \in held' => d \in left'
       /\ storeUp' \in BOOLEAN /\ (storeUp' => storeUp)
       /\ Owner(d) /\ storeUp' => "shutdown" \in left' \/ "mount" \in held
  BY <1>3, <1>13, ReleaseFacts
<1>15. Accounted'
  BY <1>6, <1>8, <1>13, <1>14 DEF Accounted
<1>16. StoreIsOwned'
  <2>1. SUFFICES ASSUME storeUp'
                 PROVE  (\E e \in Statement : Owner(e)' /\ Deferred(e)') \/ StoreLeft'
    BY DEF StoreIsOwned
  <2>2. CASE Owner(d)
    BY <1>11, <1>12, <1>14, <2>1, <2>2 DEF StoreLeft
  <2>3. CASE ~Owner(d)
    <3>1. (\E e \in Statement : Owner(e) /\ Deferred(e)) \/ StoreLeft
      BY <1>8, <1>13, <1>14, <2>1 DEF StoreIsOwned
    <3>2. StoreLeft => StoreLeft'
      BY <1>14 DEF StoreLeft
    <3>3. QED
      BY <1>6, <1>8, <2>3, <3>1, <3>2
  <2>4. QED
    BY <2>2, <2>3
<1>17. MountIsLast'
  BY <1>10, <1>11, <1>14 DEF MountIsLast
<1>18. ~misused'
  BY <1>3, <1>12 DEF CommandInv
<1>19. QED
  BY <1>3, <1>4, <1>9, <1>14, <1>15, <1>16, <1>17, <1>18 DEF CommandInv

\* Every step of a command keeps its invariant.
LEMMA CommandNext ==
  ASSUME CommandInv, [Command!Next]_commandVars
  PROVE  CommandInv'
<1> USE DEF Command!config
<1>1. ASSUME NEW r \in Command!Readers, Command!OpenReader(r) PROVE CommandInv'
  <2>1. r \in Statement /\ r \notin {"parse", "verify", "work", "mount", "store"}
    BY <1>1 DEF Command!Readers, Statement
  <2>2. QED
    BY <1>1, <2>1, AdvanceKeeps DEF Command!OpenReader, CommandInv
<1>2. ASSUME NEW s \in {"tmpDir", "source", "store"}, Command!Acquire(s) PROVE CommandInv'
  <2>1. s \in Statement /\ s \notin inStorage /\ s \notin {"parse", "verify", "work", "mount"}
    BY <1>2 DEF CommandInv, Configured, Command!Readers, Statement
  <2>2. QED
    BY <1>2, <2>1, AdvanceKeeps DEF Command!Acquire, CommandInv
<1>3. \A s \in {"parse", "verify", "mount", "writer", "work"} : s \in Statement /\ s \notin inStorage
  BY DEF CommandInv, Configured, Command!Readers, Statement
<1>4. /\ Configured /\ storeUp \in BOOLEAN /\ ~misused
      /\ commandPc = "running" => step \in 1..Len(Command!Statements) /\ (StoreOpened => storeUp)
  BY DEF CommandInv
<1>5. /\ StatementOrder(Command!Statements)
      /\ command = "import" => Command!Statements[1] = "store"
  BY <1>4, StatementsOrdered
<1>6. CASE Command!ParseDelta
  <2>1. storeUp' = (storeUp \/ "parse" = "store" \/ "parse" \in inStorage)
    BY <1>3, <1>4, <1>6 DEF Command!ParseDelta
  <2>2. QED
    BY <1>3, <1>4, <1>6, <2>1, AdvanceKeeps DEF Command!ParseDelta
<1>7. CASE Command!Verify
  <2>1. storeUp' = (storeUp \/ "verify" = "store" \/ "verify" \in inStorage)
    BY <1>3, <1>4, <1>7 DEF Command!Verify
  <2>2. QED
    BY <1>3, <1>4, <1>7, <2>1, AdvanceKeeps DEF Command!Verify
<1>8. CASE Command!Mount
  <2>1. storeUp' = (storeUp \/ "mount" = "store" \/ "mount" \in inStorage)
    BY <1>3, <1>4, <1>8 DEF Command!Mount
  <2>2. storeUp
    BY <1>4, <1>5, <1>8 DEF Command!Mount, Command!At, StatementOrder, StoreOpened
  <2>3. QED
    BY <1>3, <1>4, <1>8, <2>1, <2>2, AdvanceKeeps DEF Command!Mount
<1>9. CASE Command!OpenWriter
  <2>1. storeUp' = (storeUp \/ "writer" = "store" \/ "writer" \in inStorage)
    BY <1>3, <1>4, <1>9 DEF Command!OpenWriter
  <2>2. QED
    BY <1>3, <1>4, <1>9, <2>1, AdvanceKeeps DEF Command!OpenWriter
<1>10. CASE Command!Work
  <2>1. storeUp' = (storeUp \/ "work" = "store" \/ "work" \in inStorage)
    BY <1>3, <1>4, <1>10 DEF Command!Work
  <2>2. command = "import" => storeUp
    <3>1. commandPc = "running" /\ Command!Statements[step] = "work"
      BY <1>10 DEF Command!Work, Command!At
    <3>2. command = "import" => step # 1
      BY <1>5, <3>1
    <3>3. QED
      BY <1>4, <1>5, <3>1, <3>2 DEF StatementOrder, StoreOpened
  <2>3. QED
    BY <1>3, <1>4, <1>10, <2>1, <2>2, AdvanceKeeps DEF Command!Work
<1>11. CASE Command!Return
  <2>1. \A d : ~Deferred(d) /\ ~AtStep(d)
    BY <1>11 DEF Command!Return, Deferred, AtStep
  <2>2. held \subseteq left /\ (storeUp => StoreLeft)
    BY <2>1 DEF CommandInv, Accounted, StoreIsOwned
  <2>3. \A d : ~Deferred(d)'
    BY <1>11 DEF Command!Return, Deferred
  <2>4. (StoreLeft' <=> StoreLeft) /\ ("mount" \in held' => "mount" \in left')
    BY <1>11, <2>2 DEF Command!Return, StoreLeft
  <2>5. QED
    BY <1>11, <2>2, <2>3, <2>4 DEF Command!Return, CommandInv, Configured, Command!Readers,
       Accounted, StoreIsOwned, MountIsLast
<1>12. CASE UNCHANGED commandVars
  <2>1. /\ Configured' <=> Configured
        /\ Command!Statements' = Command!Statements
        /\ \A d : (Deferred(d)' <=> Deferred(d)) /\ (Owner(d)' <=> Owner(d))
    BY <1>12 DEF commandVars, Configured, Command!Readers, Command!Statements, Deferred, Owner
  <2>2. (StoreOpened' <=> StoreOpened) /\ \A x : AtStep(x)' <=> AtStep(x)
    BY <1>12, <2>1 DEF commandVars, StoreOpened, AtStep
  <2>3. (Accounted' <=> Accounted) /\ (StoreIsOwned' <=> StoreIsOwned) /\ (MountIsLast' <=> MountIsLast)
        /\ (StoreLeft' <=> StoreLeft)
    BY <1>12, <2>1, <2>2 DEF commandVars, Accounted, StoreIsOwned, StoreLeft, MountIsLast
  <2>4. QED
    BY <1>12, <2>1, <2>2, <2>3 DEF commandVars, CommandInv
<1>13. CASE Command!Next
  <2>1. \/ \E r \in Command!Readers : Command!OpenReader(r)
        \/ \E s \in {"tmpDir", "source", "store"} : Command!Acquire(s)
        \/ Command!ParseDelta \/ Command!Verify \/ Command!Mount \/ Command!OpenWriter
        \/ Command!Work
        \/ \E r \in Command!Readers : Command!StorageReaderFails(r)
        \/ Command!ParseDeltaFails \/ Command!StatementFails
        \/ Command!RunDeferred \/ Command!Return
        \/ UNCHANGED commandVars
    BY <1>13 DEF Command!Next, Command!vars, commandVars
  <2>2. QED
    BY <2>1, <1>1, <1>2, <1>6, <1>7, <1>8, <1>9, <1>10, <1>11, <1>12,
       StorageReaderFailsKeeps, ParseFailsKeeps, FailureKeeps, DeferredKeeps
<1>14. QED
  BY <1>12, <1>13

\* The invariant of the commands.
LEMMA CommandInvariant == Spec => []CommandPart
<1>1. Init => CommandPart
  BY CommandInit DEF CommandPart
<1>2. CommandPart /\ [Next]_vars => CommandPart'
  <2> SUFFICES ASSUME CommandPart, [Next]_vars, component' = "command" PROVE CommandInv'
    BY DEF CommandPart
  <2>1. component = "command"
    BY DEF Next, vars
  <2>2. QED
    BY <2>1, CommandSteps, CommandNext DEF CommandPart
<1>3. QED
  BY <1>1, <1>2, PTL DEF Spec

\* When a command returns, also by an error at any of its statements, it holds
\* nothing but what could not be released, and the store is open only if a
\* shutdown or an unmount failed or a reader did not find its image (create.go,
\* apply.go, import.go of cmd, ocistorage.go:41-62).
THEOREM CommandsRelease == Spec => []ReturnReleasesAll
<1>1. CommandPart => ReturnReleasesAll
  BY DEF CommandPart, CommandInv, StoreLeft, ReturnReleasesAll, Command!ReturnReleasesAll
<1>2. QED
  BY <1>1, CommandInvariant, PTL

\* The store is shut down after everything that uses it: the deferred releases
\* run in the reverse order of the statements.
THEOREM StoreNotMisused == Spec => []StoreOutlivesItsUsers
<1>1. CommandPart => StoreOutlivesItsUsers
  BY DEF CommandPart, CommandInv, StoreOutlivesItsUsers, Command!StoreOutlivesItsUsers
<1>2. QED
  BY <1>1, CommandInvariant, PTL

================================================================================
