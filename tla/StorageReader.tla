----------------------------- MODULE StorageReader -----------------------------
(***************************************************************************)
(* The reader of an image in containers/storage (ocistorage.go:443-592):   *)
(* each layer is exported, recompressed into a temporary file under the    *)
(* digest the manifest gives it, and served with the digest of what was    *)
(* written.  gzip holds back the end of its output until it is closed.     *)
(* Another process may remove layers; the disk may fill up, which only the *)
(* writes that io.Copy makes report.                                       *)
(***************************************************************************)
EXTENDS SequencesExt

CONSTANTS Images,        \* [layers: names in the manifest, diffIDs: of the config]
          Copies,        \* diff_id -> the layers of the store with this diff_id
          Chunks         \* writes that make up a compressed layer, the last by Close

VARIABLES image,
          present,       \* layers of the store that are still there
          layerFiles,    \* digest path -> the file, for the layers exported
          layerDigests,  \* digest path -> what the hasher was given
          onDisk,        \* names of the files in the export directory
          i,             \* the layer being exported
          written, hashed, \* of it: chunks in the file and in the hasher
          pc

vars == <<image, present, layerFiles, layerDigests, onDisk, i, written, hashed, pc>>

export == <<layerFiles, layerDigests, i>>

\* Chunk k of a layer's compressed content, and the beginning of one.
Chunk(diffID, k) == [diffID |-> diffID, k |-> k]
Part(diffID) == [diffID |-> diffID, k |-> 0]

Whole(diffID) == [k \in 1..Chunks |-> Chunk(diffID, k)]

Init ==
  /\ image \in Images
  /\ present = UNION {Copies[t] : t \in DOMAIN Copies}
  /\ layerFiles = [n \in {} |-> <<>>] /\ layerDigests = layerFiles
  /\ onDisk = {}
  /\ i = 1 /\ written = <<>> /\ hashed = <<>>
  /\ pc = "layer"

DiffID == image.diffIDs[i]

LayerRemoved(l) ==
  /\ pc # "closed"
  /\ present' = present \ {l}
  /\ UNCHANGED <<image, export, onDisk, written, hashed, pc>>

\* Variant: only Close removes the directory.
RemoveExportLate(next) ==
  /\ onDisk' = (IF next = "closed" THEN {} ELSE onDisk) /\ pc' = next
  /\ UNCHANGED <<image, present, export, written, hashed>>

\* RemoveAll of the export directory, by the error path or by Close.
RemoveExport(next) ==
  /\ onDisk' = {} /\ pc' = next
  /\ UNCHANGED <<image, present, export, written, hashed>>

\* The layers the config lists are exported, the others do not exist for the
\* reader.  The first layer of the store with the diff_id is taken.
StartLayer ==
  /\ pc = "layer" /\ i <= Len(image.layers) /\ i <= Len(image.diffIDs)
  /\ IF Copies[DiffID] \cap present = {} THEN RemoveExport("error")
     ELSE /\ pc' = "copy"
          /\ onDisk' = onDisk \cup {image.layers[i]}
          /\ written' = <<>> /\ hashed' = <<>>
          /\ UNCHANGED <<image, present, export>>

\* Variant: the hasher comes first in the MultiWriter.
WriteHashingFirst(k) ==
  \/ written' = Append(written, Chunk(DiffID, k)) /\ hashed' = Append(hashed, Chunk(DiffID, k))
  \/ written' \in {written, Append(written, Part(DiffID))} /\ hashed' = Append(hashed, Chunk(DiffID, k))

\* io.MultiWriter(outFile, h): the hasher is given what the file took whole.
Write(k) ==
  \/ written' = Append(written, Chunk(DiffID, k)) /\ hashed' = Append(hashed, Chunk(DiffID, k))
  \/ written' \in {written, Append(written, Part(DiffID))} /\ UNCHANGED hashed

Written(k) == Len(hashed') = k /\ written' = hashed'

\* io.Copy: a write that fails ends the export.
CopyChunk ==
  LET k == Len(hashed) + 1
  IN /\ pc = "copy" /\ k < Chunks
     /\ Write(k)
     /\ IF Written(k) THEN pc' = pc /\ UNCHANGED onDisk ELSE pc' = "error" /\ onDisk' = {}
     /\ UNCHANGED <<image, present, export>>

\* Diff, or reading what it returns, fails: the layer was removed meanwhile.
DiffFails == pc = "copy" /\ RemoveExport("error")

\* gzWriter.Close writes the end; its error is dropped.
CloseFile ==
  /\ pc = "copy" /\ Len(hashed) = Chunks - 1
  /\ Write(Chunks)
  /\ layerFiles' = [n \in DOMAIN layerFiles \cup {image.layers[i]} |->
                      IF n = image.layers[i] THEN written' ELSE layerFiles[n]]
  /\ layerDigests' = [n \in DOMAIN layerFiles' |->
                      IF n = image.layers[i] THEN hashed' ELSE layerDigests[n]]
  /\ i' = i + 1
  /\ pc' = "layer"
  /\ UNCHANGED <<image, present, onDisk>>

Exported ==
  /\ pc = "layer" /\ (i > Len(image.layers) \/ i > Len(image.diffIDs))
  /\ pc' = "open"
  /\ UNCHANGED <<image, present, export, onDisk, written, hashed>>

CloseReader == pc = "open" /\ RemoveExport("closed")

Next ==
  \/ \E l \in present : LayerRemoved(l)
  \/ StartLayer \/ CopyChunk \/ DiffFails \/ CloseFile \/ Exported \/ CloseReader
  \/ (pc \in {"closed", "error"} /\ UNCHANGED vars)

Spec == Init /\ [][Next]_vars

-----------------------------------------------------------------------------
(* Properties *)

\* A digest never promises more than the file holds: a layer that is served
\* with the digest of its whole content is whole, whatever went wrong while it
\* was written (the order of the MultiWriter, ocistorage.go:481).
DigestIsNotAhead ==
  \A n \in DOMAIN layerFiles :
    /\ IsPrefix(layerDigests[n], layerFiles[n])
    /\ \A t \in DOMAIN Copies : layerDigests[n] = Whole(t) => layerFiles[n] = Whole(t)

\* An open reader has a file of its own for every layer the config lists, made
\* from a layer of that diff_id and of no other, also when layers of the store
\* disappear or a layer occurs twice; a reader that did not open, or was closed,
\* leaves none.
OpenReaderHasItsLayers ==
  /\ pc = "open" =>
       \A k \in DOMAIN image.layers \cap DOMAIN image.diffIDs :
         /\ image.layers[k] \in DOMAIN layerFiles \cap onDisk
         /\ \A c \in ToSet(layerFiles[image.layers[k]]) : c.diffID = image.diffIDs[k]
  /\ pc \in {"closed", "error"} => onDisk = {}

=============================================================================
