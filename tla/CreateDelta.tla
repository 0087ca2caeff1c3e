------------------------------ MODULE CreateDelta ------------------------------
(***************************************************************************)
(* CreateDelta (create.go:41-332): classify the layers of the new image,   *)
(* diff the new ones, and write the delta artifact into an OCI layout,     *)
(* index.json last.  The batch of diffs is the one step DiffPool           *)
(* implements.  A reader may deliver a new layer in another form, or       *)
(* without its end, and either image's blobs may rot while the program     *)
(* runs: they are read without being verified until they are copied.       *)
(***************************************************************************)
EXTENDS OCIWriter, DeltaFormat

CONSTANTS Pairs,         \* <<old, new>> images the program may be given
          Readers,       \* kinds of OCIReader of the new image
          Signatures     \* sequences of signature artifacts (opts.Signatures)

\* What parseOCIImage (common.go:32) makes of an image.
ParsedImage(image) ==
  /\ image.kind = "manifest" /\ image.config.kind = "config"
  /\ Len(image.layers) \in Nat
  /\ \A k \in 1..Len(image.layers) :
       LayerDigest(image, k).kind = "layer" /\ LayerDigest(image, k).tar \in Tar

\* The blobs of a signature artifact go by their digests.
SignatureArtifact(sig) ==
  /\ sig.manifest.kind # "index.json"
  /\ Len(sig.blobs) \in Nat
  /\ \A k \in 1..Len(sig.blobs) : sig.blobs[k].kind # "index.json"

ASSUME PairsAssumption ==
  \A p \in Pairs : ParsedImage(p[1]) /\ ParsedImage(p[2])

ASSUME SignaturesAssumption ==
  \A s \in Signatures :
    Len(s) \in Nat /\ \A n \in 1..Len(s) : SignatureArtifact(s[n])

VARIABLES old, new,      \* the two images, as parsed
          sigs,          \* the signature artifacts to embed
          layerDigests,  \* new layer's name -> digest its reader reports
          base,          \* the filesystem read from the old layers
          layerBlobs,    \* name -> content of the new image's layer blobs
          chosen,        \* layer digest -> the blob that will carry it
          temp,          \* layers whose temporary tar-diff file exists
          pc,
          next           \* position in WriteList

vars == <<files, writing, old, new, sigs, layerDigests, base, layerBlobs, chosen,
          temp, pc, next>>

inputs == <<old, new, sigs, layerDigests>>

LayerDigests(image) == {LayerDigest(image, k) : k \in 1..Len(image.layers)}

\* Containers storage exports a layer recompressed, under its original name.  It
\* goes by the digest of what was written, which has lost its end when the last
\* flush failed (ocistorage.go:480-493, StorageReader).
Exports(r, d) ==
  IF r = "storage" THEN {Layer(d.tar, "gogzip"), CutLayer(d.tar)} ELSE {d}

Exported(r) ==
  {f \in [LayerDigests(new) -> UNION {Exports(r, d) : d \in LayerDigests(new)}] :
     \A d \in LayerDigests(new) : f[d] \in Exports(r, d)}

\* actualDigest of ReadBlob (ocistorage.go:565-590).
ActualDigest(d) == layerDigests[d]

Init ==
  /\ WriterInit
  /\ \E p \in Pairs : old = p[1] /\ new = p[2]
  /\ sigs \in Signatures
  /\ \E r \in Readers : layerDigests \in Exported(r)
  /\ base = Filesystem(old)
  /\ layerBlobs = layerDigests
  /\ chosen = [d \in {} |-> d]
  /\ temp = {}
  /\ pc = "parse"
  /\ next = 1

-----------------------------------------------------------------------------
(* Parsing, classifying, diffing: nothing is written yet. *)

\* parseOCIImage of both images and the classification loop, which panics on a
\* new layer without a diff_id (create.go:46-73).
Classify ==
  /\ pc = "parse"
  /\ pc' = IF ClassificationPanics(old, new) THEN "crashed" ELSE "diff"
  /\ UNCHANGED <<files, writing, inputs, base, layerBlobs, chosen, temp, next>>

\* The tars a layer blob may decode to; a damaged one to any, if at all.
TarsIn(blob) == IF blob.kind = "layer" THEN {blob.tar} ELSE Tar

\* Variant: an original layer goes by the digest the image has it under.
AnswersUnderOldName(d) ==
  {d} \cup {Diff(base, t) : t \in TarsIn(layerBlobs[d])}

\* What computeLayerDiff may answer for layer d (create.go:455-474).
Answers(d) ==
  {ActualDigest(d)} \cup {Diff(base, t) : t \in TarsIn(layerBlobs[d])}

ComputeLayerDiffs ==
  /\ pc = "diff"
  /\ chosen' \in {f \in [NewOnly(old, new) ->
                           UNION {Answers(d) : d \in NewOnly(old, new)}] :
                    \A d \in NewOnly(old, new) : f[d] \in Answers(d)}
  /\ temp' = {d \in NewOnly(old, new) : chosen'[d].kind = "diff"}
  /\ pc' = "load"
  /\ UNCHANGED <<files, writing, inputs, base, layerBlobs, next>>

\* Reading the image manifest, the config and the signature artifacts into
\* memory, each verified against its digest (create.go:105-182).
LoadMetadata ==
  /\ pc = "load"
  /\ pc' = "write"
  /\ UNCHANGED <<files, writing, inputs, base, layerBlobs, chosen, temp, next>>

-----------------------------------------------------------------------------
(* Writing the artifact (create.go:267-329). *)

TheDelta == BuildDelta(old, new, chosen, sigs)

\* An entry to write: its name, and the layer it is copied from if any.
Entry(name, from) == [name |-> name, from |-> from]

LayerEntry(d) ==
  IF chosen[d].kind = "diff" THEN Entry(chosen[d], NoTo) ELSE Entry(chosen[d], d)

Plain(names) == [k \in 1..Len(names) |-> Entry(names[k], NoTo)]

LayerEntries ==
  [k \in 1..Len(CarriedLayers(old, new)) |-> LayerEntry(CarriedLayers(old, new)[k])]

SignatureEntries ==
  [k \in 1..Len(SignatureParts(sigs)) |-> Entry(SignatureParts(sigs)[k].digest, NoTo)]

\* Variant: index.json is written before the manifest it names.
WriteListIndexFirst ==
  Plain(<<LayoutFile, new, new.config>>) \o LayerEntries \o SignatureEntries \o
  Plain(<<EmptyJSON, IndexFile, TheDelta>>)

WriteList ==
  Plain(<<LayoutFile, new, new.config>>) \o LayerEntries \o SignatureEntries \o
  Plain(<<EmptyJSON, TheDelta, IndexFile>>)

\* What goes into the entry: an original layer is streamed from the reader,
\* the rest is in memory or in a private temporary file.
ContentOf(entry) ==
  IF entry.from # NoTo THEN layerBlobs[entry.from]
  ELSE IF entry.name = IndexFile THEN Index(TheDelta)
  ELSE entry.name

StartEntry ==
  /\ pc = "write"
  /\ BeginWrite(WriteList[next].name, ContentOf(WriteList[next]))
  /\ UNCHANGED <<inputs, base, layerBlobs, chosen, temp, pc, next>>

FinishEntry ==
  /\ EndWrite
  /\ pc' = IF WriteList[next].from = NoTo THEN "wrote" ELSE "hash"
  /\ UNCHANGED <<inputs, base, layerBlobs, chosen, temp, next>>

\* Variant: the hash of the copied layer is not compared.
HashCopyUnchecked ==
  /\ pc = "hash"
  /\ pc' = "wrote"
  /\ UNCHANGED <<files, writing, inputs, base, layerBlobs, chosen, temp, next>>

\* copyBlobAndRename compares the hash of what it copied with the name it
\* wrote it under (apply.go:143-146).
HashCopy ==
  /\ pc = "hash"
  /\ pc' = IF Intact(WriteList[next].name) THEN "wrote" ELSE "failing"
  /\ UNCHANGED <<files, writing, inputs, base, layerBlobs, chosen, temp, next>>

NextEntry ==
  /\ pc = "wrote"
  /\ next < Len(WriteList)
  /\ next' = next + 1
  /\ pc' = "write"
  /\ UNCHANGED <<files, writing, inputs, base, layerBlobs, chosen, temp>>

\* The return statements; the deferred os.Remove of the temporary files
\* (create.go:94-96) run on each of them.
Return ==
  /\ \/ pc = "wrote" /\ next = Len(WriteList) /\ pc' = "ok"
     \/ pc = "failing" /\ pc' = "error"
  /\ temp' = {}
  /\ UNCHANGED <<files, writing, inputs, base, layerBlobs, chosen, next>>

-----------------------------------------------------------------------------
(* Failures *)

\* Any of these statements may get an I/O error.
Fail ==
  /\ pc \in {"parse", "diff", "load", "write"}
  /\ pc' = "failing"
  /\ AbortWrite
  /\ UNCHANGED <<inputs, base, layerBlobs, chosen, temp, next>>

Running == pc \notin {"ok", "error", "crashed"}

Crash ==
  /\ Running
  /\ pc' = "crashed"
  /\ AbortWrite
  /\ UNCHANGED <<inputs, base, layerBlobs, chosen, temp, next>>

Rotten == [kind |-> "rotten"]

RotNew(d) ==
  /\ Running
  /\ layerBlobs[d] # Rotten
  /\ layerBlobs' = [layerBlobs EXCEPT ![d] = Rotten]
  /\ UNCHANGED <<files, writing, inputs, base, chosen, temp, pc, next>>

RotOld ==
  /\ Running
  /\ base = Filesystem(old)
  /\ base' = <<Rotten>>
  /\ UNCHANGED <<files, writing, inputs, layerBlobs, chosen, temp, pc, next>>

Terminating == ~Running /\ UNCHANGED vars

Next ==
  \/ Classify \/ ComputeLayerDiffs \/ LoadMetadata
  \/ StartEntry \/ FinishEntry \/ HashCopy \/ NextEntry \/ Return
  \/ Fail \/ Crash \/ RotOld \/ (\E d \in DOMAIN layerBlobs : RotNew(d))
  \/ Terminating

Spec == Init /\ [][Next]_vars

-----------------------------------------------------------------------------
(* Properties *)

Statements ==
  {"parse", "diff", "load", "write", "wrote", "hash", "failing", "ok", "error",
   "crashed"}

TypeOK ==
  /\ \E p \in Pairs : old = p[1] /\ new = p[2]
  /\ sigs \in Signatures
  /\ \E r \in Readers : layerDigests \in Exported(r)
  /\ base \in {Filesystem(old), <<Rotten>>}
  /\ DOMAIN layerBlobs = LayerDigests(new)
  /\ \A d \in LayerDigests(new) : layerBlobs[d] \in {ActualDigest(d), Rotten}
  /\ pc \in Statements
  /\ pc \in {"load", "write", "wrote", "hash"} => DOMAIN chosen = NewOnly(old, new)
  /\ temp \subseteq DOMAIN chosen
  /\ pc \in {"write", "wrote", "hash"} => next \in 1..Len(WriteList)
  /\ ~Idle => pc = "write" /\ writing.name \in DOMAIN files

\* A delta that can be opened is whole: every blob its manifest lists is there
\* and is what its digest says, although original layers are copied from blobs
\* that were not verified before (create.go:267-329, apply.go:131-149).
PublishedDeltaIsComplete ==
  Published =>
    /\ \A n \in {LayoutFile, EmptyJSON, PublishedManifest} : Intact(n)
    /\ \A k \in 1..Len(PublishedManifest.parts) :
         Intact(PublishedManifest.parts[k].digest)

\* A create that reports an error leaves nothing that parses as a delta.
ErrorPublishesNothing == pc = "error" => ~Published

\* The delta a reader finds: which image from which, once it is complete.
Seen ==
  IF ~Published THEN NoTo
  ELSE IF PublishedDeltaIsComplete
       THEN LET artifact == ParseDelta(PublishedManifest)
            IN [target |-> artifact.imageManifest, source |-> artifact.sourceConfig]
       ELSE Torn

\* The artifact appears at once, whole, and is final.
Promise == INSTANCE Publish WITH
  Nothing <- NoTo, goal <- [target |-> new, source |-> old.config], visible <- Seen

PublishesTheDelta == Promise!Spec

\* README.md:326 says an image-layer part of type tar+gzip is "the original
\* layer, stored verbatim", and README.md:311 "the original gzip layer".
GzipPartsHoldGzip ==
  Published =>
    \A k \in PartsOf(PublishedManifest, "image-layer") :
       LET part == PublishedManifest.parts[k]
       IN part.media = "gzip" => MediaOf(part.digest.form) = "gzip"

=============================================================================
