------------------------------ MODULE ApplyDelta ------------------------------
(***************************************************************************)
(* ApplyDelta (apply.go:23-234): rebuild the target image from a delta and *)
(* the filesystem of the old image, into an OCI layout.  pc names the      *)
(* statement the program is at; each write of the layout takes two steps,  *)
(* so that a failure or a crash can fall inside it.  Blobs of the delta    *)
(* may rot at any time, also between being verified and being used.        *)
(***************************************************************************)
EXTENDS OCIWriter

CONSTANTS Deltas,        \* DeltaArtifacts (delta.go:31) the program may be given
          Sources        \* filesystems a data source may offer

VARIABLES delta,         \* the DeltaArtifact
          blobs,         \* name -> content of the blobs of its reader
          source,        \* the filesystem behind the DataSource
          pc,
          i,             \* index of the loop over the layers
          outputLayers,  \* descriptors of the output manifest
          patched        \* the tar tarpatch.Apply has written

vars == <<files, writing, delta, blobs, source, pc, i, outputLayers, patched>>

\* Everything but the layout, for the writes.
program == <<delta, blobs, source, pc, i, outputLayers, patched>>

Target == delta.imageManifest
NLayers == Len(Target.layers)

InDelta(k) == LayerDigest(Target, k) \in DOMAIN delta.deltaLayerByTo
DeltaLayer(k) == delta.deltaLayerByTo[LayerDigest(Target, k)]

\* expectedDiffID: empty when the config lists fewer diff_ids (apply.go:52-55).
ExpectedDiffID(k) == DiffIDAt(delta.imageConfig.diffIDs, k)

OutputManifest == Manifest(Target.config, outputLayers)

\* The blobs ApplyDelta reads: the config and those of the delta layers.
BlobsOf(d) ==
  {d.imageConfig} \cup
  {d.deltaLayerByTo[to].digest : to \in DOMAIN d.deltaLayerByTo}

\* The manifest's layers are a list, the config it names is the one embedded,
\* and blobs have digests, not the name of the index, for names.
WellFormed(d) ==
  /\ LET layers == d.imageManifest.layers
     IN layers \in Seq({layers[k] : k \in DOMAIN layers})
  /\ d.imageManifest.config = d.imageConfig
  /\ IndexFile \notin BlobsOf(d)
  /\ \A b \in BlobsOf(d) : b.kind = "diff" => b.to \in Tar

ASSUME DeltasAssumption == \A d \in Deltas : WellFormed(d)

Init ==
  /\ WriterInit
  /\ delta \in Deltas
  /\ blobs = [d \in BlobsOf(delta) |-> d]
  /\ source \in Sources
  /\ pc = "layout"
  /\ i = 1
  /\ outputLayers = Target.layers
  /\ patched = NoDiffID

-----------------------------------------------------------------------------
(* Writing the layout.  The statement at pc starts its write, the end of    *)
(* the write takes the program to the next one.                             *)

StartWrite(stmt, name, content) ==
  /\ pc = stmt
  /\ BeginWrite(name, content)
  /\ UNCHANGED program

WriteLayoutFile == StartWrite("layout", LayoutFile, LayoutFile)

WriteConfig ==
  StartWrite("config", delta.imageConfig, blobs[delta.imageConfig])

\* Variant: a blob that is there already is not written again.
StoreLayerIfMissing ==
  IF Has(Layer(patched, "gogzip"))
    THEN pc = "store" /\ Idle /\ pc' = "stored"
         /\ UNCHANGED <<files, writing, delta, blobs, source, i, outputLayers, patched>>
    ELSE StartWrite("store", Layer(patched, "gogzip"), Layer(patched, "gogzip"))

\* The reconstructed layer, under the digest of what was compressed.
StoreLayer ==
  StartWrite("store", Layer(patched, "gogzip"), Layer(patched, "gogzip"))

\* copyBlob of an original layer: written first, its hash compared afterwards.
CopyLayer ==
  StartWrite("copy", DeltaLayer(i).digest, blobs[DeltaLayer(i).digest])

WriteManifest == StartWrite("manifest", OutputManifest, OutputManifest)

WriteIndex == StartWrite("index", IndexFile, Index(OutputManifest))

\* Variant: index.json is written before the manifest it names.
AfterIndexFirst ==
  [layout |-> "config", config |-> "configHash", store |-> "stored",
   copy |-> "copyHash", layer |-> "index", index |-> "manifest", manifest |-> "ok"]

\* The statement that follows a write, or the loop.
After ==
  [layout |-> "config", config |-> "configHash", store |-> "stored",
   copy |-> "copyHash", layer |-> "manifest", manifest |-> "index", index |-> "ok"]

FinishWrite ==
  /\ EndWrite
  /\ pc' = After[pc]
  /\ UNCHANGED <<delta, blobs, source, i, outputLayers, patched>>

-----------------------------------------------------------------------------
(* The statements between the writes. *)

\* The comparison at the end of copyBlobAndRename (apply.go:143-146).
HashConfig ==
  /\ pc = "configHash"
  /\ pc' = IF Intact(delta.imageConfig) THEN "layer" ELSE "error"
  /\ UNCHANGED <<files, writing, delta, blobs, source, i, outputLayers, patched>>

\* The head of the loop (apply.go:44-50, 57).
NextLayer ==
  /\ pc = "layer"
  /\ i <= NLayers
  /\ IF ~InDelta(i)
       THEN i' = i + 1 /\ UNCHANGED pc
       ELSE /\ pc' = IF DeltaLayer(i).media = "tar-diff" THEN "verify" ELSE "copy"
            /\ UNCHANGED i
  /\ UNCHANGED <<files, writing, delta, blobs, source, outputLayers, patched>>

LayersDone ==
  /\ pc = "layer"
  /\ i > NLayers
  /\ pc' = After[pc]
  /\ UNCHANGED <<files, writing, delta, blobs, source, i, outputLayers, patched>>

\* verifyBlobDigest (apply.go:65, common.go:179).
VerifyDiff ==
  /\ pc = "verify"
  /\ pc' = IF blobs[DeltaLayer(i).digest] = DeltaLayer(i).digest
              THEN "patch" ELSE "error"
  /\ UNCHANGED <<files, writing, delta, blobs, source, i, outputLayers, patched>>

\* What tarpatch.Apply can produce without an error: the intended tar when the
\* diff and the files it names are the ones it was made from, else anything.
PatchResults(diff, filesystem) ==
  IF diff.kind = "diff" /\ diff.from = filesystem THEN {diff.to} ELSE Tar

\* Variant: the diff_id is not compared.
PatchLayerUnchecked ==
  /\ pc = "patch"
  /\ patched' \in PatchResults(blobs[DeltaLayer(i).digest], source)
  /\ pc' = "store"
  /\ UNCHANGED <<files, writing, delta, blobs, source, i, outputLayers>>

\* processLayerDiff up to the diff_id check (apply.go:169-213).
PatchLayer ==
  /\ pc = "patch"
  /\ patched' \in PatchResults(blobs[DeltaLayer(i).digest], source)
  /\ pc' = IF ExpectedDiffID(i) \in {NoDiffID, patched'} THEN "store" ELSE "error"
  /\ UNCHANGED <<files, writing, delta, blobs, source, i, outputLayers>>

SetLayer(k, media, digest) ==
  outputLayers' = [outputLayers EXCEPT ![k] = Descriptor(media, digest)]

\* The reconstructed layer is in the layout: remap its descriptor
\* (apply.go:74-76).
LayerStored ==
  /\ pc = "stored"
  /\ SetLayer(i, "gzip", Layer(patched, "gogzip"))
  /\ i' = i + 1
  /\ pc' = "layer"
  /\ UNCHANGED <<files, writing, delta, blobs, source, patched>>

\* Variant: the hash of the copied blob is not compared.
LayerCopiedUnchecked ==
  /\ pc = "copyHash"
  /\ SetLayer(i, outputLayers[i].media, DeltaLayer(i).digest)
  /\ i' = i + 1
  /\ pc' = "layer"
  /\ UNCHANGED <<files, writing, delta, blobs, source, patched>>

\* An original layer keeps the media type of the image manifest
\* (apply.go:80-84, 143-146).
LayerCopied ==
  /\ pc = "copyHash"
  /\ IF Intact(DeltaLayer(i).digest)
       THEN /\ SetLayer(i, outputLayers[i].media, DeltaLayer(i).digest)
            /\ i' = i + 1
            /\ pc' = "layer"
       ELSE pc' = "error" /\ UNCHANGED <<i, outputLayers>>
  /\ UNCHANGED <<files, writing, delta, blobs, source, patched>>

-----------------------------------------------------------------------------
(* Failures *)

\* The statements that do I/O and can return an error.
IO == {"layout", "config", "verify", "patch", "store", "copy", "manifest", "index"}

\* The program ends; a write in progress stays torn.
Stop(outcome) ==
  /\ pc' = outcome
  /\ AbortWrite
  /\ UNCHANGED <<delta, blobs, source, i, outputLayers, patched>>

Fail == pc \in IO /\ Stop("error")

Running == pc \notin {"ok", "error", "crashed"}

Crash == Running /\ Stop("crashed")

Rotten == [kind |-> "rotten"]

\* A blob of the delta changes under the program, or was damaged to begin with.
Rot(d) ==
  /\ Running
  /\ blobs[d] = d
  /\ blobs' = [blobs EXCEPT ![d] = Rotten]
  /\ UNCHANGED <<files, writing, delta, source, pc, i, outputLayers, patched>>

Terminating == ~Running /\ UNCHANGED vars

Next ==
  \/ WriteLayoutFile \/ WriteConfig \/ StoreLayer \/ CopyLayer
  \/ WriteManifest \/ WriteIndex \/ FinishWrite
  \/ HashConfig \/ NextLayer \/ LayersDone \/ VerifyDiff \/ PatchLayer
  \/ LayerStored \/ LayerCopied
  \/ Fail \/ Crash \/ (\E d \in DOMAIN blobs : Rot(d))
  \/ Terminating

Spec == Init /\ [][Next]_vars

-----------------------------------------------------------------------------
(* Properties *)

Statements ==
  {"layout", "config", "configHash", "layer", "verify", "patch", "store",
   "stored", "copy", "copyHash", "manifest", "index", "ok", "error", "crashed"}

TypeOK ==
  /\ delta \in Deltas
  /\ DOMAIN blobs = BlobsOf(delta)
  /\ \A d \in DOMAIN blobs : blobs[d] \in {d, Rotten}
  /\ source \in Sources
  /\ pc \in Statements
  /\ i \in 1..(NLayers + 1)
  /\ DOMAIN outputLayers = 1..NLayers
  /\ patched \in Tar \cup {NoDiffID}
  /\ writing.kind = "write" =>
       pc \in DOMAIN After \ {"layer"} /\ writing.name \in DOMAIN files

\* A layout that can be opened is whole: oci-layout, manifest and config are
\* intact, and so is the blob of every layer the delta carries, whatever
\* failed, crashed or rotted on the way (index.json is written last and every
\* copied blob is hashed, apply.go:28-120, 131-149).
PublishedIsComplete ==
  Published =>
    /\ Intact(LayoutFile)
    /\ Intact(PublishedManifest)
    /\ Intact(PublishedManifest.config)
    /\ \A k \in 1..NLayers :
         InDelta(k) => Intact(LayerDigest(PublishedManifest, k))

\* An apply that reports an error leaves nothing a reader would take for an
\* image (every error return of ApplyDelta precedes the end of line 118).
ErrorPublishesNothing == pc = "error" => ~Published

\* Nothing is written once the image can be opened.
NothingAfterIndex == [][Published => UNCHANGED files]_vars

\* What bootc gets when it opens the layout: the tar of each layer, taken
\* from the blob if there is one, else from its own layers by diff_id.
LayerSeen(k) ==
  LET name == LayerDigest(PublishedManifest, k)
  IN IF Has(name) THEN (IF Intact(name) THEN name.tar ELSE NoDiffID)
                  ELSE (IF InDelta(k) THEN NoDiffID ELSE ExpectedDiffID(k))

Seen ==
  IF ~Published THEN NoDiffID
  ELSE IF Intact(PublishedManifest) /\ Intact(PublishedManifest.config)
       THEN [k \in 1..NLayers |-> LayerSeen(k)]
       ELSE <<>>

\* The config lists the diff_id of every layer, and tells the truth about the
\* layers that are left out or carried whole: nothing checks it for those.  Of
\* a tar-diff nothing is asked.
Honest(d) ==
  LET layers == d.imageManifest.layers
      diffIDs == d.imageConfig.diffIDs
      carrier(k) == d.deltaLayerByTo[layers[k].digest]
  IN /\ diffIDs \in Seq(Tar)
     /\ Len(diffIDs) = Len(layers)
     /\ \A k \in 1..Len(layers) :
          IF layers[k].digest \in DOMAIN d.deltaLayerByTo
            THEN carrier(k).media = "tar-diff" \/ carrier(k).digest.tar = diffIDs[k]
            ELSE layers[k].digest.tar = diffIDs[k] /\ layers[k].digest # IndexFile

HonestDeltas == \A d \in Deltas : Honest(d)

\* ApplyDelta publishes the target image and nothing else, layer by layer the
\* tars its config lists, whatever data source it was given (README.md:345-354).
Promise == INSTANCE Publish WITH
  Nothing <- NoDiffID, goal <- delta.imageConfig.diffIDs, visible <- Seen

PublishesTheTarget == Promise!Spec

=============================================================================
