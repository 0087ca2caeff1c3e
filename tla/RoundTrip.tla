------------------------------- MODULE RoundTrip -------------------------------
(***************************************************************************)
(* A delta is created, and later applied on some machine: CreateDelta and  *)
(* ApplyDelta composed through the artifact the first leaves behind.       *)
(* Either program may fail or crash, and what it reads may rot.            *)
(***************************************************************************)
EXTENDS DeltaFormat

CONSTANTS Pairs, Readers, Sources

VARIABLES artifact, artifactWrite,      \* the delta's layout
          old, new, sigs, layerDigests, base, layerBlobs, chosen, temp, createPc,
          next,
          layout, layoutWrite,          \* the layout apply writes
          delta, blobs, source, pc, i, outputLayers, patched,
          fault                         \* has anything failed, crashed, rotted or lost
                                        \* its end?

\* The delta of p[2] from p[1] in which blob carrier[d] stands for layer d, and
\* the blobs that can: the layer as either reader delivers it, an export that
\* lost its end included, or a tar-diff from what was read as the old filesystem,
\* rotten or not.
DeltaOf(p, carrier) ==
  [imageManifest |-> p[2], imageConfig |-> p[2].config, sourceConfig |-> p[1].config,
   deltaLayerByTo |-> [d \in NewOnly(p[1], p[2]) |-> LayerPart(d, carrier)]]

CarriersOf(p, d) ==
  {d, Layer(d.tar, "gogzip"), CutLayer(d.tar)} \cup
  {Diff(from, to) : from \in {Filesystem(p[1]), <<[kind |-> "rotten"]>>}, to \in Tar}

Assignments(p) ==
  {f \in [NewOnly(p[1], p[2]) -> UNION {CarriersOf(p, d) : d \in NewOnly(p[1], p[2])}] :
     \A d \in NewOnly(p[1], p[2]) : f[d] \in CarriersOf(p, d)}

Artifacts == UNION {{DeltaOf(p, f) : f \in Assignments(p)} : p \in Pairs}

\* The instances bring the theorems about the two programs along.  The artifact
\* is applied once (what ApplyAgain adds is not used).
Create == INSTANCE CreateDeltaProofs WITH
  files <- artifact, writing <- artifactWrite, pc <- createPc, Signatures <- {<<>>}

Apply == INSTANCE ApplyDeltaProofs WITH
  files <- layout, writing <- layoutWrite, Deltas <- Artifacts,
  MaxRuns <- 1, run <- 1, found <- layout

\* The layers are a list, and the config is true of them: create takes the
\* images' word for it.
Truthful(image) ==
  /\ image.layers \in Seq({image.layers[k] : k \in DOMAIN image.layers})
  /\ image.config.diffIDs = Filesystem(image)

ASSUME PairsAssumption ==
  \A p \in Pairs : Create!ParsedImage(p[1]) /\ Create!ParsedImage(p[2]) /\ Truthful(p[2])

created == <<artifact, artifactWrite, old, new, sigs, layerDigests, base, layerBlobs,
             chosen, temp, createPc, next>>

applied == <<layout, layoutWrite, delta, blobs, source, pc, i, outputLayers, patched>>

vars == <<created, applied, fault>>

NotOpened == [kind |-> "none"]

\* The reader told create the digest of an export without its end.
ExportCut(d) == layerDigests[d] = CutLayer(d.tar)

Init ==
  /\ Create!Init
  /\ Apply!WriterInit
  /\ delta = NotOpened
  /\ blobs = [d \in {} |-> d]
  /\ source \in Sources
  /\ pc = "open"
  /\ i = 1
  /\ outputLayers = <<>>
  /\ patched = NoDiffID
  /\ fault = (\E d \in NewOnly(old, new) : ExportCut(d))

\* OpenOCIReader and ParseDeltaArtifact, which reads the manifests and the
\* config through readBlob and compares their digests (delta.go:42-115).
Open ==
  /\ pc = "open"
  /\ ~Create!Running
  /\ IF /\ Create!Published
        /\ LET parsed == ParseDelta(Create!PublishedManifest)
           IN \A n \in {Create!PublishedManifest, parsed.imageManifest, parsed.imageConfig} :
                Create!Intact(n)
       THEN /\ delta' = ParseDelta(Create!PublishedManifest)
            /\ blobs' = [d \in Apply!BlobsOf(delta') |->
                           IF Create!Has(d) THEN artifact[d] ELSE Create!Torn]
            /\ outputLayers' = delta'.imageManifest.layers
            /\ pc' = "layout"
       ELSE pc' = "error" /\ UNCHANGED <<delta, blobs, outputLayers>>
  /\ UNCHANGED <<layout, layoutWrite, source, i, patched>>

Opened == pc # "open"

CreateFaults ==
  Create!Fail \/ Create!Crash \/ Create!RotOld
  \/ (\E d \in DOMAIN layerBlobs : Create!RotNew(d))

CreateSteps ==
  \/ Create!Classify \/ Create!ComputeLayerDiffs \/ Create!LoadMetadata
  \/ Create!StartEntry \/ Create!FinishEntry \/ Create!HashCopy
  \/ Create!NextEntry \/ Create!Return

ApplyFaults == Apply!Fail \/ Apply!Crash \/ (\E d \in DOMAIN blobs : Apply!Rot(d))

ApplySteps ==
  \/ Apply!WriteLayoutFile \/ Apply!WriteConfig \/ Apply!StoreLayer \/ Apply!CopyLayer
  \/ Apply!WriteManifest \/ Apply!WriteIndex \/ Apply!FinishWrite
  \/ Apply!HashConfig \/ Apply!NextLayer \/ Apply!LayersDone \/ Apply!VerifyDiff
  \/ Apply!PatchLayer \/ Apply!LayerStored \/ Apply!LayerCopied

Finished == Opened /\ ~Apply!Running

Next ==
  \/ ~Opened /\ CreateSteps /\ UNCHANGED <<applied, fault>>
  \/ ~Opened /\ CreateFaults /\ fault' = TRUE /\ UNCHANGED applied
  \/ Open /\ UNCHANGED <<created, fault>>
  \/ Opened /\ ApplySteps /\ UNCHANGED <<created, fault>>
  \/ Opened /\ ApplyFaults /\ fault' = TRUE /\ UNCHANGED created
  \/ Finished /\ UNCHANGED vars

Spec == Init /\ [][Next]_vars

-----------------------------------------------------------------------------
(* Properties *)

\* Layer k of the rebuilt image on a machine that has the old one: the blob of
\* the layout, or else a layer of the old image by diff_id (README.md:351).
Rebuilt(k) ==
  LET name == LayerDigest(Apply!PublishedManifest, k)
      diffID == LayerDiffID(Apply!PublishedManifest, k)
  IN IF Apply!Intact(name) /\ name.kind = "layer" THEN name.tar
     ELSE IF diffID \in DiffIDs(old) /\ ~Apply!Has(name) THEN diffID
     ELSE NoDiffID

\* The layout apply publishes is the image that create was given, layer by
\* layer, whatever was damaged when the layers were diffed or copied, whatever
\* filesystem the delta is applied to, and however the layers were recompressed
\* on the way (create.go:62-77, 136-172, apply.go:42-84, 205).  One damage gets
\* through: containers storage gives an export that lost its end a digest of its
\* own, which create and apply then find intact (ocistorage.go:483-493,
\* create.go:455-459).  Such a layer is published as it was exported, unless it
\* was diffed; it is never taken for another, and a whole export never is cut.
RebuildsTheNewImage ==
  Opened /\ Apply!Published =>
    /\ Apply!Intact(Apply!PublishedManifest.config)
    /\ Apply!PublishedManifest.config = new.config
    /\ Len(Apply!PublishedManifest.layers) = Len(new.layers)
    /\ \A k \in 1..Len(new.layers) :
         LET d == LayerDigest(new, k)
             name == LayerDigest(Apply!PublishedManifest, k)
         IN \/ Rebuilt(k) = d.tar
            \/ ExportCut(d) /\ name = CutLayer(d.tar) /\ Apply!Intact(name)

\* When nothing fails, a delta can be made of any two images and can be applied
\* to the old one: no check of create or apply rejects what the other wrote.
\* (Neither gets stuck: that is the deadlock check.)
OnlyFaultsReject ==
  ~fault =>
    /\ createPc \notin {"failing", "error", "crashed"}
    /\ source = Filesystem(old) => pc # "error"

=============================================================================
