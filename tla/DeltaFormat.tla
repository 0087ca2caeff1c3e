----------------------------- MODULE DeltaFormat -----------------------------
(***************************************************************************)
(* The delta artifact: which layers of the new image it carries, how its   *)
(* manifest is built by CreateDelta (create.go:62-245) and how             *)
(* ParseDeltaArtifact reads it back (delta.go:69-125).                     *)
(***************************************************************************)
EXTENDS OCI

LOCAL INSTANCE SequencesExt

-----------------------------------------------------------------------------
(* Classification of the new image's layers, by diff_id (create.go:62-77).  *)

Known(old, new, i) == LayerDiffID(new, i) \in DiffIDs(old)

\* newOnlyLayers: digests of the layers whose diff_id the old image lacks.
NewOnly(old, new) ==
  {LayerDigest(new, i) : i \in {k \in 1..Len(new.layers) : ~Known(old, new, k)}}

\* The positions the delta leaves out.
Reused(old, new) ==
  {i \in 1..Len(new.layers) : LayerDigest(new, i) \notin NewOnly(old, new)}

\* log.Debug takes DiffID.Encoded() of every new layer (create.go:71), which
\* panics on the empty digest.
ClassificationPanics(old, new) ==
  \E i \in 1..Len(new.layers) :
     ~Known(old, new, i) /\ LayerDiffID(new, i) = NoDiffID

-----------------------------------------------------------------------------
(* The delta manifest (create.go:115-245).  A part is one of its layers:     *)
(* its content annotation, its descriptor and its `to` annotation.           *)

Part(content, media, digest, to) ==
  [content |-> content, media |-> media, digest |-> digest, to |-> to]

NoTo == [kind |-> "none"]

DeltaManifest(sourceConfig, target, parts, reused) ==
  [kind |-> "delta", sourceConfig |-> sourceConfig, target |-> target,
   parts |-> parts, reused |-> reused]

\* Variant: the `to` annotation names the blob carried, not the target layer.
LayerPartToCarrier(d, chosen) ==
  Part("image-layer", IF chosen[d].kind = "diff" THEN "tar-diff" ELSE "gzip",
       chosen[d], chosen[d])

\* chosen[d] is the blob that carries new layer d: a tar-diff, or the layer
\* blob as the reader delivers it.  Both branches of create.go:152-170; an
\* original layer is always labelled gzip.
LayerPart(d, chosen) ==
  Part("image-layer", IF chosen[d].kind = "diff" THEN "tar-diff" ELSE "gzip",
       chosen[d], d)

\* The loops over new.layers and over the signatures append as they go.
CarriedLayers(old, new) ==
  LET carried[n \in 0..Len(new.layers)] ==
        IF n = 0 THEN <<>>
        ELSE IF LayerDigest(new, n) \in NewOnly(old, new)
             THEN Append(carried[n - 1], LayerDigest(new, n))
             ELSE carried[n - 1]
  IN carried[Len(new.layers)]

\* A signature artifact is a manifest and the blobs it lists.
PartsOfSignature(sig) ==
  <<Part("cosign-signature", "manifest", sig.manifest, NoTo)>> \o
  [k \in 1..Len(sig.blobs) |->
     Part("cosign-signature-content", "blob", sig.blobs[k], NoTo)]

SignatureParts(sigs) ==
  LET parts[n \in 0..Len(sigs)] ==
        IF n = 0 THEN <<>> ELSE parts[n - 1] \o PartsOfSignature(sigs[n])
  IN parts[Len(sigs)]

ReusedLayers(old, new) ==
  LET reused == SetToSortSeq(Reused(old, new), <)
  IN [k \in 1..Len(reused) |->
        [digest |-> LayerDigest(new, reused[k]), diffID |-> LayerDiffID(new, reused[k])]]

ImageParts(new) ==
  <<Part("image-manifest", "image-manifest", new, NoTo),
    Part("image-config", "image-config", new.config, NoTo)>>

LayerParts(old, new, chosen) ==
  [k \in 1..Len(CarriedLayers(old, new)) |->
     LayerPart(CarriedLayers(old, new)[k], chosen)]

BuildDelta(old, new, chosen, sigs) ==
  DeltaManifest(old.config, new,
    ImageParts(new) \o LayerParts(old, new, chosen) \o SignatureParts(sigs),
    ReusedLayers(old, new))

-----------------------------------------------------------------------------
\* ParseDeltaArtifact's dispatch on the content annotation (delta.go:73-95):
\* the last part of a kind, and the last part for a `to`, wins.
PartsOf(dm, content) ==
  {i \in 1..Len(dm.parts) : dm.parts[i].content = content}

LastOf(dm, S) == dm.parts[CHOOSE i \in S : \A j \in S : j <= i]

DeltaLayerByTo(dm) ==
  [to \in {dm.parts[i].to : i \in PartsOf(dm, "image-layer")} |->
     LastOf(dm, {i \in PartsOf(dm, "image-layer") : dm.parts[i].to = to})]

\* The DeltaArtifact (delta.go:31-40), for a delta manifest that has both of
\* the image parts.
ParseDelta(dm) ==
  [imageManifest |-> LastOf(dm, PartsOf(dm, "image-manifest")).digest,
   imageConfig |-> LastOf(dm, PartsOf(dm, "image-config")).digest,
   sourceConfig |-> dm.sourceConfig,
   deltaLayerByTo |-> DeltaLayerByTo(dm)]

=============================================================================
