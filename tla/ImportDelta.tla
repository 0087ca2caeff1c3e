------------------------------ MODULE ImportDelta ------------------------------
(***************************************************************************)
(* ImportDelta (import.go:26-217) and the resolution of its data source    *)
(* (cmd/import.go:97, containerstorage.go:46-98): processes that import    *)
(* deltas into one containers/storage store.  Each call of the store is    *)
(* one step, as the store's locks make it; between two calls of one        *)
(* import others run, and an import may fail or be killed and run again.   *)
(*                                                                         *)
(* A layer of the store is known by its position in `layers`; 0 is "no     *)
(* parent".  An image is known by its position in `images`.                *)
(***************************************************************************)
EXTENDS OCI

CONSTANTS Importers,       \* processes
          Jobs,            \* what they import: functions to [delta, tag, force]
          NoTag,
          InitialLayers,   \* the store before any import
          InitialImages,
          MaxFaults        \* bound: damaged blobs and repeated runs, together

NoManifest == [kind |-> "none"]

\* --force-tag requires --tag (cmd/import.go:41, import.go:32).
ASSUME ForceNeedsTag ==
  \A j \in Jobs : \A p \in Importers : j[p].force => j[p].tag # NoTag

\* A DeltaArtifact as ParseDeltaArtifact makes it (delta.go:69-125).
ParsedDelta(delta) ==
  /\ Len(delta.imageManifest.layers) \in Nat
  /\ NoManifest \notin {delta.imageManifest.config, delta.sourceConfig}
  /\ \A to \in DOMAIN delta.deltaLayerByTo :
       LET part == delta.deltaLayerByTo[to]
       IN IF part.media = "tar-diff" THEN part.digest.to \in Tar
                                     ELSE part.digest.tar \in Tar

ASSUME JobsAssumption == \A j \in Jobs : \A p \in Importers : ParsedDelta(j[p].delta)

ASSUME FaultsAssumption == MaxFaults \in Nat

\* What the store may hold: records of its layers and images.
Layers == [parent : Nat, tar : Tar]

Configs == {NoManifest} \cup {InitialImages[m].manifest : m \in DOMAIN InitialImages} \cup
           {j[p].delta.imageManifest.config : j \in Jobs, p \in Importers}

Tags == (UNION {InitialImages[m].names : m \in DOMAIN InitialImages}) \cup
        {j[p].tag : j \in Jobs, p \in Importers}

Images == [top : Nat, manifest : Configs, hasConfig : BOOLEAN, names : SUBSET Tags]

\* The tars of a layer and its ancestors, bottom first.
ChainIn(all, top) ==
  LET chain[l \in 0..Len(all)] ==
        IF l = 0 THEN <<>> ELSE Append(chain[all[l].parent], all[l].tar)
  IN chain[top]

\* Before any import the store is in order: layers have their parents, and an
\* image with a manifest has the layers its config lists.
ASSUME StoreAssumption ==
  /\ InitialLayers \in Seq(Layers)
  /\ \A l \in 1..Len(InitialLayers) : InitialLayers[l].parent < l
  /\ InitialImages \in Seq(Images)
  /\ \A m \in 1..Len(InitialImages) :
       LET found == InitialImages[m]
       IN /\ found.top <= Len(InitialLayers)
          /\ found.manifest # NoManifest =>
               ChainIn(InitialLayers, found.top) = found.manifest.diffIDs

VARIABLES job,             \* the one of Jobs this run is about
          layers,          \* <<[parent, tar], ...>>: tar is what was unpacked
          images,          \* <<[top, manifest, hasConfig, names], ...>>: manifest is
                           \* the config the stored manifest refers to, if any
          rotten,          \* damaged blobs of the deltas
          pc, i,           \* statement and loop index of each import
          parent,          \* parentLayerID
          source,          \* the filesystem mounted as the data source
          image,           \* image.ID, 0 before CreateImage
          retries          \* runs beyond the first of each

store == <<layers, images>>
vars == <<job, store, rotten, pc, i, parent, source, image, retries>>

Delta(p) == job[p].delta
Target(p) == Delta(p).imageManifest
NLayers(p) == Len(Target(p).layers)
DiffID(p) == DiffIDAt(Delta(p).imageConfig.diffIDs, i[p])
To(p) == LayerDigest(Target(p), i[p])
InDelta(p) == To(p) \in DOMAIN Delta(p).deltaLayerByTo
DeltaLayer(p) == Delta(p).deltaLayerByTo[To(p)]

ChainOf(top) == ChainIn(layers, top)

DeltaBlobs(p) ==
  {Delta(p).imageConfig} \cup
  {Delta(p).deltaLayerByTo[to].digest : to \in DOMAIN Delta(p).deltaLayerByTo}

\* The damage is there from the beginning.  What a damaged blob yields includes
\* what the intact one does, and no blob is read twice by one run, so damage
\* that comes later shows nothing more.
Init ==
  /\ job \in Jobs
  /\ layers = InitialLayers
  /\ images = InitialImages
  /\ rotten \in {blobs \in SUBSET UNION {DeltaBlobs(p) : p \in Importers} :
                  IsFiniteSet(blobs) /\ Cardinality(blobs) <= MaxFaults}
  /\ pc = [p \in Importers |-> "resolve"]
  /\ i = [p \in Importers |-> 1]
  /\ parent = [p \in Importers |-> 0]
  /\ source = [p \in Importers |-> <<>>]
  /\ image = [p \in Importers |-> 0]
  /\ retries = 0

-----------------------------------------------------------------------------
(* The store's calls *)

\* PutLayer: unpacks the tar as a new child of the parent.
PutLayer(p, tar) ==
  /\ layers' = Append(layers, [parent |-> parent[p], tar |-> tar])
  /\ parent' = [parent EXCEPT ![p] = Len(layers) + 1]

LayersByDiffID(diffID) == {l \in 1..Len(layers) : layers[l].tar = diffID}

TaggedBy(tag) == {m \in 1..Len(images) : tag \in images[m].names}

-----------------------------------------------------------------------------
(* One import *)

Goto(p, from, to) ==
  /\ pc[p] = from
  /\ pc' = [pc EXCEPT ![p] = to]

\* Variant: the first image with a manifest is taken.
ResolveAny(p) ==
  /\ Goto(p, "resolve", "layer")
  /\ \E m \in 1..Len(images) :
       /\ images[m].manifest # NoManifest
       /\ source' = [source EXCEPT ![p] = ChainOf(images[m].top)]
  /\ UNCHANGED <<job, store, rotten, i, parent, image, retries>>

\* The image the delta was made from is looked up by the config digest in its
\* manifest, whatever else the image has or lacks, and mounted.
ResolveSource(p) ==
  /\ Goto(p, "resolve", "layer")
  /\ \E m \in 1..Len(images) :
       /\ images[m].manifest = Delta(p).sourceConfig
       /\ source' = [source EXCEPT ![p] = ChainOf(images[m].top)]
  /\ UNCHANGED <<job, store, rotten, i, parent, image, retries>>

\* The layer is in place: storageLayers[i], parentLayerID, next iteration.
NextLayer(p) == i' = [i EXCEPT ![p] = @ + 1]

\* Variant: a layer is reused whatever its parent.
ReuseAnyParent(p) ==
  /\ Goto(p, "layer", "layer")
  /\ i[p] <= NLayers(p) /\ ~InDelta(p)
  /\ \E l \in LayersByDiffID(DiffID(p)) : parent' = [parent EXCEPT ![p] = l]
  /\ NextLayer(p)
  /\ UNCHANGED <<job, store, rotten, source, image, retries>>

\* reuseStorageLayer finds the diff_id under the right parent.
ReuseLayer(p) ==
  /\ Goto(p, "layer", "layer")
  /\ i[p] <= NLayers(p) /\ ~InDelta(p)
  /\ \E l \in LayersByDiffID(DiffID(p)) :
       /\ layers[l].parent = parent[p]
       /\ parent' = [parent EXCEPT ![p] = l]
  /\ NextLayer(p)
  /\ UNCHANGED <<job, store, rotten, source, image, retries>>

\* ... or only elsewhere: it will be recreated from that copy.  The copy is
\* buffered before the new layer is put, and other imports run in between.
FindElsewhere(p) ==
  /\ Goto(p, "layer", "recreate")
  /\ i[p] <= NLayers(p) /\ ~InDelta(p)
  /\ LayersByDiffID(DiffID(p)) # {}
  /\ \A l \in LayersByDiffID(DiffID(p)) : layers[l].parent # parent[p]
  /\ UNCHANGED <<job, store, rotten, i, parent, source, image, retries>>

\* Variant: the copy goes under the parent of the layer it was copied from.
RecreateUnderOldParent(p) ==
  /\ Goto(p, "recreate", "layer")
  /\ \E l \in LayersByDiffID(DiffID(p)) :
       layers' = Append(layers, [parent |-> layers[l].parent, tar |-> DiffID(p)])
  /\ parent' = [parent EXCEPT ![p] = Len(layers) + 1]
  /\ NextLayer(p)
  /\ UNCHANGED <<job, images, rotten, source, image, retries>>

RecreateLayer(p) ==
  /\ Goto(p, "recreate", "layer")
  /\ PutLayer(p, DiffID(p))
  /\ NextLayer(p)
  /\ UNCHANGED <<job, images, rotten, source, image, retries>>

\* tarpatch.Apply into PutLayer.  Nothing compares the blob with its digest or
\* the result with the diff_id.
PatchResults(p) ==
  LET diff == DeltaLayer(p).digest
  IN IF diff \notin rotten /\ diff.from = source[p] THEN {diff.to} ELSE Tar

PatchLayer(p) ==
  /\ Goto(p, "layer", "layer")
  /\ i[p] <= NLayers(p) /\ InDelta(p)
  /\ DeltaLayer(p).media = "tar-diff"
  /\ \E tar \in PatchResults(p) : PutLayer(p, tar)
  /\ NextLayer(p)
  /\ UNCHANGED <<job, images, rotten, source, image, retries>>

\* An original layer goes through gzip.NewReader, so only gzip gets further.
Gunzip(blob) ==
  IF blob \in rotten THEN Tar
  ELSE IF MediaOf(blob.form) = "gzip" THEN {blob.tar} ELSE {}

UnpackLayer(p) ==
  /\ Goto(p, "layer", "layer")
  /\ i[p] <= NLayers(p) /\ InDelta(p)
  /\ DeltaLayer(p).media # "tar-diff"
  /\ \E tar \in Gunzip(DeltaLayer(p).digest) : PutLayer(p, tar)
  /\ NextLayer(p)
  /\ UNCHANGED <<job, images, rotten, source, image, retries>>

\* Variant: the tag is moved when the image is created.
CreateImageMovingTag(p) ==
  /\ Goto(p, "layer", "manifest")
  /\ i[p] > NLayers(p)
  /\ images' = Append([m \in 1..Len(images) |->
                         [images[m] EXCEPT !.names = @ \ {job[p].tag}]],
                      [top |-> parent[p], manifest |-> NoManifest,
                       hasConfig |-> FALSE, names |-> {job[p].tag}])
  /\ image' = [image EXCEPT ![p] = Len(images) + 1]
  /\ UNCHANGED <<job, layers, rotten, i, parent, source, retries>>

\* CreateImage, already under the tag unless the tag is to be moved at the end.
\* A name that is taken makes it fail.
CreateImage(p) ==
  /\ Goto(p, "layer", "manifest")
  /\ i[p] > NLayers(p)
  /\ LET names == IF job[p].force THEN {} ELSE {job[p].tag} \ {NoTag}
     IN /\ \A tag \in names : TaggedBy(tag) = {}
        /\ images' = Append(images, [top |-> parent[p], manifest |-> NoManifest,
                                     hasConfig |-> FALSE, names |-> names])
  /\ image' = [image EXCEPT ![p] = Len(images) + 1]
  /\ UNCHANGED <<job, layers, rotten, i, parent, source, retries>>

SetManifest(p) ==
  /\ Goto(p, "manifest", "manifestKey")
  /\ images' = [images EXCEPT ![image[p]].manifest = Target(p).config]
  /\ UNCHANGED <<job, layers, rotten, i, parent, source, image, retries>>

\* The second copy of the manifest, under its digest: no import reads it.
SetManifestKey(p) ==
  /\ Goto(p, "manifestKey", "config")
  /\ UNCHANGED <<job, store, rotten, i, parent, source, image, retries>>

\* The config blob is read with readBlob, which compares the digest.
SetConfig(p) ==
  /\ Goto(p, "config", IF job[p].force THEN "tag" ELSE "ok")
  /\ Delta(p).imageConfig \notin rotten
  /\ images' = [images EXCEPT ![image[p]].hasConfig = TRUE]
  /\ UNCHANGED <<job, layers, rotten, i, parent, source, image, retries>>

\* AddNames takes the tag away from the image that has it.
MoveTag(p) ==
  /\ Goto(p, "tag", "ok")
  /\ images' = [m \in 1..Len(images) |->
       [images[m] EXCEPT !.names = IF m = image[p] THEN @ \cup {job[p].tag}
                                                   ELSE @ \ {job[p].tag}]]
  /\ UNCHANGED <<job, layers, rotten, i, parent, source, image, retries>>

-----------------------------------------------------------------------------
(* Failures *)

\* Any call may return an error, and the process may be killed; either way the
\* store stays as it is.
Fail(p) ==
  /\ pc[p] \notin {"ok", "failed"}
  /\ pc' = [pc EXCEPT ![p] = "failed"]
  /\ UNCHANGED <<job, store, rotten, i, parent, source, image, retries>>

RunAgain(p) ==
  /\ Goto(p, "failed", "resolve")
  /\ Cardinality(rotten) + retries < MaxFaults
  /\ retries' = retries + 1
  /\ i' = [i EXCEPT ![p] = 1]
  /\ parent' = [parent EXCEPT ![p] = 0]
  /\ image' = [image EXCEPT ![p] = 0]
  /\ UNCHANGED <<job, store, rotten, source>>

Terminating ==
  /\ \A p \in Importers : pc[p] \in {"ok", "failed"}
  /\ UNCHANGED vars

Step(p) ==
  \/ ResolveSource(p) \/ ReuseLayer(p) \/ FindElsewhere(p) \/ RecreateLayer(p)
  \/ PatchLayer(p) \/ UnpackLayer(p) \/ CreateImage(p) \/ SetManifest(p)
  \/ SetManifestKey(p) \/ SetConfig(p) \/ MoveTag(p) \/ Fail(p) \/ RunAgain(p)

Next == (\E p \in Importers : Step(p)) \/ Terminating

Spec == Init /\ [][Next]_vars

-----------------------------------------------------------------------------
(* Properties *)

Statements ==
  {"resolve", "layer", "recreate", "manifest", "manifestKey", "config", "tag", "ok",
   "failed"}

TypeOK ==
  /\ job \in Jobs
  /\ layers \in Seq(Layers) /\ \A l \in 1..Len(layers) : layers[l].parent < l
  /\ images \in Seq(Images) /\ \A m \in 1..Len(images) : images[m].top <= Len(layers)
  /\ pc \in [Importers -> Statements]
  /\ i \in [Importers -> Nat] /\ \A p \in Importers : i[p] \in 1..(NLayers(p) + 1)
  /\ parent \in [Importers -> 0..Len(layers)]
  /\ source \in [Importers -> Seq(Tar)]
  /\ image \in [Importers -> 0..Len(images)]
  /\ IsFiniteSet(rotten)
  /\ retries \in 0..MaxFaults

Complete(m) == images[m].manifest # NoManifest /\ images[m].hasConfig

MatchesConfig(m) == ChainOf(images[m].top) = images[m].manifest.diffIDs

\* An image that can be found (it has its manifest) has the layer chain its
\* config lists, bottom to top.  README.md:324-325 asks for it of any blobs: a
\* result's diff_id is validated before use.
ImagesMatchTheirConfig ==
  \A m \in 1..Len(images) : images[m].manifest # NoManifest => MatchesConfig(m)

\* The configs that damage may have reached: of images whose delta is damaged,
\* and of those patched from such an image.
Spoiled ==
  LET targets == {Delta(p).imageConfig : p \in Importers}
      Closed(S) ==
        \A p \in Importers :
          DeltaBlobs(p) \cap rotten # {} \/ Delta(p).sourceConfig \in S
            => Delta(p).imageConfig \in S
  IN {target \in targets : \A S \in SUBSET targets : Closed(S) => target \in S}

\* The deltas say of themselves what is so: they were made from the image they
\* name, they carry the config their image manifest refers to, and each part
\* yields the tar the config lists for its layer.
Honest(delta) ==
  LET target == delta.imageManifest.layers
      diffIDs == delta.imageConfig.diffIDs
      part(k) == delta.deltaLayerByTo[target[k].digest]
  IN /\ delta.imageManifest.config = delta.imageConfig
     /\ diffIDs \in Seq(Tar)
     /\ Len(diffIDs) = Len(target)
     /\ \A k \in 1..Len(target) :
          target[k].digest \in DOMAIN delta.deltaLayerByTo =>
            IF part(k).media = "tar-diff"
              THEN part(k).digest = Diff(delta.sourceConfig.diffIDs, diffIDs[k])
              ELSE part(k).digest.tar = diffIDs[k]

HonestJobs == \A j \in Jobs : \A p \in Importers : Honest(j[p].delta)

\* Only damage makes an image that can be found differ from its config, and no
\* further than the images patched from it: however imports interleave, fail and
\* are run again, whether layers were reused in place, recreated under another
\* parent, patched or unpacked, and although layers that a damaged delta put
\* there are shared (import.go:42-103, 167-217).
DamageIsConfined ==
  \A m \in 1..Len(images) :
    images[m].manifest \notin {NoManifest} \cup Spoiled => MatchesConfig(m)

\* What an import mounts to patch from is the image its delta was made from,
\* also when that image was itself put there by an import that failed between
\* its manifest and its end (containerstorage.go:54-75).
SourceIsTheOldImage ==
  \A p \in Importers :
    /\ pc[p] \notin {"resolve", "failed"}
    /\ Delta(p).sourceConfig \notin Spoiled
    => source[p] = Delta(p).sourceConfig.diffIDs

\* An import that succeeds has stored the whole target image.
SuccessStoresTheTarget ==
  \A p \in Importers :
    pc[p] = "ok" =>
      /\ Complete(image[p])
      /\ images[image[p]].manifest = Delta(p).imageConfig
      /\ Delta(p).imageConfig \notin Spoiled => MatchesConfig(image[p])

\* docs/man/oci-delta.1.md:149: if moving the tag fails, the imported image is
\* left untagged.
FailedForceLeavesUntagged ==
  \A p \in Importers :
    pc[p] = "failed" /\ job[p].force /\ image[p] # 0 =>
      job[p].tag \notin images[image[p]].names

\* A tag that names a complete image names a complete image ever after: with
\* --force-tag the tag moves last, without it a taken tag stops the import
\* before it is touched (import.go:125-130, 154-160).
NamesComplete(tag) == \E m \in TaggedBy(tag) : Complete(m)

TagStaysComplete ==
  [][\A p \in Importers : NamesComplete(job[p].tag) => NamesComplete(job[p].tag)']_vars

=============================================================================
