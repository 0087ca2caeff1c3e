------------------------------- MODULE DeltaParse -------------------------------
(***************************************************************************)
(* The two readers of a delta manifest: ParseDeltaArtifact of the program  *)
(* (delta.go:42-155) and ParsedDelta::parse of the Rust crate              *)
(* (lib.rs:387-491).  A manifest grows part by part, in any order and with *)
(* parts that are wrong, repeated or unknown; blobs are damaged from the   *)
(* start.  A blob that is whole is of the kind its part says.              *)
(***************************************************************************)
EXTENDS DeltaFormat, SequencesExt

CONSTANTS Parts, MaxParts,     \* the parts of a manifest and their number (bounds)
          Sources,             \* values of the source-config annotation
          Damages,             \* sets of blobs that are damaged
          DeltaType, OtherType \* values of artifactType

VARIABLES dm,            \* the delta manifest
          artifactType,
          damaged        \* digests whose blob is not what they name

vars == <<dm, artifactType, damaged>>

\* An annotation that is no digest; NoTo stands for an absent or empty one.
NotADigest == [kind |-> "text"]

Init ==
  /\ \E s \in Sources : dm = DeltaManifest(s, NoTo, <<>>, <<>>)
  /\ artifactType \in {DeltaType, OtherType}
  /\ damaged \in Damages

AddPart(p) ==
  /\ Len(dm.parts) < MaxParts
  /\ dm' = [dm EXCEPT !.parts = Append(@, p)]
  /\ UNCHANGED <<artifactType, damaged>>

Next == (\E p \in Parts : AddPart(p)) \/ (Len(dm.parts) = MaxParts /\ UNCHANGED vars)

Spec == Init /\ [][Next]_vars

-----------------------------------------------------------------------------
(* The readers *)

Rejected == [kind |-> "error"]

ImagePart(d, content) == LastOf(d, PartsOf(d, content))

\* Both image parts are there and their blobs have the digests of their parts
\* (readBlob, ocistorage.go:132; verify_digest, lib.rs:497).
HasImage(d) ==
  \A content \in {"image-manifest", "image-config"} :
    PartsOf(d, content) # {} /\ ImagePart(d, content).digest \notin damaged

IsLayer(p) == p.content = "image-layer"

\* A part that is passed over, which is no part of the image.
Skipped == Part("skipped", "none", EmptyJSON, NoTo)

\* The manifest with the layer parts whose `to` is in S passed over.
Without(d, S) ==
  [d EXCEPT !.parts =
     [k \in DOMAIN @ |-> IF IsLayer(@[k]) /\ @[k].to \in S THEN Skipped ELSE @[k]]]

\* Variant: layers are entered only once the image manifest has been seen.
GoParseInOrder(d, type) ==
  LET before(k) == \A j \in 1..k : d.parts[j].content # "image-manifest"
      kept == {k \in DOMAIN d.parts : ~(IsLayer(d.parts[k]) /\ before(k))}
      seen == [d EXCEPT !.parts = [k \in 1..Cardinality(kept) |-> d.parts[SetToSortSeq(kept, <)[k]]]]
  IN IF type # DeltaType \/ d.sourceConfig = NoTo \/ ~HasImage(d) THEN Rejected
     ELSE ParseDelta(Without(seen, {NoTo, NotADigest}))

\* Variant: the first part of a role is kept.
GoParseFirst(d, type) ==
  IF type # DeltaType \/ d.sourceConfig = NoTo \/ ~HasImage(d) THEN Rejected
  ELSE ParseDelta([Without(d, {NoTo, NotADigest}) EXCEPT !.parts = Reverse(@)])

\* A `to` that is empty or does not parse is skipped.
GoParse(d, type) ==
  IF type # DeltaType \/ d.sourceConfig = NoTo \/ ~HasImage(d) THEN Rejected
  ELSE ParseDelta(Without(d, {NoTo, NotADigest}))

IsDeltaArtifact(type) == type = DeltaType

\* What the crate insists on: one image, all of its diff_ids, no other's patch.
OneImage(parsed) ==
  /\ parsed.imageManifest.config = parsed.imageConfig
  /\ Len(parsed.imageConfig.diffIDs) = Len(parsed.imageManifest.layers)
  /\ DOMAIN parsed.deltaLayerByTo \subseteq
       {LayerDigest(parsed.imageManifest, k) : k \in DOMAIN parsed.imageManifest.layers}

\* A `to` that does not parse is an error here.
InvalidTo(d) == \E k \in DOMAIN d.parts : IsLayer(d.parts[k]) /\ d.parts[k].to = NotADigest

\* The caller has compared the artifact type (is_delta_artifact).
RustParse(d) ==
  IF d.sourceConfig \in {NoTo, NotADigest} \/ ~HasImage(d) \/ InvalidTo(d) THEN Rejected
  ELSE LET parsed == ParseDelta(Without(d, {NoTo}))
       IN IF OneImage(parsed) THEN parsed ELSE Rejected

-----------------------------------------------------------------------------
(* Properties *)

\* A delta that the crate accepts is accepted by the program too and read alike:
\* manifest, config, source and which blob makes which layer, also when parts
\* repeat, come in another order, name nothing or are damaged (delta.go:69-95,
\* lib.rs:404-436).
RustAcceptsLikeGo ==
  IsDeltaArtifact(artifactType) /\ RustParse(dm) # Rejected =>
    GoParse(dm, artifactType) = RustParse(dm)

\* The roles of the parts are in their annotations (README.md:302-303): two
\* neighbours that do not have the same role can change places, and a part
\* with an unknown role can be left out.
Role(p) == [content |-> p.content, to |-> IF IsLayer(p) THEN p.to ELSE NoTo]

Understood(p) == p.content \in {"image-manifest", "image-config", "image-layer"}

ReadAlike(d, e) ==
  GoParse(d, artifactType) = GoParse(e, artifactType) /\ RustParse(d) = RustParse(e)

LeftOut(k) == [dm EXCEPT !.parts = RemoveAt(@, k)]

Swapped(k) == [dm EXCEPT !.parts = [@ EXCEPT ![k] = dm.parts[k + 1], ![k + 1] = dm.parts[k]]]

RolesNotPositions ==
  /\ \A k \in 1..Len(dm.parts) : ~Understood(dm.parts[k]) => ReadAlike(LeftOut(k), dm)
  /\ \A k \in 1..Len(dm.parts) - 1 :
       Role(dm.parts[k]) # Role(dm.parts[k + 1]) => ReadAlike(Swapped(k), dm)

=============================================================================
