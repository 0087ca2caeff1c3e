--------------------------------- MODULE OCI ---------------------------------
(***************************************************************************)
(* The data the components exchange.  Hashing is perfect: a digest is the  *)
(* content it was computed from, so a blob stored under name n is intact   *)
(* iff the content found there is n.  The diff_id of a layer is its        *)
(* uncompressed tar.  Sizes, JSON and annotations' spelling are left out.  *)
(***************************************************************************)
EXTENDS Naturals, Sequences, FiniteSets

CONSTANTS Tar,        \* layer tars, each of them its own diff_id
          NoDiffID    \* the empty digest "" of a layer the config does not list

ASSUME DiffIDAssumption == NoDiffID \notin Tar

\* A layer blob is a tar in some form: "tar", "gzip", "zstd", or "gogzip", which
\* is gzip as written by this program (apply.go:182, ocistorage.go:481).
MediaOf(form) == IF form = "gogzip" THEN "gzip" ELSE form

Layer(tar, form) == [kind |-> "layer", tar |-> tar, form |-> form]

\* What is left of a layer this program compressed when the end was not written.
CutLayer(tar) == [kind |-> "cut", tar |-> tar, form |-> "gogzip"]

Config(diffIDs) == [kind |-> "config", diffIDs |-> diffIDs]

Descriptor(media, digest) == [media |-> media, digest |-> digest]

\* layers is a sequence of descriptors.
Manifest(config, layers) ==
  [kind |-> "manifest", config |-> config, layers |-> layers]

\* A tar-diff patches files of the filesystem `from` into the tar `to`.
Diff(from, to) == [kind |-> "diff", from |-> from, to |-> to]

EmptyJSON == [kind |-> "empty"]

\* The names in a layout that are not digests.
LayoutFile == [kind |-> "oci-layout"]
IndexFile == [kind |-> "index.json"]

Index(manifest) == [kind |-> "index", manifest |-> manifest]

-----------------------------------------------------------------------------
(* parseOCIImage (common.go:32): the layers of a manifest with the diff_ids *)
(* of its config.  The config may list fewer diff_ids than there are layers.*)

DiffIDAt(diffIDs, i) == IF i <= Len(diffIDs) THEN diffIDs[i] ELSE NoDiffID

LayerDigest(image, i) == image.layers[i].digest

LayerDiffID(image, i) == DiffIDAt(image.config.diffIDs, i)

\* Keys of layerByDiffID: layers without a diff_id are not entered.
DiffIDs(image) ==
  {LayerDiffID(image, i) : i \in 1..Len(image.layers)} \ {NoDiffID}

\* The merged filesystem of an image, as far as its layers' contents go.
Filesystem(image) ==
  [i \in 1..Len(image.layers) |-> LayerDigest(image, i).tar]

=============================================================================
