# oci-delta in TLA+

oci-delta compares two bootc images, writes a *delta* (an OCI artifact with
tar-diffs and whole layers), and rebuilds the new image from the delta and the
old image, either into an OCI layout (`apply`) or into containers/storage
(`import`). This directory models that core, checks it with TLC and proves the
parts that matter most with TLAPS. Paths below are relative to
`pkg/oci-delta/` unless they say otherwise.

## The system

| Component | State it keeps | Operations | Interacts with | Hard part | Correct when |
|---|---|---|---|---|---|
| `CreateDelta` (create.go) | the two parsed images, layer results, temporary tar-diffs | classify, diff, build the manifest, write the artifact | readers, pool, writer | failures between writes, layers read twice, duplicates | a delta that opens is whole and leads to the new image |
| layer diff pool (create.go:347) | `results`, `errs`, semaphore, WaitGroup | one goroutine per layer | `CreateDelta`, readers, temp directory | interleaving, clean-up of partial results | bounded, leaks nothing, always answers |
| delta format (delta.go, create.go:115-251) | annotations of the delta manifest | build, parse | create, apply, import | matching by digest and by diff_id | what is parsed is what was built |
| `ApplyDelta` (apply.go) | `outputLayers`, a temporary layer | patch, verify, copy, write | delta reader, data source, writer | blob hashed after it is written, verified before it is read again, crash | a layout that opens is the target |
| `ImportDelta` (import.go) | parent layer, image | reuse, recreate, patch, unpack, create image, tag | store, data source, a goroutine per tar-diff | other imports, half-done imports, moving tags | images match their configs, tags stay whole |
| source lookup (containerstorage.go:46) | mounts | find by config digest, mount | store | half-imported images | the mounted image is the old one |
| writers (ocistorage.go:295-398) | tar stream, directory | `WriteFile`, `WriteFileFromReader`, `Close` | create, apply | torn writes, writing a name twice, an existing directory | index.json is the commit |
| readers (ocistorage.go:96-291, 402-420) | tar index, open files | pick a manifest, `ReadBlob` | everything | index by name or position | the intended manifest |
| containers/storage reader (ocistorage.go:443-606) | exported layers | export, recompress, rename | store, create | ignored close errors, shared store | a layer is its diff_id's tar |
| signatures (verify.go, containerstorage.go:113-262) | none | extract, embed, verify | delta, store | slicing by sizes | the verified manifest is the embedded one |
| OSTree data source (ostreerepo.go) | path map, current file | find the ref, list its commit, `SetCurrentFile`, `Read`, `Seek` | tar-patch, a repository that others change | a ref resolved twice, cursor after a failure | all reads come from the one commit |
| command line (cmd/) | readers, writer, mount, store | create, apply, import | all | order of defers on a shared store | everything is released, nothing is touched before the checks |
| Rust crate (rust/oci-delta) | none | parse, decompress, tar-patch | bootc, composefs | integer limits, agreement with Go | same result as the Go side |

`PROJECT.json` lists the same components with what is modelled of each, and
under `hazards` the places where this code is hard to test.

## Modules

```
OCI ── DeltaFormat ─┬─ CreateDelta ─┬─ MCCreateDelta
 │                  │               └─ CreateDeltaProofs
 │                  ├─ MCApplyDelta
 │                  ├─ DeltaParse
 ├── OCIWriter ─────┼─ ApplyDelta ── ApplyAgain ─┬─ ApplyDeltaProofs (of both)
 │                  └─ (CreateDelta)             └─ MCApplyAgain
 └── ImportDelta ─┬─ MCImportDelta (with DeltaFormat)
                  └─ ImportDeltaProofs
Induction ── used by CreateDeltaProofs, ImportDeltaProofs, PatchPipeProofs, DeltaContentProofs
CreateDeltaProofs, ApplyDeltaProofs ── composed by RoundTrip ─┬─ MCRoundTrip
                                                              └─ RoundTripProofs
DataSource ── PatchPipe ─┬─ MCPatchPipe
                         └─ PatchPipeProofs
LayerStream implemented by PatchPipe
Publish    implemented by CreateDelta and by ApplyDelta
DiffBatch  implemented by DiffPool ── DeltaContentProofs
Layouts, StorageReader, OstreeSource, Commands ── Readers ─┬─ MCReaders
                                                           └─ ReadersProofs
DeltaParse, Signatures, TarPatch, Uvarint ── DeltaContent ─┬─ MCDeltaContent
                                                           └─ DeltaContentProofs
Components ── Readers, DeltaContent
```

* **OCI** is the data. Hashing is perfect, so a digest *is* the content it was
  computed from: a blob is a record, and a file named `n` is intact when it
  holds `n`. A layer is its tar (its diff_id) and a compression. JSON, sizes
  and the spelling of annotations are left out. `NoDiffID` is the empty digest
  of a layer the config does not list.
* **OCIWriter** is a layout being written. A write is two steps: the entry
  appears (`Torn`), then it has its content. A failure or crash in between
  leaves it torn. A second write of a name replaces the first, in the
  directory because the file is truncated, in the archive because a reader
  keeps the last entry. `Published` says that index.json is there and parses.
  Here, a write that returns an error has not put all of its content on the
  disk; a close that fails after the last byte is not modelled.
* **DeltaFormat** builds the delta manifest and parses it. `LayerPart` is the
  loop body of create.go:143-171 and `DeltaLayerByTo` the dispatch of
  delta.go:73-95, where the last part of a kind wins.
* **CreateDelta** is one run of create.go:41-332. `Classify` is everything
  before the diffs, `ComputeLayerDiffs` is the answer of the pool in one step
  (what *DiffBatch* allows), `LoadMetadata` the reads that verify digests, and
  then `WriteList` is gone through entry by entry with `StartEntry`,
  `FinishEntry`, for copied layers `HashCopy`, and `NextEntry`. `Return` runs
  the deferred removals. `layerDigests` is the digest the reader of the new image
  reports of each layer (`ActualDigest`): an archive's or directory's reader the
  one the layer is stored under, the reader of containers/storage that of the
  file it exported (`Exports`), the layer recompressed or, after a failed last
  write, a `CutLayer`. `RotNew` and `RotOld` damage the blobs the program
  reads without verifying them.
* **DiffPool** is create.go:347-475. `main` is the main goroutine, `pc[j]` the
  goroutine of layer `j`; a label per statement that can fail or that touches
  the temporary directory; the deferred calls run in their order (`Release`,
  then `WgDone`). **DiffBatch** is what the caller sees of it.
* **ApplyDelta** is one run of apply.go:23-234: `pc` is the statement, `i` the
  loop index, `outputLayers` the slice. The writes are `StartWrite` and
  `FinishWrite`, `After` maps a write to the statement that follows it.
  `VerifyDiff` and `PatchLayer` are separate steps and `Rot` may come between
  them. `PatchResults` is tar-patch: it yields the intended tar from the right
  diff and the right files, otherwise any tar (or, with `Fail`, an error).
* **ImportDelta** is any number of concurrent runs of import.go:26-217 on one
  store, each preceded by the lookup of its data source. A step is a call of
  the store, which the store's own locks make atomic. `Fail` is an error of
  any call and a killed process alike, since nothing is rolled back; `RunAgain`
  is the next try. `rotten` are blobs of the deltas that are damaged, `Spoiled`
  the images that this may reach.
* **PatchPipe** looks into one step of ImportDelta, `PatchLayer`: the goroutine
  of import.go:67-69 with the ops of its tar-diff, the pipe (a `Write` waits
  until its chunk is taken or the read end is closed), `PutLayer` as the
  reader, `pr.Close`, and the deferred `Close` and `Cleanup` of the data source
  all layers share. `pc[l]` is the goroutine of layer `l`. Bytes are
  symbolic: a chunk is the object, position and length it was read from, so
  that a byte from the wrong place is noticed; `Patched`, each op of `AfterOps`
  in turn with a cursor of the diff's own, is the reference. An
  op may always fail, which stands for damaged diffs and for missing and short
  files. Of `PutLayer` it is assumed that it succeeds only at the end of the
  stream. **DataSource** is the cursor of ostreerepo.go:231-274 with the second
  lookup of `etc/` below `usr/etc/`; opening a file after `Cleanup` is allowed
  to succeed, as it does with OSTree. **LayerStream** is what ImportDelta
  assumes: whole layers, in order, one step each.
* **RoundTrip** composes the two programs: `Create!` and `Apply!` are instances
  of their modules (of the proof modules, which extend them, so that the
  theorems come along) and every step is a step of one of them, with its failures,
  crashes and rot. `Open` is what lies between (`OpenOCIReader` and
  `ParseDeltaArtifact`, which verifies the manifest, config and delta manifest
  it reads): apply is given whatever artifact create left behind, as it was
  written. The new image is `Truthful`: its config lists the diff_ids its layers
  have, which create does not check. `Artifacts` are the deltas that can come
  of the pairs, the constant `Deltas` of `Apply!`; the actions do not look at it.
  `fault` remembers that anything went wrong, an export without its end
  (`ExportCut`) included.
* **ApplyAgain** runs ApplyDelta up to `MaxRuns` times on one output, with the
  same delta or another. `OpenOutput` is the difference between the writers: an
  archive starts empty, a directory with what the last run left.
* **Layouts** gives the same calls to the archive writer and the directory
  writer and compares what the reader of each finds. An archive is a list of
  entries, a directory a function; `ParseManifestDigestFromIndex` is the choice of a
  manifest by name, position or neither, and can panic. A stream
  is announced with a length and has one, from `Lengths`. One that is shorter is
  noticed at the next header or at `Close`, and leaves an archive that does not
  open; of one that is longer the archive keeps what was announced, with an
  error of the call, and does open, while a directory keeps all of it and
  reports nothing. `tarState` says whether the archive was closed without an
  error of any call.
* **StorageReader** is newCSReader and exportImage: one layer after the other
  is looked up, exported, compressed and renamed. The compressed layer is
  `Chunks` writes, of which `io.Copy` makes all but the last and
  `gzWriter.Close` the last; each may put nothing or a part on the disk.
  `MultiWriter` gives the hasher a write only after the file took all of it.
  Layers of the store may disappear at any time.
* **OstreeSource** is the lookup of the old image in an OSTree repository while
  others move, delete and prune refs: the list of refs, the commit metadata of
  each, the enumeration of the ref found, and objects opened by path. `excused`
  is the set of refs that changed during the run.
* **Signatures** follows a signature from the store's blob, which is cut by a
  list of sizes, into the delta, and through the loops of
  `VerifyDeltaSignature`. A signature is a record of its form, length, payload
  and annotation, and an annotation says who signed which payload. Another
  process may sign the image between the reads, and blobs may be damaged.
* **Commands** is the skeleton of create, apply and import. `Statements` lists
  what each acquires and checks, `Defers` the deferred call that follows a
  statement; any statement may fail. All images in containers/storage share
  one store. A reader opens it before it looks for its image, so that a failing
  reader may leave the store as it was, leave it open (the image does not
  resolve), or shut it down (the export fails): `StorageReaderFails`. A reader
  that is closed shuts it down, unless a layer is mounted. Releases may fail in
  any of their parts (`Release`), and `left` remembers what that leaves behind.
* **DeltaParse** has both parsers of a delta manifest, `GoParse` and
  `RustParse`, and a manifest that grows by any part at any step, so that every
  sequence up to `MaxParts` is met.
* **TarPatch** is the crate's interpreter (`tar_patch_apply`) with the hashing
  writer and the comparison in `reconstruct_layer_to`, and the other branch,
  an original layer that is decompressed. The stream is ops and single payload
  bytes: an op that consumes one byte too few or too many reads payload as an
  op. `Meaning` is the reference, what the format says of the ops.
* **Uvarint** is `read_uvarint` with the width and the group size as
  parameters, against `Value`, the unbounded reading of the bytes.
* **Readers** and **DeltaContent** put four modules each side by side. These
  share no state, so `component` (of **Components**) says which of them a
  behavior is about, and the variables of the others are `Idle`: one run
  explores the sum of the four state spaces and not their product. Their
  properties are those of the components under the same names. **MCReaders**
  and **MCDeltaContent** give their constants values.
* **Publish** is the abstract specification of both layouts' producers: the
  reader sees nothing, and then at once and for good the goal.

Definitions called *Variant* are plausible wrong versions of the definition
that follows. No specification uses them; each shows that a property notices
the mistake.

## Runs

| Run | Instance | Shows |
|---|---|---|
| `diff_pool` | 3 layers, 2 tokens, every failure | bound on parallelism, temporary files, nothing written after `wg.Wait`, the call returns, refinement of DiffBatch (a success has all results) |
| `create_delta` | an old image of two layers, four new images, with and without a signature, from an archive and from containers/storage, whole and without the end | a delta that opens is whole; errors publish nothing; refinement of Publish |
| `apply_delta` | all carriers for three targets, two data sources | a layout that opens is whole and is the target; index.json is last; refinement of Publish |
| `import_delta` | two imports: a chain of updates, two that move one tag, two that claim a free tag; two faults (a damaged blob, a repeated run) | layer chains match configs except where damage reaches, the right source is mounted, success is complete, tags stay whole, a failed forced import leaves its image untagged |
| `patch_pipe` | two tar-diffs that share a file, one below `etc/`, every op and call may fail, with either kind of error | refinement of LayerStream but for a bare `io.EOF`, the cursor has one user, a successful import leaves no file open, nobody is left blocked |
| `round_trip` | eight pairs of images (kept, swapped, recompressed, repeated and several new layers) from both kinds of reader, every choice of exports without their end, applied where the old image is and where it is not | what apply publishes is the image create was given, but for such an export; without a fault nothing is rejected |
| `apply_again` | three runs on one output, three deltas of which two have one target and one shares a layer | success is this run's target whatever was found; one blob of an earlier image at risk |
| `readers`, Layouts | three writes of two blobs, announced with either length and having either, and indexes of up to two manifests, by and without name; a write cut off anywhere | an archive closed without an error opens; archive and directory answer alike, but for a longer stream, which was reported |
| `readers`, StorageReader | images of up to three layers, one twice, one with too few diff_ids; three chunks | no file is shorter than its digest promises; an open reader has its layers, nothing stays of another |
| `readers`, OstreeSource | two refs, three commits, a file below `etc/` | files of one commit; an image that stays is found |
| `readers`, Commands | three commands, all choices of images in the store, a failure anywhere, in the releases too | what is not released is what failed to be, or a store opened for an image that is not there; the store is not used after its shutdown |
| `delta_content`, DeltaParse | all sequences of up to four of eleven parts, three sources, damage | what the crate accepts the program reads alike; roles, not positions |
| `delta_content`, Signatures | up to three signatures in a store, good and wrong in each way; given signatures in two manifests | only a genuine signature verifies; none is lost among others |
| `delta_content`, TarPatch | all deltas of up to four of eleven ops on two files, both versions, cut streams, short writes; original layers | success is the expected layer; every op does what the format says |
| `delta_content`, Uvarint | all inputs of up to four bytes, four-bit result, three-bit groups | exact or an error; never a byte too many |
| `gzip_label`, `import_unvalidated`, `ostree_moved` | those of `create_delta`, `import_delta` and `readers` | disagreements between the code and what the repository says of it, see below |

Type invariants are not runs of their own: `TypeOK` of a module with proofs is a
part of its inductive invariant.

**Bounds.** Two tokens and three goroutines are the smallest pool in which one
waits for a token while two run and one fails while others have results.
Two-layer targets have every pair of kinds of layers in sequence (reused,
patched, whole), and the repeated layer writes a name twice. Two imports are
enough for each pair of store calls to interleave; `MaxFaults = 2` lets
both run again, or one twice over the leftovers of its first tries, or once
beside a damaged blob. Bounds are
`MaxFaults` of the imports, `MaxRuns` of apply, `MaxManifests` and `MaxEntries`
of a layout, the two `Lengths`, `MaxParts` of a manifest, `MaxOps` of a tar-diff, `MaxBytes` of an
integer, and the finite sets; nothing else grows.

In `patch_pipe` a second layer is what meets a cursor or a goroutine left over
by the first.

In `apply_again` a third run meets what two different deltas left over an
earlier image. Two manifests tell position, name and "the only one" apart, and
a third entry of an archive can repeat one of two. Two lengths make a stream
that is shorter, as long and longer than announced. Three chunks are
a first, a middle and a last write, and only the last is made by `Close`. Two
refs let one move while the other is scanned, and a third commit has the same
config as another and other files. Four parts are the manifest, the config and
two layer parts that may collide; four ops are open, a move of the cursor, an
op that reads and one after it. Width 4 with groups of 3 has the shape of 64
with groups of 7: the width is no multiple of the group, and the last group
that fits has a single bit.

**Fairness.** `diff_pool` and `patch_pipe` check liveness. They assume weak
fairness of the main goroutine and of every goroutine, which the Go scheduler
gives; a worker that waits for a token needs no more, because each label is
passed once and tokens come back. `PutLayer` is expected to read what is
offered and to fail when the stream does, but never to fail by itself.
`EverybodyEnds` is about a process that lives on, as a user of the package does;
the command exits and takes its goroutines along. The other programs may crash
or their callers may stop, so nothing must happen, and no run asks for
liveness of them; that they do not get stuck is the deadlock check.

**Deadlock** is checked in every run; a finished program stutters with
`Terminating`.

## What the violated runs found

* `gzip_label`: create.go:164 labels every whole layer tar+gzip; README.md:311
  calls it "the original gzip layer". A zstd layer gets that label and
  the import, which trusts it, cannot read it.
* `import_unvalidated`: README.md:324-325 wants the result "gzip-compressed and
  its diff_id validated before use"; import.go:58-101 compares neither the
  blobs with their digests nor the results with the diff_ids.
* `ostree_moved`: README.md:69-71 enumerates the commit that was matched.
  ostreerepo.go:333 resolves the ref again; if it moved, the files are another
  image's. For apply the diff_ids catch this, import compares none.

Noticed while modelling, each visible in the model, without a run:

* apply.go:205 skips the comparison of a result when the config lists no
  diff_id for the layer (README.md:324-325 has no such exception).
* create.go:139 lists as `delta.reused` the new image's digests of layers that
  were matched by diff_id; README.md:221 expects them "to already be present on
  the target system", where they may have another compression.
* create.go:75 subtracts distinct digests from layers, so a new layer that
  occurs twice is counted as skipped.
* "@-1" passes `idx >= len` (ocistorage.go:112) and panics, where
  ocistorage.go:113 has an error for positions out of range.
* ocistorage.go:483 drops the error of the last write of an exported layer,
  although ocistorage.go:26-28 promises "the actual content digest" of a blob.
  `DigestIsNotAhead` holds all the same: a layer that was cut short never has
  the digest of a whole one. But what is compared later is the digest of the cut
  file. A new layer that is not diffed (create.go:455-459) is copied under it,
  create's and apply's comparisons match, and the rebuilt image has a layer that
  ends early. `RebuildsTheNewImage` names this as the only way another layer than
  create was given gets through, and only the diff_id of the layer, which neither
  create nor apply compares for a layer carried whole, would tell.
* ocistorage.go:49-52 returns with the store open that ParseReference opened
  when the image does not resolve; lines 55-58 shut it down on the next error.
  The errors of the deferred `Cleanup` and `Shutdown` are dropped.
* common.go:151 announces a size and copies a stream: in an archive one that is
  longer is cut there, with an error, and ocistorage.go:380-394 ignores the size,
  so the same call succeeds in a directory.
* apply.go:139 leaves a blob that does not match its name in a directory. A
  later run that reuses that layer (README.md:351 leaves it out of the output)
  succeeds beside it.

## Proofs

All proofs are checked by TLAPS 1.4.5 for every value of the constants.

**The pool** (*DeltaContentProofs*), for any finite set of layers and any positive capacity.
The properties are not inductive: that at most `Parallelism` goroutines hold a
token needs `sem = Cardinality(Holders)`; that results are final after
`wg.Wait` needs `wg = Cardinality(Live)`, hence that nobody lives when it is 0;
that no file leaks needs, for each statement, what a goroutine has left behind
(`Slots`). `IInv` is the conjunction. From it follow `ParallelismBounded`,
`NoFileLeaks`, `SuccessHasAllResults`, the action property
`SlotsStableAfterWait`, and the refinement `PoolImplementsBatch`: a step of the
pool is a step of the batch when the main goroutine returns and a stutter
otherwise.

*CreateDeltaProofs*, for any pairs of parsed images, any signature artifacts
(no blob of either is named index.json), any answers of the differ that
`Answers` allows, and any faults. The first half says what the three loops of
create.go build: the layers carried are the new ones, in order; the parts of
the delta are the two of the image, one per carried layer, and those of the
signatures; and every part has an entry of `WriteList` before index.json. The second half is
the invariant: an entry is intact, is being written, or is about to be hashed
(`Secure`), everything up to `next` is there (`Present`), and index.json has its
content only when all the rest is `Whole` (`IndexLast`). `ChosenAreBlobs` (what carries
a layer is never called index.json) is what keeps a copied layer
from clobbering the index. From it follow `OnlyWholeDeltas`,
`ErrorsPublishNothing`, and `CreatePublishesTheDelta`, the
refinement of Publish: what a reader parses from the published manifest is
the pair of images the program was given.

*ApplyDeltaProofs*, for any deltas (well formed: the manifest's layers are a
list, its config is the one embedded, no blob is named index.json) and any data
sources. `IInv` has the loop index and the write in progress by statement
(`Control`), what this run has written so far (`Rewritten`), that every entry but
index.json is intact, is being written, or is about to be hashed (`Secure`), and
that index.json has its content only when the program is done (`IndexLast`). The
uniform `Secure` is what makes the copy of a bad blob over a
good one harmless: the name is then the one about to be hashed. From it follow
`OnlyWholeImages`, `ErrorsPublishNothing` and `IndexIsTheCommit`. Under
`HonestDeltas` (the config lists every diff_id, and layers that are left out or
carried whole have those tars; nothing is asked of tar-diffs)
`ApplyPublishesTarget` proves the refinement of Publish, from `Reflected`: what
is listed so far is, layer by layer, what the delta carries or its tar-diff
makes, and the rest is the target's. The assumption is
needed: nothing in apply.go compares a whole layer with its diff_id. TLC
evaluates it for the deltas of MCApplyDelta, which CreateDelta can build.

**ApplyAgain** (also *ApplyDeltaProofs*), for any number of runs on one output, each of any delta.
`Control` and `Rewritten` hold of a run whatever it found, so they carry over;
`Secure` and `IndexLast` do not, since the output may hold torn blobs and an
older index. In their place `SoFar` says that what was whole when the run began
is kept, but for the blob that is being replaced, and `Committed` that a
run which has succeeded has put its own index over the older one. `AtMostOneBlobAtRisk` and, for
honest deltas, `SuccessPublishesThisTarget` follow.

*RoundTripProofs*, for any pairs of images whose new one is truthful, any
readers and any filesystems to apply to. The invariant is that of CreateDelta
and, once the delta is open, that of ApplyDelta, joined by `delta =
Create!Built`: the parsed delta has a part for exactly the layers the old image
lacks, and the blob of each is one the differ may answer (`Carriage`), so it is
a member of `Artifacts`, and the assumptions of ApplyDeltaProofs are theorems here
(`ArtifactFacts`). `RebuildsTheImage` then needs that a layer the delta
leaves out is one of the old image, and what apply has put in the place of one
it carries (`StoredAs`): the config's tar, compressed, for a tar-diff, else the
carrier, which is the layer or what its export left of it (`StoredFacts`). For
`NothingElseRejects` the two `Unharmed` say what each program has read and
copied as long as nothing has failed, and `BuiltFits` that the tar-diffs of
such a create fit the old image; no panic of the
classification is possible because every layer has a diff_id.

*ImportDeltaProofs*, in two layers, for any importers, jobs, store and number of
faults. The store at the start is in order (`StoreAssumption`: parents precede
their layers, and an image with a manifest has the layers its config lists), and deltas are what
ParseDeltaArtifact returns. `StoreInv` holds for
*any* deltas: no two imports own one image (`Own`), each has done what its
statement says (`Progress`), and a forced tag comes last (`Untagged`). It
yields `FailuresLeaveUntagged` and the action property
`TagsNeverLoseTheirImage`, which needs that the image a tag is moved to already has its manifest and its
config. `Confined` needs `HonestJobs` (a delta was made from
the image it names, carries the config its manifest refers to, and its parts
are the layers listed): unless damage may have
reached its target, the layers an import has in place are the first ones of
the target (`Built`), what it mounted is the old image
(`SourceIsTheOldImage`), and what can be found is right (`DamageIsConfined`).
The three are inductive only together: the mounted image may be one that
another import has put there and not finished, and a reused layer may have been
put there by a damaged delta. The layer chains only grow at their ends
(`ChainIn` of an appended store), which is why no import can disturb another.
`Spoiled` is a least fixed point; the proof uses that it is closed and
constant. `OnlyDamageSpoils`, `PatchesFromTheOldImage` and
`SuccessMeansTheTarget` follow. TLC checks `HonestJobs` and `StoreAssumption` of MCImportDelta.

*Induction* has what these proofs need of recursive functions. The library's
induction rules take an operator, which the provers cannot instantiate, but a
set can be: `InductionUpto` and `StrongInductionUpto` speak of a set `S` that
holds what is to be shown, and `IteratesExist` and `OutcomesExist` give, for a function defined from
its predecessors, that the definition has a solution. So the
lists that create.go appends to and the chains of layers are covered at any length.

*PatchPipeProofs*, for any list of diffs. That two goroutines never share the
cursor follows from `Ended` (a closed write end means that the goroutine is
done) and `Past` (the loop leaves a layer only when its stream has ended):
`OneCursorUser` and `SourceReleased`. `LayersAreWhole` is the refinement of
LayerStream, from `HonestDiffs`: diffs open files of their image, and one
before they read, and the data source is of that image. (A diff for another
image fails at an op, or takes the bytes of a file of the same name, which
nothing here can notice.) `Meanings` unfolds the reference one op at a time.
`Reading` says that while a layer is put, PutLayer has what the executed ops
wrote, less the chunk that waits in the pipe, and that the shared cursor is
where those ops left it (`Taken`); `Endpoints` that a clean end of stream needs
a clean end of `Apply`, after the last op, and that the read end of a pipe is
closed only behind its reader; `StoredSoFar` that the layers put are whole. A
step of a goroutine is then invisible above, and `LayerPut` is `Store`. The
exception is again `CutByEOF`.

*ReadersProofs*, one invariant per component; that a run never leaves the
component it started in (`OstreeSteps` and its like) reduces each to a step of
that component.

* Layouts, for any digests, names, lengths and number of writes: `LayoutInv`
  says that the last entry of a name in the archive (`LastEntry`) holds what the
  directory holds under it, or was cut at its announced size by the last call,
  as long as the archive opens; that only the last entry may be incomplete; and
  that an archive closed without an error has none. From it `ArchiveReadsLikeDirectory`.
* StorageReader, for any images, stores and numbers of chunks: `StorageInv`
  says that every file is the chunks that were hashed, in order, or has one
  cut write more when the end is missing (`Served`), that what is being copied
  is hashed as it is written (`Copying`), and that all layers passed so far have
  their file. `ImagesAssumption` (a layer that is listed twice has one diff_id)
  and `ChunksAssumption` (a compressed layer has an end) are used. From it
  `DigestNeverAhead` and `ReaderHasItsLayers`.
* OstreeSource, for any refs, commits, trees and changes by others:
  `OstreeInv` says that a ref which stayed in place and was looked at is of
  another image (`OthersScanned`), that the ref found is of the old image unless
  it changed since (`FoundMatches`), and that what is listed and opened is of
  the one commit that was read (`FilesOfCommit`). From it `FilesFromOneCommit`
  and `SearchFindsWhatStays`.
* Commands: `CommandInv` says that whatever is held has a deferred release, is
  the business of the next statement, or failed to be released (`Accounted`),
  that an open store has an owner still to be released, unless its shutdown
  failed or nobody ever owned it (`StoreIsOwned`), and that a mount is
  released first (`MountIsLast`), which `StatementsOrdered` gives: `mount`
  follows `store`, and only `writer` and `work` follow `mount`. From it
  `CommandsRelease` and `StoreNotMisused`.

*DeltaContentProofs*, likewise.

* DeltaParse, for manifests of any length: `RustReadsLikeGo` needs only what the
  crate's checks exclude. For `RolesAreNotPositions`, two manifests are related
  by a map of positions that keeps the order within each role (`SameRoles`);
  the last part of a role is then the same (`SameLast`), also after layers were
  passed over (`SameWithout`), so both readers read them alike (`SameReaders`),
  and an exchange of neighbours and the loss of an unknown part give such maps.
* Signatures, for any signatures of any lengths: the blob is the signatures end
  to end (`Laid`), and the recursion that sums the sizes cuts it at their ends
  (`Offsets`), so that what is cut out was stored, even with sizes out of date
  (`FoundIsStored`), and all is found when they are not (`StoredIsFound`).
  `SignatureInv` then says that what is embedded was signed (`EmbeddedInv`),
  that all of the store's signatures are embedded (`ExtractedInv`), and that
  the loops have not passed over a genuine one (`LoopInv`).
  `SignaturesAssumption`: a sigstore signature has at least its prefix, and what
  is given with `--signature` are signatures already made. From it
  `VerifiedWasSigned` and `SignedGetsVerified`.
* TarPatch, for any ops, files, limits and lengths: `PatchInv` says that the
  interpreter is where an op begins or ends the stream, that what it wrote and
  where its cursor is are the meaning of the ops before it when the delta is
  well formed (`AtAnOp`), and that the hash is of what was written. `Meanings`
  gives the recursive reference step by step, and `StreamIs` that the stream is
  the ops end to end. `OpsAssumption` is which kinds of op carry bytes, and
  `FilesAssumption` that files hold bytes. From it
  `InterpreterFollowsTheFormat` and `OkMeansTheLayer`.

* Uvarint, for every width and group size: while it reads, the value is that of
  the groups so far and below the power of two its shift stands for
  (`Continued`), so that `|=` adds and what fits below the width is not cut off
  (`FittingBits`); what does not fit is worth too much (`ExceedingBits`). The
  provers know nothing of `^`, hence `TwoTo`, whose laws are proved
  (`NextPower`, `PowerOfSum`), as is what a further group adds to the reference
  (`NextValue`). `IntegerAssumption`: the width is not 0. From it
  `IntegersDecodeExactly`.

TLC evaluates all these assumptions in `readers` and `delta_content`, and
`HonestDiffs` in `patch_pipe`.

Only model-checked: the liveness properties `AlwaysReturns` and `EverybodyEnds`,
since liveness and ENABLED are out of the prover's reach. Every other property
of a passing run is a theorem.

## What the pipe relies on

Two things a maintainer should know, neither contradicted by the repository's
documents. `CloseWithError(io.EOF)` is a clean end of stream: if tar-patch
ever returned `io.EOF` unwrapped, say from a source file that is too short,
`PutLayer` would accept a short layer, and import compares no diff_id
afterwards. `CutByEOF` is this one exception in `ImplementsStream`. And
after a failed `PutLayer` the goroutine may still use the data source while
the deferred calls close it, and may open a file that nobody closes;
`OnePatcherAtATime` shows that this is confined to imports that fail.

## Not modelled

* Formatting, the bytes of JSON (a document of the wrong kind is an error of
  the read), logging, and statistics.
* Libraries: `tarpatch.Apply` and `tardiff` on the Go side appear as the
  outcomes they can have, libostree, containers/storage and go-digest by how
  they are used, compressors and cryptography not at all.
* cmd/root.go, the definition of flags, the outcome of verifying a signature in
  the commands, the stub build without OSTree,
  which only returns errors, and the accessors of the crate.
* Errors of closing the output of apply and create after its last byte.
* Tools and tests, which were read for what they promise.

## Plan

Every component but the tools has its model, and the hazards listed in
`PROJECT.json` have their properties, but for two whose notes say why. Every
safety property of the passing runs is proved. What is left is a finer model of
`PutLayer`, which the pipe takes as one call, and of tar-patch on the Go side,
which the pipe and apply take by its outcomes.
