---------------------------- MODULE RoundTripProofs ----------------------------
(***************************************************************************)
(* What create publishes, apply turns back into the new image: the two     *)
(* programs' invariants hold side by side, and are joined by what          *)
(* ParseDeltaArtifact hands from one to the other.                         *)
(***************************************************************************)
EXTENDS RoundTrip, TLAPS

-----------------------------------------------------------------------------
(* What the theorems about the two programs assume *)

LEMMA CreateAssumptions ==
  Create!DiffIDAssumption /\ Create!PairsAssumption /\ Create!SignaturesAssumption
<1>1. Create!DiffIDAssumption
  BY DiffIDAssumption DEF Create!DiffIDAssumption
<1>2. Create!PairsAssumption
  BY PairsAssumption DEF Create!PairsAssumption
<1>3. Create!SignaturesAssumption
  BY DEF Create!SignaturesAssumption
<1>4. QED
  BY <1>1, <1>2, <1>3

\* The two programs and the composition speak of the same images and deltas.
LEMMA SameFormat ==
  /\ \A o, m : NewOnly(o, m) = Create!NewOnly(o, m)
  /\ \A d, c : LayerPart(d, c) = Create!LayerPart(d, c)
  /\ \A dm : ParseDelta(dm) = Create!ParseDelta(dm)
  /\ \A m : Filesystem(m) = Create!Filesystem(m)
<1>1. \A o, m : NewOnly(o, m) = Create!NewOnly(o, m)
  BY DEF NewOnly, Known, DiffIDs, LayerDiffID, DiffIDAt, LayerDigest,
     Create!NewOnly, Create!Known, Create!DiffIDs, Create!LayerDiffID, Create!DiffIDAt,
     Create!LayerDigest
<1>2. \A d, c : LayerPart(d, c) = Create!LayerPart(d, c)
  BY DEF LayerPart, Part, Create!LayerPart, Create!Part
<1>3. \A dm : ParseDelta(dm) = Create!ParseDelta(dm)
  BY DEF ParseDelta, LastOf, PartsOf, DeltaLayerByTo,
     Create!ParseDelta, Create!LastOf, Create!PartsOf, Create!DeltaLayerByTo
<1>4. \A m : Filesystem(m) = Create!Filesystem(m)
  BY DEF Filesystem, LayerDigest, Create!Filesystem, Create!LayerDigest
<1>5. QED
  BY <1>1, <1>2, <1>3, <1>4

\* What is known of the images create may be given.
LEMMA PairFacts ==
  ASSUME NEW p \in Pairs
  PROVE  /\ p[2].config.kind = "config" /\ Len(p[2].layers) \in Nat
         /\ p[2].layers \in Seq({p[2].layers[k] : k \in DOMAIN p[2].layers})
         /\ p[2].config.diffIDs \in Seq(Tar)
         /\ Len(p[2].config.diffIDs) = Len(p[2].layers)
         /\ \A k \in 1..Len(p[2].layers) :
              /\ p[2].layers[k].digest.kind = "layer"
              /\ p[2].layers[k].digest.tar \in Tar
              /\ p[2].config.diffIDs[k] = p[2].layers[k].digest.tar
         /\ \A d \in NewOnly(p[1], p[2]) : d.kind = "layer" /\ d.tar \in Tar
<1>1. Create!ParsedImage(p[2]) /\ Truthful(p[2])
  BY PairsAssumption
<1>2. /\ p[2].config.kind = "config" /\ Len(p[2].layers) \in Nat
      /\ \A k \in 1..Len(p[2].layers) :
           p[2].layers[k].digest.kind = "layer" /\ p[2].layers[k].digest.tar \in Tar
  BY <1>1 DEF Create!ParsedImage, Create!LayerDigest
<1>3. p[2].config.diffIDs = [k \in 1..Len(p[2].layers) |-> p[2].layers[k].digest.tar]
  BY <1>1 DEF Truthful, Filesystem, LayerDigest
<1>4. \A d \in NewOnly(p[1], p[2]) : d.kind = "layer" /\ d.tar \in Tar
  BY <1>2 DEF NewOnly, LayerDigest
<1>5. QED
  BY <1>1, <1>2, <1>3, <1>4 DEF Truthful

\* What stands for a layer, and how its part describes it.
LEMMA CarrierFacts ==
  ASSUME NEW p \in Pairs, NEW d \in NewOnly(p[1], p[2]), NEW f, f[d] \in CarriersOf(p, d)
  PROVE  /\ f[d].kind \in {"layer", "cut", "diff"}
         /\ f[d].kind = "cut" <=> f[d] = CutLayer(d.tar)
         /\ f[d].kind = "diff" => f[d].to \in Tar
         /\ f[d].kind # "diff" => f[d].tar = d.tar
         /\ LayerPart(d, f).digest = f[d]
         /\ LayerPart(d, f).media = "tar-diff" <=> f[d].kind = "diff"
<1>1. d.kind = "layer"
  BY PairFacts
<1>2. /\ f[d].kind \in {"layer", "cut", "diff"}
      /\ f[d].kind = "cut" <=> f[d] = CutLayer(d.tar)
      /\ f[d].kind = "diff" => f[d].to \in Tar
      /\ f[d].kind # "diff" => f[d].tar = d.tar
  <2>1. CASE f[d] = d
    BY <1>1, <2>1 DEF CutLayer
  <2>2. CASE f[d] \in {Layer(d.tar, "gogzip"), CutLayer(d.tar)}
    BY <2>2 DEF Layer, CutLayer
  <2>3. ASSUME NEW from, NEW to \in Tar, f[d] = Diff(from, to)
        PROVE  f[d].kind = "diff" /\ f[d].to \in Tar /\ f[d] # CutLayer(d.tar)
    BY <2>3 DEF Diff, CutLayer
  <2>4. \/ f[d] = d \/ f[d] \in {Layer(d.tar, "gogzip"), CutLayer(d.tar)}
        \/ \E from : \E to \in Tar : f[d] = Diff(from, to)
    BY DEF CarriersOf
  <2>5. QED
    BY <2>1, <2>2, <2>3, <2>4
<1>3. LayerPart(d, f).digest = f[d]
  BY DEF LayerPart, Part
<1>4. LayerPart(d, f).media = IF f[d].kind = "diff" THEN "tar-diff" ELSE "gzip"
  BY DEF LayerPart, Part
<1>5. QED
  BY <1>2, <1>3, <1>4

\* The deltas of truthful images are well formed, and what they carry stands for
\* the layers of the config (a layer without its end for the one it is left of).
LEMMA ArtifactFacts ==
  ASSUME NEW a \in Artifacts
  PROVE  Apply!WellFormed(a) /\ Apply!Honest(a)
<1>1. PICK p \in Pairs : \E f \in Assignments(p) : a = DeltaOf(p, f)
  BY DEF Artifacts
<1>2. PICK f \in Assignments(p) : a = DeltaOf(p, f)
  BY <1>1
<1> DEFINE image == p[2]
           new_ == NewOnly(p[1], p[2])
<1>3. /\ a.imageManifest = image /\ a.imageConfig = image.config
      /\ DOMAIN a.deltaLayerByTo = new_
      /\ \A d \in new_ : a.deltaLayerByTo[d] = LayerPart(d, f)
  BY <1>2 DEF DeltaOf
<1>4. ASSUME NEW d \in new_
      PROVE  LET part == a.deltaLayerByTo[d]
             IN /\ part.digest.kind \in {"layer", "cut", "diff"}
                /\ part.digest.kind = "diff" => part.digest.to \in Tar
                /\ part.media = "tar-diff" \/ part.digest.tar = d.tar
  <2>1. f[d] \in CarriersOf(p, d)
    BY DEF Assignments
  <2>2. a.deltaLayerByTo[d] = LayerPart(d, f)
    BY <1>3
  <2>3. QED
    BY <2>1, <2>2, CarrierFacts
<1>5. /\ image.config.kind = "config" /\ Len(image.layers) \in Nat
      /\ image.layers \in Seq({image.layers[k] : k \in DOMAIN image.layers})
      /\ image.config.diffIDs \in Seq(Tar)
      /\ Len(image.config.diffIDs) = Len(image.layers)
      /\ \A k \in 1..Len(image.layers) :
           /\ image.layers[k].digest.kind = "layer"
           /\ image.config.diffIDs[k] = image.layers[k].digest.tar
  BY PairFacts
<1> HIDE DEF image, new_
<1>6. Apply!BlobsOf(a) = {image.config} \cup {a.deltaLayerByTo[d].digest : d \in new_}
  BY <1>3 DEF Apply!BlobsOf
<1>7. Apply!IndexFile.kind = "index.json"
  BY DEF Apply!IndexFile
<1>8. \A b \in Apply!BlobsOf(a) :
        b.kind \in {"config", "layer", "cut", "diff"} /\ (b.kind = "diff" => b.to \in Tar)
  BY <1>4, <1>5, <1>6
<1>9. Apply!WellFormed(a)
  BY <1>3, <1>5, <1>7, <1>8 DEF Apply!WellFormed
<1>10. ASSUME NEW k \in 1..Len(image.layers)
       PROVE  LET d == image.layers[k].digest
              IN IF d \in DOMAIN a.deltaLayerByTo
                   THEN \/ a.deltaLayerByTo[d].media = "tar-diff"
                        \/ a.deltaLayerByTo[d].digest.tar = image.config.diffIDs[k]
                   ELSE d.tar = image.config.diffIDs[k] /\ d # Apply!IndexFile
  BY <1>3, <1>4, <1>5, <1>7
<1>11. Apply!Honest(a)
  BY <1>3, <1>5, <1>10 DEF Apply!Honest
<1>12. QED
  BY <1>9, <1>11

LEMMA ApplyAssumptions ==
  Apply!DiffIDAssumption /\ Apply!DeltasAssumption /\ Apply!HonestDeltas
<1>1. Apply!DiffIDAssumption
  BY DiffIDAssumption DEF Apply!DiffIDAssumption
<1>2. Apply!DeltasAssumption /\ Apply!HonestDeltas
  BY ArtifactFacts DEF Apply!DeltasAssumption, Apply!HonestDeltas
<1>3. QED
  BY <1>1, <1>2

-----------------------------------------------------------------------------
(* The invariant *)

Created == Create!IInv /\ Create!Carriage /\ Create!Indexed

Applied == Apply!IInv /\ Apply!Reflected /\ Apply!Listed

\* Nothing has been opened yet, or nothing that could be.
Waiting == Apply!WriterInit /\ source \in Sources /\ i = 1 /\ patched = NoDiffID
Refused == Apply!WriterInit /\ pc = "error"

\* What is being applied is the delta that is there.
Joined ==
  IF ~Opened THEN Waiting
  ELSE /\ ~Create!Running
       /\ Refused \/ (Create!Published /\ delta = Create!Built /\ Applied)

\* Without a fault create does its work, and so does apply on the old image.
Harmless ==
  ~fault => /\ Create!Unharmed
            /\ Opened /\ source = Filesystem(old) => Apply!Unharmed

IInv == Created /\ Joined /\ Harmless

-----------------------------------------------------------------------------
(* The steps of the composition are those of the programs *)

LEMMA CreateStepKinds ==
  /\ CreateSteps => Create!Next
  /\ CreateFaults => Create!Next
  /\ UNCHANGED created => UNCHANGED Create!vars
BY DEF CreateSteps, CreateFaults, Create!Next, created, Create!vars

LEMMA ApplyStepKinds ==
  /\ ApplySteps => Apply!Next /\ (Apply!Writes \/ Apply!FinishWrite \/ Apply!Between)
  /\ ApplyFaults => Apply!Next
  /\ UNCHANGED applied => UNCHANGED Apply!vars
BY DEF ApplySteps, ApplyFaults, Apply!Next, Apply!Writes, Apply!Between, applied, Apply!vars

LEMMA NextCreated == Created /\ [Create!Next]_(Create!vars) => Created'
BY CreateAssumptions, Create!NextIInv, Create!NextCarriage, Create!NextIndexed DEF Created

LEMMA NextApplied == Applied /\ [Apply!Next]_(Apply!vars) => Applied'
BY ApplyAssumptions, Apply!NextIInv, Apply!NextReflected, Apply!NextListed DEF Applied, Apply!IInv

-----------------------------------------------------------------------------
(* From create to apply *)

\* Each new layer of a delta that opens has its carrier.
LEMMA ChosenFacts ==
  ASSUME Created, Create!Published, NEW p \in Pairs, old = p[1], new = p[2],
         NEW d \in NewOnly(old, new)
  PROVE  chosen[d] \in CarriersOf(p, d)
<1>1. chosen[d] \in Create!Carriers(d)
  BY SameFormat DEF Created, Create!Carriage
<1>2. Create!ActualDigest(d) \in {d, Layer(d.tar, "gogzip"), CutLayer(d.tar)}
  <2>1. d \in Create!LayerDigests(new)
    BY DEF NewOnly, LayerDigest, Create!LayerDigests, Create!LayerDigest
  <2>2. Create!ActualDigest(d) \in {d, Create!Layer(d.tar, "gogzip"), Create!CutLayer(d.tar)}
    BY <2>1, CreateAssumptions, Create!DigestFacts DEF Created, Create!IInv
  <2>3. QED
    BY <2>2 DEF Create!Layer, Create!CutLayer, Layer, CutLayer
<1>3. \A from, to : Create!Diff(from, to) = Diff(from, to)
  BY DEF Create!Diff, Diff
<1>4. Create!Rotten = [kind |-> "rotten"]
  BY DEF Create!Rotten
<1>5. Create!Filesystem(old) = Filesystem(p[1])
  BY SameFormat
<1>6. QED
  BY <1>1, <1>2, <1>3, <1>4, <1>5 DEF Create!Carriers, CarriersOf

\* What create leaves behind is a delta apply may be given.
LEMMA BuiltIsArtifact ==
  ASSUME Created, Create!Published
  PROVE  Create!Built \in Artifacts
<1>1. PICK p \in Pairs : old = p[1] /\ new = p[2]
  BY DEF Created, Create!IInv, Create!TypeOK
<1> DEFINE f == [d \in NewOnly(old, new) |-> chosen[d]]
<1>2. f \in Assignments(p)
  BY <1>1, ChosenFacts DEF Assignments
<1>3. \A d \in NewOnly(old, new) : LayerPart(d, f) = Create!LayerPart(d, chosen)
  BY DEF LayerPart, Part, Create!LayerPart, Create!Part
<1> HIDE DEF f
<1>4. Create!Built = DeltaOf(p, f)
  BY <1>1, <1>3, SameFormat DEF Create!Built, DeltaOf
<1>5. QED
  BY <1>1, <1>2, <1>4 DEF Artifacts

\* What ApplyDelta starts from once the delta has been opened.
LEMMA OpenBegins ==
  ASSUME Created, Waiting, Open, pc' # "error"
  PROVE  /\ Apply!Init' /\ delta' = Create!Built /\ Create!Published
<1>1. Create!Published /\ delta' = ParseDelta(Create!PublishedManifest)
      /\ blobs' = [d \in Apply!BlobsOf(delta') |->
                     IF Create!Has(d) THEN artifact[d] ELSE Create!Torn]
      /\ outputLayers' = delta'.imageManifest.layers /\ pc' = "layout"
      /\ UNCHANGED <<layout, layoutWrite, source, i, patched>>
  BY DEF Open
<1>2. delta' = Create!Built
  BY <1>1, CreateAssumptions, SameFormat, Create!WholeIsComplete, Create!ParsedFacts
  DEF Created, Create!IInv
<1>3. delta' \in Artifacts
  BY <1>1, <1>2, BuiltIsArtifact
<1>4. \A d \in Apply!BlobsOf(delta') : Create!Intact(d)
  <2>1. /\ Create!Intact(new.config)
        /\ \A d \in Create!NewOnly(old, new) : Create!Intact(chosen[d])
    BY <1>1, CreateAssumptions, Create!BuiltIsThere DEF Created
  <2>2. delta'.imageConfig = new.config
        /\ DOMAIN delta'.deltaLayerByTo = Create!NewOnly(old, new)
        /\ \A d \in Create!NewOnly(old, new) : delta'.deltaLayerByTo[d].digest = chosen[d]
    BY <1>2 DEF Create!Built, Create!LayerPart, Create!Part
  <2>3. QED
    BY <2>1, <2>2 DEF Apply!BlobsOf
<1>5. blobs' = [d \in Apply!BlobsOf(delta') |-> d]
  BY <1>1, <1>4 DEF Create!Intact
<1>6. Apply!WriterInit'
  BY <1>1 DEF Waiting, Apply!WriterInit, Apply!Torn, Apply!NotWriting
<1>7. QED
  BY <1>1, <1>2, <1>3, <1>5, <1>6 DEF Apply!Init, Waiting, Apply!BlobsOf, Apply!Target

\* A delta that opens is not refused when nothing has failed.
LEMMA OpenSucceeds ==
  ASSUME Created, Create!Unharmed, Open
  PROVE  pc' # "error"
<1>1. createPc = "ok"
  BY DEF Open, Create!Running, Create!Unharmed
<1>2. Create!Published
  BY <1>1 DEF Created, Create!Indexed
<1>3. ParseDelta(Create!PublishedManifest) = Create!Built
      /\ Create!PublishedManifest = Create!TheDelta
  BY <1>2, CreateAssumptions, SameFormat, Create!WholeIsComplete, Create!ParsedFacts
  DEF Created, Create!IInv
<1>4. Create!Built.imageManifest = new /\ Create!Built.imageConfig = new.config
  BY DEF Create!Built
<1>5. \A n \in {Create!TheDelta, new, new.config} : Create!Intact(n)
  BY <1>2, CreateAssumptions, Create!BuiltIsThere DEF Created
<1>6. QED
  BY <1>2, <1>3, <1>4, <1>5 DEF Open

\* The images at hand.
LEMMA ImageFacts ==
  ASSUME Created
  PROVE  /\ Len(new.layers) \in Nat /\ Len(new.config.diffIDs) = Len(new.layers)
         /\ \A k \in 1..Len(new.layers) :
              /\ LayerDigest(new, k).kind = "layer"
              /\ new.config.diffIDs[k] = LayerDigest(new, k).tar
              /\ new.config.diffIDs[k] \in Tar
<1>1. PICK p \in Pairs : old = p[1] /\ new = p[2]
  BY DEF Created, Create!IInv, Create!TypeOK
<1>2. QED
  BY <1>1, PairFacts DEF LayerDigest

LEMMA NoPanic == ASSUME Created PROVE ~Create!ClassificationPanics(old, new)
<1>1. \A k \in 1..Len(new.layers) : Create!LayerDiffID(new, k) = new.config.diffIDs[k]
  BY ImageFacts DEF Create!LayerDiffID, Create!DiffIDAt
<1>2. QED
  BY <1>1, ImageFacts, DiffIDAssumption DEF Create!ClassificationPanics

\* The tar-diffs of an undisturbed create fit the old image.
LEMMA BuiltFits ==
  ASSUME Created, Create!Published, Create!Unharmed, delta = Create!Built,
         source = Filesystem(old)
  PROVE  Apply!Fits
<1> SUFFICES ASSUME NEW k \in 1..Apply!NLayers, Apply!InDelta(k),
                    Apply!DeltaLayer(k).media = "tar-diff"
             PROVE  Apply!DeltaLayer(k).digest = Apply!Diff(source, delta.imageConfig.diffIDs[k])
  BY DEF Apply!Fits
<1> DEFINE d == LayerDigest(new, k)
<1>1. /\ Apply!NLayers = Len(new.layers) /\ delta.imageConfig = new.config
      /\ d \in Create!NewOnly(old, new) /\ Apply!DeltaLayer(k) = Create!LayerPart(d, chosen)
  BY DEF Create!Built, Apply!NLayers, Apply!Target, Apply!InDelta, Apply!DeltaLayer,
     Apply!LayerDigest, LayerDigest
<1>2. d.kind = "layer" /\ delta.imageConfig.diffIDs[k] = d.tar
  BY <1>1, ImageFacts
<1> HIDE DEF d
<1>3. Apply!DeltaLayer(k).digest = chosen[d] /\ chosen[d].kind = "diff"
  BY <1>1 DEF Create!LayerPart, Create!Part
<1>4. chosen[d] \in {Create!ActualDigest(d), Create!Diff(Create!Filesystem(old), d.tar)}
  BY <1>1 DEF Created, Create!Carriage, Create!Unharmed
<1>5. Create!ActualDigest(d).kind = "layer"
  BY <1>1 DEF Create!Unharmed
<1>6. chosen[d] = Create!Diff(Create!Filesystem(old), d.tar)
  BY <1>3, <1>4, <1>5
<1>7. QED
  BY <1>2, <1>3, <1>6, SameFormat DEF Create!Diff, Apply!Diff

\* An apply that was refused its delta is over.
LEMMA RefusedStops == ASSUME Refused, ApplySteps \/ ApplyFaults PROVE FALSE
<1>1. pc = "error" /\ Apply!Idle
  BY DEF Refused, Apply!WriterInit, Apply!Idle
<1>2. QED
  BY <1>1 DEF ApplySteps, ApplyFaults, Apply!WriteLayoutFile, Apply!WriteConfig, Apply!StoreLayer,
     Apply!CopyLayer, Apply!WriteManifest, Apply!WriteIndex, Apply!StartWrite, Apply!FinishWrite,
     Apply!EndWrite, Apply!HashConfig, Apply!NextLayer, Apply!LayersDone, Apply!VerifyDiff,
     Apply!PatchLayer, Apply!LayerStored, Apply!LayerCopied, Apply!Fail, Apply!IO, Apply!Crash,
     Apply!Rot, Apply!Running

-----------------------------------------------------------------------------
(* The invariant is inductive *)

LEMMA InitIInv == Init => IInv
<1> SUFFICES ASSUME Init PROVE IInv
  OBVIOUS
<1>1. Create!Init /\ ~Opened /\ Waiting
  BY DEF Init, Opened, Waiting
<1>2. Create!IInv
  BY <1>1, CreateAssumptions, Create!InitIInv
<1>3. Create!Carriage /\ Create!Indexed
  BY <1>1 DEF Create!Init, Create!WriterInit, Create!Carriage, Create!Indexed,
     Create!Published, Create!Has
<1>4. ASSUME ~fault PROVE Create!Unharmed
  <2>1. ASSUME NEW d \in Create!NewOnly(old, new) PROVE Create!ActualDigest(d).kind = "layer"
    <3>1. ~ExportCut(d) /\ d.kind = "layer"
      <4>1. d \in NewOnly(old, new)
        BY SameFormat
      <4>2. PICK p \in Pairs : old = p[1] /\ new = p[2]
        BY <1>1 DEF Create!Init
      <4>3. QED
        BY <1>4, <4>1, <4>2, PairFacts DEF Init
    <3>2. d \in Create!LayerDigests(new)
      BY DEF Create!NewOnly, Create!LayerDigest, Create!LayerDigests
    <3>3. Create!ActualDigest(d) \in {d, Create!Layer(d.tar, "gogzip"), Create!CutLayer(d.tar)}
      BY <1>2, <3>2, CreateAssumptions, Create!DigestFacts DEF Create!IInv
    <3>4. Create!ActualDigest(d) # Create!CutLayer(d.tar)
      BY <3>1 DEF ExportCut, Create!ActualDigest, Create!CutLayer, CutLayer
    <3>5. QED
      BY <3>1, <3>3, <3>4 DEF Create!Layer
  <2>2. /\ base = Create!Filesystem(old)
        /\ \A d \in Create!LayerDigests(new) : layerBlobs[d] = Create!ActualDigest(d)
        /\ DOMAIN chosen = {} /\ createPc = "parse" /\ Create!Idle
    BY <1>1 DEF Create!Init, Create!WriterInit, Create!Idle, Create!ActualDigest
  <2>3. QED
    BY <2>1, <2>2 DEF Create!Unharmed
<1>5. QED
  BY <1>1, <1>2, <1>3, <1>4 DEF IInv, Created, Joined, Harmless

\* Create's steps come before the delta is opened.
LEMMA CreateStepsIInv ==
  ASSUME IInv, ~Opened, UNCHANGED applied,
         (CreateSteps /\ UNCHANGED fault) \/ (CreateFaults /\ fault')
  PROVE  IInv'
<1>1. Created'
  BY CreateStepKinds, NextCreated DEF IInv
<1>2. Joined' /\ ~Opened'
  BY DEF IInv, Joined, Opened, Waiting, Apply!WriterInit, applied
<1>3. Harmless'
  <2>1. CASE CreateSteps /\ UNCHANGED fault
    <3>1. ~fault' => Create!Unharmed'
      <4>1. CreateSteps => \/ Create!Classify \/ Create!ComputeLayerDiffs \/ Create!LoadMetadata
                           \/ Create!StartEntry \/ Create!FinishEntry \/ Create!HashCopy
                           \/ Create!NextEntry \/ Create!Return
        BY DEF CreateSteps
      <4>2. QED
        BY <2>1, <4>1, CreateAssumptions, NoPanic, Create!StepUnharmed DEF IInv, Created, Harmless
    <3>2. QED
      BY <1>2, <3>1 DEF Harmless
  <2>2. CASE fault'
    BY <2>2 DEF Harmless
  <2>3. QED
    BY <2>1, <2>2
<1>4. QED
  BY <1>1, <1>2, <1>3 DEF IInv

\* What was created stays, and what is said of it.
LEMMA CreatedStays ==
  ASSUME UNCHANGED created
  PROVE  /\ Created => Created'
         /\ Create!Unharmed => Create!Unharmed'
         /\ UNCHANGED <<old, new, Create!Running, Create!Published, Create!Built>>
<1>1. Created => Created'
  BY CreateStepKinds, NextCreated
<1>2. UNCHANGED <<old, new, chosen, createPc, artifact, artifactWrite, base, layerBlobs, next, sigs, layerDigests>>
  BY DEF created
<1>3. Create!Unharmed => Create!Unharmed'
  BY <1>2, Create!SameList, CreateAssumptions
  DEF Create!Unharmed, Create!Idle, Create!Current, Create!Intact, Create!Has, Create!ActualDigest
<1>4. UNCHANGED <<Create!Running, Create!Published, Create!Built>>
  BY <1>2 DEF Create!Running, Create!Published, Create!Has, Create!Built
<1>5. QED
  BY <1>1, <1>2, <1>3, <1>4

LEMMA BeginApplied ==
  Apply!Init => Applied
<1>1. Apply!Init => Apply!Begin
  BY DEF Apply!Init, Apply!WriterInit, Apply!Begin, Apply!Idle
<1>2. QED
  BY <1>1, ApplyAssumptions, Apply!InitIInv, Apply!BeginReflected, Apply!BeginListed DEF Applied

LEMMA BeginUnharmed ==
  Apply!Init => Apply!Unharmed
BY DEF Apply!Init, Apply!WriterInit, Apply!Unharmed, Apply!Alive, Apply!Idle

LEMMA OpenIInv == ASSUME IInv, Open, UNCHANGED <<created, fault>> PROVE IInv'
<1>1. Created' /\ Create!Running' = Create!Running /\ Create!Published' = Create!Published
      /\ Create!Built' = Create!Built /\ (Create!Unharmed => Create!Unharmed')
  BY CreatedStays DEF IInv
<1>2. Created /\ Waiting /\ ~Create!Running /\ (~fault => Create!Unharmed)
  BY DEF IInv, Joined, Harmless, Opened, Open
<1>3. pc' \in {"layout", "error"} /\ Opened'
  BY DEF Open, Opened
<1>4. CASE pc' = "error"
  <2>1. Refused'
    BY <1>2, <1>4 DEF Open, Waiting, Refused, Apply!WriterInit
  <2>2. fault
    BY <1>2, <1>4, OpenSucceeds
  <2>3. QED
    BY <1>1, <1>2, <1>3, <2>1, <2>2 DEF IInv, Joined, Harmless
<1>5. CASE pc' # "error"
  <2>1. Apply!Init' /\ delta' = Create!Built /\ Create!Published
    BY <1>2, <1>5, OpenBegins
  <2>2. (Apply!Init => Applied /\ Apply!Unharmed)'
    BY BeginApplied, BeginUnharmed, PTL
  <2>3. QED
    BY <1>1, <1>2, <1>3, <2>1, <2>2 DEF IInv, Joined, Harmless
<1>6. QED
  BY <1>4, <1>5

\* Apply's steps come after, and leave the delta alone.
LEMMA ApplyStepsIInv ==
  ASSUME IInv, Opened, UNCHANGED created,
         (ApplySteps /\ UNCHANGED fault) \/ (ApplyFaults /\ fault')
  PROVE  IInv'
<1>1. /\ Created' /\ UNCHANGED <<old, new>> /\ Create!Running' = Create!Running
      /\ Create!Published' = Create!Published /\ Create!Built' = Create!Built
      /\ Create!Unharmed => Create!Unharmed'
  BY CreatedStays DEF IInv
<1>2. ~Create!Running /\ Create!Published /\ delta = Create!Built /\ Applied
  BY RefusedStops DEF IInv, Joined
<1>3. Applied'
  BY <1>2, ApplyStepKinds, NextApplied
<1>4. UNCHANGED <<delta, source>> /\ pc' # "open"
  <2>1. UNCHANGED <<delta, source>>
    BY DEF ApplySteps, ApplyFaults, Apply!WriteLayoutFile, Apply!WriteConfig, Apply!StoreLayer,
       Apply!CopyLayer, Apply!WriteManifest, Apply!WriteIndex, Apply!StartWrite, Apply!program,
       Apply!FinishWrite, Apply!HashConfig, Apply!NextLayer, Apply!LayersDone, Apply!VerifyDiff,
       Apply!PatchLayer, Apply!LayerStored, Apply!LayerCopied, Apply!Fail, Apply!Crash,
       Apply!Stop, Apply!Rot
  <2>2. pc' \in Apply!Statements
    BY <1>3 DEF Applied, Apply!IInv, Apply!Control, Apply!TypeOK
  <2>3. QED
    BY <2>1, <2>2 DEF Apply!Statements
<1>5. Joined'
  BY <1>1, <1>2, <1>3, <1>4 DEF Joined, Opened
<1>6. Harmless'
  <2> SUFFICES ASSUME ~fault' PROVE Create!Unharmed' /\ (source' = Filesystem(old)' => Apply!Unharmed')
    BY DEF Harmless
  <2>1. ApplySteps /\ ~fault /\ Create!Unharmed
    BY DEF IInv, Harmless
  <2>2. ASSUME source' = Filesystem(old)' PROVE Apply!Unharmed'
    <3>1. source = Filesystem(old)
      BY <1>1, <1>4, <2>2
    <3>2. Apply!Unharmed /\ Apply!Fits
      BY <1>2, <2>1, <3>1, BuiltFits DEF IInv, Harmless
    <3>3. QED
      BY <1>2, <2>1, <3>2, ApplyStepKinds, ApplyAssumptions, Apply!WorkUnharmed
      DEF Applied, Apply!IInv
  <2>3. QED
    BY <1>1, <2>1, <2>2
<1>7. QED
  BY <1>1, <1>5, <1>6 DEF IInv

LEMMA NextIInv == IInv /\ [Next]_vars => IInv'
<1> SUFFICES ASSUME IInv, [Next]_vars PROVE IInv'
  OBVIOUS
<1>1. CASE ~Opened /\ CreateSteps /\ UNCHANGED <<applied, fault>>
  <2>1. UNCHANGED applied /\ UNCHANGED fault
    BY <1>1
  <2>2. QED
    BY <1>1, <2>1, CreateStepsIInv
<1>2. CASE ~Opened /\ CreateFaults /\ fault' = TRUE /\ UNCHANGED applied
  BY <1>2, CreateStepsIInv
<1>3. CASE Open /\ UNCHANGED <<created, fault>>
  BY <1>3, OpenIInv
<1>4. CASE Opened /\ ApplySteps /\ UNCHANGED <<created, fault>>
  <2>1. UNCHANGED created /\ UNCHANGED fault
    BY <1>4
  <2>2. QED
    BY <1>4, <2>1, ApplyStepsIInv
<1>5. CASE Opened /\ ApplyFaults /\ fault' = TRUE /\ UNCHANGED created
  BY <1>5, ApplyStepsIInv
<1>6. CASE UNCHANGED vars
  <2>1. UNCHANGED created /\ UNCHANGED applied /\ UNCHANGED fault
    BY <1>6 DEF vars
  <2>2. /\ Created' /\ UNCHANGED <<old, new>> /\ Create!Running' = Create!Running
        /\ Create!Published' = Create!Published /\ Create!Built' = Create!Built
        /\ Create!Unharmed => Create!Unharmed'
    BY <2>1, CreatedStays DEF IInv
  <2>3. UNCHANGED <<layout, layoutWrite, delta, blobs, source, pc, i, outputLayers, patched>>
    BY <2>1 DEF applied
  <2>4. Applied => Applied'
    BY <2>1, ApplyStepKinds, NextApplied
  <2>5. Joined'
    BY <2>2, <2>3, <2>4 DEF IInv, Joined, Opened, Waiting, Refused, Apply!WriterInit
  <2>6. Apply!Unharmed => Apply!Unharmed'
    BY <2>3 DEF Apply!Unharmed, Apply!Alive, Apply!Idle, Apply!DeltaLayer, Apply!Target,
       Apply!LayerDigest, Apply!Intact, Apply!Has
  <2>7. Harmless'
    BY <2>1, <2>2, <2>3, <2>6 DEF IInv, Harmless, Opened, Filesystem, LayerDigest
  <2>8. QED
    BY <2>2, <2>5, <2>7 DEF IInv
<1>7. QED
  BY <1>1, <1>2, <1>3, <1>4, <1>5, <1>6 DEF Next

\* The inductive invariant holds in every run of the two programs.
THEOREM RoundTripInvariant == Spec => []IInv
<1>1. QED
  BY InitIInv, NextIInv, PTL DEF Spec

-----------------------------------------------------------------------------

\* What stands in the rebuilt image for a layer the delta carries: the layer, as
\* create was given it or compressed by either program, or what a reader left of
\* it.
LEMMA StoredFacts ==
  ASSUME Created, Create!Published, Applied, delta = Create!Built,
         NEW k \in 1..Len(new.layers), Apply!InDelta(k)
  PROVE  \/ Apply!StoredAs(k).kind = "layer"
         \/ ExportCut(LayerDigest(new, k))
            /\ Apply!StoredAs(k) = CutLayer(LayerDigest(new, k).tar)
<1> DEFINE d == LayerDigest(new, k)
<1>1. PICK p \in Pairs : old = p[1] /\ new = p[2]
  BY DEF Created, Create!IInv, Create!TypeOK
<1>2. d \in NewOnly(old, new) /\ Apply!DeltaLayer(k) = LayerPart(d, chosen)
  BY SameFormat DEF Create!Built, Apply!InDelta, Apply!DeltaLayer, Apply!Target,
     Apply!LayerDigest, LayerDigest
<1> HIDE DEF d
<1>3. chosen[d] \in CarriersOf(p, d)
  BY <1>1, <1>2, ChosenFacts
<1>4. /\ chosen[d].kind \in {"layer", "cut", "diff"}
      /\ chosen[d].kind = "cut" <=> chosen[d] = CutLayer(d.tar)
      /\ Apply!DeltaLayer(k).digest = chosen[d]
      /\ Apply!DeltaLayer(k).media = "tar-diff" <=> chosen[d].kind = "diff"
  BY <1>1, <1>2, <1>3, CarrierFacts
<1>5. CASE chosen[d].kind = "diff"
  BY <1>4, <1>5 DEF Apply!StoredAs, Apply!Layer
<1>6. CASE chosen[d].kind # "diff"
  <2>1. Apply!StoredAs(k) = chosen[d]
    BY <1>4, <1>6 DEF Apply!StoredAs
  <2>2. ASSUME chosen[d] = CutLayer(d.tar) PROVE ExportCut(d)
    <3>1. chosen[d] \in Create!Carriers(d)
      BY <1>2, SameFormat DEF Created, Create!Carriage
    <3>2. \A from, to : Create!Diff(from, to).kind = "diff"
      BY DEF Create!Diff
    <3>3. chosen[d] = Create!ActualDigest(d)
      BY <1>6, <3>1, <3>2 DEF Create!Carriers
    <3>4. QED
      BY <2>2, <3>3 DEF ExportCut, Create!ActualDigest
  <2>3. QED
    BY <1>4, <1>6, <2>1, <2>2 DEF d
<1>7. QED
  BY <1>5, <1>6

\* A layer of the rebuilt image is what the delta carried, or else a layer the
\* old image has.
LEMMA RebuiltFacts ==
  ASSUME Created, Create!Published, Applied, delta = Create!Built, Apply!Published,
         NEW k \in 1..Len(new.layers)
  PROVE  LET d == LayerDigest(new, k)
             name == LayerDigest(Apply!PublishedManifest, k)
         IN \/ Rebuilt(k) = d.tar
            \/ ExportCut(d) /\ name = CutLayer(d.tar) /\ Apply!Intact(name)
<1> DEFINE n == outputLayers[k].digest
           tar == new.config.diffIDs[k]
<1>1. /\ Apply!Target = new /\ delta.imageConfig = new.config
      /\ Apply!NLayers = Len(new.layers)
      /\ Apply!InDelta(k) <=> LayerDigest(new, k) \in NewOnly(old, new)
  BY SameFormat DEF Create!Built, Apply!Target, Apply!NLayers, Apply!InDelta, Apply!LayerDigest,
     LayerDigest
<1>2. /\ pc = "ok" /\ i = Apply!NLayers + 1 /\ Apply!PublishedManifest = Apply!OutputManifest
      /\ \A name \in DOMAIN layout \ {Apply!IndexFile} : Apply!Intact(name)
      /\ Apply!InDelta(k) => n # Apply!IndexFile /\ Apply!Intact(n)
  <2>1. pc = "ok" /\ Apply!PublishedManifest = Apply!OutputManifest
    BY DEF Applied, Apply!IInv, Apply!IndexLast, Apply!Published, Apply!PublishedManifest, Apply!Index
  <2>2. QED
    BY <1>1, <2>1, ApplyAssumptions, Apply!WholeAtTheEnd
    DEF Applied, Apply!IInv, Apply!Secure, Apply!Alive
<1>3. /\ LayerDigest(Apply!PublishedManifest, k) = n
      /\ LayerDiffID(Apply!PublishedManifest, k) = tar
      /\ LayerDiffID(new, k) = tar
  BY <1>1, <1>2, ImageFacts
  DEF Apply!OutputManifest, Apply!Manifest, LayerDigest, LayerDiffID, DiffIDAt
<1>4. tar = LayerDigest(new, k).tar
  BY ImageFacts
<1>5. k < i
  BY <1>1, <1>2, ImageFacts
<1>6. CASE Apply!InDelta(k)
  <2>1. n = Apply!StoredAs(k)
    BY <1>1, <1>5, <1>6 DEF Applied, Apply!Reflected
  <2>2. n.tar = tar
    BY <1>1, <1>5, <1>6, ApplyAssumptions, Apply!ReflectedTars
    DEF Applied, Apply!IInv, Apply!Control
  <2>3. n.kind = "layer" \/ (ExportCut(LayerDigest(new, k)) /\ n = CutLayer(tar))
    BY <1>4, <1>6, <2>1, StoredFacts
  <2>4. QED
    BY <1>2, <1>3, <1>4, <1>6, <2>2, <2>3 DEF Rebuilt
<1>7. CASE ~Apply!InDelta(k)
  <2>1. n = LayerDigest(new, k)
    BY <1>1, <1>7 DEF Applied, Apply!Reflected, LayerDigest
  <2>2. tar \in DiffIDs(old) /\ n.kind = "layer" /\ n.tar = tar
    BY <1>1, <1>3, <1>4, <1>7, <2>1, ImageFacts DEF NewOnly, Known
  <2>3. n # Apply!IndexFile
    BY <2>1, ImageFacts DEF Apply!IndexFile
  <2>4. Apply!Has(n) => Apply!Intact(n)
    BY <1>2, <2>3 DEF Apply!Has
  <2>5. QED
    BY <1>3, <1>4, <2>1, <2>2, <2>4 DEF Rebuilt
<1>8. QED
  BY <1>6, <1>7

\* A delta of any two images turns what create was given into what apply
\* publishes: whatever the differ answered, on whatever machine the delta is
\* applied, and whatever rotted, failed or crashed on the way, but for an export
\* that lost its end before create saw it, which stays as it is or is diffed
\* away, and is never taken for another layer.
THEOREM RebuildsTheImage == Spec => []RebuildsTheNewImage
<1>1. IInv => RebuildsTheNewImage
  <2> SUFFICES ASSUME IInv, Opened, Apply!Published PROVE RebuildsTheNewImage
    BY DEF RebuildsTheNewImage
  <2>1. ~Refused
    BY DEF Refused, Apply!WriterInit, Apply!Published, Apply!Has
  <2>2. Created /\ Create!Published /\ Applied /\ delta = Create!Built
    BY <2>1 DEF IInv, Joined
  <2>3. Apply!PublishedIsComplete
    BY <2>2, ApplyAssumptions, Apply!WholeIsComplete DEF Applied
  <2>4. /\ Apply!PublishedManifest.config = new.config
        /\ Apply!PublishedManifest.layers = outputLayers
    <3>1. Apply!PublishedManifest = Apply!OutputManifest
      BY <2>2 DEF Applied, Apply!IInv, Apply!IndexLast, Apply!Published, Apply!PublishedManifest,
         Apply!Index
    <3>2. QED
      BY <2>2, <3>1 DEF Apply!OutputManifest, Apply!Manifest, Apply!Target, Create!Built
  <2>5. Len(outputLayers) = Len(new.layers)
    <3>1. outputLayers = [k \in 1..Len(new.layers) |-> outputLayers[k]]
      BY <2>2 DEF Applied, Apply!Listed, Apply!NLayers, Apply!Target, Create!Built
    <3>2. QED
      BY <2>2, <3>1, ImageFacts
  <2>6. QED
    BY <2>2, <2>3, <2>4, <2>5, RebuiltFacts DEF RebuildsTheNewImage, Apply!PublishedIsComplete
<1>2. QED
  BY <1>1, RoundTripInvariant, PTL

\* No check of the two programs rejects a delta made and applied undisturbed.
THEOREM NothingElseRejects == Spec => []OnlyFaultsReject
<1>1. IInv => OnlyFaultsReject
  <2> SUFFICES ASSUME IInv, ~fault PROVE OnlyFaultsReject
    BY DEF OnlyFaultsReject
  <2>1. createPc \notin {"failing", "error", "crashed"}
    BY DEF IInv, Harmless, Create!Unharmed
  <2>2. source = Filesystem(old) => pc # "error"
    BY DEF IInv, Harmless, Opened, Apply!Unharmed, Apply!Alive
  <2>3. QED
    BY <2>1, <2>2 DEF OnlyFaultsReject
<1>2. QED
  BY <1>1, RoundTripInvariant, PTL

=============================================================================
