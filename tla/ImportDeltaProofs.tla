--------------------------- MODULE ImportDeltaProofs ---------------------------
(***************************************************************************)
(* What concurrent, failing and repeated imports keep of one store: for    *)
(* any importers, deltas, store and damage.  First the chains of layers,   *)
(* then what holds of any deltas (StoreInv), then what holds of honest     *)
(* ones (Confined).                                                        *)
(***************************************************************************)
EXTENDS ImportDelta, Induction, FiniteSetTheorems

-----------------------------------------------------------------------------
(* Chains of layers *)

\* Layers have their parents below them.
Rooted(all) == all \in Seq(Layers) /\ \A l \in 1..Len(all) : all[l].parent < l

\* Parents come before their children, so a chain is well defined.
LEMMA RootedFacts ==
  ASSUME NEW all, Rooted(all)
  PROVE  /\ Len(all) \in Nat
         /\ \A l \in 1..Len(all) : /\ all[l] \in Layers /\ all[l].tar \in Tar
                                   /\ all[l].parent \in 0..l - 1
<1>1. all \in Seq(Layers) /\ \A l \in 1..Len(all) : all[l].parent < l
  BY DEF Rooted
<1>2. Len(all) \in Nat /\ \A l \in 1..Len(all) : all[l] \in Layers
  <2> HIDE DEF Layers
  <2>1. QED
    BY <1>1
<1>3. \A x \in Layers : x.parent \in Nat /\ x.tar \in Tar
  BY DEF Layers
<1>4. QED
  BY <1>1, <1>2, <1>3

\* The equations of ChainIn: a chain goes on to the parent's.
LEMMA ChainFacts ==
  ASSUME NEW all, Rooted(all)
  PROVE  /\ ChainIn(all, 0) = <<>>
         /\ \A l \in 1..Len(all) :
              ChainIn(all, l) = Append(ChainIn(all, all[l].parent), all[l].tar)
         /\ \A l \in 0..Len(all) : ChainIn(all, l) \in Seq(Tar)
<1> DEFINE N == Len(all)
           V == Seq(Tar)
           Empty == <<>>
           up(l) == all[l].parent
           tar(l) == all[l].tar
           Body(f, l) == IF l = 0 THEN Empty ELSE Append(f[up(l)], tar(l))
           chain == CHOOSE f : f = [l \in 0..N |-> Body(f, l)]
           from == [l \in 1..N |-> up(l)]
           F == [l \in 1..N |-> [s \in V |-> Append(s, tar(l))]]
<1>1. \A l : ChainIn(all, l) = chain[l]
  BY DEF ChainIn
<1>2. /\ N \in Nat /\ Empty \in V
      /\ \A l \in 1..N : up(l) \in Nat /\ up(l) < l /\ up(l) \in 0..N /\ tar(l) \in Tar
  BY RootedFacts
<1>3. \A s \in V : \A t \in Tar : Append(s, t) \in V
  OBVIOUS
<1> HIDE DEF N, V, Empty, up, tar, chain
<1>4. from \in Earlier(N) /\ F \in Steps(N, V)
  BY <1>2, <1>3 DEF Earlier, Steps
<1>5. \A l \in 1..N : from[l] = up(l)
  OBVIOUS
<1>6. \A l \in 1..N : \A s \in V : F[l][s] = Append(s, tar(l))
  OBVIOUS
<1> HIDE DEF from, F
<1>7. PICK g : Outcomes(g, N, V, Empty, from, F)
  BY <1>2, <1>4, OutcomesExist
<1>8. g \in [0..N -> V] /\ \A l \in 0..N : g[l] = Body(g, l)
  <2>1. g \in [0..N -> V] /\ g[0] = Empty /\ \A l \in 1..N : g[l] = F[l][g[from[l]]]
    BY <1>7 DEF Outcomes
  <2>2. \A l \in 1..N : g[up(l)] \in V
    BY <1>2, <2>1
  <2>3. \A l \in 1..N : g[l] = Append(g[up(l)], tar(l))
    BY <1>5, <1>6, <2>1, <2>2
  <2>4. QED
    BY <1>2, <2>1, <2>3
<1>9. chain = [l \in 0..N |-> Body(chain, l)]
  <2> HIDE DEF Body
  <2>1. g = [l \in 0..N |-> Body(g, l)]
    BY <1>8
  <2>2. QED
    BY <2>1 DEF chain
<1>10. chain[0] = Empty /\ \A l \in 1..N : chain[l] = Append(chain[up(l)], tar(l))
  <2>1. \A l \in 0..N : chain[l] = Body(chain, l)
    <3> HIDE DEF Body
    <3>1. QED
      BY <1>9
  <2>2. 0 \in 0..N /\ \A l \in 1..N : l \in 0..N /\ l # 0
    BY <1>2
  <2>3. QED
    BY <2>1, <2>2
<1>11. 0..N \subseteq {l \in 0..N : chain[l] \in V}
  <2> DEFINE S == {l \in 0..N : chain[l] \in V}
  <2>1. ASSUME NEW l \in 0..N, \A m \in 0..l - 1 : m \in S PROVE l \in S
    <3>1. CASE l = 0
      BY <1>2, <1>10, <3>1
    <3>2. CASE l # 0
      <4>1. l \in 1..N /\ up(l) \in 0..l - 1
        BY <1>2, <3>2
      <4>2. chain[up(l)] \in V /\ tar(l) \in Tar
        BY <1>2, <2>1, <4>1
      <4>3. QED
        BY <1>3, <1>10, <4>1, <4>2
    <3>3. QED
      BY <3>1, <3>2
  <2> HIDE DEF S
  <2>2. 0..N \subseteq S
    BY <1>2, <2>1, StrongInductionUpto
  <2>3. QED
    BY <2>2 DEF S
<1>12. QED
  BY <1>1, <1>10, <1>11 DEF N, V, Empty, up, tar

\* A new layer leaves the chains of the others as they are.
LEMMA ChainsStay ==
  ASSUME NEW all, Rooted(all), NEW new \in Layers, new.parent <= Len(all)
  PROVE  /\ Rooted(Append(all, new))
         /\ \A l \in 0..Len(all) : ChainIn(Append(all, new), l) = ChainIn(all, l)
         /\ ChainIn(Append(all, new), Len(all) + 1) = Append(ChainIn(all, new.parent), new.tar)
<1> DEFINE more == Append(all, new)
           N == Len(all)
<1>1. /\ N \in Nat /\ Len(more) = N + 1 /\ more \in Seq(Layers)
      /\ \A l \in 1..N : more[l] = all[l]
      /\ more[N + 1] = new
  BY DEF Rooted
<1>2. new.parent \in 0..N
  BY <1>1 DEF Layers
<1> HIDE DEF more
<1>3. Rooted(more)
  BY <1>1, <1>2 DEF Rooted
<1>4. \A l \in 1..N : all[l].parent \in 0..l - 1
  BY RootedFacts
<1>5. 0..N \subseteq {l \in 0..N : ChainIn(more, l) = ChainIn(all, l)}
  <2> DEFINE S == {l \in 0..N : ChainIn(more, l) = ChainIn(all, l)}
  <2>1. ASSUME NEW l \in 0..N, \A m \in 0..l - 1 : m \in S PROVE l \in S
    <3>1. CASE l = 0
      BY <1>3, <3>1, ChainFacts
    <3>2. CASE l # 0
      <4>1. l \in 1..N /\ l \in 1..Len(more)
        BY <1>1, <3>2
      <4>2. ChainIn(more, all[l].parent) = ChainIn(all, all[l].parent)
        BY <1>4, <2>1, <4>1
      <4>3. ChainIn(more, l) = Append(ChainIn(more, more[l].parent), more[l].tar)
        BY <1>3, <4>1, ChainFacts
      <4>4. ChainIn(all, l) = Append(ChainIn(all, all[l].parent), all[l].tar)
        BY <4>1, ChainFacts
      <4>5. QED
        BY <1>1, <4>1, <4>2, <4>3, <4>4
    <3>3. QED
      BY <3>1, <3>2
  <2> HIDE DEF S, N
  <2>2. 0..N \subseteq S
    BY <1>1, <2>1, StrongInductionUpto
  <2>3. QED
    BY <2>2 DEF S
<1>6. ChainIn(more, N + 1) = Append(ChainIn(more, new.parent), new.tar)
  <2>1. N + 1 \in 1..Len(more)
    BY <1>1
  <2>2. QED
    BY <1>1, <1>3, <2>1, ChainFacts
<1>7. QED
  BY <1>2, <1>3, <1>5, <1>6 DEF more

-----------------------------------------------------------------------------
(* What holds of any deltas *)

\* No two imports work on the same image.
Own == \A p, q \in Importers : p # q /\ image[p] # 0 => image[p] # image[q]

\* What an import has done, by statement.
Progress ==
  \A p \in Importers :
    /\ pc[p] = "resolve" => i[p] = 1 /\ parent[p] = 0
    /\ pc[p] = "recreate" => i[p] <= NLayers(p) /\ ~InDelta(p) /\ DiffID(p) \in Tar
    /\ pc[p] \in {"manifest", "manifestKey", "config", "tag", "ok"} => image[p] # 0
    /\ pc[p] \in {"manifestKey", "config", "tag", "ok"} =>
         images[image[p]].manifest = Target(p).config
    /\ pc[p] \in {"tag", "ok"} => images[image[p]].hasConfig

\* With --force-tag an image gets its tag in the last step.
Untagged ==
  \A p \in Importers :
    job[p].force /\ image[p] # 0 /\ pc[p] # "ok" =>
      job[p].tag \notin images[image[p]].names

StoreInv == TypeOK /\ Own /\ Progress /\ Untagged

\* What is known of any import's delta and tag.
LEMMA JobFacts ==
  ASSUME TypeOK, NEW p \in Importers
  PROVE  /\ NLayers(p) \in Nat
         /\ Target(p).config \in Configs /\ Target(p).config # NoManifest
         /\ Delta(p).sourceConfig # NoManifest
         /\ job[p].tag \in Tags
         /\ job[p].force => job[p].tag # NoTag
         /\ InDelta(p) => IF DeltaLayer(p).media = "tar-diff"
                            THEN DeltaLayer(p).digest.to \in Tar
                            ELSE DeltaLayer(p).digest.tar \in Tar
<1>1. job \in Jobs /\ ParsedDelta(Delta(p))
  BY JobsAssumption DEF TypeOK, Delta
<1>2. NLayers(p) \in Nat
  BY <1>1 DEF ParsedDelta, NLayers, Target
<1>3. Target(p).config \in Configs
  BY <1>1 DEF Configs, Delta, Target
<1>4. Target(p).config # NoManifest /\ Delta(p).sourceConfig # NoManifest
  BY <1>1 DEF ParsedDelta, Target
<1>5. job[p].tag \in Tags
  BY <1>1 DEF Tags
<1>6. job[p].force => job[p].tag # NoTag
  BY <1>1, ForceNeedsTag
<1>7. InDelta(p) => IF DeltaLayer(p).media = "tar-diff"
                      THEN DeltaLayer(p).digest.to \in Tar
                      ELSE DeltaLayer(p).digest.tar \in Tar
  BY <1>1 DEF ParsedDelta, InDelta, DeltaLayer
<1>8. QED
  BY <1>2, <1>3, <1>4, <1>5, <1>6, <1>7

\* An honest delta carries the config its image manifest refers to.
LEMMA HonestConfig ==
  ASSUME HonestJobs, TypeOK, NEW p \in Importers
  PROVE  Target(p).config = Delta(p).imageConfig
<1>1. job \in Jobs
  BY DEF TypeOK
<1>2. Honest(Delta(p))
  BY <1>1 DEF HonestJobs, Delta
<1>3. QED
  BY <1>2 DEF Honest, Target

\* The types by themselves.
LEMMA Types ==
  ASSUME TypeOK
  PROVE  /\ Rooted(layers) /\ Len(layers) \in Nat
         /\ \A l \in 1..Len(layers) : layers[l].tar \in Tar /\ layers[l].parent \in 0..l - 1
         /\ images \in Seq(Images) /\ Len(images) \in Nat
         /\ \A m \in 1..Len(images) :
              /\ images[m] \in Images /\ images[m].top \in 0..Len(layers)
              /\ images[m].manifest \in Configs /\ images[m].hasConfig \in BOOLEAN
              /\ images[m].names \subseteq Tags
         /\ \A p \in Importers : /\ pc[p] \in Statements /\ i[p] \in 1..(NLayers(p) + 1)
                                 /\ parent[p] \in 0..Len(layers)
                                 /\ image[p] \in 0..Len(images)
<1>1. Rooted(layers)
  BY DEF TypeOK, Rooted
<1>2. /\ images \in Seq(Images)
      /\ \A m \in 1..Len(images) : images[m].top <= Len(layers)
      /\ \A p \in Importers : /\ pc[p] \in Statements /\ i[p] \in 1..(NLayers(p) + 1)
                              /\ parent[p] \in 0..Len(layers)
                              /\ image[p] \in 0..Len(images)
  BY DEF TypeOK
<1>3. Len(images) \in Nat /\ \A m \in 1..Len(images) : images[m] \in Images
  <2> HIDE DEF Images
  <2>1. QED
    BY <1>2
<1>4. \A x \in Images : /\ x.top \in Nat /\ x.manifest \in Configs /\ x.hasConfig \in BOOLEAN
                        /\ x.names \subseteq Tags
  BY DEF Images
<1>5. Len(layers) \in Nat
  BY <1>1, RootedFacts
<1>6. \A m \in 1..Len(images) : images[m].top \in 0..Len(layers)
  BY <1>2, <1>3, <1>4, <1>5
<1>7. QED
  BY <1>1, <1>2, <1>3, <1>4, <1>5, <1>6, RootedFacts

LEMMA InitStore == Init => StoreInv
<1> SUFFICES ASSUME Init PROVE StoreInv
  OBVIOUS
<1>1. /\ job \in Jobs /\ layers = InitialLayers /\ images = InitialImages
      /\ IsFiniteSet(rotten) /\ retries = 0
      /\ \A p \in Importers : pc[p] = "resolve" /\ i[p] = 1 /\ parent[p] = 0 /\ image[p] = 0
      /\ pc \in [Importers -> Statements] /\ parent \in [Importers -> {0}]
      /\ image \in [Importers -> {0}] /\ i \in [Importers -> Nat]
      /\ source \in [Importers -> {<<>>}]
  BY DEF Init, Statements
<1>2. \A p \in Importers : NLayers(p) \in Nat
  BY <1>1, JobsAssumption DEF ParsedDelta, NLayers, Target, Delta
<1>3. /\ layers \in Seq(Layers) /\ \A l \in 1..Len(layers) : layers[l].parent < l
      /\ images \in Seq(Images) /\ \A m \in 1..Len(images) : images[m].top <= Len(layers)
  BY <1>1, StoreAssumption
<1>4. Len(layers) \in Nat /\ Len(images) \in Nat
  <2> HIDE DEF Layers, Images
  <2>1. QED
    BY <1>3
<1>5. parent \in [Importers -> 0..Len(layers)] /\ image \in [Importers -> 0..Len(images)]
  BY <1>1, <1>4
<1>6. TypeOK
  <2>1. source \in [Importers -> Seq(Tar)]
    <3>1. <<>> \in Seq(Tar)
      OBVIOUS
    <3>2. QED
      BY <1>1, <3>1
  <2>2. i \in [Importers -> Nat] /\ \A p \in Importers : i[p] \in 1..(NLayers(p) + 1)
    BY <1>1, <1>2
  <2>3. retries \in 0..MaxFaults
    BY <1>1, FaultsAssumption
  <2> HIDE DEF Layers, Images
  <2>4. QED
    BY <1>1, <1>3, <1>5, <2>1, <2>2, <2>3 DEF TypeOK
<1>7. Own /\ Progress /\ Untagged
  BY <1>1 DEF Own, Progress, Untagged
<1>8. QED
  BY <1>6, <1>7 DEF StoreInv

-----------------------------------------------------------------------------
(* The kinds of steps *)

\* The tar of a layer that import p may add or reuse.
Fits(p, tar) ==
  IF ~InDelta(p) THEN tar = DiffID(p)
  ELSE IF DeltaLayer(p).media = "tar-diff" THEN tar \in PatchResults(p)
  ELSE tar \in Gunzip(DeltaLayer(p).digest)

\* Import p goes on to layer l, found in the store or put there.
Advances(p, tar, l) ==
  /\ pc[p] \in {"layer", "recreate"} /\ pc' = [pc EXCEPT ![p] = "layer"]
  /\ i[p] <= NLayers(p) /\ i' = [i EXCEPT ![p] = @ + 1]
  /\ parent' = [parent EXCEPT ![p] = l]
  /\ \/ /\ UNCHANGED layers /\ l \in 1..Len(layers)
        /\ layers[l].parent = parent[p] /\ layers[l].tar = tar
     \/ /\ layers' = Append(layers, [parent |-> parent[p], tar |-> tar])
        /\ l = Len(layers) + 1
  /\ UNCHANGED <<job, images, rotten, source, image, retries>>

\* The other steps of import p that leave the store alone.
Moves(p) ==
  ResolveSource(p) \/ FindElsewhere(p) \/ SetManifestKey(p) \/ Fail(p) \/ RunAgain(p)

\* A step adds a layer, creates an image, rewrites its own image, or leaves the
\* store alone.
LEMMA StepKinds ==
  ASSUME StoreInv, NEW p \in Importers, Step(p)
  PROVE  \/ \E tar \in Tar : \E l : Advances(p, tar, l) /\ Fits(p, tar)
         \/ CreateImage(p) \/ SetManifest(p) \/ SetConfig(p) \/ MoveTag(p)
         \/ Moves(p)
<1> USE DEF StoreInv
<1>1. CASE ReuseLayer(p)
  <2>1. PICK l \in LayersByDiffID(DiffID(p)) :
              layers[l].parent = parent[p] /\ parent' = [parent EXCEPT ![p] = l]
    BY <1>1 DEF ReuseLayer
  <2>2. l \in 1..Len(layers) /\ layers[l].tar = DiffID(p) /\ layers[l].tar \in Tar
    BY <2>1, Types DEF LayersByDiffID
  <2>3. Advances(p, DiffID(p), l) /\ Fits(p, DiffID(p))
    BY <1>1, <2>1, <2>2 DEF ReuseLayer, Goto, NextLayer, store, Advances, Fits
  <2>4. QED
    BY <2>2, <2>3
<1>2. CASE RecreateLayer(p)
  <2>1. i[p] <= NLayers(p) /\ ~InDelta(p) /\ DiffID(p) \in Tar
    BY <1>2 DEF RecreateLayer, Goto, Progress
  <2>2. Advances(p, DiffID(p), Len(layers) + 1) /\ Fits(p, DiffID(p))
    BY <1>2, <2>1 DEF RecreateLayer, PutLayer, Goto, NextLayer, Advances, Fits
  <2>3. QED
    BY <2>1, <2>2
<1>3. CASE PatchLayer(p)
  <2>1. PICK tar \in PatchResults(p) : PutLayer(p, tar)
    BY <1>3 DEF PatchLayer
  <2>2. tar \in Tar
    BY <1>3, JobFacts DEF PatchLayer, PatchResults
  <2>3. Advances(p, tar, Len(layers) + 1) /\ Fits(p, tar)
    BY <1>3, <2>1 DEF PatchLayer, PutLayer, Goto, NextLayer, Advances, Fits
  <2>4. QED
    BY <2>2, <2>3
<1>4. CASE UnpackLayer(p)
  <2>1. PICK tar \in Gunzip(DeltaLayer(p).digest) : PutLayer(p, tar)
    BY <1>4 DEF UnpackLayer
  <2>2. tar \in Tar
    BY <1>4, JobFacts DEF UnpackLayer, Gunzip
  <2>3. Advances(p, tar, Len(layers) + 1) /\ Fits(p, tar)
    BY <1>4, <2>1 DEF UnpackLayer, PutLayer, Goto, NextLayer, Advances, Fits
  <2>4. QED
    BY <2>2, <2>3
<1>5. QED
  BY <1>1, <1>2, <1>3, <1>4 DEF Step, Moves

\* What a step on to the next layer makes of the chains.
LEMMA AdvanceFacts ==
  ASSUME StoreInv, NEW p \in Importers, NEW tar \in Tar, NEW l, Advances(p, tar, l)
  PROVE  /\ Rooted(layers') /\ Len(layers') \in Nat /\ Len(layers) <= Len(layers')
         /\ l \in 0..Len(layers')
         /\ \A k \in 0..Len(layers) : ChainOf(k)' = ChainOf(k)
         /\ ChainOf(l)' = Append(ChainOf(parent[p]), tar)
<1> DEFINE new == [parent |-> parent[p], tar |-> tar]
<1>1. Rooted(layers) /\ Len(layers) \in Nat /\ parent[p] \in 0..Len(layers)
  BY Types DEF StoreInv
<1>2. CASE UNCHANGED layers
  <2>1. l \in 1..Len(layers) /\ layers[l].parent = parent[p] /\ layers[l].tar = tar
    <3>1. \/ l \in 1..Len(layers) /\ layers[l].parent = parent[p] /\ layers[l].tar = tar
          \/ layers = Append(layers, new)
      BY <1>2 DEF Advances
    <3>2. layers # Append(layers, new)
      <4>1. layers \in Seq(Layers) /\ new \in Layers
        BY <1>1 DEF Rooted, Layers
      <4>2. Len(Append(layers, new)) = Len(layers) + 1
        BY <4>1
      <4>3. QED
        BY <1>1, <4>2
    <3>3. QED
      BY <3>1, <3>2
  <2>2. ChainIn(layers, l) = Append(ChainIn(layers, layers[l].parent), layers[l].tar)
    BY <1>1, <2>1, ChainFacts
  <2>3. \A k : ChainOf(k)' = ChainOf(k)
    BY <1>2 DEF ChainOf
  <2>4. QED
    BY <1>1, <1>2, <2>1, <2>2, <2>3 DEF ChainOf
<1>3. CASE layers' = Append(layers, new) /\ l = Len(layers) + 1
  <2>1. new \in Layers /\ new.parent <= Len(layers) /\ new.parent = parent[p] /\ new.tar = tar
    BY <1>1 DEF Layers
  <2> HIDE DEF new
  <2>2. /\ Rooted(layers')
        /\ \A k \in 0..Len(layers) : ChainIn(layers', k) = ChainIn(layers, k)
        /\ ChainIn(layers', l) = Append(ChainIn(layers, new.parent), new.tar)
    BY <1>1, <1>3, <2>1, ChainsStay
  <2>3. Len(layers') = Len(layers) + 1
    BY <1>1, <1>3, <2>1 DEF Rooted
  <2>4. QED
    BY <1>1, <1>3, <2>1, <2>2, <2>3 DEF ChainOf
<1>4. QED
  BY <1>2, <1>3 DEF Advances

\* Nobody's delta changes.
LEMMA JobsStay ==
  ASSUME UNCHANGED job
  PROVE  /\ \A p \in Importers : /\ Delta(p)' = Delta(p) /\ Target(p)' = Target(p)
                                 /\ NLayers(p)' = NLayers(p) /\ DeltaBlobs(p)' = DeltaBlobs(p)
         /\ \A p \in Importers : i'[p] = i[p] =>
              /\ DiffID(p)' = DiffID(p) /\ InDelta(p)' = InDelta(p)
BY DEF Delta, Target, NLayers, DeltaBlobs, DiffID, InDelta, To

-----------------------------------------------------------------------------
(* StoreInv is inductive *)

LEMMA AdvanceStore ==
  ASSUME StoreInv, NEW p \in Importers, NEW tar \in Tar, NEW l, Advances(p, tar, l)
  PROVE  StoreInv'
<1> USE DEF StoreInv
<1>1. /\ Rooted(layers') /\ Len(layers) <= Len(layers') /\ l \in 0..Len(layers')
      /\ Len(layers) \in Nat /\ Len(layers') \in Nat
  BY AdvanceFacts, Types
<1>2. /\ UNCHANGED <<job, images, rotten, source, image, retries>>
      /\ pc \in [Importers -> Statements] /\ pc' = [pc EXCEPT ![p] = "layer"]
      /\ parent \in [Importers -> 0..Len(layers)] /\ parent' = [parent EXCEPT ![p] = l]
      /\ i \in [Importers -> Nat] /\ i' = [i EXCEPT ![p] = i[p] + 1] /\ 1 <= i[p]
      /\ i[p] <= NLayers(p)
  BY Types DEF Advances, TypeOK
<1>3. \A q \in Importers : Target(q)' = Target(q) /\ NLayers(q)' = NLayers(q) /\ NLayers(q) \in Nat
  BY <1>2, JobsStay, JobFacts
<1>4. \A q \in Importers : q # p => i'[q] = i[q] /\ DiffID(q)' = DiffID(q) /\ InDelta(q)' = InDelta(q)
  <2>1. \A q \in Importers : q # p => i'[q] = i[q]
    BY <1>2
  <2>2. QED
    BY <1>2, <2>1, JobsStay
<1>5. TypeOK'
  <2>1. layers' \in Seq(Layers) /\ \A k \in 1..Len(layers') : layers'[k].parent < k
    BY <1>1 DEF Rooted
  <2>2. \A m \in 1..Len(images) : images[m].top \in 0..Len(layers) /\ images[m].top <= Len(layers')
    BY <1>1, Types
  <2>3. i' \in [Importers -> Nat] /\ \A q \in Importers : i'[q] \in 1..(NLayers(q) + 1)
    <3>1. i' \in [Importers -> Nat] /\ i'[p] = i[p] + 1
      BY <1>2
    <3>2. QED
      BY <1>2, <1>3, <1>4, <3>1, Types
  <2>4. pc' \in [Importers -> Statements] /\ parent' \in [Importers -> 0..Len(layers')]
    BY <1>1, <1>2 DEF Statements
  <2>5. QED
    BY <1>2, <1>3, <2>1, <2>2, <2>3, <2>4 DEF TypeOK
<1>6. Own' /\ Untagged'
  <2>1. \A q \in Importers : pc'[q] # "ok" => pc[q] # "ok"
    BY <1>2 DEF Advances
  <2>2. QED
    BY <1>2, <2>1 DEF Own, Untagged
<1>7. Progress'
  BY <1>2, <1>3, <1>4 DEF Progress
<1>8. QED
  BY <1>5, <1>6, <1>7

\* Steps on the images: which of them, and what becomes of the importers.
LEMMA CreateImageStore ==
  ASSUME StoreInv, NEW p \in Importers, CreateImage(p)
  PROVE  StoreInv'
<1> USE DEF StoreInv
<1> DEFINE names == IF job[p].force THEN {} ELSE {job[p].tag} \ {NoTag}
           new == [top |-> parent[p], manifest |-> NoManifest, hasConfig |-> FALSE,
                   names |-> names]
<1>1. /\ pc[p] = "layer" /\ pc' = [pc EXCEPT ![p] = "manifest"]
      /\ images' = Append(images, new)
      /\ image' = [image EXCEPT ![p] = Len(images) + 1]
      /\ UNCHANGED <<job, layers, rotten, i, parent, source, retries>>
  BY DEF CreateImage, Goto
<1>2. new \in Images /\ new.top <= Len(layers)
  <2>1. names \subseteq Tags
    BY JobFacts
  <2>2. parent[p] \in Nat /\ parent[p] <= Len(layers)
    BY Types
  <2>3. NoManifest \in Configs
    BY DEF Configs
  <2> HIDE DEF names
  <2>4. QED
    BY <2>1, <2>2, <2>3 DEF Images
<1>3. images \in Seq(Images) /\ Len(images) \in Nat
  BY Types
<1>4. new.names = {} \/ ~job[p].force
  OBVIOUS
<1> HIDE DEF new
<1>5. /\ images' \in Seq(Images) /\ Len(images') = Len(images) + 1
      /\ \A m \in 1..Len(images) : images'[m] = images[m]
      /\ images'[Len(images) + 1] = new
  <2> HIDE DEF Images
  <2>1. QED
    BY <1>1, <1>2, <1>3
<1>6. /\ pc \in [Importers -> Statements] /\ image \in [Importers -> 0..Len(images)]
      /\ \A q \in Importers : q # p => pc'[q] = pc[q] /\ image'[q] = image[q]
      /\ pc'[p] = "manifest" /\ image'[p] = Len(images) + 1
  BY <1>1 DEF TypeOK
<1>7. \A q \in Importers : /\ Target(q)' = Target(q) /\ NLayers(q)' = NLayers(q)
                           /\ DiffID(q)' = DiffID(q) /\ InDelta(q)' = InDelta(q)
  BY <1>1, JobsStay
<1>8. TypeOK'
  <2>1. \A m \in 1..Len(images') : images'[m].top <= Len(layers')
    BY <1>1, <1>2, <1>3, <1>5, Types
  <2>2. pc' \in [Importers -> Statements] /\ image' \in [Importers -> 0..Len(images')]
    BY <1>1, <1>3, <1>5, <1>6 DEF Statements
  <2> HIDE DEF Images
  <2>3. QED
    BY <1>1, <1>5, <1>7, <2>1, <2>2 DEF TypeOK
<1>9. \A q \in Importers : image[q] \in 0..Len(images)
  BY <1>6
<1>10. Own'
  BY <1>3, <1>6, <1>9 DEF Own
<1>11. Progress'
  BY <1>1, <1>3, <1>5, <1>6, <1>7, <1>9 DEF Progress
<1>12. Untagged'
  BY <1>1, <1>3, <1>4, <1>5, <1>6, <1>9 DEF Untagged
<1>13. QED
  BY <1>8, <1>10, <1>11, <1>12

\* The other three rewrite the image of the import.
Rewrites(p, to) ==
  /\ pc[p] # "ok" /\ pc' = [pc EXCEPT ![p] = to] /\ to \in {"manifestKey", "tag", "ok"}
  /\ image[p] # 0
  /\ UNCHANGED <<job, layers, rotten, i, parent, source, image, retries>>
  /\ images' \in Seq(Images) /\ Len(images') = Len(images)
  /\ \A m \in 1..Len(images) :
       /\ images'[m].top = images[m].top
       /\ m # image[p] => /\ images'[m].manifest = images[m].manifest
                          /\ images'[m].hasConfig = images[m].hasConfig
                          /\ images'[m].names \subseteq images[m].names
  /\ images'[image[p]].manifest = Target(p).config
  /\ to = "manifestKey" \/ images'[image[p]].hasConfig
  /\ images'[image[p]].names \subseteq images[image[p]].names \/ to = "ok"

LEMMA RewriteStore ==
  ASSUME StoreInv, NEW p \in Importers, NEW to, Rewrites(p, to)
  PROVE  StoreInv'
<1> USE DEF StoreInv
<1>0. /\ pc[p] # "ok" /\ pc' = [pc EXCEPT ![p] = to] /\ to \in {"manifestKey", "tag", "ok"}
      /\ image[p] # 0
      /\ UNCHANGED <<job, layers, rotten, i, parent, source, image, retries>>
      /\ images' \in Seq(Images) /\ Len(images') = Len(images)
      /\ \A m \in 1..Len(images) :
           /\ images'[m].top = images[m].top
           /\ m # image[p] => /\ images'[m].manifest = images[m].manifest
                              /\ images'[m].hasConfig = images[m].hasConfig
                              /\ images'[m].names \subseteq images[m].names
      /\ images'[image[p]].manifest = Target(p).config
      /\ to = "manifestKey" \/ images'[image[p]].hasConfig
      /\ images'[image[p]].names \subseteq images[image[p]].names \/ to = "ok"
      /\ to \in Statements
  BY DEF Rewrites, Statements
<1>1. /\ pc \in [Importers -> Statements]
      /\ \A q \in Importers : image[q] \in 0..Len(images)
      /\ Len(images) \in Nat
  BY Types DEF TypeOK
<1>2. \A q \in Importers : /\ Target(q)' = Target(q) /\ NLayers(q)' = NLayers(q)
                           /\ DiffID(q)' = DiffID(q) /\ InDelta(q)' = InDelta(q)
  BY <1>0, JobsStay
<1>3. TypeOK'
  <2>1. \A m \in 1..Len(images') : images'[m].top <= Len(layers')
    BY <1>0 DEF TypeOK
  <2>2. pc' \in [Importers -> Statements]
    BY <1>0, <1>1
  <2> HIDE DEF Images
  <2>3. QED
    BY <1>0, <1>2, <2>1, <2>2 DEF TypeOK
<1>4. Own'
  BY <1>0 DEF Own
<1>5. \A q \in Importers : /\ q # p /\ image[q] # 0 => image[q] # image[p] /\ image[q] \in 1..Len(images)
                           /\ q # p => pc'[q] = pc[q]
  BY <1>0, <1>1 DEF Own
<1>6. pc'[p] = to /\ image[p] \in 1..Len(images)
  BY <1>0, <1>1
<1>7. Progress'
  BY <1>0, <1>2, <1>5, <1>6 DEF Progress
<1>8. Untagged'
  <2> SUFFICES ASSUME NEW q \in Importers, job[q].force, image[q] # 0, pc'[q] # "ok"
               PROVE  job[q].tag \notin images'[image[q]].names
    BY <1>0 DEF Untagged
  <2>2. CASE q = p
    BY <1>0, <1>6, <2>2 DEF Untagged
  <2>3. CASE q # p
    BY <1>0, <1>5, <2>3 DEF Untagged
  <2>4. QED
    BY <2>2, <2>3
<1>9. QED
  BY <1>3, <1>4, <1>7, <1>8

LEMMA RewritesStore ==
  ASSUME StoreInv, NEW p \in Importers, SetManifest(p) \/ SetConfig(p) \/ MoveTag(p)
  PROVE  /\ StoreInv'
         /\ image[p] \in 1..Len(images) /\ Len(images') = Len(images)
         /\ UNCHANGED <<job, layers, rotten, i, parent, source, image>>
         /\ \A m \in 1..Len(images) : /\ images'[m].top = images[m].top
                                      /\ m # image[p] => images'[m].manifest = images[m].manifest
         /\ images'[image[p]].manifest = Target(p).config
<1> USE DEF StoreInv
<1> DEFINE own == image[p]
<1>1. /\ images \in Seq(Images) /\ Len(images) \in Nat
      /\ \A m \in 1..Len(images) : images[m] \in Images
      /\ own \in 0..Len(images)
  BY Types
<1>2. own \in 1..Len(images)
  BY <1>1 DEF SetManifest, SetConfig, MoveTag, Goto, Progress
<1>3. Target(p).config \in Configs /\ job[p].tag \in Tags
  BY JobFacts
<1> HIDE DEF own
<1>4. CASE SetManifest(p)
  <2> DEFINE x == [images[own] EXCEPT !.manifest = Target(p).config]
  <2>1. /\ pc[p] = "manifest" /\ pc' = [pc EXCEPT ![p] = "manifestKey"]
        /\ images' = [images EXCEPT ![own] = x]
        /\ UNCHANGED <<job, layers, rotten, i, parent, source, image, retries>>
    BY <1>4 DEF SetManifest, Goto, own
  <2>2. /\ x \in Images /\ x.top = images[own].top /\ x.manifest = Target(p).config
        /\ x.names = images[own].names
    BY <1>1, <1>2, <1>3 DEF Images
  <2> HIDE DEF x, Images
  <2>3. /\ images' \in Seq(Images) /\ Len(images') = Len(images)
        /\ \A m \in 1..Len(images) : images'[m] = IF m = own THEN x ELSE images[m]
    BY <1>1, <1>2, <2>1, <2>2
  <2>4. /\ \A m \in 1..Len(images) : /\ images'[m].top = images[m].top
                                     /\ m # own => images'[m] = images[m]
        /\ images'[own].manifest = Target(p).config
        /\ images'[own].names \subseteq images[own].names
    BY <1>2, <2>2, <2>3
  <2>5. StoreInv'
    <3>1. Rewrites(p, "manifestKey")
      BY <1>1, <1>2, <2>1, <2>3, <2>4 DEF own, Rewrites
    <3>2. QED
      BY <3>1, RewriteStore
  <2>6. QED
    BY <1>2, <2>1, <2>3, <2>4, <2>5 DEF own
<1>5. CASE SetConfig(p)
  <2> DEFINE x == [images[own] EXCEPT !.hasConfig = TRUE]
             to == IF job[p].force THEN "tag" ELSE "ok"
  <2>1. /\ pc[p] = "config" /\ pc' = [pc EXCEPT ![p] = to] /\ to \in {"tag", "ok"}
        /\ images' = [images EXCEPT ![own] = x]
        /\ UNCHANGED <<job, layers, rotten, i, parent, source, image, retries>>
    BY <1>5 DEF SetConfig, Goto, own
  <2>2. /\ x \in Images /\ x.top = images[own].top /\ x.manifest = images[own].manifest
        /\ x.names = images[own].names /\ x.hasConfig
    BY <1>1, <1>2 DEF Images
  <2>3. images[own].manifest = Target(p).config
    BY <2>1 DEF Progress, own
  <2> HIDE DEF x, to, Images
  <2>4. /\ images' \in Seq(Images) /\ Len(images') = Len(images)
        /\ \A m \in 1..Len(images) : images'[m] = IF m = own THEN x ELSE images[m]
    BY <1>1, <1>2, <2>1, <2>2
  <2>5. /\ \A m \in 1..Len(images) : /\ images'[m].top = images[m].top
                                     /\ m # own => images'[m] = images[m]
        /\ images'[own].manifest = Target(p).config /\ images'[own].hasConfig
        /\ images'[own].names \subseteq images[own].names
    BY <1>2, <2>2, <2>3, <2>4
  <2>6. StoreInv'
    <3>1. Rewrites(p, to)
      BY <1>1, <1>2, <2>1, <2>4, <2>5 DEF own, Rewrites
    <3>2. QED
      BY <3>1, RewriteStore
  <2>7. QED
    BY <1>2, <2>1, <2>4, <2>5, <2>6 DEF own
<1>6. CASE MoveTag(p)
  <2> DEFINE x(m) == [images[m] EXCEPT !.names = IF m = own THEN @ \cup {job[p].tag}
                                                            ELSE @ \ {job[p].tag}]
  <2>1. /\ pc[p] = "tag" /\ pc' = [pc EXCEPT ![p] = "ok"]
        /\ images' = [m \in 1..Len(images) |-> x(m)]
        /\ UNCHANGED <<job, layers, rotten, i, parent, source, image, retries>>
    BY <1>6 DEF MoveTag, Goto, own
  <2>2. ASSUME NEW m \in 1..Len(images)
        PROVE  /\ x(m) \in Images /\ x(m).top = images[m].top
               /\ x(m).manifest = images[m].manifest /\ x(m).hasConfig = images[m].hasConfig
               /\ m # own => x(m).names \subseteq images[m].names
    BY <1>1, <1>3 DEF Images
  <2>3. images[own].manifest = Target(p).config /\ images[own].hasConfig
    BY <2>1 DEF Progress, own
  <2> HIDE DEF x, Images
  <2>4. /\ images' \in Seq(Images) /\ Len(images') = Len(images)
        /\ \A m \in 1..Len(images) : images'[m] = x(m)
    BY <1>1, <2>1, <2>2
  <2>5. /\ \A m \in 1..Len(images) :
             /\ images'[m].top = images[m].top
             /\ m # own => /\ images'[m].manifest = images[m].manifest
                           /\ images'[m].hasConfig = images[m].hasConfig
                           /\ images'[m].names \subseteq images[m].names
        /\ images'[own].manifest = Target(p).config /\ images'[own].hasConfig
    BY <1>2, <2>2, <2>3, <2>4
  <2>6. StoreInv'
    <3>1. Rewrites(p, "ok")
      BY <1>1, <1>2, <2>1, <2>4, <2>5 DEF own, Rewrites
    <3>2. QED
      BY <3>1, RewriteStore
  <2>7. QED
    BY <1>2, <2>1, <2>4, <2>5, <2>6 DEF own
<1>7. QED
  BY <1>4, <1>5, <1>6

LEMMA MovesStore ==
  ASSUME StoreInv, NEW p \in Importers, Moves(p)
  PROVE  StoreInv'
<1> USE DEF StoreInv
<1>1. UNCHANGED <<job, layers, images, rotten>>
  BY DEF Moves, ResolveSource, FindElsewhere, SetManifestKey, Fail, RunAgain, store
<1>2. \A q \in Importers : /\ Target(q)' = Target(q) /\ NLayers(q)' = NLayers(q)
                           /\ NLayers(q) \in Nat
                           /\ i'[q] = i[q] => DiffID(q)' = DiffID(q) /\ InDelta(q)' = InDelta(q)
  BY <1>1, JobsStay, JobFacts
<1>3. /\ pc \in [Importers -> Statements] /\ \A q \in Importers : i[q] \in 1..(NLayers(q) + 1)
      /\ parent \in [Importers -> 0..Len(layers)] /\ image \in [Importers -> 0..Len(images)]
      /\ \A l \in 1..Len(layers) : layers[l].tar \in Tar
      /\ Len(layers) \in Nat /\ Len(images) \in Nat /\ i \in [Importers -> Nat]
  BY Types DEF TypeOK
<1>11. source' \in [Importers -> Seq(Tar)]
  <2>1. source \in [Importers -> Seq(Tar)]
    BY DEF TypeOK
  <2>2. CASE source' = source
    BY <2>1, <2>2
  <2>3. CASE ResolveSource(p)
    <3>1. PICK m \in 1..Len(images) : source' = [source EXCEPT ![p] = ChainOf(images[m].top)]
      BY <2>3 DEF ResolveSource
    <3>2. ChainOf(images[m].top) \in Seq(Tar)
      BY Types, ChainFacts DEF ChainOf
    <3>3. QED
      BY <2>1, <3>1, <3>2
  <2>4. QED
    BY <2>2, <2>3 DEF Moves, FindElsewhere, SetManifestKey, Fail, RunAgain
<1>4. CASE RunAgain(p)
  <2>1. /\ pc' = [pc EXCEPT ![p] = "resolve"] /\ i' = [i EXCEPT ![p] = 1]
        /\ parent' = [parent EXCEPT ![p] = 0] /\ image' = [image EXCEPT ![p] = 0]
        /\ Cardinality(rotten) + retries < MaxFaults /\ retries' = retries + 1
    BY <1>4 DEF RunAgain, Goto
  <2>2. Cardinality(rotten) \in Nat
    BY FS_CardinalityType DEF TypeOK
  <2>3. retries' \in 0..MaxFaults
    BY <2>1, <2>2, FaultsAssumption DEF TypeOK
  <2>4. /\ \A q \in Importers : /\ pc'[q] = IF q = p THEN "resolve" ELSE pc[q]
                                /\ parent'[q] = IF q = p THEN 0 ELSE parent[q]
                                /\ image'[q] = IF q = p THEN 0 ELSE image[q]
        /\ i' \in [Importers -> Nat] /\ \A q \in Importers : i'[q] = IF q = p THEN 1 ELSE i[q]
        /\ pc' \in [Importers -> Statements] /\ parent' \in [Importers -> 0..Len(layers)]
        /\ image' \in [Importers -> 0..Len(images)]
    BY <1>3, <2>1 DEF Statements
  <2>5. \A q \in Importers : i'[q] \in 1..(NLayers(q) + 1)
    <3>1. \A q \in Importers : NLayers(q) \in Nat => 1 \in 1..(NLayers(q) + 1)
      OBVIOUS
    <3>2. QED
      BY <1>2, <1>3, <2>4, <3>1
  <2>6. TypeOK'
    BY <1>1, <1>2, <1>11, <2>3, <2>4, <2>5 DEF TypeOK
  <2>7. Own' /\ Untagged'
    BY <1>1, <2>4 DEF Own, Untagged
  <2>8. Progress'
    <3> SUFFICES ASSUME NEW q \in Importers
                 PROVE  /\ pc'[q] = "resolve" => i'[q] = 1 /\ parent'[q] = 0
                        /\ pc'[q] = "recreate" =>
                             i'[q] <= NLayers(q)' /\ ~InDelta(q)' /\ DiffID(q)' \in Tar
                        /\ pc'[q] \in {"manifest", "manifestKey", "config", "tag", "ok"} =>
                             image'[q] # 0
                        /\ pc'[q] \in {"manifestKey", "config", "tag", "ok"} =>
                             images'[image'[q]].manifest = Target(q)'.config
                        /\ pc'[q] \in {"tag", "ok"} => images'[image'[q]].hasConfig
      BY DEF Progress
    <3>1. CASE q = p
      BY <2>4, <3>1
    <3>2. CASE q # p
      <4>1. /\ pc'[q] = pc[q] /\ i'[q] = i[q] /\ parent'[q] = parent[q]
            /\ image'[q] = image[q] /\ images' = images
        BY <1>1, <2>4, <3>2
      <4>2. /\ Target(q)' = Target(q) /\ NLayers(q)' = NLayers(q)
            /\ DiffID(q)' = DiffID(q) /\ InDelta(q)' = InDelta(q)
        BY <1>2, <4>1
      <4>3. QED
        BY <4>1, <4>2 DEF Progress
    <3>3. QED
      BY <3>1, <3>2
  <2>9. QED
    BY <2>6, <2>7, <2>8
<1>5. ASSUME NEW from, NEW to \in Statements, pc[p] = from, pc' = [pc EXCEPT ![p] = to],
             UNCHANGED <<i, parent, image, retries>>, to # "resolve", from # "ok",
             to = "recreate" => i[p] <= NLayers(p) /\ ~InDelta(p) /\ DiffID(p) \in Tar,
             to \in {"manifest", "manifestKey", "config", "tag", "ok"} =>
               from = "manifestKey" /\ to = "config"
      PROVE  StoreInv'
  <2>1. /\ pc' \in [Importers -> Statements]
        /\ \A q \in Importers : pc'[q] = IF q = p THEN to ELSE pc[q]
    BY <1>3, <1>5
  <2>2. TypeOK'
    BY <1>1, <1>2, <1>5, <1>11, <2>1 DEF TypeOK
  <2>3. Own' /\ Untagged'
    BY <1>1, <1>5, <2>1 DEF Own, Untagged
  <2>4. Progress'
    BY <1>1, <1>2, <1>5, <2>1 DEF Progress
  <2>5. QED
    BY <2>2, <2>3, <2>4
<1>6. CASE ResolveSource(p)
  BY <1>5, <1>6 DEF ResolveSource, Goto, Statements
<1>7. CASE FindElsewhere(p)
  <2>1. DiffID(p) \in Tar
    BY <1>3, <1>7 DEF FindElsewhere, LayersByDiffID
  <2>2. QED
    BY <1>5, <1>7, <2>1 DEF FindElsewhere, Goto, Statements
<1>8. CASE SetManifestKey(p)
  BY <1>5, <1>8 DEF SetManifestKey, Goto, Statements
<1>9. CASE Fail(p)
  BY <1>5, <1>9 DEF Fail, Statements
<1>10. QED
  BY <1>4, <1>6, <1>7, <1>8, <1>9 DEF Moves

LEMMA NextStore == StoreInv /\ [Next]_vars => StoreInv'
<1> SUFFICES ASSUME StoreInv, [Next]_vars PROVE StoreInv'
  OBVIOUS
<1>1. ASSUME NEW p \in Importers, Step(p) PROVE StoreInv'
  BY <1>1, StepKinds, AdvanceStore, CreateImageStore, RewritesStore, MovesStore
<1>2. CASE UNCHANGED vars
  <2>1. UNCHANGED <<job, layers, images, rotten, pc, i, parent, source, image, retries>>
    BY <1>2 DEF vars, store
  <2>2. \A p \in Importers : /\ Target(p)' = Target(p) /\ NLayers(p)' = NLayers(p)
                             /\ DiffID(p)' = DiffID(p) /\ InDelta(p)' = InDelta(p)
    BY <2>1, JobsStay
  <2>3. QED
    BY <2>1, <2>2 DEF StoreInv, TypeOK, Own, Progress, Untagged
<1>3. QED
  BY <1>1, <1>2 DEF Next, Terminating

\* The store and each import's place in it stay in order, whatever the deltas
\* contain, whatever fails and however the imports interleave.
THEOREM ImportInvariant == Spec => []StoreInv
<1>1. QED
  BY InitStore, NextStore, PTL DEF Spec

\* An import with --force-tag that fails leaves its image without the tag,
\* wherever it fails (docs/man/oci-delta.1.md:149).
THEOREM FailuresLeaveUntagged == Spec => []FailedForceLeavesUntagged
<1>1. StoreInv => FailedForceLeavesUntagged
  BY DEF StoreInv, Untagged, FailedForceLeavesUntagged
<1>2. QED
  BY <1>1, ImportInvariant, PTL

\* No step of any import takes a tag from a complete image and leaves it on none.
LEMMA NamesStay ==
  ASSUME StoreInv, NEW p \in Importers, Step(p), NEW tag, NamesComplete(tag)
  PROVE  NamesComplete(tag)'
<1> USE DEF StoreInv
<1>1. PICK m \in 1..Len(images) : /\ tag \in images[m].names
                                  /\ images[m].manifest # NoManifest /\ images[m].hasConfig
  BY DEF NamesComplete, TaggedBy, Complete
<1>2. /\ images \in Seq(Images) /\ Len(images) \in Nat
      /\ \A k \in 1..Len(images) : images[k] \in Images
      /\ image[p] \in 0..Len(images)
  BY Types
<1>3. Target(p).config # NoManifest
  BY JobFacts
<1>4. SUFFICES \E k \in 1..Len(images') : /\ tag \in images'[k].names
                                          /\ images'[k].manifest # NoManifest
                                          /\ images'[k].hasConfig
  BY DEF NamesComplete, TaggedBy, Complete
<1>5. CASE UNCHANGED images
  BY <1>1, <1>5
<1>6. CASE CreateImage(p)
  <2>1. PICK new : images' = Append(images, new)
    BY <1>6 DEF CreateImage
  <2>2. Len(images') = Len(images) + 1 /\ images'[m] = images[m]
    BY <1>1, <1>2, <2>1
  <2>3. QED
    BY <1>1, <1>2, <2>2
<1>7. CASE SetManifest(p)
  <2>1. images' = [images EXCEPT ![image[p]].manifest = Target(p).config]
    BY <1>7 DEF SetManifest
  <2>2. /\ Len(images') = Len(images) /\ images'[m].names = images[m].names
        /\ images'[m].hasConfig = images[m].hasConfig
        /\ images'[m].manifest \in {images[m].manifest, Target(p).config}
    <3>1. /\ Len(images') = Len(images)
          /\ images'[m] \in {images[m], [images[m] EXCEPT !.manifest = Target(p).config]}
      <4> HIDE DEF Images
      <4>1. QED
        BY <1>1, <1>2, <2>1
    <3>2. QED
      BY <1>1, <1>2, <3>1 DEF Images
  <2>3. QED
    BY <1>1, <1>3, <2>2
<1>8. CASE SetConfig(p)
  <2>1. images' = [images EXCEPT ![image[p]].hasConfig = TRUE]
    BY <1>8 DEF SetConfig
  <2>2. /\ Len(images') = Len(images) /\ images'[m].names = images[m].names
        /\ images'[m].hasConfig
        /\ images'[m].manifest = images[m].manifest
    BY <1>1, <1>2, <2>1 DEF Images
  <2>3. QED
    BY <1>1, <2>2
<1>9. CASE MoveTag(p)
  <2>1. /\ pc[p] = "tag"
        /\ images' = [k \in 1..Len(images) |->
             [images[k] EXCEPT !.names = IF k = image[p] THEN @ \cup {job[p].tag}
                                                         ELSE @ \ {job[p].tag}]]
    BY <1>9 DEF MoveTag, Goto
  <2>2. Len(images') = Len(images)
    BY <1>2, <2>1
  <2>3. CASE tag = job[p].tag
    <3>1. /\ image[p] \in 1..Len(images) /\ images[image[p]].hasConfig
          /\ images[image[p]].manifest # NoManifest
      BY <1>2, <1>3, <2>1 DEF Progress
    <3>2. /\ tag \in images'[image[p]].names
          /\ images'[image[p]].hasConfig = images[image[p]].hasConfig
          /\ images'[image[p]].manifest = images[image[p]].manifest
      BY <1>2, <2>1, <2>3, <3>1 DEF Images
    <3>3. QED
      BY <2>2, <3>1, <3>2
  <2>4. CASE tag # job[p].tag
    <3>1. /\ tag \in images'[m].names /\ images'[m].manifest = images[m].manifest
          /\ images'[m].hasConfig = images[m].hasConfig
      BY <1>1, <1>2, <2>1, <2>4 DEF Images
    <3>2. QED
      BY <1>1, <2>2, <3>1
  <2>5. QED
    BY <2>3, <2>4
<1>10. CASE \E t \in Tar : \E l : Advances(p, t, l) /\ Fits(p, t)
  BY <1>5, <1>10 DEF Advances
<1>11. CASE Moves(p)
  BY <1>5, <1>11 DEF Moves, ResolveSource, FindElsewhere, SetManifestKey, Fail, RunAgain, store
<1>12. QED
  BY <1>6, <1>7, <1>8, <1>9, <1>10, <1>11, StepKinds

\* A tag that names a complete image names a complete image ever after.
THEOREM TagsNeverLoseTheirImage == Spec => TagStaysComplete
<1>1. StoreInv /\ [Next]_vars =>
        [\A p \in Importers : NamesComplete(job[p].tag) => NamesComplete(job[p].tag)']_vars
  <2> SUFFICES ASSUME StoreInv, Next, NEW p \in Importers, NamesComplete(job[p].tag)
               PROVE  NamesComplete(job[p].tag)'
    OBVIOUS
  <2>1. job' = job
    <3>1. ASSUME NEW q \in Importers, Step(q) PROVE job' = job
      BY <3>1 DEF Step, ResolveSource, ReuseLayer, FindElsewhere, RecreateLayer, PatchLayer,
         UnpackLayer, CreateImage, SetManifest, SetManifestKey, SetConfig, MoveTag, Fail, RunAgain
    <3>2. QED
      BY <3>1 DEF Next, Terminating, vars
  <2> DEFINE tag == job[p].tag
  <2>2. tag' = tag
    BY <2>1
  <2>3. CASE Terminating
    BY <2>3 DEF Terminating, vars, store, NamesComplete, TaggedBy, Complete
  <2>4. CASE \E q \in Importers : Step(q)
    <3> HIDE DEF tag
    <3>1. NamesComplete(tag) => \A t : t = tag => NamesComplete(t)'
      BY <2>4, NamesStay
    <3>2. QED
      BY <2>1, <2>2, <3>1 DEF tag, NamesComplete, TaggedBy, Complete
  <2>5. QED
    BY <2>3, <2>4 DEF Next
<1>2. QED
  BY <1>1, ImportInvariant, PTL DEF Spec, TagStaysComplete

-----------------------------------------------------------------------------
(* What holds of honest deltas *)

\* The layers an import has in place are the first ones of its target, and the
\* image it has created is on all of them: unless damage may have reached it.
Built ==
  \A p \in Importers :
    Delta(p).imageConfig \notin Spoiled =>
      /\ pc[p] \in {"layer", "recreate"} =>
           ChainOf(parent[p]) = [k \in 1..i[p] - 1 |-> Delta(p).imageConfig.diffIDs[k]]
      /\ pc[p] = "manifest" =>
           ChainOf(images[image[p]].top) = Delta(p).imageConfig.diffIDs

Confined == Built /\ SourceIsTheOldImage /\ DamageIsConfined

\* Damage reaches the image of a damaged delta, and that of a delta made from a
\* spoiled image.
LEMMA SpoiledFacts ==
  ASSUME NEW p \in Importers, Delta(p).imageConfig \notin Spoiled
  PROVE  DeltaBlobs(p) \cap rotten = {} /\ Delta(p).sourceConfig \notin Spoiled
<1> DEFINE targets == {Delta(q).imageConfig : q \in Importers}
           Closed(S) ==
             \A q \in Importers :
               DeltaBlobs(q) \cap rotten # {} \/ Delta(q).sourceConfig \in S
                 => Delta(q).imageConfig \in S
<1>1. Spoiled = {t \in targets : \A S \in SUBSET targets : Closed(S) => t \in S}
  BY DEF Spoiled
<1>2. PICK S \in SUBSET targets : Closed(S) /\ Delta(p).imageConfig \notin S
  <2> HIDE DEF Closed
  <2>1. QED
    BY <1>1
<1>3. DeltaBlobs(p) \cap rotten = {} /\ Delta(p).sourceConfig \notin S
  BY <1>2
<1>4. \A t \in Spoiled : t \in S
  <2> HIDE DEF Closed, targets
  <2>1. QED
    BY <1>1, <1>2
<1>5. QED
  BY <1>3, <1>4

LEMMA SpoiledStays == UNCHANGED <<job, rotten>> => UNCHANGED Spoiled
BY DEF Spoiled, Delta, DeltaBlobs

\* A layer that is added for an unspoiled image is the one its config lists.
LEMMA FitsTheConfig ==
  ASSUME HonestJobs, StoreInv, Confined, NEW p \in Importers, NEW tar \in Tar, Fits(p, tar),
         pc[p] \in {"layer", "recreate"}, i[p] <= NLayers(p),
         Delta(p).imageConfig \notin Spoiled
  PROVE  tar = Delta(p).imageConfig.diffIDs[i[p]]
<1> DEFINE n == i[p]
           diffIDs == Delta(p).imageConfig.diffIDs
           part == DeltaLayer(p)
<1>1. Honest(Delta(p)) /\ NLayers(p) \in Nat /\ n \in 1..NLayers(p)
  BY Types, JobFacts DEF HonestJobs, StoreInv, TypeOK, Delta
<1>2. Len(diffIDs) = NLayers(p)
  BY <1>1 DEF Honest, NLayers, Target
<1>3. DiffID(p) = diffIDs[n]
  BY <1>1, <1>2 DEF DiffID, DiffIDAt
<1>4. InDelta(p) => IF part.media = "tar-diff"
                      THEN part.digest = Diff(Delta(p).sourceConfig.diffIDs, diffIDs[n])
                      ELSE part.digest.tar = diffIDs[n]
  BY <1>1 DEF Honest, InDelta, DeltaLayer, To, LayerDigest, NLayers, Target
<1>5. InDelta(p) => part.digest \notin rotten
  BY SpoiledFacts DEF InDelta, DeltaLayer, DeltaBlobs
<1>6. source[p] = Delta(p).sourceConfig.diffIDs
  BY SpoiledFacts DEF Confined, SourceIsTheOldImage
<1>7. CASE ~InDelta(p)
  BY <1>3, <1>7 DEF Fits
<1>8. CASE InDelta(p) /\ part.media = "tar-diff"
  <2>1. part.digest.from = source[p] /\ part.digest.to = diffIDs[n]
    BY <1>4, <1>6, <1>8 DEF Diff
  <2>2. tar \in PatchResults(p)
    BY <1>8 DEF Fits
  <2>3. QED
    BY <1>5, <1>8, <2>1, <2>2 DEF PatchResults
<1>9. CASE InDelta(p) /\ part.media # "tar-diff"
  <2>1. tar \in Gunzip(part.digest)
    BY <1>9 DEF Fits
  <2>2. QED
    BY <1>4, <1>5, <1>9, <2>1 DEF Gunzip
<1>10. QED
  BY <1>7, <1>8, <1>9

LEMMA InitConfined == Init => Confined
<1> SUFFICES ASSUME Init PROVE Confined
  OBVIOUS
<1>1. \A p \in Importers : pc[p] = "resolve"
  BY DEF Init
<1>2. Built /\ SourceIsTheOldImage
  BY <1>1 DEF Built, SourceIsTheOldImage
<1>3. layers = InitialLayers /\ images = InitialImages
  BY DEF Init
<1>4. \A m \in 1..Len(images) : images[m].manifest # NoManifest =>
        ChainIn(layers, images[m].top) = images[m].manifest.diffIDs
  BY <1>3, StoreAssumption
<1>5. DamageIsConfined
  BY <1>4 DEF DamageIsConfined, MatchesConfig, ChainOf
<1>6. QED
  BY <1>2, <1>5 DEF Confined

LEMMA AdvanceConfined ==
  ASSUME HonestJobs, StoreInv, Confined, NEW p \in Importers, NEW tar \in Tar, NEW l,
         Advances(p, tar, l), Fits(p, tar)
  PROVE  Confined'
<1> USE DEF StoreInv
<1>1. /\ Len(layers) \in Nat /\ \A k \in 0..Len(layers) : ChainOf(k)' = ChainOf(k)
      /\ ChainOf(l)' = Append(ChainOf(parent[p]), tar)
  BY AdvanceFacts, Types
<1>2. /\ UNCHANGED <<job, images, rotten, source, image>>
      /\ pc[p] \in {"layer", "recreate"}
      /\ pc \in [Importers -> Statements] /\ pc' = [pc EXCEPT ![p] = "layer"]
      /\ parent \in [Importers -> 0..Len(layers)] /\ parent' = [parent EXCEPT ![p] = l]
      /\ i \in [Importers -> Nat] /\ i' = [i EXCEPT ![p] = i[p] + 1]
      /\ i[p] \in 1..NLayers(p)
  BY Types, JobFacts DEF Advances, TypeOK
<1>3. /\ \A q \in Importers : Delta(q)' = Delta(q)
      /\ Spoiled' = Spoiled
  BY <1>2, JobsStay, SpoiledStays
<1>4. \A m \in 1..Len(images) : ChainOf(images[m].top)' = ChainOf(images[m].top)
  <2>1. \A m \in 1..Len(images) : images[m].top \in 0..Len(layers)
    BY Types
  <2>2. \A k : images' = images => ChainOf(k)' = ChainIn(layers', k)
    BY DEF ChainOf
  <2>3. QED
    BY <1>1, <1>2, <2>1 DEF ChainOf
<1>5. Built'
  <2> DEFINE d(q) == Delta(q).imageConfig.diffIDs
  <2> SUFFICES ASSUME NEW q \in Importers, Delta(q).imageConfig \notin Spoiled
               PROVE  /\ pc'[q] \in {"layer", "recreate"} =>
                           ChainIn(layers', parent'[q]) = [k \in 1..i'[q] - 1 |-> d(q)[k]]
                      /\ pc'[q] = "manifest" =>
                           ChainIn(layers', images[image[q]].top) = d(q)
    BY <1>2, <1>3 DEF Built, ChainOf
  <2>1. CASE q = p
    <3>1. ChainOf(parent[p]) = [k \in 1..i[p] - 1 |-> d(p)[k]]
      BY <1>2, <2>1 DEF Confined, Built
    <3>2. tar = d(p)[i[p]] /\ i[p] <= NLayers(p)
      BY <1>2, <2>1, FitsTheConfig DEF Advances
    <3>3. ChainIn(layers', l) = Append([k \in 1..i[p] - 1 |-> d(p)[k]], d(p)[i[p]])
      BY <1>1, <3>1, <3>2 DEF ChainOf
    <3>4. i[p] \in Nat /\ i[p] >= 1
      BY <1>2
    <3> HIDE DEF d
    <3>5. Append([k \in 1..i[p] - 1 |-> d(p)[k]], d(p)[i[p]]) =
            [k \in 1..(i[p] + 1) - 1 |-> d(p)[k]]
      BY <3>4
    <3>6. pc'[p] = "layer" /\ parent'[p] = l /\ i'[p] = i[p] + 1
      BY <1>2
    <3>7. QED
      BY <2>1, <3>3, <3>5, <3>6
  <2>2. CASE q # p
    <3>1. pc'[q] = pc[q] /\ parent'[q] = parent[q] /\ i'[q] = i[q] /\ parent[q] \in 0..Len(layers)
      BY <1>2, <2>2
    <3>2. /\ pc[q] \in {"layer", "recreate"} =>
               ChainOf(parent[q]) = [k \in 1..i[q] - 1 |-> d(q)[k]]
          /\ pc[q] = "manifest" => ChainOf(images[image[q]].top) = d(q)
      BY DEF Confined, Built
    <3>3. pc[q] = "manifest" => image[q] \in 1..Len(images)
      BY Types DEF Progress
    <3>4. ChainIn(layers', parent[q]) = ChainOf(parent[q])
      BY <1>1, <3>1 DEF ChainOf
    <3>5. pc[q] = "manifest" =>
            ChainIn(layers', images[image[q]].top) = ChainOf(images[image[q]].top)
      BY <1>2, <1>4, <3>3 DEF ChainOf
    <3> HIDE DEF d
    <3>6. QED
      BY <3>1, <3>2, <3>4, <3>5
  <2>3. QED
    BY <2>1, <2>2
<1>6. SourceIsTheOldImage'
  BY <1>2, <1>3 DEF Confined, SourceIsTheOldImage
<1>7. DamageIsConfined'
  BY <1>2, <1>3, <1>4 DEF Confined, DamageIsConfined, MatchesConfig
<1>8. QED
  BY <1>5, <1>6, <1>7 DEF Confined

LEMMA CreateImageConfined ==
  ASSUME HonestJobs, StoreInv, Confined, NEW p \in Importers, CreateImage(p)
  PROVE  Confined'
<1> USE DEF StoreInv
<1>1. PICK new : images' = Append(images, new) /\ new.top = parent[p] /\ new.manifest = NoManifest
  BY DEF CreateImage
<1>2. /\ UNCHANGED <<job, layers, rotten, i, parent, source>>
      /\ pc[p] = "layer" /\ i[p] > NLayers(p)
      /\ image \in [Importers -> 0..Len(images)] /\ image' = [image EXCEPT ![p] = Len(images) + 1]
      /\ pc \in [Importers -> Statements] /\ pc' = [pc EXCEPT ![p] = "manifest"]
  BY DEF CreateImage, Goto, TypeOK
<1>3. /\ Len(images) \in Nat /\ Len(images') = Len(images) + 1
      /\ \A m \in 1..Len(images) : images'[m] = images[m]
      /\ images'[Len(images) + 1] = new
  <2>1. images \in Seq(Images) /\ Len(images) \in Nat
    BY Types
  <2> HIDE DEF Images
  <2>2. QED
    BY <1>1, <2>1
<1>4. /\ \A q \in Importers : Delta(q)' = Delta(q)
      /\ Spoiled' = Spoiled
      /\ \A k : ChainIn(layers', k) = ChainOf(k)
  BY <1>2, JobsStay, SpoiledStays DEF ChainOf
<1>5. Delta(p).imageConfig \notin Spoiled => ChainOf(parent[p]) = Delta(p).imageConfig.diffIDs
  <2> SUFFICES ASSUME Delta(p).imageConfig \notin Spoiled
               PROVE  ChainOf(parent[p]) = Delta(p).imageConfig.diffIDs
    OBVIOUS
  <2> DEFINE d == Delta(p).imageConfig.diffIDs
  <2>1. ChainOf(parent[p]) = [k \in 1..i[p] - 1 |-> d[k]]
    BY <1>2 DEF Confined, Built
  <2>2. NLayers(p) \in Nat /\ i[p] \in 1..(NLayers(p) + 1) /\ i[p] > NLayers(p)
    BY <1>2, Types, JobFacts
  <2>3. d \in Seq(Tar) /\ Len(d) = NLayers(p)
    BY DEF HonestJobs, Honest, NLayers, Target, Delta, TypeOK
  <2> HIDE DEF d
  <2>4. i[p] - 1 = Len(d)
    BY <2>2, <2>3
  <2>5. d = [k \in 1..Len(d) |-> d[k]]
    BY <2>3
  <2>6. QED
    BY <2>1, <2>4, <2>5 DEF d
<1>6. Built'
  <2> SUFFICES ASSUME NEW q \in Importers, Delta(q).imageConfig \notin Spoiled
               PROVE  /\ pc'[q] \in {"layer", "recreate"} =>
                           ChainOf(parent[q]) =
                             [k \in 1..i[q] - 1 |-> Delta(q).imageConfig.diffIDs[k]]
                      /\ pc'[q] = "manifest" =>
                           ChainOf(images'[image'[q]].top) = Delta(q).imageConfig.diffIDs
    BY <1>2, <1>4 DEF Built, ChainOf
  <2>1. CASE q = p
    <3>1. pc'[p] = "manifest" /\ image'[p] = Len(images) + 1
      BY <1>2
    <3>2. QED
      BY <1>1, <1>3, <1>5, <2>1, <3>1
  <2>2. CASE q # p
    <3>1. pc'[q] = pc[q] /\ image'[q] = image[q]
      BY <1>2, <2>2
    <3>2. pc[q] = "manifest" => image[q] \in 1..Len(images)
      BY Types DEF Progress
    <3>3. QED
      BY <1>3, <3>1, <3>2 DEF Confined, Built
  <2>3. QED
    BY <2>1, <2>2
<1>7. SourceIsTheOldImage'
  BY <1>2, <1>4 DEF Confined, SourceIsTheOldImage
<1>8. DamageIsConfined'
  <2> SUFFICES ASSUME NEW m \in 1..Len(images'), images'[m].manifest # NoManifest,
                      images'[m].manifest \notin Spoiled
               PROVE  ChainOf(images'[m].top) = images'[m].manifest.diffIDs
    BY <1>4 DEF DamageIsConfined, MatchesConfig, ChainOf
  <2>1. m \in 1..Len(images)
    BY <1>1, <1>3
  <2>2. QED
    BY <1>3, <2>1 DEF Confined, DamageIsConfined, MatchesConfig
<1>9. QED
  BY <1>6, <1>7, <1>8 DEF Confined

LEMMA RewritesConfined ==
  ASSUME HonestJobs, StoreInv, Confined, NEW p \in Importers,
         SetManifest(p) \/ SetConfig(p) \/ MoveTag(p)
  PROVE  Confined'
<1> USE DEF StoreInv
<1>1. /\ image[p] \in 1..Len(images) /\ Len(images') = Len(images)
      /\ UNCHANGED <<job, layers, rotten, i, parent, source, image>>
      /\ \A m \in 1..Len(images) : /\ images'[m].top = images[m].top
                                   /\ m # image[p] => images'[m].manifest = images[m].manifest
      /\ images'[image[p]].manifest = Target(p).config
  BY RewritesStore
<1>2. /\ \A q \in Importers : Delta(q)' = Delta(q)
      /\ Spoiled' = Spoiled
      /\ \A k : ChainIn(layers', k) = ChainOf(k)
  BY <1>1, JobsStay, SpoiledStays DEF ChainOf
<1>3. /\ pc[p] \in {"manifest", "config", "tag"}
      /\ pc \in [Importers -> Statements]
      /\ pc'[p] \notin {"layer", "recreate", "manifest", "resolve", "failed"}
      /\ \A q \in Importers : q # p => pc'[q] = pc[q]
  BY DEF SetManifest, SetConfig, MoveTag, Goto, TypeOK
<1>4. Target(p).config = Delta(p).imageConfig /\ Target(p).config # NoManifest
  BY JobFacts, HonestConfig
<1>5. Delta(p).imageConfig \notin Spoiled =>
        ChainOf(images[image[p]].top) = Delta(p).imageConfig.diffIDs
  <2>1. CASE pc[p] = "manifest"
    BY <2>1 DEF Confined, Built
  <2>2. CASE pc[p] \in {"config", "tag"}
    <3>1. images[image[p]].manifest = Delta(p).imageConfig
      BY <1>4, <2>2 DEF Progress
    <3>2. QED
      BY <1>1, <1>4, <3>1 DEF Confined, DamageIsConfined, MatchesConfig
  <2>3. QED
    BY <1>3, <2>1, <2>2
<1>6. Built'
  <2> SUFFICES ASSUME NEW q \in Importers, Delta(q).imageConfig \notin Spoiled
               PROVE  /\ pc'[q] \in {"layer", "recreate"} =>
                           ChainOf(parent[q]) =
                             [k \in 1..i[q] - 1 |-> Delta(q).imageConfig.diffIDs[k]]
                      /\ pc'[q] = "manifest" =>
                           ChainOf(images'[image[q]].top) = Delta(q).imageConfig.diffIDs
    BY <1>1, <1>2 DEF Built, ChainOf
  <2>1. CASE q = p
    BY <1>3, <2>1
  <2>2. CASE q # p
    <3>1. pc[q] = "manifest" => image[q] \in 1..Len(images)
      BY Types DEF Progress
    <3>2. QED
      BY <1>1, <1>3, <2>2, <3>1 DEF Confined, Built
  <2>3. QED
    BY <2>1, <2>2
<1>7. SourceIsTheOldImage'
  <2>1. \A q \in Importers : pc'[q] \notin {"resolve", "failed"} => pc[q] \notin {"resolve", "failed"}
    BY <1>3
  <2>2. QED
    BY <1>1, <1>2, <2>1 DEF Confined, SourceIsTheOldImage
<1>8. DamageIsConfined'
  <2> SUFFICES ASSUME NEW m \in 1..Len(images), images'[m].manifest # NoManifest,
                      images'[m].manifest \notin Spoiled
               PROVE  ChainOf(images'[m].top) = images'[m].manifest.diffIDs
    BY <1>1, <1>2 DEF DamageIsConfined, MatchesConfig, ChainOf
  <2>1. CASE m = image[p]
    BY <1>1, <1>4, <1>5, <2>1
  <2>2. CASE m # image[p]
    BY <1>1, <2>2 DEF Confined, DamageIsConfined, MatchesConfig
  <2>3. QED
    BY <2>1, <2>2
<1>9. QED
  BY <1>6, <1>7, <1>8 DEF Confined

LEMMA MovesConfined ==
  ASSUME HonestJobs, StoreInv, Confined, NEW p \in Importers, Moves(p)
  PROVE  Confined'
<1> USE DEF StoreInv
<1>1. UNCHANGED <<job, layers, images, rotten>>
  BY DEF Moves, ResolveSource, FindElsewhere, SetManifestKey, Fail, RunAgain, store
<1>2. /\ \A q \in Importers : Delta(q)' = Delta(q)
      /\ Spoiled' = Spoiled
      /\ \A k : ChainIn(layers', k) = ChainOf(k)
  BY <1>1, JobsStay, SpoiledStays DEF ChainOf
<1>3. DamageIsConfined'
  BY <1>1, <1>2 DEF Confined, DamageIsConfined, MatchesConfig, ChainOf
<1>4. /\ pc \in [Importers -> Statements] /\ i \in [Importers -> Nat]
      /\ parent \in [Importers -> 0..Len(layers)] /\ image \in [Importers -> 0..Len(images)]
      /\ source \in [Importers -> Seq(Tar)] /\ (source' = source \/ ResolveSource(p))
  BY DEF TypeOK, Moves, FindElsewhere, SetManifestKey, Fail, RunAgain
<1>5. \A q \in Importers : q # p =>
        /\ pc'[q] = pc[q] /\ i'[q] = i[q] /\ parent'[q] = parent[q] /\ image'[q] = image[q]
        /\ source'[q] = source[q] \/ ResolveSource(p)
  BY <1>4 DEF Moves, ResolveSource, FindElsewhere, SetManifestKey, Fail, RunAgain, Goto
<1>6. Built'
  <2> DEFINE d(q) == Delta(q).imageConfig.diffIDs
  <2> SUFFICES ASSUME NEW q \in Importers, Delta(q).imageConfig \notin Spoiled
               PROVE  /\ pc'[q] \in {"layer", "recreate"} =>
                           ChainOf(parent'[q]) = [k \in 1..i'[q] - 1 |-> d(q)[k]]
                      /\ pc'[q] = "manifest" =>
                           ChainOf(images[image'[q]].top) = d(q)
    BY <1>1, <1>2 DEF Built, ChainOf
  <2>1. CASE q # p
    BY <1>5, <2>1 DEF Confined, Built
  <2>2. CASE q = p /\ ResolveSource(p)
    <3>1. /\ pc[p] = "resolve" /\ pc'[p] = "layer" /\ UNCHANGED <<i, parent>>
      BY <1>4, <2>2 DEF ResolveSource, Goto
    <3>2. i'[p] = 1 /\ parent'[p] = 0
      BY <3>1 DEF Progress
    <3>3. ChainOf(0) = <<>>
      BY Types, ChainFacts DEF ChainOf
    <3> HIDE DEF d
    <3>4. [k \in 1..1 - 1 |-> d(q)[k]] = <<>>
      OBVIOUS
    <3>5. QED
      BY <2>2, <3>1, <3>2, <3>3, <3>4
  <2>3. CASE q = p /\ FindElsewhere(p)
    BY <1>4, <2>3 DEF FindElsewhere, Goto, Confined, Built
  <2>4. CASE q = p /\ (SetManifestKey(p) \/ Fail(p) \/ RunAgain(p))
    BY <1>4, <2>4 DEF SetManifestKey, Fail, RunAgain, Goto
  <2>5. QED
    BY <2>1, <2>2, <2>3, <2>4 DEF Moves
<1>7. SourceIsTheOldImage'
  <2> SUFFICES ASSUME NEW q \in Importers, pc'[q] \notin {"resolve", "failed"},
                      Delta(q).sourceConfig \notin Spoiled
               PROVE  source'[q] = Delta(q).sourceConfig.diffIDs
    BY <1>2 DEF SourceIsTheOldImage
  <2>1. CASE q = p /\ ResolveSource(p)
    <3>1. PICK m \in 1..Len(images) :
                 /\ images[m].manifest = Delta(p).sourceConfig
                 /\ source' = [source EXCEPT ![p] = ChainOf(images[m].top)]
      BY <2>1 DEF ResolveSource
    <3>2. ChainOf(images[m].top) = Delta(p).sourceConfig.diffIDs
      BY <2>1, <3>1, JobFacts DEF Confined, DamageIsConfined, MatchesConfig
    <3>3. QED
      BY <1>4, <2>1, <3>1, <3>2
  <2>2. CASE q # p \/ ~ResolveSource(p)
    <3>1. source'[q] = source[q]
      BY <1>4, <1>5, <2>2 DEF ResolveSource
    <3>2. pc[q] \notin {"resolve", "failed"}
      BY <1>4, <1>5, <2>2 DEF Moves, FindElsewhere, SetManifestKey, Fail, RunAgain, Goto
    <3>3. QED
      BY <3>1, <3>2 DEF Confined, SourceIsTheOldImage
  <2>3. QED
    BY <2>1, <2>2
<1>8. QED
  BY <1>3, <1>6, <1>7 DEF Confined

LEMMA NextConfined == ASSUME HonestJobs PROVE StoreInv /\ Confined /\ [Next]_vars => Confined'
<1> SUFFICES ASSUME StoreInv, Confined, [Next]_vars PROVE Confined'
  OBVIOUS
<1>1. ASSUME NEW p \in Importers, Step(p) PROVE Confined'
  BY <1>1, StepKinds, AdvanceConfined, CreateImageConfined, RewritesConfined, MovesConfined
<1>2. CASE UNCHANGED vars
  <2>1. UNCHANGED <<job, layers, images, rotten, pc, i, parent, source, image>>
    BY <1>2 DEF vars, store
  <2>2. /\ \A p \in Importers : Delta(p)' = Delta(p)
        /\ Spoiled' = Spoiled
        /\ \A k : ChainIn(layers', k) = ChainOf(k)
    BY <2>1, JobsStay, SpoiledStays DEF ChainOf
  <2>3. QED
    BY <2>1, <2>2 DEF Confined, Built, SourceIsTheOldImage, DamageIsConfined, MatchesConfig, ChainOf
<1>3. QED
  BY <1>1, <1>2 DEF Next, Terminating

\* With honest deltas an import has built as much of its target's chain as its
\* loop index says, and what it mounts is the image its delta was made from,
\* unless damage has reached either.
THEOREM HonestInvariant == ASSUME HonestJobs PROVE Spec => []Confined
<1>1. QED
  BY InitConfined, NextConfined, ImportInvariant, PTL DEF Spec

\* Whatever blobs are damaged and however imports interleave, an image that can
\* be found and that damage has not reached has the layers its config lists.
THEOREM OnlyDamageSpoils == ASSUME HonestJobs PROVE Spec => []DamageIsConfined
<1>1. Confined => DamageIsConfined
  BY DEF Confined
<1>2. QED
  BY <1>1, HonestInvariant, PTL

\* What an import patches from is what its delta was made from.
THEOREM PatchesFromTheOldImage == ASSUME HonestJobs PROVE Spec => []SourceIsTheOldImage
<1>1. Confined => SourceIsTheOldImage
  BY DEF Confined
<1>2. QED
  BY <1>1, HonestInvariant, PTL

\* Success means the whole target image, complete and, unless damage has reached
\* it, as its config lists it.
THEOREM SuccessMeansTheTarget == ASSUME HonestJobs PROVE Spec => []SuccessStoresTheTarget
<1>1. StoreInv /\ Confined => SuccessStoresTheTarget
  <2> SUFFICES ASSUME StoreInv, Confined, NEW p \in Importers, pc[p] = "ok"
               PROVE  /\ Complete(image[p])
                      /\ images[image[p]].manifest = Delta(p).imageConfig
                      /\ Delta(p).imageConfig \notin Spoiled => MatchesConfig(image[p])
    BY DEF SuccessStoresTheTarget
  <2>1. /\ image[p] # 0 /\ images[image[p]].manifest = Target(p).config
        /\ images[image[p]].hasConfig
    BY DEF StoreInv, Progress
  <2>2. image[p] \in 1..Len(images)
    BY <2>1, Types DEF StoreInv
  <2>3. Target(p).config = Delta(p).imageConfig /\ Target(p).config # NoManifest
    BY JobFacts, HonestConfig DEF StoreInv
  <2>4. QED
    BY <2>1, <2>2, <2>3 DEF Complete, Confined, DamageIsConfined
<1>2. QED
  BY <1>1, ImportInvariant, HonestInvariant, PTL

=============================================================================
