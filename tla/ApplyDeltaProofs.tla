--------------------------- MODULE ApplyDeltaProofs ---------------------------
(***************************************************************************)
(* ApplyDelta never publishes an incomplete image: for any deltas, layers  *)
(* and data sources, and whatever fails, rots or crashes.  The invariant   *)
(* says of every entry of the layout, finished or not, why it is or will   *)
(* be hashed before index.json is written.  Its parts on what this run has *)
(* written (Control, Rewritten) do not depend on what the layout held      *)
(* before, and serve the runs of ApplyAgain, at the end of this module.    *)
(***************************************************************************)
EXTENDS ApplyAgain, FiniteSetTheorems, TLAPS

\* The loop index, by statement.
Position ==
  /\ pc \in {"layout", "config", "configHash"} => i = 1
  /\ pc \in {"verify", "patch", "store", "stored", "copy", "copyHash"} =>
       i <= NLayers /\ InDelta(i)
  /\ pc \in {"manifest", "index", "ok"} => i = NLayers + 1

\* The write in progress is the one of the statement the program is at.
WriteOf(stmt, name, content) == pc = stmt => writing = Write(name, content)

InProgress ==
  \/ Idle
  \/ /\ WriteOf("layout", LayoutFile, LayoutFile)
     /\ pc = "config" => writing.name = delta.imageConfig
     /\ WriteOf("store", Layer(patched, "gogzip"), Layer(patched, "gogzip"))
     /\ pc = "copy" => writing.name = DeltaLayer(i).digest
     /\ WriteOf("manifest", OutputManifest, OutputManifest)
     /\ WriteOf("index", IndexFile, Index(OutputManifest))
     /\ writing.kind = "write"

Control == TypeOK /\ Position /\ InProgress

\* What has been copied and is about to be hashed.
Unhashed(n) ==
  \/ pc = "configHash" /\ n = delta.imageConfig
  \/ pc = "copyHash" /\ n = DeltaLayer(i).digest

\* An entry is whole, or else will be before the program goes on.
Kept(n) == Intact(n) \/ (~Idle /\ writing.name = n) \/ Unhashed(n)

\* The run has not failed.
Alive == pc \notin {"error", "crashed"}

\* The entries this run has written so far.
Rewritten ==
  Alive =>
    /\ pc # "layout" => Kept(LayoutFile)
    /\ pc \notin {"layout", "config"} => Kept(delta.imageConfig)
    /\ pc = "stored" => Kept(Layer(patched, "gogzip"))
    /\ \A k \in 1..NLayers : k < i /\ InDelta(k) =>
         outputLayers[k].digest # IndexFile /\ Kept(outputLayers[k].digest)
    /\ pc \in {"index", "ok"} => Kept(OutputManifest)

\* In a layout that was empty there are no others.
Secure == Alive => \A n \in DOMAIN files \ {IndexFile} : Kept(n)

\* index.json is whole exactly when the program is done.
IndexLast ==
  IF pc = "ok" THEN Has(IndexFile) /\ files[IndexFile] = Index(OutputManifest)
               ELSE Has(IndexFile) => files[IndexFile] = Torn

IInv == Control /\ Rewritten /\ Secure /\ IndexLast

-----------------------------------------------------------------------------
(* Facts about the state *)

\* What parsing has established of the delta at hand.
LEMMA TargetFacts ==
  ASSUME TypeOK
  PROVE  /\ NLayers \in Nat
         /\ DOMAIN Target.layers = 1..NLayers
         /\ Target.config = delta.imageConfig
         /\ IndexFile # delta.imageConfig
         /\ \A k : InDelta(k) => /\ DeltaLayer(k).digest \in DOMAIN blobs
                                 /\ DeltaLayer(k).digest # IndexFile
         /\ delta.imageConfig \in DOMAIN blobs
         /\ \A b \in DOMAIN blobs : b.kind = "diff" => b.to \in Tar
<1>1. WellFormed(delta)
  BY DeltasAssumption DEF TypeOK
<1>2. NLayers \in Nat /\ DOMAIN Target.layers = 1..NLayers
  BY <1>1 DEF WellFormed, NLayers, Target
<1>3. \A k : InDelta(k) => DeltaLayer(k).digest \in BlobsOf(delta)
  BY DEF InDelta, DeltaLayer, BlobsOf
<1>4. QED
  BY <1>1, <1>2, <1>3 DEF WellFormed, TypeOK, Target, BlobsOf

\* The names and contents that the code builds are told apart by their kind.
LEMMA Kinds ==
  /\ LayoutFile # IndexFile
  /\ \A t, f : Layer(t, f) # IndexFile
  /\ \A c, l : Manifest(c, l) # IndexFile
  /\ \A m : Index(m) # Torn
  /\ \A n, c : Write(n, c) # NotWriting
<1>1. LayoutFile.kind = "oci-layout" /\ IndexFile.kind = "index.json"
  BY DEF LayoutFile, IndexFile
<1>2. \A t, f : Layer(t, f).kind = "layer"
  BY DEF Layer
<1>3. \A c, l : Manifest(c, l).kind = "manifest"
  BY DEF Manifest
<1>4. Torn.kind = "torn" /\ \A m : Index(m).kind = "index"
  BY DEF Torn, Index
<1>5. NotWriting.kind = "idle" /\ \A n, c : Write(n, c).kind = "write"
  BY DEF NotWriting, Write
<1>6. QED
  BY <1>1, <1>2, <1>3, <1>4, <1>5

LEMMA AfterFacts ==
  /\ After["layout"] = "config" /\ After["config"] = "configHash"
  /\ After["store"] = "stored" /\ After["copy"] = "copyHash"
  /\ After["layer"] = "manifest" /\ After["manifest"] = "index"
  /\ After["index"] = "ok"
  /\ DOMAIN After = {"layout", "config", "store", "copy", "layer", "manifest", "index"}
BY DEF After

-----------------------------------------------------------------------------
(* The kinds of steps *)

\* The program's variables when it starts.
Begin ==
  /\ Idle /\ delta \in Deltas /\ source \in Sources
  /\ blobs = [d \in BlobsOf(delta) |-> d]
  /\ pc = "layout" /\ i = 1 /\ outputLayers = Target.layers /\ patched = NoDiffID

\* A write begins with one of the six statements that write, under the name
\* the statement gives it.
Starts(stmt, name, content) ==
  /\ stmt \in {"layout", "config", "store", "copy", "manifest", "index"}
  /\ pc = stmt /\ Idle
  /\ UNCHANGED <<delta, blobs, source, pc, i, outputLayers, patched>>
  /\ files' = [n \in DOMAIN files \cup {name} |-> IF n = name THEN Torn ELSE files[n]]
  /\ writing' = Write(name, content)
  /\ stmt = "layout" => name = LayoutFile /\ content = LayoutFile
  /\ stmt = "config" => name = delta.imageConfig
  /\ stmt = "store" => name = Layer(patched, "gogzip") /\ content = name
  /\ stmt = "copy" => name = DeltaLayer(i).digest
  /\ stmt = "manifest" => name = OutputManifest /\ content = name
  /\ stmt = "index" => name = IndexFile /\ content = Index(OutputManifest)
  /\ name = IndexFile => stmt = "index"

\* The statements between the writes.
Between ==
  HashConfig \/ NextLayer \/ LayersDone \/ VerifyDiff \/ PatchLayer \/ LayerStored \/ LayerCopied

\* The program's end, and what happens around it.
Ends == \E outcome \in {"error", "crashed"} : Running /\ Stop(outcome)
Around == (\E d \in DOMAIN blobs : Rot(d)) \/ UNCHANGED vars

LEMMA StepKinds ==
  ASSUME Control, [Next]_vars
  PROVE  \/ \E stmt, name, content : Starts(stmt, name, content)
         \/ FinishWrite \/ Between \/ Ends \/ Around
<1> USE DEF Control
<1>1. ASSUME NEW stmt, NEW name, NEW content, StartWrite(stmt, name, content)
      PROVE  /\ pc = stmt /\ Idle
             /\ UNCHANGED <<delta, blobs, source, pc, i, outputLayers, patched>>
             /\ files' = [n \in DOMAIN files \cup {name} |-> IF n = name THEN Torn ELSE files[n]]
             /\ writing' = Write(name, content)
  BY <1>1 DEF StartWrite, BeginWrite, program
<1>2. CASE WriteLayoutFile
  <2>1. Starts("layout", LayoutFile, LayoutFile)
    BY <1>1, <1>2, Kinds DEF WriteLayoutFile, Starts
  <2>2. QED
    BY <2>1
<1>3. CASE WriteConfig
  <2>1. Starts("config", delta.imageConfig, blobs[delta.imageConfig])
    BY <1>1, <1>3, TargetFacts DEF WriteConfig, Starts
  <2>2. QED
    BY <2>1
<1>4. CASE StoreLayer
  <2>1. Starts("store", Layer(patched, "gogzip"), Layer(patched, "gogzip"))
    BY <1>1, <1>4, Kinds DEF StoreLayer, Starts
  <2>2. QED
    BY <2>1
<1>5. CASE CopyLayer
  <2>1. Starts("copy", DeltaLayer(i).digest, blobs[DeltaLayer(i).digest])
    BY <1>1, <1>5, TargetFacts DEF CopyLayer, Position, Starts
  <2>2. QED
    BY <2>1
<1>6. CASE WriteManifest
  <2>1. OutputManifest # IndexFile
    BY Kinds DEF OutputManifest
  <2>2. Starts("manifest", OutputManifest, OutputManifest)
    BY <1>1, <1>6, <2>1 DEF WriteManifest, Starts
  <2>3. QED
    BY <2>2
<1>7. CASE WriteIndex
  <2>1. Starts("index", IndexFile, Index(OutputManifest))
    BY <1>1, <1>7 DEF WriteIndex, Starts
  <2>2. QED
    BY <2>1
<1>8. CASE Fail \/ Crash
  BY <1>8 DEF Fail, Crash, IO, Running, Ends
<1>9. QED
  BY <1>2, <1>3, <1>4, <1>5, <1>6, <1>7, <1>8 DEF Next, Terminating, Between, Around

\* The end of a write.
LEMMA FinishFacts ==
  ASSUME Control, FinishWrite
  PROVE  /\ ~Idle /\ Idle' /\ writing.name \in DOMAIN files
         /\ files' = [files EXCEPT ![writing.name] = writing.content]
         /\ pc \in {"layout", "config", "store", "copy", "manifest", "index"}
         /\ pc' = After[pc]
         /\ UNCHANGED <<delta, blobs, source, i, outputLayers, patched>>
         /\ pc \in {"layout", "store", "manifest"} => writing.content = writing.name
         /\ pc = "layout" => writing.name = LayoutFile
         /\ pc = "config" => writing.name = delta.imageConfig
         /\ pc = "store" => writing.name = Layer(patched, "gogzip")
         /\ pc = "copy" => writing.name = DeltaLayer(i).digest
         /\ pc = "manifest" => writing.name = OutputManifest
         /\ pc = "index" => writing.name = IndexFile /\ writing.content = Index(OutputManifest)
         /\ writing.name = IndexFile => pc = "index"
<1> USE DEF Control
<1>1. /\ ~Idle /\ Idle' /\ writing.name \in DOMAIN files
      /\ files' = [files EXCEPT ![writing.name] = writing.content]
      /\ pc \in {"layout", "config", "store", "copy", "manifest", "index"}
      /\ pc' = After[pc]
      /\ UNCHANGED <<delta, blobs, source, i, outputLayers, patched>>
  BY AfterFacts DEF FinishWrite, EndWrite, InProgress, TypeOK, Idle
<1>2. /\ pc \in {"layout", "store", "manifest"} => writing.content = writing.name
      /\ pc = "layout" => writing.name = LayoutFile
      /\ pc = "config" => writing.name = delta.imageConfig
      /\ pc = "store" => writing.name = Layer(patched, "gogzip")
      /\ pc = "copy" => writing.name = DeltaLayer(i).digest
      /\ pc = "manifest" => writing.name = OutputManifest
      /\ pc = "index" => writing.name = IndexFile /\ writing.content = Index(OutputManifest)
  BY <1>1 DEF InProgress, WriteOf, Write
<1>3. writing.name = IndexFile => pc = "index"
  BY <1>1, <1>2, Kinds, TargetFacts DEF Position, OutputManifest
<1>4. QED
  BY <1>1, <1>2, <1>3

LEMMA BetweenFacts ==
  ASSUME Control, Between
  PROVE  /\ UNCHANGED <<files, writing, delta, blobs, source>>
         /\ UNCHANGED <<Target, NLayers>>
         /\ \A k : InDelta(k)' = InDelta(k) /\ DeltaLayer(k)' = DeltaLayer(k)
         /\ pc \in {"configHash", "layer", "verify", "patch", "stored", "copyHash"}
         /\ pc' \notin {"configHash", "copyHash", "stored", "index", "ok"}
         /\ Idle /\ writing'.kind # "write"
<1> USE DEF Control, Between
<1>1. UNCHANGED <<files, writing, delta, blobs, source>>
  BY DEF HashConfig, NextLayer, LayersDone, VerifyDiff, PatchLayer, LayerStored, LayerCopied
<1>2. /\ pc \in {"configHash", "layer", "verify", "patch", "stored", "copyHash"}
      /\ pc' \notin {"configHash", "copyHash", "stored", "index", "ok"}
  BY AfterFacts DEF HashConfig, NextLayer, LayersDone, VerifyDiff, PatchLayer, LayerStored, LayerCopied
<1>3. Idle
  BY <1>2, AfterFacts DEF TypeOK, InProgress
<1>4. NotWriting.kind # "write"
  BY DEF NotWriting
<1>5. QED
  BY <1>1, <1>2, <1>3, <1>4 DEF Target, NLayers, InDelta, DeltaLayer, Idle

-----------------------------------------------------------------------------
(* The control of the program *)

LEMMA BeginControl == Begin => Control
<1> SUFFICES ASSUME Begin PROVE Control
  OBVIOUS
<1>1. NLayers \in Nat /\ DOMAIN Target.layers = 1..NLayers
  BY DeltasAssumption DEF Begin, WellFormed, NLayers, Target
<1>2. TypeOK
  BY <1>1 DEF Begin, TypeOK, Statements, Idle, NotWriting
<1>3. QED
  BY <1>1, <1>2 DEF Begin, Control, Position, InProgress

LEMMA StartsControl ==
  ASSUME Control, NEW stmt, NEW name, NEW content, Starts(stmt, name, content)
  PROVE  Control'
<1> USE DEF Control, Starts
<1>1. writing'.kind = "write" /\ writing'.name = name /\ writing'.content = content
  BY DEF Write
<1>2. /\ UNCHANGED <<Target, NLayers, OutputManifest>>
      /\ \A k : InDelta(k)' = InDelta(k) /\ DeltaLayer(k)' = DeltaLayer(k)
  BY DEF Target, NLayers, OutputManifest, InDelta, DeltaLayer
<1>3. TypeOK'
  BY <1>1, <1>2, AfterFacts DEF TypeOK
<1>4. Position'
  BY <1>2 DEF Position
<1>5. InProgress'
  BY <1>1, <1>2 DEF InProgress, WriteOf
<1>6. QED
  BY <1>3, <1>4, <1>5

LEMMA FinishControl == ASSUME Control, FinishWrite PROVE Control'
<1> USE DEF Control
<1>1. /\ UNCHANGED <<Target, NLayers>> /\ \A k : InDelta(k)' = InDelta(k)
  BY FinishFacts DEF Target, NLayers, InDelta
<1>2. Idle' /\ writing'.kind # "write"
  BY FinishFacts DEF Idle, NotWriting
<1>3. TypeOK'
  BY <1>1, <1>2, FinishFacts, AfterFacts DEF TypeOK, Statements
<1>4. Position'
  BY <1>1, FinishFacts, AfterFacts DEF Position
<1>5. QED
  BY <1>2, <1>3, <1>4 DEF InProgress

LEMMA BetweenControl == ASSUME Control, Between PROVE Control'
<1> USE DEF Control
<1>1. /\ UNCHANGED <<files, writing, delta, blobs, source, Target, NLayers>>
      /\ \A k : InDelta(k)' = InDelta(k) /\ writing'.kind # "write" /\ Idle
  BY BetweenFacts
<1>2. InProgress'
  BY <1>1, BetweenFacts DEF InProgress, Idle
<1>3. CASE HashConfig
  BY <1>1, <1>2, <1>3 DEF HashConfig, TypeOK, Position, Statements
<1>4. CASE NextLayer
  BY <1>1, <1>2, <1>4, TargetFacts DEF NextLayer, TypeOK, Position, Statements
<1>5. CASE LayersDone
  BY <1>1, <1>2, <1>5, TargetFacts, AfterFacts DEF LayersDone, TypeOK, Position, Statements
<1>6. CASE VerifyDiff
  BY <1>1, <1>2, <1>6 DEF VerifyDiff, TypeOK, Position, Statements
<1>7. CASE PatchLayer
  <2>1. patched' \in Tar
    <3>1. DeltaLayer(i).digest \in DOMAIN blobs
      BY <1>7, TargetFacts DEF PatchLayer, Position
    <3>2. blobs[DeltaLayer(i).digest].kind = "diff" => blobs[DeltaLayer(i).digest].to \in Tar
      BY <3>1, TargetFacts DEF TypeOK, Rotten
    <3>3. QED
      BY <1>7, <3>2 DEF PatchLayer, PatchResults
  <2>2. QED
    BY <1>1, <1>2, <1>7, <2>1 DEF PatchLayer, TypeOK, Position, Statements
<1>8. ASSUME NEW media, NEW digest, SetLayer(i, media, digest), pc \in {"stored", "copyHash"},
             i' = i + 1, pc' = "layer", UNCHANGED patched
      PROVE  Control'
  <2>1. i \in 1..NLayers
    BY <1>8, TargetFacts DEF Position, TypeOK
  <2>2. DOMAIN outputLayers' = 1..NLayers
    BY <1>8 DEF SetLayer, TypeOK
  <2>3. QED
    BY <1>1, <1>2, <1>8, <2>1, <2>2, TargetFacts DEF TypeOK, Position, Statements
<1>9. CASE LayerStored
  BY <1>8, <1>9 DEF LayerStored
<1>10. CASE LayerCopied
  <2>1. CASE Intact(DeltaLayer(i).digest)
    BY <1>8, <1>10, <2>1 DEF LayerCopied
  <2>2. CASE ~Intact(DeltaLayer(i).digest)
    BY <1>1, <1>2, <1>10, <2>2 DEF LayerCopied, TypeOK, Position, Statements
  <2>3. QED
    BY <2>1, <2>2
<1>11. QED
  BY <1>3, <1>4, <1>5, <1>6, <1>7, <1>9, <1>10 DEF Between

LEMMA NextControl == Control /\ [Next]_vars => Control'
<1> SUFFICES ASSUME Control, [Next]_vars PROVE Control'
  OBVIOUS
<1> USE DEF Control
<1>1. CASE Ends
  <2>1. /\ UNCHANGED <<files, delta, blobs, source, i, outputLayers, patched>>
        /\ UNCHANGED <<Target, NLayers>> /\ pc' \in {"error", "crashed"} /\ Idle'
    BY <1>1 DEF Ends, Stop, AbortWrite, Idle, Target, NLayers
  <2>2. writing'.kind # "write"
    BY <2>1 DEF Idle, NotWriting
  <2>3. TypeOK'
    BY <2>1, <2>2 DEF TypeOK, Statements
  <2>4. QED
    BY <2>1, <2>3 DEF Position, InProgress
<1>2. CASE Around
  <2>1. /\ UNCHANGED <<files, writing, delta, source, pc, i, outputLayers, patched>>
        /\ UNCHANGED <<Target, NLayers, OutputManifest>>
        /\ \A k : InDelta(k)' = InDelta(k) /\ DeltaLayer(k)' = DeltaLayer(k)
    BY <1>2 DEF Around, Rot, vars, Target, NLayers, OutputManifest, InDelta, DeltaLayer
  <2>2. DOMAIN blobs' = BlobsOf(delta) /\ \A d \in DOMAIN blobs' : blobs'[d] \in {d, Rotten}
    BY <1>2 DEF Around, Rot, vars, TypeOK
  <2>3. TypeOK'
    BY <2>1, <2>2 DEF TypeOK
  <2>4. Position' /\ InProgress'
    BY <2>1 DEF Position, InProgress, WriteOf, Idle
  <2>5. QED
    BY <2>3, <2>4
<1>3. QED
  BY <1>1, <1>2, StepKinds, StartsControl, FinishControl, BetweenControl

-----------------------------------------------------------------------------
(* What has been written *)

KeptAfter(n) ==
  \/ n \in DOMAIN files' /\ files'[n] = n
  \/ writing' # NotWriting /\ writing'.name = n
  \/ pc' = "configHash" /\ n = delta'.imageConfig
  \/ pc' = "copyHash" /\ n = DeltaLayer(i)'.digest

\* As long as the program goes on, an entry that was whole or was going to be
\* still is: a write ends whole or is hashed.
LEMMA KeptStays ==
  ASSUME Control, [Next]_vars, Alive', NEW n, n # IndexFile, Kept(n)
  PROVE  KeptAfter(n)
<1> USE DEF Kept, Intact, Has, KeptAfter
<1>1. ASSUME NEW stmt, NEW name, NEW content, Starts(stmt, name, content) PROVE KeptAfter(n)
  <2>1. writing' # NotWriting /\ writing'.name = name
    BY <1>1, Kinds DEF Starts, Write
  <2>2. ~Unhashed(n) /\ Idle
    BY <1>1 DEF Starts, Unhashed
  <2>3. QED
    BY <1>1, <2>1, <2>2 DEF Starts
<1>2. CASE FinishWrite
  <2>1. ~Unhashed(n)
    BY <1>2, FinishFacts DEF Unhashed
  <2>2. CASE n # writing.name
    BY <1>2, <2>1, <2>2, FinishFacts
  <2>3. CASE n = writing.name
    <3>1. pc \in {"layout", "store", "manifest"} \/ pc \in {"config", "copy"}
      BY <1>2, <2>3, FinishFacts
    <3>2. DeltaLayer(i)' = DeltaLayer(i)
      BY <1>2, FinishFacts DEF DeltaLayer, Target
    <3>3. QED
      BY <1>2, <2>3, <3>1, <3>2, FinishFacts, AfterFacts
  <2>4. QED
    BY <2>2, <2>3
<1>3. CASE Between
  <2>1. Intact(n)
    <3>1. pc = "configHash" /\ n = delta.imageConfig => Intact(n)
      BY <1>3 DEF Between, HashConfig, NextLayer, LayersDone, VerifyDiff, PatchLayer, LayerStored,
         LayerCopied, Alive
    <3>2. pc = "copyHash" /\ n = DeltaLayer(i).digest => Intact(n)
      BY <1>3 DEF Between, HashConfig, NextLayer, LayersDone, VerifyDiff, PatchLayer, LayerStored,
         LayerCopied, Alive
    <3>3. QED
      BY <1>3, <3>1, <3>2, BetweenFacts DEF Unhashed
  <2>2. QED
    BY <1>3, <2>1, BetweenFacts
<1>4. CASE Ends
  BY <1>4 DEF Ends, Stop, Alive
<1>5. CASE Around
  <2>1. UNCHANGED <<files, writing, delta, pc, i>>
    BY <1>5 DEF Around, Rot, vars
  <2>2. DeltaLayer(i)' = DeltaLayer(i)
    BY <2>1 DEF DeltaLayer, Target
  <2>3. QED
    BY <2>1, <2>2 DEF Unhashed, Idle
<1>6. QED
  BY <1>1, <1>2, <1>3, <1>4, <1>5, StepKinds

\* A program that goes on was going on.
LEMMA StaysAlive == ASSUME Control, [Next]_vars, Alive' PROVE Alive
<1>1. Between => Alive
  BY BetweenFacts DEF Alive
<1>2. FinishWrite => Alive
  BY FinishFacts DEF Alive
<1>3. Around => Alive
  BY DEF Around, Rot, vars, Alive
<1>4. QED
  BY <1>1, <1>2, <1>3, StepKinds DEF Starts, Ends, Stop, Alive

LEMMA NextRewritten == ASSUME Control, Rewritten, [Next]_vars PROVE Rewritten'
<1> SUFFICES ASSUME Alive' PROVE Rewritten'
  BY DEF Rewritten
<1> USE DEF Control
<1>1. Alive
  BY StaysAlive
<1>2. /\ pc # "layout" => KeptAfter(LayoutFile)
      /\ pc \notin {"layout", "config"} => KeptAfter(delta.imageConfig)
      /\ pc = "stored" => KeptAfter(Layer(patched, "gogzip"))
      /\ \A k \in 1..NLayers : k < i /\ InDelta(k) =>
           outputLayers[k].digest # IndexFile /\ KeptAfter(outputLayers[k].digest)
      /\ pc \in {"index", "ok"} => KeptAfter(OutputManifest)
  <2>1. OutputManifest # IndexFile
    BY Kinds DEF OutputManifest
  <2>2. QED
    BY <1>1, <2>1, KeptStays, Kinds, TargetFacts DEF Rewritten
<1>3. \A n : KeptAfter(n) =>
        /\ n = LayoutFile => Kept(LayoutFile)'
        /\ n = delta'.imageConfig => Kept(delta.imageConfig)'
        /\ n = Layer(patched', "gogzip") => Kept(Layer(patched, "gogzip"))'
        /\ \A k \in 1..NLayers : n = outputLayers'[k].digest => Kept(outputLayers[k].digest)'
        /\ n = OutputManifest' => Kept(OutputManifest)'
  BY DEF Kept, KeptAfter, Intact, Has, Unhashed, Idle
<1> DEFINE Goal == /\ pc' # "layout" => KeptAfter(LayoutFile)
                   /\ pc' \notin {"layout", "config"} => KeptAfter(delta'.imageConfig)
                   /\ pc' = "stored" => KeptAfter(Layer(patched', "gogzip"))
                   /\ \A k \in 1..NLayers : k < i' /\ InDelta(k) =>
                        outputLayers'[k].digest # IndexFile /\ KeptAfter(outputLayers'[k].digest)
                   /\ pc' \in {"index", "ok"} => KeptAfter(OutputManifest')
<1>4. SUFFICES UNCHANGED delta /\ Goal
  <2>1. UNCHANGED delta => UNCHANGED NLayers /\ \A k : InDelta(k)' = InDelta(k)
    BY DEF Target, NLayers, InDelta
  <2> HIDE DEF Goal
  <2>2. UNCHANGED delta /\ Goal => Rewritten'
    <3> USE DEF Goal
    <3>1. QED
      BY <1>3, <2>1 DEF Rewritten
  <2>3. QED
    BY <2>2
<1>5. CASE UNCHANGED <<pc, delta, i, outputLayers, patched>>
  BY <1>2, <1>5 DEF OutputManifest, Target
<1>6. CASE FinishWrite
  <2>1. UNCHANGED <<delta, i, outputLayers, patched, OutputManifest>> /\ pc' = After[pc]
        /\ pc \in {"layout", "config", "store", "copy", "manifest", "index"}
    BY <1>6, FinishFacts DEF OutputManifest, Target
  <2>2. pc # "index" => KeptAfter(writing.name)
    <3>1. DeltaLayer(i)' = DeltaLayer(i)
      BY <1>6, FinishFacts DEF DeltaLayer, Target
    <3>2. QED
      BY <1>6, <3>1, FinishFacts, AfterFacts DEF KeptAfter
  <2>3. QED
    BY <1>2, <1>6, <2>1, <2>2, FinishFacts, AfterFacts
<1>7. CASE Between
  <2>1. UNCHANGED delta /\ pc' \notin {"stored", "index", "ok"} /\ pc \notin {"layout", "config"}
    BY <1>7, BetweenFacts
  <2>2. ASSUME NEW k \in 1..NLayers, k < i', InDelta(k)
        PROVE  outputLayers'[k].digest # IndexFile /\ KeptAfter(outputLayers'[k].digest)
    <3>1. CASE outputLayers' = outputLayers /\ (i' = i \/ (i' = i + 1 /\ ~InDelta(i)))
      BY <1>2, <2>2, <3>1 DEF TypeOK
    <3>2. ASSUME NEW media, NEW digest, SetLayer(i, media, digest), i' = i + 1,
                 pc \in {"stored", "copyHash"}, digest # IndexFile, KeptAfter(digest)
          PROVE  outputLayers'[k].digest # IndexFile /\ KeptAfter(outputLayers'[k].digest)
      <4>1. i \in 1..NLayers /\ DOMAIN outputLayers = 1..NLayers
        BY <3>2, TargetFacts DEF Position, TypeOK
      <4>2. /\ outputLayers'[i].digest = digest
            /\ \A j \in 1..NLayers : j # i => outputLayers'[j] = outputLayers[j]
        BY <3>2, <4>1 DEF SetLayer, Descriptor
      <4>3. QED
        BY <1>2, <2>2, <3>2, <4>1, <4>2
    <3>3. CASE LayerStored
      <4>1. pc = "stored"
        BY <3>3 DEF LayerStored
      <4>2. QED
        BY <1>2, <3>2, <3>3, <4>1, Kinds DEF LayerStored
    <3>4. CASE LayerCopied
      <4>1. CASE Intact(DeltaLayer(i).digest)
        <5>1. DeltaLayer(i).digest # IndexFile /\ UNCHANGED files
          BY <3>4, TargetFacts DEF LayerCopied, Position
        <5>2. KeptAfter(DeltaLayer(i).digest)
          BY <4>1, <5>1 DEF KeptAfter, Intact, Has
        <5>3. QED
          BY <3>2, <3>4, <4>1, <5>1, <5>2 DEF LayerCopied
      <4>2. CASE ~Intact(DeltaLayer(i).digest)
        <5>1. outputLayers' = outputLayers /\ i' = i
          BY <3>4, <4>2 DEF LayerCopied
        <5>2. QED
          BY <3>1, <5>1
      <4>3. QED
        BY <4>1, <4>2
    <3>5. CASE HashConfig \/ NextLayer \/ LayersDone \/ VerifyDiff \/ PatchLayer
      <4>1. outputLayers' = outputLayers /\ (i' = i \/ (i' = i + 1 /\ ~InDelta(i)))
        BY <3>5 DEF HashConfig, NextLayer, LayersDone, VerifyDiff, PatchLayer
      <4>2. QED
        BY <3>1, <4>1
    <3>6. QED
      BY <1>7, <3>3, <3>4, <3>5 DEF Between
  <2>3. QED
    BY <1>2, <2>1, <2>2
<1>8. CASE \E stmt, name, content : Starts(stmt, name, content)
  BY <1>5, <1>8 DEF Starts
<1>9. CASE Around
  BY <1>5, <1>9 DEF Around, Rot, vars
<1>10. CASE Ends
  BY <1>10 DEF Ends, Stop, Alive
<1>11. QED
  BY <1>6, <1>7, <1>8, <1>9, <1>10, StepKinds

-----------------------------------------------------------------------------
(* A layout that was empty *)

LEMMA InitIInv == Init => IInv
<1> SUFFICES ASSUME Init PROVE IInv
  OBVIOUS
<1>1. DOMAIN files = {} /\ Begin
  BY DEF Init, WriterInit, Idle, Begin
<1>2. Control /\ pc = "layout" /\ i = 1
  BY <1>1, BeginControl DEF Begin
<1>3. Rewritten
  BY <1>2, TargetFacts DEF Rewritten, Control
<1>4. QED
  BY <1>1, <1>2, <1>3 DEF IInv, Secure, IndexLast, Has

LEMMA NextIInv == IInv /\ [Next]_vars => IInv'
<1> SUFFICES ASSUME IInv, [Next]_vars PROVE IInv'
  OBVIOUS
<1> USE DEF IInv
<1>1. Control' /\ Rewritten'
  BY NextControl, NextRewritten
<1>2. Secure'
  <2> SUFFICES ASSUME Alive', NEW n \in DOMAIN files' \ {IndexFile} PROVE KeptAfter(n)
    BY DEF Secure, Kept, KeptAfter, Intact, Has, Unhashed, Idle
  <2>1. CASE n \in DOMAIN files
    BY <2>1, StaysAlive, KeptStays DEF Secure
  <2>2. CASE n \notin DOMAIN files
    <3>1. ~FinishWrite /\ ~Between /\ ~Ends /\ ~Around
      BY <2>2, FinishFacts, BetweenFacts DEF Ends, Stop, AbortWrite, Around, Rot, vars
    <3>2. PICK stmt, name, content : Starts(stmt, name, content)
      BY <3>1, StepKinds
    <3>3. n = name /\ writing' = Write(name, content)
      BY <2>2, <3>2 DEF Starts
    <3>4. QED
      BY <3>3, Kinds DEF KeptAfter, Write
  <2>3. QED
    BY <2>1, <2>2
<1>3. IndexLast'
  <2>1. ASSUME NEW stmt, NEW name, NEW content, Starts(stmt, name, content) PROVE IndexLast'
    BY <2>1 DEF Starts, IndexLast, Has
  <2>2. CASE FinishWrite
    <3>1. UNCHANGED OutputManifest
      BY <2>2, FinishFacts DEF OutputManifest, Target
    <3>2. QED
      BY <2>2, <3>1, FinishFacts, AfterFacts DEF IndexLast, Has
  <2>3. CASE Between
    BY <2>3, BetweenFacts DEF IndexLast, Has
  <2>4. CASE Ends
    BY <2>4 DEF Ends, Stop, AbortWrite, Running, IndexLast, Has
  <2>5. CASE Around
    BY <2>5 DEF Around, Rot, vars, IndexLast, Has, OutputManifest, Target
  <2>6. QED
    BY <2>1, <2>2, <2>3, <2>4, <2>5, StepKinds DEF IInv
<1>4. QED
  BY <1>1, <1>2, <1>3

-----------------------------------------------------------------------------

\* The inductive invariant holds in every run of ApplyDelta.
THEOREM ApplyInvariant == Spec => []IInv
<1>1. QED
  BY InitIInv, NextIInv, PTL DEF Spec

\* Everything this run has written is whole when it succeeds.
LEMMA WholeAtTheEnd ==
  ASSUME Control, Rewritten, pc = "ok"
  PROVE  /\ i = NLayers + 1
         /\ Intact(LayoutFile) /\ Intact(delta.imageConfig) /\ Intact(OutputManifest)
         /\ \A k \in 1..NLayers : InDelta(k) =>
              outputLayers[k].digest # IndexFile /\ Intact(outputLayers[k].digest)
         /\ \A n : Kept(n) => Intact(n)
<1>1. Idle /\ i = NLayers + 1
  BY AfterFacts DEF Control, TypeOK, Position, InProgress
<1>2. \A n : Kept(n) => Intact(n)
  BY <1>1 DEF Kept, Unhashed
<1>3. \A k \in 1..NLayers : k < i
  BY <1>1, TargetFacts DEF Control
<1>4. QED
  BY <1>1, <1>2, <1>3 DEF Rewritten, Alive

\* An index.json that parses leads to nothing that is not there, intact.
LEMMA WholeIsComplete == IInv => PublishedIsComplete
<1> SUFFICES ASSUME IInv, Published PROVE PublishedIsComplete
  BY DEF PublishedIsComplete
<1>1. pc = "ok" /\ PublishedManifest = OutputManifest
  BY DEF IInv, IndexLast, Published, PublishedManifest, Index
<1>2. PublishedManifest.config = delta.imageConfig /\ PublishedManifest.layers = outputLayers
  BY <1>1, TargetFacts DEF IInv, Control, OutputManifest, Manifest
<1>3. QED
  BY <1>1, <1>2, WholeAtTheEnd DEF IInv, PublishedIsComplete, LayerDigest

\* A layout that has an index.json which parses has everything the index
\* leads to, intact: for any delta and any data source.
THEOREM OnlyWholeImages == Spec => []PublishedIsComplete
<1>1. QED
  BY WholeIsComplete, ApplyInvariant, PTL

\* Reporting an error and leaving an image that opens exclude one another.
THEOREM ErrorsPublishNothing == Spec => []ErrorPublishesNothing
<1>1. IInv => ErrorPublishesNothing
  BY DEF IInv, IndexLast, Published, ErrorPublishesNothing
<1>2. QED
  BY <1>1, ApplyInvariant, PTL

\* Once the image can be opened only the program's end is left.
LEMMA PublishedStays == IInv /\ [Next]_vars /\ Published => UNCHANGED <<files, delta>>
<1> SUFFICES ASSUME IInv, Next, Published PROVE UNCHANGED <<files, delta>>
  BY DEF vars
<1>1. pc = "ok"
  BY DEF IInv, IndexLast, Published
<1>2. Idle
  BY <1>1, AfterFacts DEF IInv, Control, TypeOK, InProgress
<1>3. QED
  BY <1>1, <1>2 DEF Next, WriteLayoutFile, WriteConfig, StoreLayer, CopyLayer, WriteManifest,
     WriteIndex, StartWrite, FinishWrite, EndWrite, HashConfig, NextLayer, LayersDone,
     VerifyDiff, PatchLayer, LayerStored, LayerCopied, Fail, IO, Crash, Running, Rot,
     Terminating, vars

\* index.json is the last thing written.
THEOREM IndexIsTheCommit == Spec => NothingAfterIndex
<1>1. IInv /\ [Next]_vars => [Published => UNCHANGED files]_vars
  BY PublishedStays
<1>2. QED
  BY <1>1, ApplyInvariant, PTL DEF NothingAfterIndex, Spec

-----------------------------------------------------------------------------
(* ApplyDelta publishes the target *)

\* What layer k of the delta is in the layout: the tar of the config, compressed
\* here, or the blob the delta carries.
StoredAs(k) ==
  IF DeltaLayer(k).media = "tar-diff" THEN Layer(delta.imageConfig.diffIDs[k], "gogzip")
  ELSE DeltaLayer(k).digest

\* The layers done so far are that, the others are as in the target manifest.
Reflected ==
  /\ pc \in {"store", "stored"} => patched = delta.imageConfig.diffIDs[i]
  /\ pc \in {"verify", "patch", "store", "stored"} => DeltaLayer(i).media = "tar-diff"
  /\ pc \in {"copy", "copyHash"} => DeltaLayer(i).media # "tar-diff"
  /\ \A k \in 1..NLayers :
       IF k < i /\ InDelta(k)
         THEN outputLayers[k].digest = StoredAs(k)
         ELSE outputLayers[k] = Target.layers[k]

LEMMA HonestFacts ==
  ASSUME HonestDeltas, TypeOK
  PROVE  /\ delta.imageConfig.diffIDs \in Seq(Tar)
         /\ Len(delta.imageConfig.diffIDs) = NLayers
         /\ \A k \in 1..NLayers :
              /\ ExpectedDiffID(k) = delta.imageConfig.diffIDs[k]
              /\ ExpectedDiffID(k) \in Tar
              /\ InDelta(k) /\ DeltaLayer(k).media # "tar-diff" =>
                   DeltaLayer(k).digest.tar = delta.imageConfig.diffIDs[k]
              /\ ~InDelta(k) => /\ LayerDigest(Target, k).tar = delta.imageConfig.diffIDs[k]
                                /\ LayerDigest(Target, k) # IndexFile
<1>1. Honest(delta)
  BY DEF HonestDeltas, TypeOK
<1>2. delta.imageConfig.diffIDs \in Seq(Tar) /\ Len(delta.imageConfig.diffIDs) = NLayers
  BY <1>1 DEF Honest, NLayers, Target
<1>3. \A k \in 1..NLayers : /\ ExpectedDiffID(k) = delta.imageConfig.diffIDs[k]
                            /\ ExpectedDiffID(k) \in Tar
  BY <1>2 DEF ExpectedDiffID, DiffIDAt
<1>4. QED
  BY <1>1, <1>2, <1>3 DEF Honest, NLayers, Target, InDelta, DeltaLayer, LayerDigest

\* Of honest deltas: they stand for the tars of the config.
LEMMA ReflectedTars ==
  ASSUME HonestDeltas, TypeOK, Reflected, NEW k \in 1..NLayers, k < i, InDelta(k)
  PROVE  outputLayers[k].digest.tar = delta.imageConfig.diffIDs[k]
<1>1. outputLayers[k].digest = StoredAs(k)
  BY DEF Reflected
<1>2. Layer(delta.imageConfig.diffIDs[k], "gogzip").tar = delta.imageConfig.diffIDs[k]
  BY DEF Layer
<1>3. QED
  BY <1>1, <1>2, HonestFacts DEF StoredAs

LEMMA BeginReflected == Begin => Reflected
<1> SUFFICES ASSUME Begin PROVE Reflected
  OBVIOUS
<1>1. NLayers \in Nat
  BY BeginControl, TargetFacts DEF Control
<1>2. QED
  BY <1>1 DEF Begin, Reflected

LEMMA NextReflected ==
  ASSUME HonestDeltas, Control, Reflected, [Next]_vars
  PROVE  Reflected'
<1> USE DEF Control
<1>1. CASE UNCHANGED <<delta, i, outputLayers, patched>>
           /\ (UNCHANGED pc \/ pc' \notin {"verify", "patch", "store", "stored", "copy", "copyHash"})
  BY <1>1 DEF Reflected, StoredAs, Target, NLayers, InDelta, DeltaLayer
<1>2. CASE FinishWrite
  <2>1. /\ pc \in {"layout", "config", "store", "copy", "manifest", "index"} /\ pc' = After[pc]
        /\ UNCHANGED <<delta, i, outputLayers, patched>>
    BY <1>2, AfterFacts DEF FinishWrite, EndWrite, InProgress, TypeOK
  <2>2. QED
    BY <2>1, AfterFacts DEF Reflected, StoredAs, Target, NLayers, InDelta, DeltaLayer
<1>3. CASE NextLayer
  <2>1. UNCHANGED <<Target, NLayers, outputLayers, patched, delta>>
        /\ \A k : InDelta(k)' = InDelta(k) /\ DeltaLayer(k)' = DeltaLayer(k)
    BY <1>3 DEF NextLayer, Target, NLayers, InDelta, DeltaLayer
  <2>2. QED
    BY <1>3, <2>1, TargetFacts DEF NextLayer, Reflected, StoredAs, TypeOK
<1>4. CASE PatchLayer
  <2>1. UNCHANGED <<Target, NLayers, outputLayers, i, delta>>
        /\ \A k : InDelta(k)' = InDelta(k) /\ DeltaLayer(k)' = DeltaLayer(k)
    BY <1>4 DEF PatchLayer, Target, NLayers, InDelta, DeltaLayer
  <2>2. i \in 1..NLayers
    BY <1>4, TargetFacts DEF PatchLayer, Position, TypeOK
  <2>3. pc' = "store" => patched' = delta.imageConfig.diffIDs[i]
    BY <1>4, <2>2, HonestFacts, DiffIDAssumption DEF PatchLayer
  <2>4. QED
    BY <1>4, <2>1, <2>3 DEF PatchLayer, Reflected, StoredAs
<1>5. ASSUME NEW media, NEW digest, SetLayer(i, media, digest), i \in 1..NLayers, InDelta(i),
             digest = StoredAs(i), i' = i + 1, pc' = "layer",
             UNCHANGED delta
      PROVE  Reflected'
  <2>1. UNCHANGED <<Target, NLayers>> /\ \A k : InDelta(k)' = InDelta(k) /\ StoredAs(k)' = StoredAs(k)
    BY <1>5 DEF Target, NLayers, InDelta, StoredAs, DeltaLayer
  <2>2. /\ outputLayers'[i].digest = digest
        /\ \A k \in 1..NLayers : k # i => outputLayers'[k] = outputLayers[k]
    BY <1>5 DEF SetLayer, Descriptor, TypeOK
  <2>3. QED
    BY <1>5, <2>1, <2>2, TargetFacts DEF Reflected, TypeOK
<1>6. pc \in {"stored", "copyHash"} => i \in 1..NLayers /\ InDelta(i)
  BY TargetFacts DEF Position, TypeOK
<1>7. CASE LayerStored
  <2>1. Layer(patched, "gogzip") = StoredAs(i)
    BY <1>7 DEF LayerStored, Reflected, StoredAs
  <2>2. QED
    BY <1>5, <1>6, <1>7, <2>1 DEF LayerStored, Reflected
<1>8. CASE LayerCopied
  <2>1. CASE Intact(DeltaLayer(i).digest)
    BY <1>5, <1>6, <1>8, <2>1 DEF LayerCopied, Reflected, StoredAs
  <2>2. CASE ~Intact(DeltaLayer(i).digest)
    BY <1>1, <1>8, <2>2 DEF LayerCopied
  <2>3. QED
    BY <2>1, <2>2
<1>9. CASE WriteLayoutFile \/ WriteConfig \/ StoreLayer \/ CopyLayer \/ WriteManifest \/ WriteIndex
  BY <1>1, <1>9 DEF WriteLayoutFile, WriteConfig, StoreLayer, CopyLayer, WriteManifest, WriteIndex,
     StartWrite, program
<1>10. CASE HashConfig \/ LayersDone \/ VerifyDiff
  <2>1. CASE VerifyDiff
    BY <2>1 DEF VerifyDiff, Reflected, StoredAs, Target, NLayers, InDelta, DeltaLayer
  <2>2. QED
    BY <1>1, <1>10, <2>1, AfterFacts DEF HashConfig, LayersDone
<1>11. CASE Fail \/ Crash \/ \E b \in DOMAIN blobs : Rot(b)
  BY <1>1, <1>11 DEF Fail, Crash, Stop, Rot
<1>12. CASE UNCHANGED vars
  BY <1>1, <1>12 DEF vars
<1>13. QED
  BY <1>2, <1>3, <1>4, <1>7, <1>8, <1>9, <1>10, <1>11, <1>12 DEF Next, Terminating

\* What a reader sees of a layout that opens is what the config lists.
LEMMA SeenIsTarget ==
  ASSUME HonestDeltas, IInv, Reflected, Published
  PROVE  Seen = delta.imageConfig.diffIDs
<1> USE DEF IInv, Control
<1>1. /\ pc = "ok" /\ PublishedManifest = OutputManifest /\ i = NLayers + 1
      /\ \A n \in DOMAIN files \ {IndexFile} : Intact(n)
  <2>1. pc = "ok" /\ PublishedManifest = OutputManifest
    BY DEF IndexLast, Published, PublishedManifest, Index
  <2>2. QED
    BY <2>1, WholeAtTheEnd DEF Secure, Alive
<1>2. Intact(OutputManifest) /\ Intact(delta.imageConfig)
  BY <1>1, WholeAtTheEnd
<1>3. PublishedManifest.config = delta.imageConfig /\ PublishedManifest.layers = outputLayers
  BY <1>1, TargetFacts DEF OutputManifest, Manifest
<1>4. \A k \in 1..NLayers : LayerSeen(k) = delta.imageConfig.diffIDs[k]
  <2> SUFFICES ASSUME NEW k \in 1..NLayers PROVE LayerSeen(k) = delta.imageConfig.diffIDs[k]
    OBVIOUS
  <2> DEFINE n == outputLayers[k].digest
  <2>1. LayerDigest(PublishedManifest, k) = n /\ k < i
    BY <1>1, <1>3, TargetFacts DEF LayerDigest
  <2>2. n # IndexFile /\ n.tar = delta.imageConfig.diffIDs[k] /\ (InDelta(k) => Has(n))
    <3>1. CASE InDelta(k)
      BY <1>1, <2>1, <3>1, WholeAtTheEnd, ReflectedTars DEF Intact
    <3>2. CASE ~InDelta(k)
      BY <2>1, <3>2, HonestFacts DEF Reflected, LayerDigest
    <3>3. QED
      BY <3>1, <3>2
  <2>3. Has(n) => Intact(n)
    BY <1>1, <2>2 DEF Has
  <2>4. QED
    BY <2>1, <2>2, <2>3, HonestFacts DEF LayerSeen
<1>5. Seen = [k \in 1..NLayers |-> LayerSeen(k)]
  BY <1>1, <1>2, <1>3 DEF Seen
<1>6. delta.imageConfig.diffIDs = [k \in 1..NLayers |-> delta.imageConfig.diffIDs[k]]
  BY HonestFacts
<1>7. QED
  BY <1>4, <1>5, <1>6

\* Given deltas whose untouched layers are what they claim to be, ApplyDelta
\* shows its reader nothing, and then at once the tars the config lists: from
\* any data source, whatever the tar-diffs hold and whatever rots or fails.
THEOREM ApplyPublishesTarget ==
  ASSUME HonestDeltas
  PROVE  Spec => PublishesTheTarget
<1>1. Init => Promise!Init
  BY DEF Init, WriterInit, Seen, Published, Has, Promise!Init
<1>2. IInv /\ Reflected /\ Published => Seen = delta.imageConfig.diffIDs
  BY SeenIsTarget
<1>3. (IInv /\ Reflected /\ Published => Seen = delta.imageConfig.diffIDs)'
  BY <1>2, PTL
<1>4. IInv /\ Reflected /\ IInv' /\ Reflected' /\ [Next]_vars => [Promise!PublishGoal]_Promise!vars
  <2> SUFFICES ASSUME IInv, Reflected, IInv', Reflected', [Next]_vars
               PROVE  [Promise!PublishGoal]_Promise!vars
    OBVIOUS
  <2>1. Published => Seen = delta.imageConfig.diffIDs
    BY <1>2
  <2>2. Published' => Seen' = delta'.imageConfig.diffIDs
    BY <1>3
  <2>3. UNCHANGED delta
    BY DEF Next, WriteLayoutFile, WriteConfig, StoreLayer, CopyLayer, WriteManifest,
       WriteIndex, StartWrite, program, FinishWrite, HashConfig, NextLayer, LayersDone,
       VerifyDiff, PatchLayer, LayerStored, LayerCopied, Fail, Crash, Stop, Rot,
       Terminating, vars
  <2>4. CASE Published
    <3>1. Published'
      BY <2>4, PublishedStays DEF Published, Has
    <3>2. QED
      BY <2>1, <2>2, <2>3, <2>4, <3>1 DEF Promise!vars
  <2>5. CASE ~Published /\ Published'
    BY <2>2, <2>3, <2>5 DEF Seen, Promise!PublishGoal
  <2>6. CASE ~Published /\ ~Published'
    BY <2>3, <2>6 DEF Seen, Promise!vars
  <2>7. QED
    BY <2>4, <2>5, <2>6
<1>5. Init => Reflected
  BY BeginReflected DEF Init, WriterInit, Idle, Begin
<1>6. IInv => Control
  BY DEF IInv
<1>7. QED
  BY <1>1, <1>4, <1>5, <1>6, NextReflected, ApplyInvariant, PTL
  DEF PublishesTheTarget, Promise!Spec, Spec

-----------------------------------------------------------------------------
(* A run in which nothing fails *)

\* The delta's blobs are what their digests say, and so is what was copied.
Unharmed ==
  /\ \A d \in DOMAIN blobs : blobs[d] = d
  /\ Alive
  /\ pc \in {"verify", "patch"} => DeltaLayer(i).media = "tar-diff"
  /\ ~Idle /\ pc \in {"config", "copy"} => writing.content = writing.name
  /\ pc = "configHash" => Intact(delta.imageConfig)
  /\ pc = "copyHash" => Intact(DeltaLayer(i).digest)

\* Each tar-diff was made from the filesystem at hand, into the layer it is for.
Fits ==
  \A k \in 1..NLayers : InDelta(k) /\ DeltaLayer(k).media = "tar-diff" =>
    DeltaLayer(k).digest = Diff(source, delta.imageConfig.diffIDs[k])

Writes ==
  WriteLayoutFile \/ WriteConfig \/ StoreLayer \/ CopyLayer \/ WriteManifest \/ WriteIndex

\* Nothing is damaged by the statements themselves: no check of apply.go
\* rejects a delta made from the filesystem it is applied to.
LEMMA WorkUnharmed ==
  ASSUME HonestDeltas, Control, Unharmed, Fits, Writes \/ FinishWrite \/ Between
  PROVE  Unharmed'
<1> USE DEF Control
<1>1. ASSUME NEW stmt \in {"layout", "config", "store", "copy", "manifest", "index"},
             NEW name, NEW content, StartWrite(stmt, name, content),
             stmt \in {"config", "copy"} => content = name
      PROVE  Unharmed'
  <2>1. /\ pc = stmt /\ UNCHANGED <<delta, blobs, source, pc, i, outputLayers, patched>>
        /\ writing' = Write(name, content)
    BY <1>1 DEF StartWrite, BeginWrite, program
  <2>2. \A k : DeltaLayer(k)' = DeltaLayer(k)
    BY <2>1 DEF DeltaLayer, Target
  <2>3. pc \notin {"configHash", "copyHash"}
    BY <2>1
  <2>4. QED
    BY <1>1, <2>1, <2>2, <2>3 DEF Unharmed, Alive, Write
<1>2. CASE WriteConfig
  <2>1. blobs[delta.imageConfig] = delta.imageConfig
    BY TargetFacts DEF Unharmed
  <2>2. QED
    BY <1>1, <1>2, <2>1 DEF WriteConfig
<1>3. CASE CopyLayer
  <2>1. InDelta(i)
    BY <1>3 DEF CopyLayer, StartWrite, Position
  <2>2. blobs[DeltaLayer(i).digest] = DeltaLayer(i).digest
    BY <2>1, TargetFacts DEF Unharmed
  <2>3. QED
    BY <1>1, <1>3, <2>2 DEF CopyLayer
<1>4. CASE WriteLayoutFile \/ StoreLayer \/ WriteManifest \/ WriteIndex
  BY <1>1, <1>4 DEF WriteLayoutFile, StoreLayer, WriteManifest, WriteIndex
<1>5. CASE FinishWrite
  <2>1. \A k : DeltaLayer(k)' = DeltaLayer(k)
    BY FinishFacts, <1>5 DEF DeltaLayer, Target
  <2>2. pc \in {"config", "copy"} =>
          writing.name \in DOMAIN files' /\ files'[writing.name] = writing.name
    BY FinishFacts, <1>5 DEF Unharmed
  <2>3. pc' = After[pc] /\ pc \in {"layout", "config", "store", "copy", "manifest", "index"}
        /\ UNCHANGED <<delta, blobs, i>> /\ Idle'
        /\ (pc = "config" => writing.name = delta.imageConfig)
        /\ (pc = "copy" => writing.name = DeltaLayer(i).digest)
    BY FinishFacts, <1>5
  <2>4. pc' = "configHash" => Intact(delta.imageConfig)'
    BY <2>2, <2>3, AfterFacts DEF Intact, Has
  <2>5. pc' = "copyHash" => Intact(DeltaLayer(i).digest)'
    BY <2>1, <2>2, <2>3, AfterFacts DEF Intact, Has
  <2>6. Alive' /\ pc' \notin {"verify", "patch"}
    BY <2>3, AfterFacts DEF Alive
  <2>7. QED
    BY <2>1, <2>3, <2>4, <2>5, <2>6 DEF Unharmed
<1>6. ASSUME Between PROVE Unharmed'
  <2>1. /\ UNCHANGED <<files, writing, delta, blobs>> /\ Idle /\ Idle'
        /\ pc' \notin {"configHash", "copyHash"}
        /\ \A k : DeltaLayer(k)' = DeltaLayer(k)
    BY <1>6, BetweenFacts DEF Idle
  <2>2. ASSUME pc' \notin {"verify", "patch", "error", "crashed"} PROVE Unharmed'
    BY <2>1, <2>2 DEF Unharmed, Alive
  <2>3. CASE HashConfig
    BY <2>2, <2>3 DEF HashConfig, Unharmed
  <2>4. CASE NextLayer
    BY <2>1, <2>4 DEF NextLayer, Unharmed, Alive
  <2>5. CASE LayersDone
    BY <2>2, <2>5, AfterFacts DEF LayersDone
  <2>6. CASE VerifyDiff
    <3>1. InDelta(i)
      BY <2>6 DEF VerifyDiff, Position
    <3>2. blobs[DeltaLayer(i).digest] = DeltaLayer(i).digest
      BY <3>1, TargetFacts DEF Unharmed
    <3>3. QED
      BY <2>1, <2>6, <3>2 DEF VerifyDiff, Unharmed, Alive
  <2>7. CASE PatchLayer
    <3>1. InDelta(i) /\ i \in 1..NLayers /\ DeltaLayer(i).media = "tar-diff"
      BY <2>7, TargetFacts DEF PatchLayer, Position, Unharmed, TypeOK
    <3>2. blobs[DeltaLayer(i).digest] = Diff(source, delta.imageConfig.diffIDs[i])
      BY <3>1, TargetFacts DEF Unharmed, Fits
    <3>3. patched' = delta.imageConfig.diffIDs[i]
      BY <2>7, <3>2 DEF PatchLayer, PatchResults, Diff
    <3>4. pc' = "store"
      BY <2>7, <3>1, <3>3, HonestFacts DEF PatchLayer
    <3>5. QED
      BY <2>2, <3>4
  <2>8. CASE LayerStored
    BY <2>2, <2>8 DEF LayerStored
  <2>9. CASE LayerCopied
    BY <2>2, <2>9 DEF LayerCopied, Unharmed
  <2>10. QED
    BY <1>6, <2>3, <2>4, <2>5, <2>6, <2>7, <2>8, <2>9 DEF Between
<1>7. QED
  BY <1>2, <1>3, <1>4, <1>5, <1>6 DEF Writes

\* The layers of the output manifest are a list, as those of the target are.
Listed == outputLayers = [k \in 1..NLayers |-> outputLayers[k]]

LEMMA BeginListed == Begin => Listed
<1> SUFFICES ASSUME Begin PROVE Listed
  OBVIOUS
<1>1. WellFormed(delta)
  BY DeltasAssumption DEF Begin
<1>2. DOMAIN Target.layers = 1..NLayers
  BY BeginControl, TargetFacts DEF Control
<1>3. Target.layers = [k \in 1..NLayers |-> Target.layers[k]]
  <2>1. ASSUME NEW S, Target.layers \in Seq(S) PROVE Target.layers = [k \in 1..NLayers |-> Target.layers[k]]
    BY <2>1 DEF NLayers
  <2>2. QED
    BY <1>1, <2>1 DEF WellFormed, Target
<1>4. QED
  BY <1>3 DEF Begin, Listed

LEMMA NextListed ==
  ASSUME Control, Listed, [Next]_vars
  PROVE  Listed'
<1>1. CASE UNCHANGED <<delta, outputLayers>>
  BY <1>1 DEF Listed, NLayers, Target
<1>2. ASSUME UNCHANGED delta, NEW d, outputLayers' = [outputLayers EXCEPT ![i] = d]
      PROVE  Listed'
  <2>1. UNCHANGED NLayers
    BY <1>2 DEF NLayers, Target
  <2>2. QED
    BY <1>2, <2>1 DEF Listed
<1>3. CASE LayerStored \/ LayerCopied
  BY <1>1, <1>2, <1>3 DEF LayerStored, LayerCopied, SetLayer
<1>4. QED
  BY <1>1, <1>3 DEF Next, WriteLayoutFile, WriteConfig, StoreLayer, CopyLayer, WriteManifest,
     WriteIndex, StartWrite, program, FinishWrite, HashConfig, NextLayer, LayersDone,
     VerifyDiff, PatchLayer, Fail, Crash, Stop, Rot, Terminating, vars

-----------------------------------------------------------------------------
(* ApplyAgain: runs one after another on one output, for any deltas, data    *)
(* sources and number of runs, and whatever failed, rotted or crashed        *)
(* before.  To what holds within a run the invariant adds what happens to    *)
(* the files the run found.                                                  *)

\* The blobs that were whole when the run began are, or will be.
SoFar ==
  Alive => \A n \in DOMAIN found : found[n] = n => n # IndexFile /\ Kept(n)

\* index.json is not mistaken for a blob.
IndexNamed == Has(IndexFile) => files[IndexFile] # IndexFile

\* A run that succeeded has written its own index.json last.
Committed == pc = "ok" => Has(IndexFile) /\ files[IndexFile] = Index(OutputManifest)

\* OneBlobAtRisk, without counting.
AtMostOne == \E n : Damaged \subseteq {n}

AgainInv == Control /\ Rewritten /\ SoFar /\ IndexNamed /\ Committed /\ AtMostOne

-----------------------------------------------------------------------------

\* The one blob at risk is the one that is being written or is to be hashed.
LEMMA DamageWhileAlive ==
  ASSUME Control, SoFar, Alive
  PROVE  AtMostOne /\ (pc = "ok" => Damaged = {})
<1> DEFINE risk == IF ~Idle THEN writing.name
                   ELSE IF pc = "configHash" THEN delta.imageConfig
                   ELSE DeltaLayer(i).digest
<1>1. ~Idle => pc \notin {"ok", "configHash", "copyHash"}
  BY AfterFacts DEF Control, TypeOK, InProgress
<1>2. \A n \in Damaged : (~Idle /\ writing.name = n) \/ Unhashed(n)
  BY DEF Damaged, SoFar, Kept
<1>3. Damaged \subseteq {risk}
  BY <1>1, <1>2 DEF Unhashed
<1>4. pc = "ok" => Damaged = {}
  BY <1>1, <1>2 DEF Unhashed
<1>5. QED
  BY <1>3, <1>4 DEF AtMostOne

\* A run begins: the files are those it found.
LEMMA RunBegins ==
  ASSUME Begin, IndexNamed, found = files
  PROVE  AgainInv
<1>1. Control /\ pc = "layout" /\ i = 1
  BY BeginControl DEF Begin
<1>2. Rewritten
  BY <1>1, TargetFacts DEF Rewritten, Control
<1>3. SoFar
  BY DEF SoFar, Kept, Intact, Has, IndexNamed
<1>4. Committed
  BY <1>1 DEF Committed
<1>5. AtMostOne
  BY <1>1, <1>3, DamageWhileAlive DEF Alive
<1>6. QED
  BY <1>1, <1>2, <1>3, <1>4, <1>5 DEF AgainInv

LEMMA InitAgainInv == InitAgain => AgainInv
<1>1. InitAgain => Begin /\ IndexNamed /\ found = files
  BY DEF InitAgain, Init, WriterInit, Begin, Idle, IndexNamed, Has
<1>2. QED
  BY <1>1, RunBegins

\* Running again begins a run, on the output as it is.
LEMMA AgainBegins ==
  ASSUME AgainInv, NEW output \in {"directory", "archive"}, RunAgain(output)
  PROVE  Begin' /\ AgainInv'
<1>1. Idle
  BY AfterFacts DEF AgainInv, Control, TypeOK, InProgress, RunAgain, Running
<1>2. Begin'
  BY <1>1 DEF RunAgain, Begin, Idle, Target, BlobsOf
<1>3. IndexNamed' /\ found' = files'
  BY DEF AgainInv, IndexNamed, Has, RunAgain, OpenOutput
<1>4. (Begin /\ IndexNamed /\ found = files => AgainInv)'
  BY RunBegins, PTL
<1>5. QED
  BY <1>2, <1>3, <1>4

\* A step within a run.
LEMMA StepAgainInv ==
  ASSUME AgainInv, [Next]_vars, UNCHANGED found
  PROVE  AgainInv'
<1> USE DEF AgainInv
<1>1. Control' /\ Rewritten'
  BY NextControl, NextRewritten
<1>2. SoFar'
  <2> SUFFICES ASSUME Alive', NEW n \in DOMAIN found, found[n] = n
               PROVE  n # IndexFile /\ KeptAfter(n)
    BY DEF SoFar, Kept, KeptAfter, Intact, Has, Unhashed, Idle
  <2>1. n # IndexFile /\ Kept(n)
    BY StaysAlive DEF SoFar
  <2>2. QED
    BY <2>1, KeptStays
<1>3. IndexNamed'
  <2>1. ASSUME NEW stmt, NEW name, NEW content, Starts(stmt, name, content) PROVE IndexNamed'
    <3>1. Torn # IndexFile
      BY DEF Torn, IndexFile
    <3>2. QED
      BY <2>1, <3>1 DEF Starts, IndexNamed, Has
  <2>2. CASE FinishWrite
    <3>1. \A m : Index(m) # IndexFile
      BY DEF Index, IndexFile
    <3>2. QED
      BY <2>2, <3>1, FinishFacts DEF IndexNamed, Has
  <2>3. CASE Between \/ Ends \/ Around
    BY <2>3, BetweenFacts DEF Ends, Stop, AbortWrite, Around, Rot, vars, IndexNamed, Has
  <2>4. QED
    BY <2>1, <2>2, <2>3, StepKinds
<1>4. Committed'
  <2>1. ASSUME NEW stmt, NEW name, NEW content, Starts(stmt, name, content) PROVE Committed'
    BY <2>1 DEF Starts, Committed
  <2>2. CASE FinishWrite
    <3>1. UNCHANGED OutputManifest
      BY <2>2, FinishFacts DEF OutputManifest, Target
    <3>2. QED
      BY <2>2, <3>1, FinishFacts, AfterFacts DEF Committed, Has
  <2>3. CASE Between \/ Ends
    BY <2>3, BetweenFacts DEF Ends, Stop, Committed
  <2>4. CASE Around
    BY <2>4 DEF Around, Rot, vars, Committed, Has, OutputManifest, Target
  <2>5. QED
    BY <2>1, <2>2, <2>3, <2>4, StepKinds
<1>5. AtMostOne'
  <2>1. CASE Alive'
    <3>1. (Control /\ SoFar /\ Alive => AtMostOne)'
      BY DamageWhileAlive, PTL
    <3>2. QED
      BY <1>1, <1>2, <2>1, <3>1
  <2>2. CASE ~Alive'
    <3>1. ~FinishWrite
      BY <2>2, FinishFacts, AfterFacts DEF Alive
    <3>2. ASSUME NEW stmt, NEW name, NEW content PROVE ~Starts(stmt, name, content)
      BY <2>2 DEF Starts, Alive
    <3>3. UNCHANGED files
      BY <3>1, <3>2, StepKinds, BetweenFacts DEF Ends, Stop, AbortWrite, Around, Rot, vars
    <3>4. QED
      BY <3>3 DEF AtMostOne, Damaged, Intact, Has
  <2>3. QED
    BY <2>1, <2>2
<1>6. QED
  BY <1>1, <1>2, <1>3, <1>4, <1>5

LEMMA NextAgainInv == AgainInv /\ [NextAgain]_againVars => AgainInv'
BY StepAgainInv, AgainBegins DEF NextAgain, againVars, vars

\* What a run has written and what it found, for any number of runs on one output.
THEOREM AgainInvariant == SpecAgain => []AgainInv
<1>1. QED
  BY InitAgainInv, NextAgainInv, PTL DEF SpecAgain

\* Of what a run finds in an output it endangers one blob at most, and a run
\* that succeeds leaves all of it whole: for any number of runs.
THEOREM AtMostOneBlobAtRisk == SpecAgain => []OneBlobAtRisk
<1>1. AgainInv => OneBlobAtRisk
  <2> SUFFICES ASSUME AgainInv PROVE OneBlobAtRisk
    OBVIOUS
  <2>1. PICK n : Damaged \subseteq {n}
    BY DEF AgainInv, AtMostOne
  <2>2. Damaged = {} \/ Damaged = {n}
    BY <2>1
  <2>3. Cardinality(Damaged) \in {0, 1}
    BY <2>2, FS_EmptySet, FS_Singleton
  <2>4. pc = "ok" => Damaged = {}
    BY DamageWhileAlive DEF AgainInv, Alive
  <2>5. QED
    BY <2>3, <2>4 DEF OneBlobAtRisk
<1>2. QED
  BY <1>1, AgainInvariant, PTL

\* The layers listed so far are the target's, in each run.
LEMMA NextAgainReflected ==
  ASSUME HonestDeltas, AgainInv, Reflected, [NextAgain]_againVars
  PROVE  Reflected'
<1>1. CASE [Next]_vars
  BY <1>1, NextReflected DEF AgainInv
<1>2. ASSUME NEW output \in {"directory", "archive"}, RunAgain(output) PROVE Reflected'
  <2>1. Begin'
    BY <1>2, AgainBegins
  <2>2. (Begin => Reflected)'
    BY BeginReflected, PTL
  <2>3. QED
    BY <2>1, <2>2
<1>3. QED
  BY <1>1, <1>2 DEF NextAgain, againVars, vars

\* Given honest deltas, a run that succeeds publishes its own target, whatever
\* it found in the output.
THEOREM SuccessPublishesThisTarget ==
  ASSUME HonestDeltas
  PROVE  SpecAgain => []SuccessIsThisTarget
<1>1. InitAgain => Reflected
  BY BeginReflected DEF InitAgain, Init, WriterInit, Idle, Begin
<1>2. SpecAgain => []Reflected
  BY <1>1, NextAgainReflected, AgainInvariant, PTL DEF SpecAgain
<1>3. AgainInv /\ Reflected => SuccessIsThisTarget
  <2> SUFFICES ASSUME AgainInv, Reflected, pc = "ok" PROVE SuccessIsThisTarget
    BY DEF SuccessIsThisTarget
  <2> USE DEF AgainInv
  <2>1. Published /\ PublishedManifest = OutputManifest
    BY Kinds DEF Committed, Published, PublishedManifest, Index
  <2>2. /\ PublishedManifest.layers = outputLayers
        /\ Target.config = delta.imageConfig
    BY <2>1, TargetFacts DEF Control, OutputManifest, Manifest
  <2>3. /\ i = NLayers + 1 /\ NLayers \in Nat
        /\ Intact(LayoutFile) /\ Intact(delta.imageConfig) /\ Intact(OutputManifest)
        /\ \A k \in 1..NLayers : InDelta(k) => Intact(outputLayers[k].digest)
    BY WholeAtTheEnd, TargetFacts DEF Control
  <2>4. \A k \in 1..NLayers : InDelta(k) =>
          outputLayers[k].digest.tar = delta.imageConfig.diffIDs[k]
    BY <2>3, ReflectedTars DEF Control
  <2>5. \A k \in 1..NLayers : ExpectedDiffID(k) = delta.imageConfig.diffIDs[k]
    BY HonestFacts DEF Control
  <2>6. QED
    BY <2>1, <2>2, <2>3, <2>4, <2>5 DEF SuccessIsThisTarget, LayerDigest, Intact, Has
<1>4. QED
  BY <1>2, <1>3, AgainInvariant, PTL

=============================================================================
