------------------------------ MODULE ApplyAgain ------------------------------
(***************************************************************************)
(* Applying to an output that is already there: after a failure or a crash *)
(* with the same delta, or later with another one.  An archive is          *)
(* truncated (newTarOCIWriter, ocistorage.go:302), but a directory keeps   *)
(* what it holds (newDirOCIWriter, ocistorage.go:361) and each blob is     *)
(* rewritten in place.                                                     *)
(***************************************************************************)
EXTENDS ApplyDelta

CONSTANT MaxRuns       \* bound: how often the program is run on one output

VARIABLES run,         \* number of the present run
          found        \* the files it found in the output

againVars == <<files, writing, delta, blobs, source, pc, i, outputLayers, patched,
               run, found>>

InitAgain == Init /\ run = 1 /\ found = files

\* What is in an output of this kind when it has been opened.
OpenOutput(output) == IF output = "directory" THEN files ELSE [n \in {} |-> Torn]

RunAgain(output) ==
  /\ ~Running
  /\ run < MaxRuns
  /\ run' = run + 1
  /\ files' = OpenOutput(output)
  /\ found' = files'
  /\ delta' \in Deltas
  /\ source' \in Sources
  /\ blobs' = [d \in BlobsOf(delta') |-> d]
  /\ pc' = "layout"
  /\ i' = 1
  /\ outputLayers' = delta'.imageManifest.layers
  /\ patched' = NoDiffID
  /\ UNCHANGED writing

NextAgain ==
  \/ Next /\ UNCHANGED <<run, found>>
  \/ \E output \in {"directory", "archive"} : RunAgain(output)

SpecAgain == InitAgain /\ [][NextAgain]_againVars

-----------------------------------------------------------------------------
(* Properties *)

\* A run that succeeds publishes its own target, every carried blob of it
\* whole and with the listed diff_id, whatever an earlier run left behind torn,
\* damaged or published: nothing found in the directory is trusted
\* (ocistorage.go:369-394 truncate, apply.go:143-146 hash what was written).
SuccessIsThisTarget ==
  pc = "ok" =>
    /\ Published
    /\ PublishedManifest = OutputManifest
    /\ {LayoutFile, PublishedManifest, Target.config} \subseteq {n \in DOMAIN files : Intact(n)}
    /\ \A k \in 1..NLayers :
         InDelta(k) =>
           /\ Intact(LayerDigest(PublishedManifest, k))
           /\ LayerDigest(PublishedManifest, k).tar = ExpectedDiffID(k)

\* Blobs that were whole when the run opened the output, and no longer are.
Damaged == {n \in DOMAIN found : found[n] = n /\ ~Intact(n)}

\* A run puts at most one blob of an earlier image at risk, the one it is
\* writing or could not verify, and none when it succeeds: every write is
\* finished and checked before the next (apply.go:33-84).
OneBlobAtRisk ==
  /\ Cardinality(Damaged) <= 1
  /\ pc = "ok" => Damaged = {}

=============================================================================
