------------------------------- MODULE DiffPool -------------------------------
(***************************************************************************)
(* The worker pool of computeLayerDiffsParallel (create.go:347-434): one   *)
(* goroutine per new layer, a buffered channel as the semaphore, a         *)
(* WaitGroup, and results[i]/errs[i] written by goroutine i and read by    *)
(* the main goroutine after wg.Wait.  A goroutine runs computeLayerDiff    *)
(* (create.go:436-475), one label per statement that can fail or touch     *)
(* the temporary directory.  The outcome of each such statement is the     *)
(* environment's choice.                                                   *)
(***************************************************************************)
EXTENDS Naturals, FiniteSets

CONSTANTS Jobs,          \* indices of the layers to diff (keys of newOnlyLayers)
          Parallelism    \* capacity of the semaphore after defaulting

ASSUME JobsAssumption == IsFiniteSet(Jobs)
ASSUME ParallelismAssumption == Parallelism \in Nat \ {0}

VARIABLES main,          \* where the main goroutine is
          pc,            \* where each worker goroutine is
          sem,           \* tokens in the channel
          wg,            \* WaitGroup counter
          results,       \* results[j]
          errs,          \* errs[j] # nil
          temp           \* layers whose "oci-delta-*.tar-diff" file exists

vars == <<main, pc, sem, wg, results, errs, temp>>

MainStates == {"open", "spawn", "wait", "scan", "clean", "ok", "failed"}

WorkerStates ==
  {"unborn", "acquire", "readBlob", "createTemp", "tarDiff", "stat", "hash",
   "release", "wgDone", "gone"}

\* The statements a worker executes while it holds a token.
Holding == {"readBlob", "createTemp", "tarDiff", "stat", "hash", "release"}

Holders == {j \in Jobs : pc[j] \in Holding}

Init ==
  /\ main = "open"
  /\ pc = [j \in Jobs |-> "unborn"]
  /\ sem = 0
  /\ wg = 0
  /\ results = [j \in Jobs |-> "none"]
  /\ errs = [j \in Jobs |-> FALSE]
  /\ temp = {}

-----------------------------------------------------------------------------
(* The main goroutine *)

\* Opening the old layers and AnalyzeSources: before any goroutine exists.
OpenSources ==
  /\ main = "open"
  /\ main' \in {"spawn", "failed"}
  /\ UNCHANGED <<pc, sem, wg, results, errs, temp>>

Spawn(j) ==
  /\ main = "spawn"
  /\ pc[j] = "unborn"
  /\ pc' = [pc EXCEPT ![j] = "acquire"]
  /\ wg' = wg + 1
  /\ UNCHANGED <<main, sem, results, errs, temp>>

AllSpawned ==
  /\ main = "spawn"
  /\ \A j \in Jobs : pc[j] # "unborn"
  /\ main' = "wait"
  /\ UNCHANGED <<pc, sem, wg, results, errs, temp>>

\* Variant: the results are read without waiting for the goroutines.
WaitSkipped ==
  /\ main = "wait"
  /\ main' = "scan"
  /\ UNCHANGED <<pc, sem, wg, results, errs, temp>>

Wait ==
  /\ main = "wait"
  /\ wg = 0
  /\ main' = "scan"
  /\ UNCHANGED <<pc, sem, wg, results, errs, temp>>

\* The loop over errs: the first error starts the clean-up of all results.
ScanErrors ==
  /\ main = "scan"
  /\ main' = IF \E j \in Jobs : errs[j] THEN "clean" ELSE "ok"
  /\ UNCHANGED <<pc, sem, wg, results, errs, temp>>

\* os.Remove(r.diffPath), for the results that have a path.
RemoveResult(j) ==
  /\ main = "clean"
  /\ results[j] = "diff"
  /\ j \in temp
  /\ temp' = temp \ {j}
  /\ UNCHANGED <<main, pc, sem, wg, results, errs>>

ReturnError ==
  /\ main = "clean"
  /\ \A j \in Jobs : results[j] = "diff" => j \notin temp
  /\ main' = "failed"
  /\ UNCHANGED <<pc, sem, wg, results, errs, temp>>

-----------------------------------------------------------------------------
(* Worker j *)

Goto(j, from, to) ==
  /\ pc[j] = from
  /\ pc' = [pc EXCEPT ![j] = to]

\* Variant: the semaphore never blocks.
AcquireUnbounded(j) ==
  /\ Goto(j, "acquire", "readBlob")
  /\ sem' = sem + 1
  /\ UNCHANGED <<main, wg, results, errs, temp>>

\* sem <- struct{}{}: blocks while the channel is full.
Acquire(j) ==
  /\ Goto(j, "acquire", "readBlob")
  /\ sem < Parallelism
  /\ sem' = sem + 1
  /\ UNCHANGED <<main, wg, results, errs, temp>>

ReturnErr(j) == errs' = [errs EXCEPT ![j] = TRUE] /\ UNCHANGED results

ReturnResult(j, r) == results' = [results EXCEPT ![j] = r] /\ UNCHANGED errs

ReadBlob(j) ==
  /\ \/ Goto(j, "readBlob", "createTemp") /\ UNCHANGED <<results, errs>>
     \/ Goto(j, "readBlob", "release") /\ ReturnErr(j)
  /\ UNCHANGED <<main, sem, wg, temp>>

CreateTemp(j) ==
  /\ \/ /\ Goto(j, "createTemp", "tarDiff")
        /\ temp' = temp \cup {j}
        /\ UNCHANGED <<results, errs>>
     \/ /\ Goto(j, "createTemp", "release")
        /\ ReturnErr(j)
        /\ UNCHANGED temp
  /\ UNCHANGED <<main, sem, wg>>

\* Variant: the fall-back returns before it has set its result.
FallBackEmpty(j, from) ==
  /\ Goto(j, from, "release")
  /\ temp' = temp \ {j}
  /\ UNCHANGED <<results, errs>>

\* A tar-diff that fails, cannot be stat'ed or is not smaller than the
\* original is dropped and the original layer is used: no error.
FallBack(j, from) ==
  /\ Goto(j, from, "release")
  /\ temp' = temp \ {j}
  /\ ReturnResult(j, "original")

RunTarDiff(j) ==
  /\ \/ Goto(j, "tarDiff", "stat") /\ UNCHANGED <<results, errs, temp>>
     \/ FallBack(j, "tarDiff")
  /\ UNCHANGED <<main, sem, wg>>

Stat(j) ==
  /\ \/ Goto(j, "stat", "hash") /\ UNCHANGED <<results, errs, temp>>
     \/ FallBack(j, "stat")
  /\ UNCHANGED <<main, sem, wg>>

\* Variant: the error path forgets its temporary file.
HashFailsLeaving(j) ==
  /\ Goto(j, "hash", "release")
  /\ ReturnErr(j)
  /\ UNCHANGED <<main, sem, wg, temp>>

HashFails(j) ==
  /\ Goto(j, "hash", "release")
  /\ temp' = temp \ {j}
  /\ ReturnErr(j)
  /\ UNCHANGED <<main, sem, wg>>

HashDiff(j) ==
  /\ Goto(j, "hash", "release")
  /\ ReturnResult(j, "diff")
  /\ UNCHANGED <<main, sem, wg, temp>>

\* Variant: the token is never given back.
ReleaseForgotten(j) ==
  /\ Goto(j, "release", "wgDone")
  /\ UNCHANGED <<main, sem, wg, results, errs, temp>>

\* The deferred calls run last to first: the token goes back before wg.Done.
Release(j) ==
  /\ Goto(j, "release", "wgDone")
  /\ sem' = sem - 1
  /\ UNCHANGED <<main, wg, results, errs, temp>>

WgDone(j) ==
  /\ Goto(j, "wgDone", "gone")
  /\ wg' = wg - 1
  /\ UNCHANGED <<main, sem, results, errs, temp>>

-----------------------------------------------------------------------------

Main ==
  \/ OpenSources \/ AllSpawned \/ Wait \/ ScanErrors \/ ReturnError
  \/ \E j \in Jobs : Spawn(j) \/ RemoveResult(j)

Worker(j) ==
  \/ Acquire(j) \/ ReadBlob(j) \/ CreateTemp(j) \/ RunTarDiff(j) \/ Stat(j)
  \/ HashFails(j) \/ HashDiff(j) \/ Release(j) \/ WgDone(j)

Returned == main \in {"ok", "failed"}

\* The caller has its answer and no goroutine is left.
Terminating ==
  /\ Returned
  /\ UNCHANGED vars

Next == Main \/ (\E j \in Jobs : Worker(j)) \/ Terminating

Spec == Init /\ [][Next]_vars

\* The Go scheduler runs every goroutine that can run.
FairSpec == Spec /\ WF_vars(Main) /\ \A j \in Jobs : WF_vars(Worker(j))

-----------------------------------------------------------------------------
(* Properties *)

TypeOK ==
  /\ main \in MainStates
  /\ pc \in [Jobs -> WorkerStates]
  /\ sem \in Nat
  /\ wg \in Nat
  /\ results \in [Jobs -> {"none", "original", "diff"}]
  /\ errs \in [Jobs -> BOOLEAN]
  /\ temp \subseteq Jobs

\* At most Parallelism layers are read and diffed at the same time, whatever
\* the number of layers (the --parallelism promise, create.go:404-414).
AtMostParallelism == Cardinality(Holders) <= Parallelism

\* No temporary tar-diff file outlives the call except those the caller is
\* handed a path for (create.go:421-429, 456-471 and the defers at 94-96).
TempFilesAccounted ==
  /\ main = "failed" => temp = {}
  /\ main = "ok" => temp = {j \in Jobs : results[j] = "diff"}

\* A successful return has a usable result for every layer, so no layer of the
\* delta manifest is built from a zero layerDiffResult (create.go:143-172).
SuccessIsTotal ==
  main = "ok" => \A j \in Jobs : results[j] # "none" /\ ~errs[j]

\* The slots the main goroutine reads without a lock are never written again
\* once it is past wg.Wait, and nothing still touches the temporary directory.
NoWorkerWritesAfterWait ==
  [][/\ main \in {"scan", "clean", "ok", "failed"} => UNCHANGED <<results, errs>>
     /\ main \in {"scan", "ok", "failed"} => UNCHANGED temp]_vars

\* The call always returns: the semaphore and the WaitGroup cannot leave it
\* waiting for a goroutine that waits for a token.
AlwaysReturns == <>Returned

\* The pool implements the one-shot batch CreateDelta is written against.
Batch == INSTANCE DiffBatch WITH
  returned <- IF Returned THEN main ELSE "no",
  choice <- IF main = "ok" THEN results ELSE [j \in Jobs |-> "none"],
  left <- IF Returned THEN temp ELSE {}

ImplementsBatch == Batch!Spec

=============================================================================
