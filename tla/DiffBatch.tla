------------------------------ MODULE DiffBatch ------------------------------
(***************************************************************************)
(* What CreateDelta expects of computeLayerDiffsParallel (create.go:89-96  *)
(* and create.go:347): one answer for the whole batch.  Either the call    *)
(* fails and leaves nothing behind, or it chooses for every layer between  *)
(* its tar-diff and its original blob, and the only temporary files left   *)
(* are those of the layers that use a tar-diff.                            *)
(***************************************************************************)

CONSTANT Jobs            \* the layers of the batch

VARIABLES returned,      \* "no", "ok" or "failed"
          choice,        \* what the caller is handed for each layer
          left           \* the layers whose temporary file is on disk

vars == <<returned, choice, left>>

Init ==
  /\ returned = "no"
  /\ choice = [j \in Jobs |-> "none"]
  /\ left = {}

Succeed ==
  /\ returned = "no"
  /\ returned' = "ok"
  /\ choice' \in [Jobs -> {"diff", "original"}]
  /\ left' = {j \in Jobs : choice'[j] = "diff"}

Fail ==
  /\ returned = "no"
  /\ returned' = "failed"
  /\ UNCHANGED <<choice, left>>

Next == Succeed \/ Fail

Spec == Init /\ [][Next]_vars

=============================================================================
