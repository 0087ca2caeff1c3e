----------------------------- MODULE LayerStream -----------------------------
(***************************************************************************)
(* What ImportDelta relies on when it turns tar-diffs into layers of the   *)
(* store: layers appear in order, each at once and for good, each the      *)
(* whole result of its diff, until all are there or the import gives up.   *)
(***************************************************************************)
EXTENDS Naturals, Sequences

CONSTANTS Outputs        \* the result of each diff

VARIABLES stored,        \* the layers put into the store
          result         \* "running", "ok" or "error"

vars == <<stored, result>>

Init == stored = <<>> /\ result = "running"

Store ==
  /\ result = "running"
  /\ Len(stored) < Len(Outputs)
  /\ stored' = Append(stored, Outputs[Len(stored) + 1])
  /\ UNCHANGED result

Finish ==
  /\ result = "running"
  /\ stored = Outputs
  /\ result' = "ok"
  /\ UNCHANGED stored

GiveUp ==
  /\ result = "running"
  /\ result' = "error"
  /\ UNCHANGED stored

Next == Store \/ Finish \/ GiveUp

Spec == Init /\ [][Next]_vars

=============================================================================
