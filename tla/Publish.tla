-------------------------------- MODULE Publish --------------------------------
(***************************************************************************)
(* What a reader of the output may see of a command that builds an OCI     *)
(* layout: nothing, until the whole intended image (or delta) appears at   *)
(* once; after that it never changes.  Failing or crashing is never        *)
(* publishing.                                                             *)
(***************************************************************************)

CONSTANT Nothing

VARIABLES goal,          \* what the command is to publish
          visible        \* what a reader of the output finds

vars == <<goal, visible>>

Init == visible = Nothing

PublishGoal ==
  /\ visible = Nothing
  /\ visible' = goal
  /\ UNCHANGED goal

Spec == Init /\ [][PublishGoal]_vars

=============================================================================
