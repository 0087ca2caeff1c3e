------------------------------ MODULE Components ------------------------------
(***************************************************************************)
(* Components that share no state, side by side: component says which of   *)
(* them a behavior is about, and the variables of the others stay Idle.    *)
(* The state space is the sum of theirs, not the product.                  *)
(***************************************************************************)

CONSTANT Idle

VARIABLE component

=============================================================================
