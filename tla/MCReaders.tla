------------------------------- MODULE MCReaders -------------------------------
(***************************************************************************)
(* Instance of Readers for TLC.                                            *)
(*                                                                         *)
(* Layouts: two blobs, streams of one or two bytes, indexes of up to two   *)
(* manifests, three writes.                                                *)
(* Storage: up to three layers; a layer twice, two layers that the store   *)
(* has once and twice, and a config that lists fewer diff_ids.             *)
(* OSTree: two refs and three commits, two of them of the old image (one   *)
(* has been rebuilt locally) and one of another, which shares a file with  *)
(* the first; one path is below etc/ and is found there, or below          *)
(* usr/etc/, or in both.                                                   *)
(***************************************************************************)
EXTENDS Readers

CONSTANTS a, b, la, lb, s1, s2, s3, old, again, other

MCImages ==
  {[layers |-> <<la, lb>>, diffIDs |-> <<a, b>>],
   [layers |-> <<la, lb, la>>, diffIDs |-> <<a, b, a>>],
   [layers |-> <<lb, la>>, diffIDs |-> <<b>>]}

MCCopies == [t \in {a, b} |-> IF t = a THEN {s1, s2} ELSE {s3}]

MCConfigOf == [c \in {old, again, other} |-> IF c = other THEN "newer" ELSE "wanted"]

MCTree ==
  [c \in {old, again, other} |->
     IF c = old THEN [x |-> "x1", usretc |-> "e1"]
     ELSE IF c = again THEN [x |-> "x1", etc |-> "e2", usretc |-> "e1"]
     ELSE [x |-> "x1", usretc |-> "e3"]]

MCUsrEtc == [etc |-> "usretc"]

=============================================================================
