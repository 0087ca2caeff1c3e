----------------------------- MODULE MCApplyDelta -----------------------------
(***************************************************************************)
(* Deltas CreateDelta can build from a small old image, with every choice  *)
(* between tar-diff, original blob and original recompressed by containers *)
(* storage, and tar-diffs of a layer that was damaged when it was diffed.  *)
(* Targets reuse old layers in another order, repeat a layer, and have a   *)
(* zstd layer.  One data source is the old image, the other is some other  *)
(* filesystem.                                                             *)
(***************************************************************************)
EXTENDS ApplyDelta, DeltaFormat

CONSTANTS a, b, c, d

Image(tars, form) ==
  Manifest(Config(tars),
           [k \in 1..Len(tars) |-> Descriptor(form, Layer(tars[k], form))])

MCTar == {a, b, c, d}

Old == Image(<<a, b>>, "gzip")

News == {Image(<<b, c>>, "gzip"), Image(<<c, c>>, "gzip"), Image(<<c, d>>, "zstd")}

\* The blobs that can carry new layer l.
Carriers(l) ==
  {l, Layer(l.tar, "gogzip"), Diff(Filesystem(Old), l.tar),
   Diff(Filesystem(Old), a)}

Choices(new) ==
  {f \in [NewOnly(Old, new) -> UNION {Carriers(l) : l \in NewOnly(Old, new)}] :
     \A l \in NewOnly(Old, new) : f[l] \in Carriers(l)}

MCDeltas ==
  UNION {{ParseDelta(BuildDelta(Old, new, f, <<>>)) : f \in Choices(new)} :
           new \in News}

MCSources == {Filesystem(Old), <<a>>}

ASSUME HonestAssumption == HonestDeltas

=============================================================================
