----------------------------- MODULE MCApplyAgain -----------------------------
(***************************************************************************)
(* Three deltas for one output: two ways to the same image, from different *)
(* old images, so that one carries what the other reuses; and one to an    *)
(* image that shares a layer and not the config.                           *)
(***************************************************************************)
EXTENDS ApplyAgain, DeltaFormat

CONSTANTS a, b, c

Image(tars) ==
  Manifest(Config(tars),
           [k \in 1..Len(tars) |-> Descriptor("gzip", Layer(tars[k], "gzip"))])

MCTar == {a, b, c}

\* A delta that carries the new layers as they are, or as tar-diffs.
DeltaOf(old, new, asDiff) ==
  ParseDelta(BuildDelta(old, new,
    [l \in NewOnly(old, new) |-> IF l.tar \in asDiff THEN Diff(Filesystem(old), l.tar) ELSE l],
    <<>>))

OldA == Image(<<a>>)
OldB == Image(<<b>>)
New == Image(<<b, c>>)

MCDeltas ==
  {DeltaOf(OldA, New, {}), DeltaOf(OldB, New, {c}), DeltaOf(OldA, Image(<<a, b>>), {})}

MCSources == {Filesystem(OldB)}

ASSUME HonestAssumption == HonestDeltas

=============================================================================
