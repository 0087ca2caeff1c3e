---------------------------- MODULE MCCreateDelta ----------------------------
(***************************************************************************)
(* One old image of two layers against new images that reuse one of its    *)
(* layers under the same and under another compression, repeat a new       *)
(* layer, and have a config that misses a diff_id.                         *)
(***************************************************************************)
EXTENDS CreateDelta

CONSTANTS a, b, c

Image(tars, form, diffIDs) ==
  Manifest(Config(diffIDs),
           [k \in 1..Len(tars) |-> Descriptor(form, Layer(tars[k], form))])

MCTar == {a, b, c}

Old == Image(<<a, b>>, "gzip", <<a, b>>)

ReusesOne == Image(<<b, c>>, "gzip", <<b, c>>)
RepeatsNew == Image(<<c, c>>, "gzip", <<c, c>>)
OtherForm == Image(<<b, c>>, "zstd", <<b, c>>)
ShortConfig == Image(<<a, c>>, "gzip", <<a>>)

MCPairs == {<<Old, image>> : image \in {ReusesOne, RepeatsNew, OtherForm, ShortConfig}}

MCSig == [manifest |-> [kind |-> "sigmanifest"], blobs |-> <<[kind |-> "payload"]>>]

MCSignatures == {<<>>, <<MCSig>>}

=============================================================================
