----------------------------- MODULE MCDeltaContent -----------------------------
(***************************************************************************)
(* Instance of DeltaContent for TLC.                                       *)
(*                                                                         *)
(* Manifests: a target of two layers, a second manifest of the same layers *)
(* whose config lists one diff_id, and every kind of part that can go with *)
(* them.  Signatures: one that is good and one for every reason to fail,   *)
(* of different lengths, up to three in a store and two manifests given.   *)
(* Layers: two files, one longer than a dictionary may be, and ops that    *)
(* can and cannot be applied to them in every order.  Integers: four bits  *)
(* in groups of three, which leaves one bit to the last group, as 64 bits  *)
(* in groups of seven do.                                                  *)
(***************************************************************************)
EXTENDS DeltaContent, DeltaFormat

CONSTANTS ta, tb, tx, ourKey, theirKey, ourImage, theirImage, fileF, fileG

MCTar == {ta, tb, tx}

-----------------------------------------------------------------------------
(* Manifests *)

Image(tars, diffIDs) ==
  Manifest(Config(diffIDs),
           [k \in DOMAIN tars |-> Descriptor("gzip", Layer(tars[k], "gzip"))])

New == Image(<<ta, tb>>, <<ta, tb>>)
Unlisted == Image(<<ta, tb>>, <<ta>>)

LayerOf(type, digest, to) == Part("image-layer", type, digest, to)
DiffTo(t) == Diff(<<tx>>, t)
Text == [kind |-> "text"]

MCParts ==
  {Part("image-manifest", "image-manifest", n, NoTo) : n \in {New, Unlisted}} \cup
  {Part("image-config", "image-config", n.config, NoTo) : n \in {New, Unlisted}} \cup
  {LayerOf("tar-diff", DiffTo(ta), Layer(ta, "gzip")),
   LayerOf("gzip", Layer(ta, "gzip"), Layer(ta, "gzip")),
   LayerOf("tar-diff", DiffTo(tb), Layer(tb, "gzip")),
   LayerOf("tar-diff", DiffTo(tx), Layer(tx, "gzip")),
   LayerOf("tar-diff", DiffTo(tb), Text), LayerOf("tar-diff", DiffTo(tb), NoTo),
   Part("cosign-signature", "manifest", EmptyJSON, NoTo)}

MCDamages == {{}, {New}, {New.config}}
MCSources == {Config(<<tx>>), NoTo, Text}

-----------------------------------------------------------------------------
(* Signatures *)

Payload(type, signedImage) == [type |-> type, image |-> signedImage]
SignedBy(signer, payload) == [signer |-> signer, payload |-> payload]
Signature(form, len, payload, annotation) ==
  [form |-> form, len |-> len, payload |-> payload, annotation |-> annotation]

Good == Payload("cosign", ourImage)
Bad == Payload("cosign", theirImage)
Foreign == Payload("atomic", ourImage)

Genuine == Signature("sigstore", 2, Good, SignedBy(ourKey, Good))
OfTheirKey == Signature("sigstore", 1, Good, SignedBy(theirKey, Good))
OfTheirImage == Signature("sigstore", 2, Bad, SignedBy(ourKey, Bad))
OfOtherType == Signature("sigstore", 1, Foreign, SignedBy(ourKey, Foreign))
Simple == Signature("simple", 3, Good, SignedBy(ourKey, Good))
Bare == Signature("sigstore", 1, Good, SignedBy("nobody", Payload("none", "none")))
Swapped == Signature("sigstore", 2, Good, SignedBy(ourKey, Bad))

MCStored == {Genuine, OfTheirKey, OfTheirImage, Simple}
MCInitial ==
  {<<>>, <<Genuine>>, <<OfTheirImage>>, <<OfTheirKey, Genuine>>, <<Genuine, Simple>>,
   <<Bare, Genuine>>, <<Simple, OfTheirKey, Genuine>>, <<OfTheirImage, Simple, Genuine>>}
MCGiven == {<<>>, <<<<>>, <<Swapped, Genuine>>>>, <<<<OfOtherType, Swapped>>>>}

-----------------------------------------------------------------------------
(* Layers *)

Op(code, arg, payload, trailing) ==
  [code |-> code, arg |-> arg, payload |-> payload, trailing |-> trailing]

MCFiles == [p \in {fileF, fileG} |-> IF p = fileF THEN <<1, 2>> ELSE <<2, 0, 1>>]

MCOps ==
  {Op("data", 0, <<2>>, <<>>), Op("open", fileF, <<>>, <<>>), Op("open", fileG, <<>>, <<>>),
   Op("copy", 1, <<>>, <<>>), Op("copy", 2, <<>>, <<>>), Op("add", 0, <<2>>, <<>>),
   Op("add", 0, <<1, 1, 1>>, <<>>), Op("seek", 1, <<>>, <<>>), Op("dict", 0, <<1>>, <<>>),
   Op("dict", 0, <<1>>, <<0>>), Op("reserved", 0, <<>>, <<>>)}

=============================================================================
