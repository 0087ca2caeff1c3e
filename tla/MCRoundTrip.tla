----------------------------- MODULE MCRoundTrip -----------------------------
(***************************************************************************)
(* Old images of one or two layers; new ones that keep layers, swap them,  *)
(* recompress one, repeat a new one, or have two.  The machine has the old *)
(* image, or another one.                                                  *)
(***************************************************************************)
EXTENDS RoundTrip

CONSTANTS a, b, c

Image(tars, form) ==
  Manifest(Config(tars),
           [k \in 1..Len(tars) |-> Descriptor(form, Layer(tars[k], form))])

MCTar == {a, b, c}

MCPairs ==
  {<<Image(<<a, b>>, "gzip"), Image(tars, form)>> :
     tars \in {<<b, a>>, <<b, c>>, <<c, c>>}, form \in {"gzip", "zstd"}}
  \cup {<<Image(<<a>>, "zstd"), Image(tars, "gzip")>> : tars \in {<<b, a>>, <<b, c>>}}

MCSources == {<<a, b>>, <<a>>}

=============================================================================
