---------------------------- MODULE MCImportDelta ----------------------------
(***************************************************************************)
(* The store holds v1 = <a, b>, tagged t1.  One delta leads to v2 = <a, c>,*)
(* one from v2 to v3 = <c, d>, which needs layer c under another parent.   *)
(* Two imports: in a chain, both moving the same tag, both claiming the    *)
(* same free tag.                                                          *)
(***************************************************************************)
EXTENDS ImportDelta, DeltaFormat

CONSTANTS a, b, c, d, p1, p2, t1, t2

Image(tars) ==
  Manifest(Config(tars),
           [k \in 1..Len(tars) |-> Descriptor("gzip", Layer(tars[k], "gzip"))])

MCTar == {a, b, c, d}

V1 == Image(<<a, b>>)
V2 == Image(<<a, c>>)
V3 == Image(<<c, d>>)

Patched(old, new) ==
  ParseDelta(BuildDelta(old, new,
    [l \in NewOnly(old, new) |-> Diff(Filesystem(old), l.tar)], <<>>))

Whole(old, new) ==
  ParseDelta(BuildDelta(old, new, [l \in NewOnly(old, new) |-> l], <<>>))

Import(artifact, tag, force) == [delta |-> artifact, tag |-> tag, force |-> force]

Both(first, second) == [p \in {p1, p2} |-> IF p = p1 THEN first ELSE second]

MCJobs ==
  {Both(Import(Patched(V1, V2), t1, TRUE), Import(Patched(V2, V3), NoTag, FALSE)),
   Both(Import(Patched(V1, V2), t1, TRUE), Import(Whole(V1, V3), t1, TRUE)),
   Both(Import(Patched(V1, V3), t2, FALSE), Import(Whole(V1, V2), t2, FALSE))}

MCLayers == <<[parent |-> 0, tar |-> a], [parent |-> 1, tar |-> b]>>

MCImages ==
  <<[top |-> 2, manifest |-> V1.config, hasConfig |-> TRUE, names |-> {t1}]>>

ASSUME HonestAssumption == HonestJobs

=============================================================================
