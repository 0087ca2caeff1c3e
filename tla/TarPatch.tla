-------------------------------- MODULE TarPatch --------------------------------
(***************************************************************************)
(* The Rust crate's tar-patch interpreter and the check of its result:     *)
(* tar_patch_apply and reconstruct_layer_to (lib.rs:155-330).  The delta   *)
(* is a stream of items, an op or one byte of the payload its size         *)
(* announces, so that an op that consumes too little makes payload be read *)
(* as an op.  Bytes count modulo Byte.  The zstd layers around the stream  *)
(* and inside a ZstdDict op are external: a cut stream is an error, and a  *)
(* frame decodes to its dictionary followed by the frame's bytes.          *)
(***************************************************************************)
EXTENDS SequencesExt

CONSTANTS Byte,          \* number of byte values
          Files,         \* path -> content of the old image's files
          NoPath,        \* no file is open
          Ops, MaxOps,   \* the ops of a delta and their number (bounds)
          MaxAddData, MaxDict   \* MAX_ADD_DATA_SIZE, MAX_ZSTD_DICT_SIZE

VARIABLES media,         \* "tar-diff", "layer", or a type that is not supported
          program,       \* the ops of the delta, or the content of the layer
          version,       \* of its header: 1, 2, or 0 for an unknown one
          whole,         \* the compressed stream is not cut
          expected,      \* the tar that expected_diff_id stands for
          pos,           \* items of the stream consumed
          path, cursor,  \* the data source: current file, position in it
          out, hashed,   \* bytes written to dst, bytes given to the hasher
          pc

input == <<media, program, version, whole, expected>>

vars == <<media, program, version, whole, expected, pos, path, cursor, out, hashed, pc>>

\* trailing is what an op's size covers after the end of a dictionary frame.
Op(code, arg, payload, trailing) ==
  [code |-> code, arg |-> arg, payload |-> payload, trailing |-> trailing]

Size(op) == Len(op.payload \o op.trailing)

Items(op) ==
  <<op>> \o [j \in 1..Size(op) |-> [code |-> "payload", byte |-> (op.payload \o op.trailing)[j]]]

Stream == FlattenSeq([k \in DOMAIN program |-> Items(program[k])])

\* The number of items of the first k ops.
End(k) ==
  LET end[n \in 0..Len(program)] == IF n = 0 THEN 0 ELSE end[n - 1] + 1 + Size(program[n])
  IN end[k]

Codes == {"data", "open", "copy", "add", "seek", "dict"}

-----------------------------------------------------------------------------
(* What a delta means: the format's ops on a file, a cursor and an output.   *)

Content(p) == IF p = NoPath THEN <<>> ELSE Files[p]

Segment(p, from, n) == SubSeq(Content(p), from + 1, from + n)

AddBytes(d, s) == [k \in DOMAIN d |-> (d[k] + s[k]) % Byte]

Effect(s, op) ==
  LET n == Len(op.payload)
  IN CASE op.code = "data" -> [s EXCEPT !.out = @ \o op.payload]
       [] op.code = "open" -> [s EXCEPT !.path = op.arg, !.cursor = 0]
       [] op.code = "seek" -> [s EXCEPT !.cursor = op.arg]
       [] op.code = "copy" -> [s EXCEPT !.out = @ \o Segment(s.path, s.cursor, op.arg),
                                        !.cursor = @ + op.arg]
       [] op.code = "add" -> [s EXCEPT !.cursor = @ + n,
            !.out = @ \o AddBytes(op.payload, Segment(s.path, s.cursor, n))]
       [] OTHER -> [s EXCEPT !.out = @ \o (Content(s.path) \o op.payload),
                             !.cursor = Len(Content(s.path))]

\* After the first k ops.
Meaning(k) ==
  LET after[n \in 0..Len(program)] ==
        IF n = 0 THEN [path |-> NoPath, cursor |-> 0, out |-> <<>>]
        ELSE Effect(after[n - 1], program[n])
  IN after[k]

\* Whether op can be carried out with this file and cursor.
Applicable(p, at, op) ==
  LET n == IF op.code = "copy" THEN op.arg ELSE Len(op.payload)
  IN /\ op.code \in Codes
     /\ op.code = "open" => op.arg \in DOMAIN Files
     /\ op.code \in {"seek", "copy", "add", "dict"} => p # NoPath
     /\ op.code \in {"copy", "add"} => at + n <= Len(Content(p))
     /\ op.code = "add" => Size(op) <= MaxAddData
     /\ op.code = "dict" => version = 2 /\ Len(Content(p)) <= MaxDict

\* What an original layer decompresses to.
Decompressed == FlattenSeq([k \in DOMAIN program |-> program[k].payload])

WellFormed ==
  /\ media = "tar-diff" /\ version # 0 /\ whole
  /\ \A k \in DOMAIN program :
       Applicable(Meaning(k - 1).path, Meaning(k - 1).cursor, program[k])

Init ==
  /\ program \in SeqOf(Ops, MaxOps)
  /\ version \in 0..2
  /\ whole \in BOOLEAN
  /\ media \in {"tar-diff", "layer", "unsupported"}
  /\ media # "tar-diff" => version = 1 /\ Len(program) = 1
  /\ expected \in {<<>>, IF WellFormed THEN Meaning(Len(program)).out ELSE Decompressed}
  /\ pos = 0 /\ path = NoPath /\ cursor = 0
  /\ out = <<>> /\ hashed = <<>>
  /\ pc = "header"

-----------------------------------------------------------------------------
(* The interpreter *)

\* dst behind HashingWriter may take a part of what it is given and then fail.
Write(bytes) ==
  \E n \in 0..Len(bytes) :
    /\ out' = out \o SubSeq(bytes, 1, n)
    /\ hashed' = hashed \o SubSeq(bytes, 1, n)
    /\ pc' = IF n = Len(bytes) THEN "op" ELSE "error"

Goto(next) == pc' = next /\ UNCHANGED <<input, pos, path, cursor, out, hashed>>

ReadHeader ==
  pc = "header" /\ media = "tar-diff" /\ Goto(IF version = 0 THEN "error" ELSE "op")

\* decompress_layer and the io::copy of its result.  The bytes after a short
\* write or after the place where the blob is cut are lost; a cut blob that is
\* not compressed just ends.
CopyOriginal ==
  /\ pc = "header" /\ media = "layer"
  /\ \E n \in 0..Len(Decompressed) :
       /\ out' = SubSeq(Decompressed, 1, n) /\ hashed' = out'
       /\ \/ pc' = "compare" /\ (whole => n = Len(Decompressed))
          \/ pc' = "error" /\ (whole => n < Len(Decompressed))
  /\ UNCHANGED <<input, pos, path, cursor>>

MediaRejected == pc = "header" /\ media = "unsupported" /\ Goto("error")

Item == Stream[pos + 1]

\* The item at pos is taken for an op.
At(code) == pc = "op" /\ pos < Len(Stream) /\ Item.code = code

CanApply == Applicable(path, cursor, Item)

\* The first n items after the op.
Payload(n) == [k \in 1..n |-> Stream[pos + 1 + k].byte]

OpData ==
  /\ At("data")
  /\ Write(Payload(Size(Item)))
  /\ pos' = pos + 1 + Size(Item)
  /\ UNCHANGED <<input, path, cursor>>

OpOpen ==
  /\ At("open") /\ CanApply
  /\ path' = Item.arg /\ cursor' = 0 /\ pos' = pos + 1
  /\ UNCHANGED <<input, out, hashed, pc>>

OpCopy ==
  /\ At("copy") /\ CanApply
  /\ Write(Segment(path, cursor, Item.arg))
  /\ cursor' = cursor + Item.arg /\ pos' = pos + 1
  /\ UNCHANGED <<input, path>>

OpAddData ==
  /\ At("add") /\ CanApply
  /\ Write(AddBytes(Payload(Size(Item)), Segment(path, cursor, Size(Item))))
  /\ cursor' = cursor + Size(Item) /\ pos' = pos + 1 + Size(Item)
  /\ UNCHANGED <<input, path>>

OpSeek ==
  /\ At("seek") /\ CanApply
  /\ cursor' = Item.arg /\ pos' = pos + 1
  /\ UNCHANGED <<input, path, out, hashed, pc>>

\* Variant: what follows the frame inside the op is not skipped.
DictConsumedFrame == 1 + Len(Item.payload)

\* The decoder stops at the end of its frame, the rest of the op is skipped.
DictConsumed == 1 + Size(Item)

\* The dictionary is the whole file, which leaves the cursor at its end.
OpZstdDict ==
  /\ At("dict") /\ CanApply
  /\ Write(Content(path) \o Item.payload)
  /\ cursor' = Len(Content(path)) /\ pos' = pos + DictConsumed
  /\ UNCHANGED <<input, path>>

\* An op over a limit, unknown, or that the data source cannot serve.
OpRejected == pc = "op" /\ pos < Len(Stream) /\ ~CanApply /\ Goto("error")

\* Any read of a cut stream may be the one that finds out.
StreamFails == pc \in {"header", "op"} /\ ~whole /\ media = "tar-diff" /\ Goto("error")

EndOfDelta == pc = "op" /\ pos = Len(Stream) /\ whole /\ Goto("compare")

\* Variant: the result is not compared.
CompareNothing == pc = "compare" /\ Goto("ok")

CompareDiffID ==
  pc = "compare" /\ Goto(IF hashed = expected THEN "ok" ELSE "error")

Next ==
  \/ ReadHeader \/ CopyOriginal \/ MediaRejected
  \/ OpData \/ OpOpen \/ OpCopy \/ OpAddData \/ OpSeek \/ OpZstdDict
  \/ OpRejected \/ StreamFails \/ EndOfDelta \/ CompareDiffID
  \/ pc \in {"ok", "error"} /\ UNCHANGED vars

Spec == Init /\ [][Next]_vars

-----------------------------------------------------------------------------
(* Properties *)

\* lib.rs:298-302: reconstruct_layer_to "Errors if the result does not hash to
\* expected_diff_id".  Success means that dst holds the layer and nothing else,
\* also when dst took its bytes in pieces (the digest is of what dst took,
\* lib.rs:157-161).
OkIsTheLayer == pc = "ok" => out = expected

\* Ops are read where ops begin: every op consumes exactly the payload that its
\* size announces, ZstdDict also what its frame leaves over.  And after every op
\* file, cursor and output are what the format says, whatever came before (a
\* file that stays open across ops, a cursor that a dictionary left at the end,
\* lib.rs:216-274).  What is compared is the whole of a tar-diff.
FollowsTheFormat ==
  pc \in {"op", "compare", "ok"} =>
    \E k \in 0..Len(program) :
      /\ pos = End(k)
      /\ WellFormed => Meaning(k) = [path |-> path, cursor |-> cursor, out |-> out]
      /\ media = "tar-diff" /\ pc # "op" => k = Len(program)

=============================================================================
