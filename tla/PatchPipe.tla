------------------------------ MODULE PatchPipe ------------------------------
(***************************************************************************)
(* How ImportDelta turns a tar-diff into a layer (import.go:58-79): a      *)
(* goroutine patches the files of the data source into a pipe, PutLayer    *)
(* reads the other end, pr.Close ends the pipe, and on return the data     *)
(* source is closed and unmounted (import.go:27-30).  Successive layers    *)
(* share the data source and its cursor; a goroutine may outlive its       *)
(* layer.                                                                  *)
(*                                                                         *)
(* tarpatch.Apply, io.Pipe and PutLayer are external.  Of PutLayer it is   *)
(* assumed that it succeeds only at the end of the stream.                 *)
(***************************************************************************)
EXTENDS DataSource

CONSTANTS Diffs,         \* a list of tar-diffs: lists of [op, arg]
          Files,         \* path -> object, of the image the diffs were made from
          PatchErrors    \* what Apply returns when it fails: "EOF", "other"

ASSUME DiffsAssumption ==
  /\ Len(Diffs) \in Nat
  /\ \A l \in 1..Len(Diffs) : Len(Diffs[l]) \in Nat

ASSUME PatchErrorsAssumption == PatchErrors \subseteq {"EOF", "other"}

VARIABLES main,          \* statement of ImportDelta
          layer,         \* the loop index
          result,
          stored,        \* the layers put so far
          got,           \* what PutLayer has read of the current one
          pc,            \* statement of each goroutine
          op,            \* ops it has executed
          err,           \* what its Apply returned
          pipe,          \* the chunk a Write offers, if any
          writeEnd,      \* "open", or how it was closed: "EOF" or "error"
          readEnd        \* "open" or "closed"

goroutines == <<pc, op, err, pipe, writeEnd>>
vars == <<main, layer, result, stored, got, readEnd, goroutines, current, mounted>>

Layers == 1..Len(Diffs)

Nothing == <<>>

-----------------------------------------------------------------------------
(* The reference: what the diff says, read from the image it was made from. *)

\* What op o does to the file read from and to what was written so far.
Effect(s, o) ==
  CASE o.op = "open" -> [s EXCEPT !.file = OpenAt(Files[o.arg], 0)]
    [] o.op = "seek" -> [s EXCEPT !.file = OpenAt(@[1].obj, o.arg)]
    [] o.op = "data" -> [s EXCEPT !.out = Append(@, o.arg)]
    [] o.op = "copy" ->
         [file |-> OpenAt(s.file[1].obj, s.file[1].pos + o.arg),
          out |-> Append(s.out, [obj |-> s.file[1].obj, pos |-> s.file[1].pos, n |-> o.arg])]

\* Where the first k ops lead, with a cursor of the diff's own.
AfterOps(diff, k) ==
  LET after[n \in 0..Len(diff)] ==
        IF n = 0 THEN [file |-> NoFile, out |-> <<>>] ELSE Effect(after[n - 1], diff[n])
  IN after[k]

Patched(diff) == AfterOps(diff, Len(diff)).out

Opened(diff, k) == \E j \in 1..k : diff[j].op = "open"

\* A diff opens files of its image, and one before it reads; and the data
\* source is of that image.
HonestDiffs ==
  /\ \A l \in 1..Len(Diffs) : \A k \in 1..Len(Diffs[l]) :
       /\ Diffs[l][k].op = "open" => Diffs[l][k].arg \in DOMAIN Files
       /\ Diffs[l][k].op \in {"seek", "copy"} => Opened(Diffs[l], k - 1)
  /\ \A p \in DOMAIN Files : Key(p) \in DOMAIN PathToObj => PathToObj[Key(p)] = Files[p]

-----------------------------------------------------------------------------
(* The goroutine that patches layer l *)

Goto(l, from, to) ==
  /\ pc[l] = from
  /\ pc' = [pc EXCEPT ![l] = to]

NextOp(l) == op' = [op EXCEPT ![l] = @ + 1]

IsNext(l, name) == op[l] < Len(Diffs[l]) /\ Diffs[l][op[l] + 1].op = name

Arg(l) == Diffs[l][op[l] + 1].arg

\* Apply returns.
Returns(l, e) == err' = [err EXCEPT ![l] = e]

OpenOp(l) ==
  /\ Goto(l, "apply", "apply")
  /\ IsNext(l, "open") /\ SetCurrentFile(Arg(l))
  /\ NextOp(l)
  /\ UNCHANGED <<err, pipe, writeEnd>>

SeekOp(l) ==
  /\ Goto(l, "apply", "apply")
  /\ IsNext(l, "seek") /\ Seek(Arg(l))
  /\ NextOp(l)
  /\ UNCHANGED <<err, pipe, writeEnd>>

\* A copy (or an addition) reads its bytes and then waits for PutLayer to take
\* them out of the pipe.
CopyOp(l) ==
  /\ Goto(l, "apply", "write")
  /\ IsNext(l, "copy") /\ Read(Arg(l))
  /\ pipe' = [pipe EXCEPT ![l] = <<BytesRead(Arg(l))>>]
  /\ NextOp(l)
  /\ UNCHANGED <<err, writeEnd>>

DataOp(l) ==
  /\ Goto(l, "apply", "write")
  /\ IsNext(l, "data")
  /\ pipe' = [pipe EXCEPT ![l] = <<Arg(l)>>]
  /\ NextOp(l)
  /\ UNCHANGED <<err, writeEnd, current>>

\* A damaged diff, or a file that is missing or too short.  An op that fails
\* after a part of its bytes got through is not told apart from one that fails
\* before.  A failed open leaves no current file.
OpFails(l) ==
  /\ Goto(l, "apply", "closeWrite")
  /\ \E e \in PatchErrors : Returns(l, e)
  /\ UNCHANGED current \/ (IsNext(l, "open") /\ SetCurrentFileFails)
  /\ UNCHANGED <<op, pipe, writeEnd>>

OpsDone(l) ==
  /\ Goto(l, "apply", "closeWrite")
  /\ op[l] = Len(Diffs[l])
  /\ Returns(l, "nil")
  /\ UNCHANGED <<op, pipe, writeEnd, current>>

\* Write returns when its bytes were taken ...
Written(l) ==
  /\ Goto(l, "write", "apply")
  /\ pipe[l] = Nothing
  /\ UNCHANGED <<op, err, pipe, writeEnd, current>>

\* ... or with ErrClosedPipe, when the read end was closed.
WriteFails(l) ==
  /\ Goto(l, "write", "closeWrite")
  /\ pipe[l] # Nothing /\ readEnd[l] = "closed"
  /\ pipe' = [pipe EXCEPT ![l] = Nothing]
  /\ Returns(l, "other")
  /\ UNCHANGED <<op, writeEnd, current>>

\* Variant: pw.Close(), whatever Apply returned.
CloseWithoutError(l) ==
  /\ Goto(l, "closeWrite", "done")
  /\ writeEnd' = [writeEnd EXCEPT ![l] = "EOF"]
  /\ UNCHANGED <<op, err, pipe, current>>

\* pw.CloseWithError(err): the reader sees EOF for nil, and also for io.EOF.
CloseWithError(l) ==
  /\ Goto(l, "closeWrite", "done")
  /\ writeEnd' = [writeEnd EXCEPT ![l] = IF err[l] = "other" THEN "error" ELSE "EOF"]
  /\ UNCHANGED <<op, err, pipe, current>>

Patcher(l) ==
  /\ \/ OpenOp(l) \/ SeekOp(l) \/ CopyOp(l) \/ DataOp(l) \/ OpFails(l) \/ OpsDone(l)
     \/ Written(l) \/ WriteFails(l) \/ CloseWithError(l)
  /\ UNCHANGED <<main, layer, result, stored, got, readEnd, mounted>>

-----------------------------------------------------------------------------
(* ImportDelta *)

Step(from, to) == main = from /\ main' = to

StartLayer ==
  /\ layer <= Len(Diffs)
  /\ Step("layer", "putLayer")
  /\ pc' = [pc EXCEPT ![layer] = "apply"]
  /\ got' = <<>>
  /\ UNCHANGED <<layer, result, stored, readEnd, op, err, pipe, writeEnd, current, mounted>>

\* The diff cannot be opened: no goroutine is started.
NoBlobReader ==
  /\ layer <= Len(Diffs)
  /\ Step("layer", "closeSource")
  /\ result' = "error"
  /\ UNCHANGED <<layer, stored, got, readEnd, goroutines, current, mounted>>

\* PutLayer takes what a Write offers.
ReadPipe ==
  /\ Step("putLayer", "putLayer")
  /\ pipe[layer] # Nothing
  /\ got' = got \o pipe[layer]
  /\ pipe' = [pipe EXCEPT ![layer] = Nothing]
  /\ UNCHANGED <<layer, result, stored, readEnd, pc, op, err, writeEnd, current, mounted>>

LayerPut ==
  /\ Step("putLayer", "closeRead")
  /\ writeEnd[layer] = "EOF"
  /\ stored' = Append(stored, got)
  /\ UNCHANGED <<layer, result, got, readEnd, goroutines, current, mounted>>

\* PutLayer may fail for reasons of its own.
PutFails ==
  /\ Step("putLayer", "closeRead")
  /\ result' = "error"
  /\ UNCHANGED <<layer, stored, got, readEnd, goroutines, current, mounted>>

\* Its error when the stream ends with one.
PutError == PutFails /\ writeEnd[layer] = "error"

Proceed ==
  IF result = "error" THEN Step("closeRead", "closeSource") /\ UNCHANGED layer
                      ELSE Step("closeRead", "layer") /\ layer' = layer + 1

\* Variant: pr.Close() only when PutLayer succeeded.
CloseReadOnSuccess ==
  /\ Proceed
  /\ readEnd' = IF result = "error" THEN readEnd ELSE [readEnd EXCEPT ![layer] = "closed"]
  /\ UNCHANGED <<result, stored, got, goroutines, current, mounted>>

\* Variant: the error of PutLayer is dropped.
CloseReadAndGoOn ==
  /\ Step("closeRead", "layer") /\ layer' = layer + 1
  /\ readEnd' = [readEnd EXCEPT ![layer] = "closed"]
  /\ UNCHANGED <<result, stored, got, goroutines, current, mounted>>

\* pr.Close(), and then the check of PutLayer's error.
CloseRead ==
  /\ Proceed
  /\ readEnd' = [readEnd EXCEPT ![layer] = "closed"]
  /\ UNCHANGED <<result, stored, got, goroutines, current, mounted>>

\* The image is created from the layers; its errors end the import as well.
CreateImage ==
  /\ layer > Len(Diffs)
  /\ Step("layer", "closeSource")
  /\ result' \in {"ok", "error"}
  /\ UNCHANGED <<layer, stored, got, readEnd, goroutines, current, mounted>>

\* The deferred calls, which wait for no goroutine.
CloseSource ==
  /\ Step("closeSource", "cleanup")
  /\ Close
  /\ UNCHANGED <<layer, result, stored, got, readEnd, goroutines, mounted>>

Cleanup ==
  /\ Step("cleanup", "returned")
  /\ mounted' = FALSE
  /\ UNCHANGED <<layer, result, stored, got, readEnd, goroutines, current>>

Importer ==
  \/ StartLayer \/ NoBlobReader \/ ReadPipe \/ LayerPut \/ PutError \/ CloseRead
  \/ CreateImage \/ CloseSource \/ Cleanup

-----------------------------------------------------------------------------

Init ==
  /\ DataSourceInit
  /\ main = "layer" /\ layer = 1 /\ result = "running"
  /\ stored = <<>> /\ got = <<>>
  /\ pc = [l \in Layers |-> "unborn"]
  /\ op = [l \in Layers |-> 0]
  /\ err = [l \in Layers |-> "nil"]
  /\ pipe = [l \in Layers |-> Nothing]
  /\ writeEnd = [l \in Layers |-> "open"]
  /\ readEnd = [l \in Layers |-> "open"]

Terminating ==
  /\ main = "returned"
  /\ \A l \in Layers : pc[l] \in {"unborn", "done"}
  /\ UNCHANGED vars

Next == Importer \/ PutFails \/ (\E l \in Layers : Patcher(l)) \/ Terminating

Spec == Init /\ [][Next]_vars

\* The Go scheduler runs every goroutine that can go on; PutLayer reads what
\* is offered.  Nothing obliges it to fail by itself.
FairSpec ==
  Spec /\ WF_vars(Importer) /\ \A l \in Layers : WF_vars(Patcher(l))

-----------------------------------------------------------------------------
(* Properties *)

TypeOK ==
  /\ main \in {"layer", "putLayer", "closeRead", "closeSource", "cleanup", "returned"}
  /\ layer \in 1..(Len(Diffs) + 1)
  /\ result \in {"running", "ok", "error"}
  /\ mounted \in BOOLEAN
  /\ pc \in [Layers -> {"unborn", "apply", "write", "closeWrite", "done"}]
  /\ err \in [Layers -> {"nil", "EOF", "other"}]
  /\ writeEnd \in [Layers -> {"open", "EOF", "error"}]
  /\ readEnd \in [Layers -> {"open", "closed"}]
  /\ op \in [Layers -> Nat] /\ \A l \in Layers : op[l] \in 0..Len(Diffs[l])
  /\ DOMAIN pipe = Layers

Patching(l) == pc[l] \in {"apply", "write"}

\* Only the goroutine of the current layer uses the data source, and once its
\* layer is put none does until the next one starts; after a failed PutLayer
\* it may go on while the source is closed (import.go:27-30, 66-79).
OnePatcherAtATime ==
  \A l \in Layers :
    Patching(l) => l = layer /\ (main = "putLayer" \/ result = "error")

\* An import that succeeded gives its mount back with no file open on it and
\* nobody left to open one (import.go:27-30).
SuccessReleasesSource ==
  ~mounted /\ result = "ok" => current = NoFile /\ \A l \in Layers : ~Patching(l)

\* Nobody waits for somebody who is gone: no goroutine stays blocked on its
\* pipe, whatever became of PutLayer, and PutLayer is never left waiting for a
\* goroutine that has ended (import.go:67-76).
EverybodyEnds ==
  /\ \A l \in Layers : Patching(l) ~> pc[l] = "done"
  /\ <>(main = "returned")

\* An io.EOF that Apply returns as it is looks like the end of the layer
\* (import.go:67-76).
CutByEOF == \E l \in Layers : err[l] = "EOF"

\* A layer that PutLayer accepted is the whole result of its diff, read from
\* the files the diff was made from, although all layers share one cursor and
\* the pipe may close at any op; the layers appear in order, each at once and
\* for good, as LayerStream says, so that ImportDelta may be modelled with one
\* step per tar-diff.  The exception is the code's, a bare io.EOF.
Stream == INSTANCE LayerStream WITH
            Outputs <- [l \in Layers |-> Patched(Diffs[l])]

ImplementsStream == Stream!Init /\ [][Stream!Next \/ CutByEOF']_<<stored, result>>

=============================================================================
