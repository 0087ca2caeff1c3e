---------------------------- MODULE PatchPipeProofs ----------------------------
(***************************************************************************)
(* Who may use the data source, for any list of diffs and any files.  That *)
(* a layer's stream ended says that its goroutine is done with the source  *)
(* (Ended); that all earlier layers were put says it of their goroutines   *)
(* (Past); what is left is the current layer.  And the layers that are put *)
(* are whole: the cursor is always where the ops of the current layer left *)
(* it, because nobody else moves it.                                       *)
(***************************************************************************)
EXTENDS PatchPipe, Induction

\* A goroutine exists once its layer was started.
Born == \A l \in Layers : pc[l] # "unborn" => l < layer \/ (l = layer /\ main # "layer")

\* Closing the write end is the last thing a goroutine does.
Ended == \A l \in Layers : writeEnd[l] # "open" => pc[l] = "done"

\* The loop leaves a layer behind only when its goroutine is done.
Past == \A l \in Layers : l < layer => pc[l] = "done"

\* What the statement of ImportDelta says of the current layer and the result.
Control ==
  /\ main \in {"putLayer", "closeRead"} => layer \in Layers
  /\ main \in {"layer", "putLayer"} => result = "running"
  /\ main = "closeRead" => result = "error" \/ (result = "running" /\ writeEnd[layer] # "open")
  /\ main \in {"closeSource", "cleanup", "returned"} => result \in {"ok", "error"}
  /\ result = "ok" => layer = Len(Diffs) + 1

\* The deferred calls.
Deferred ==
  /\ ~mounted => main = "returned"
  /\ main \in {"cleanup", "returned"} /\ result = "ok" => current = NoFile

IInv == TypeOK /\ Born /\ Ended /\ Past /\ Control /\ Deferred

\* The invariant holds when ImportDelta enters its loop.
LEMMA PipeInit == Init => IInv
BY DiffsAssumption
DEF Init, DataSourceInit, IInv, TypeOK, Born, Ended, Past, Control, Deferred, Layers

\* A goroutine's step leaves ImportDelta alone, and one that no longer patches
\* does not touch the source.
LEMMA PatcherPreserves ==
  ASSUME IInv, NEW l \in Layers, Patcher(l)
  PROVE  IInv'
<1> USE DiffsAssumption, PatchErrorsAssumption
<1>1. UNCHANGED <<main, layer, result, stored, got, readEnd, mounted>>
  BY DEF Patcher
<1>2. /\ pc[l] \in {"apply", "write", "closeWrite"}
      /\ \E s \in {"apply", "write", "closeWrite", "done"} : pc' = [pc EXCEPT ![l] = s]
  BY DEF Patcher, OpenOp, SeekOp, CopyOp, DataOp, OpFails, OpsDone, Written, WriteFails,
         CloseWithError, Goto
<1>3. \/ UNCHANGED writeEnd
      \/ /\ pc' = [pc EXCEPT ![l] = "done"]
         /\ \E e \in {"EOF", "error"} : writeEnd' = [writeEnd EXCEPT ![l] = e]
  BY DEF Patcher, OpenOp, SeekOp, CopyOp, DataOp, OpFails, OpsDone, Written, WriteFails,
         CloseWithError, Goto
<1>4. \/ UNCHANGED op
      \/ op[l] < Len(Diffs[l]) /\ op' = [op EXCEPT ![l] = @ + 1]
  BY DEF Patcher, OpenOp, SeekOp, CopyOp, DataOp, OpFails, OpsDone, Written, WriteFails,
         CloseWithError, NextOp, IsNext
<1>5. UNCHANGED err \/ \E e \in {"nil", "EOF", "other"} : err' = [err EXCEPT ![l] = e]
  BY DEF Patcher, OpenOp, SeekOp, CopyOp, DataOp, OpFails, OpsDone, Written, WriteFails,
         CloseWithError, Returns
<1>6. UNCHANGED pipe \/ \E c : pipe' = [pipe EXCEPT ![l] = c]
  BY DEF Patcher, OpenOp, SeekOp, CopyOp, DataOp, OpFails, OpsDone, Written, WriteFails,
         CloseWithError
<1>7. TypeOK'
  <2>1. pc' \in [Layers -> {"unborn", "apply", "write", "closeWrite", "done"}]
    BY <1>2 DEF IInv, TypeOK
  <2>2. writeEnd' \in [Layers -> {"open", "EOF", "error"}]
    BY <1>3 DEF IInv, TypeOK
  <2>3. err' \in [Layers -> {"nil", "EOF", "other"}]
    BY <1>5 DEF IInv, TypeOK
  <2>4. op' \in [Layers -> Nat] /\ \A k \in Layers : op'[k] \in 0..Len(Diffs[k])
    BY <1>4 DEF IInv, TypeOK, Layers
  <2>5. DOMAIN pipe' = Layers
    BY <1>6 DEF IInv, TypeOK
  <2> QED BY <1>1, <2>1, <2>2, <2>3, <2>4, <2>5 DEF IInv, TypeOK
<1>8. Born'
  BY <1>1, <1>2 DEF IInv, TypeOK, Born, Layers
<1>9. Ended'
  BY <1>2, <1>3 DEF IInv, TypeOK, Ended, Layers
<1>10. Past'
  BY <1>1, <1>2 DEF IInv, TypeOK, Past, Layers
<1>11. Control'
  BY <1>1, <1>2, <1>3 DEF IInv, TypeOK, Control, Ended, Layers
<1>12. Deferred'
  <2>1. result = "ok" => FALSE
    <3>1. result = "ok" => pc[l] = "done"
      BY DEF IInv, TypeOK, Control, Past, Layers
    <3> QED BY <3>1, <1>2
  <2> QED BY <2>1, <1>1 DEF IInv, Deferred
<1> QED BY <1>7, <1>8, <1>9, <1>10, <1>11, <1>12 DEF IInv

\* A step of ImportDelta.
LEMMA ImporterPreserves ==
  ASSUME IInv, Importer \/ PutFails
  PROVE  IInv'
<1> USE DiffsAssumption
<1> USE DEF IInv, TypeOK, Born, Ended, Past, Control, Deferred, Layers, Step, goroutines
<1>1. CASE StartLayer  BY <1>1 DEF StartLayer
<1>2. CASE ReadPipe    BY <1>2 DEF ReadPipe
<1>3. CASE LayerPut    BY <1>3 DEF LayerPut
<1>4. CASE PutFails    BY <1>4 DEF PutFails
<1>5. CASE PutError    BY <1>4, <1>5 DEF PutError
<1>6. CASE CloseRead
  <2>1. CASE result = "error"  BY <1>6, <2>1 DEF CloseRead, Proceed
  <2>2. CASE result # "error"
    <3>1. layer \in Layers /\ layer' = layer + 1 /\ pc[layer] = "done"
      BY <1>6, <2>2 DEF CloseRead, Proceed
    <3> QED BY <1>6, <2>2, <3>1 DEF CloseRead, Proceed
  <2> QED BY <2>1, <2>2
<1>7. CASE CreateImage BY <1>7 DEF CreateImage
<1>8. CASE CloseSource BY <1>8 DEF CloseSource, Close
<1>9. CASE Cleanup     BY <1>9 DEF Cleanup
<1>10. CASE NoBlobReader BY <1>10 DEF NoBlobReader
<1> QED
  BY <1>1, <1>2, <1>3, <1>4, <1>5, <1>6, <1>7, <1>8, <1>9, <1>10 DEF Importer

\* Every step keeps the invariant.
LEMMA PipeNext == IInv /\ [Next]_vars => IInv'
<1> SUFFICES ASSUME IInv, [Next]_vars PROVE IInv'
  OBVIOUS
<1>1. CASE Importer \/ PutFails
  BY <1>1, ImporterPreserves
<1>2. CASE \E l \in Layers : Patcher(l)
  BY <1>2, PatcherPreserves
<1>3. CASE UNCHANGED vars
  BY <1>3 DEF vars, goroutines, IInv, TypeOK, Born, Ended, Past, Control, Deferred
<1> QED BY <1>1, <1>2, <1>3 DEF Next, Terminating

\* The invariant holds for every list of diffs.
THEOREM PipeInvariant == Spec => []IInv
<1> QED BY PipeNext, PipeInit, PTL DEF Spec

\* Two goroutines never share the cursor: only that of the current layer
\* patches, and only while PutLayer reads or after the import failed.
THEOREM OneCursorUser == Spec => []OnePatcherAtATime
<1>1. IInv => OnePatcherAtATime
  BY DEF IInv, TypeOK, Born, Ended, Past, Control, OnePatcherAtATime, Patching, Layers
<1> QED BY <1>1, PipeInvariant, PTL

\* A successful import unmounts a source on which nothing is open or will be.
THEOREM SourceReleased == Spec => []SuccessReleasesSource
<1>1. IInv => SuccessReleasesSource
  <2> SUFFICES ASSUME IInv, ~mounted, result = "ok"
               PROVE  current = NoFile /\ \A l \in Layers : ~Patching(l)
    BY DEF SuccessReleasesSource
  <2>1. main = "returned"
    BY DEF IInv, Deferred
  <2>2. current = NoFile
    BY <2>1 DEF IInv, Deferred
  <2>3. \A l \in Layers : pc[l] = "done"
    BY DiffsAssumption DEF IInv, Control, Past, Layers
  <2> QED BY <2>2, <2>3 DEF Patching
<1> QED BY <1>1, PipeInvariant, PTL

-----------------------------------------------------------------------------
(* The layers are whole *)

\* The reference, step by step.
LEMMA Meanings ==
  ASSUME NEW l \in Layers
  PROVE  /\ AfterOps(Diffs[l], 0) = [file |-> NoFile, out |-> <<>>]
         /\ \A k \in 1..Len(Diffs[l]) :
              AfterOps(Diffs[l], k) = Effect(AfterOps(Diffs[l], k - 1), Diffs[l][k])
<1> DEFINE diff == Diffs[l]
           N == Len(diff)
           start == [file |-> NoFile, out |-> <<>>]
           Does(s, k) == Effect(s, diff[k])
           Body(f, n) == IF n = 0 THEN start ELSE Does(f[n - 1], n)
           after == CHOOSE f : f = [n \in 0..N |-> Body(f, n)]
           S == {m \in 0..N : \E f : f = [n \in 0..m |-> Body(f, n)]}
<1>1. N \in Nat
  BY DiffsAssumption DEF Layers
<1>2. \A k : AfterOps(diff, k) = after[k]
  BY DEF AfterOps
<1> HIDE DEF diff, start, Does
<1>3. 0 \in S
  <2> DEFINE f == [n \in 0..0 |-> start]
  <2>1. f = [n \in 0..0 |-> Body(f, n)]
    <3>1. \A n \in 0..0 : n = 0
      OBVIOUS
    <3>2. QED
      BY <3>1
  <2> HIDE DEF f
  <2>2. QED
    BY <1>1, <2>1
<1>4. ASSUME NEW m \in Nat, m < N, m \in S PROVE m + 1 \in S
  <2>1. PICK f : f = [n \in 0..m |-> Body(f, n)]
    BY <1>4
  <2> DEFINE g == [n \in 0..m + 1 |-> IF n = m + 1 THEN Does(f[m], n) ELSE f[n]]
  <2>2. ASSUME NEW n \in 0..m + 1 PROVE g[n] = Body(g, n)
    <3>1. CASE n = m + 1
      <4>1. n # 0 /\ n - 1 = m /\ m \in 0..m + 1 /\ m # m + 1
        BY <1>4, <3>1
      <4>2. g[n] = Does(f[m], n) /\ g[n - 1] = f[m]
        BY <3>1, <4>1
      <4>3. QED
        BY <4>1, <4>2
    <3>2. CASE n # m + 1
      <4>1. n \in 0..m /\ (n # 0 => n - 1 \in 0..m + 1 /\ n - 1 # m + 1)
        BY <1>4, <3>2
      <4>2. g[n] = f[n] /\ (n # 0 => g[n - 1] = f[n - 1])
        BY <3>2, <4>1
      <4>3. f[n] = Body(f, n)
        BY <2>1, <4>1
      <4>4. QED
        BY <4>2, <4>3
    <3>3. QED
      BY <3>1, <3>2
  <2>3. g = [n \in 0..m + 1 |-> g[n]]
    OBVIOUS
  <2> HIDE DEF g, Body
  <2>4. g = [n \in 0..m + 1 |-> Body(g, n)]
    BY <2>2, <2>3
  <2>5. m + 1 \in 0..N
    BY <1>1, <1>4
  <2>6. QED
    BY <2>4, <2>5
<1>5. N \in S
  <2> HIDE DEF S
  <2>1. 0..N \subseteq S
    BY <1>1, <1>3, <1>4, InductionUpto
  <2>2. QED
    BY <1>1, <2>1
<1>6. after = [n \in 0..N |-> Body(after, n)]
  <2> HIDE DEF Body
  <2>1. QED
    BY <1>5
<1> HIDE DEF after
<1>7. after[0] = start /\ \A k \in 1..N : after[k] = Does(after[k - 1], k)
  <2>1. 0 \in 0..N /\ \A k \in 1..N : k \in 0..N /\ k # 0
    BY <1>1
  <2>2. QED
    BY <1>6, <2>1
<1>8. QED
  BY <1>2, <1>7 DEF diff, start, Does

State(file, out) == [file |-> file, out |-> out]

\* What each kind of op does, by the format.
LEMMA OpenEffect ==
  ASSUME NEW file, NEW out, NEW o, o.op = "open"
  PROVE  Effect(State(file, out), o) = State(OpenAt(Files[o.arg], 0), out)
BY DEF Effect, State

LEMMA SeekEffect ==
  ASSUME NEW file, NEW out, NEW o, o.op = "seek"
  PROVE  Effect(State(file, out), o) = State(OpenAt(file[1].obj, o.arg), out)
BY DEF Effect, State

LEMMA DataEffect ==
  ASSUME NEW file, NEW out, NEW o, o.op = "data"
  PROVE  Effect(State(file, out), o) = State(file, Append(out, o.arg))
BY DEF Effect, State

LEMMA CopyEffect ==
  ASSUME NEW file, NEW out, NEW o, o.op = "copy"
  PROVE  Effect(State(file, out), o) =
           State(OpenAt(file[1].obj, file[1].pos + o.arg),
                 Append(out, [obj |-> file[1].obj, pos |-> file[1].pos, n |-> o.arg]))
BY DEF Effect, State

\* What each goroutine and its pipe are like before and after it patches.
Endpoints ==
  \A l \in Layers :
    /\ pc[l] = "unborn" => op[l] = 0 /\ pipe[l] = Nothing
    /\ pc[l] \in {"unborn", "apply", "write"} => err[l] = "nil"
    /\ writeEnd[l] = "EOF" => err[l] # "other"
    /\ readEnd[l] = "closed" => l < layer \/ main \in {"closeSource", "cleanup", "returned"}

\* Where the ops that were executed lead.
Reached(l) == AfterOps(Diffs[l], op[l])

\* PutLayer has what they wrote, but for what still waits in the pipe, and the
\* cursor is theirs.
Taken(l) ==
  \E file, out :
    /\ Reached(l) = State(file, out)
    /\ \/ pipe[l] = Nothing /\ got = out
       \/ pc[l] = "write" /\ \E chunk : pipe[l] = <<chunk>> /\ out = Append(got, chunk)
    /\ Patching(l) /\ Opened(Diffs[l], op[l]) => current = file

\* While a layer is put, its goroutine is where its ops lead.
Reading ==
  main = "putLayer" =>
    /\ \E V : got \in Seq(V)
    /\ pc[layer] # "unborn"
    /\ pc[layer] # "write" => pipe[layer] = Nothing
    /\ err[layer] = "nil" => Taken(layer)
    /\ ~Patching(layer) /\ err[layer] = "nil" => op[layer] = Len(Diffs[layer])

\* The layers put are whole.
StoredSoFar ==
  ~CutByEOF /\ result = "running" =>
    stored = [k \in 1..(IF main = "closeRead" THEN layer ELSE layer - 1) |-> Patched(Diffs[k])]

StreamInv == IInv /\ Endpoints /\ Reading /\ StoredSoFar

\* No layer is put at first.
LEMMA StreamInit == Init => StreamInv
<1> SUFFICES ASSUME Init PROVE StreamInv
  OBVIOUS
<1>1. Endpoints /\ Reading
  BY DEF Init, Endpoints, Reading
<1>2. StoredSoFar
  <2>1. stored = <<>> /\ main = "layer" /\ layer = 1
    BY DEF Init
  <2>2. [k \in 1..(1 - 1) |-> Patched(Diffs[k])] = <<>>
    OBVIOUS
  <2>3. QED
    BY <2>1, <2>2 DEF StoredSoFar
<1>3. QED
  BY <1>1, <1>2, PipeInit DEF StreamInv

\* One more op.
LEMMA Executed ==
  ASSUME IInv, NEW l \in Layers, NEW name, IsNext(l, name), NextOp(l)
  PROVE  /\ Diffs[l][op[l] + 1].op = name /\ Arg(l) = Diffs[l][op[l] + 1].arg
         /\ op[l] + 1 \in 1..Len(Diffs[l]) /\ (op[l] + 1) - 1 = op[l]
         /\ Reached(l)' = Effect(Reached(l), Diffs[l][op[l] + 1])
         /\ Opened(Diffs[l], op[l])' <=> Opened(Diffs[l], op[l]) \/ name = "open"
<1>1. op[l] \in Nat /\ op[l] < Len(Diffs[l]) /\ Len(Diffs[l]) \in Nat /\ op'[l] = op[l] + 1
  BY DiffsAssumption DEF IInv, TypeOK, IsNext, NextOp, Layers
<1>2. op[l] + 1 \in 1..Len(Diffs[l]) /\ (op[l] + 1) - 1 = op[l]
  BY <1>1
<1>3. Diffs[l][op[l] + 1].op = name /\ Arg(l) = Diffs[l][op[l] + 1].arg
  BY DEF IsNext, Arg
<1>4. AfterOps(Diffs[l], op[l] + 1) = Effect(AfterOps(Diffs[l], op[l]), Diffs[l][op[l] + 1])
  BY <1>2, Meanings
<1>5. Reached(l)' = Effect(Reached(l), Diffs[l][op[l] + 1])
  BY <1>1, <1>4 DEF Reached
<1>6. Opened(Diffs[l], op[l] + 1) <=> Opened(Diffs[l], op[l]) \/ name = "open"
  <2>1. \A j : j \in 1..(op[l] + 1) <=> j \in 1..op[l] \/ j = op[l] + 1
    BY <1>1
  <2>2. QED
    BY <1>3, <2>1 DEF Opened
<1>7. Opened(Diffs[l], op[l])' <=> Opened(Diffs[l], op[l] + 1)
  BY <1>1
<1>8. QED
  BY <1>2, <1>3, <1>5, <1>6, <1>7

\* A goroutine's step keeps what is known of the endpoints.
LEMMA PatcherEndpoints ==
  ASSUME IInv, Endpoints, NEW l \in Layers, Patcher(l)
  PROVE  Endpoints' /\ (CutByEOF => CutByEOF')
<1> USE DEF Layers
<1>1. UNCHANGED <<main, layer, readEnd>> /\ pc[l] \in {"apply", "write", "closeWrite"}
  BY DEF Patcher, OpenOp, SeekOp, CopyOp, DataOp, OpFails, OpsDone, Written, WriteFails,
         CloseWithError, Goto
<1>2. \E s \in {"apply", "write", "closeWrite", "done"} :
        /\ pc' = [pc EXCEPT ![l] = s]
        /\ s \in {"apply", "write"} => pc[l] \in {"apply", "write"} /\ UNCHANGED err
        /\ UNCHANGED err \/ (pc[l] \in {"apply", "write"} /\ \E e : err' = [err EXCEPT ![l] = e])
  BY DEF Patcher, OpenOp, SeekOp, CopyOp, DataOp, OpFails, OpsDone, Written, WriteFails,
         CloseWithError, Goto, Returns
<1>3. UNCHANGED writeEnd \/ (/\ UNCHANGED err
                             /\ writeEnd' = [writeEnd EXCEPT ![l] = IF err[l] = "other" THEN "error" ELSE "EOF"])
  BY DEF Patcher, OpenOp, SeekOp, CopyOp, DataOp, OpFails, OpsDone, Written, WriteFails,
         CloseWithError
<1>4. \A k \in Layers \ {l} : op'[k] = op[k] /\ pipe'[k] = pipe[k]
  <2>1. UNCHANGED op \/ op' = [op EXCEPT ![l] = @ + 1]
    BY DEF Patcher, OpenOp, SeekOp, CopyOp, DataOp, OpFails, OpsDone, Written, WriteFails,
           CloseWithError, NextOp
  <2>2. UNCHANGED pipe \/ \E c : pipe' = [pipe EXCEPT ![l] = c]
    BY DEF Patcher, OpenOp, SeekOp, CopyOp, DataOp, OpFails, OpsDone, Written, WriteFails,
           CloseWithError
  <2>3. QED
    BY <2>1, <2>2 DEF IInv, TypeOK
<1>5. ASSUME NEW k \in Layers, k # l
      PROVE  pc'[k] = pc[k] /\ err'[k] = err[k] /\ writeEnd'[k] = writeEnd[k]
  BY <1>2, <1>3, <1>5 DEF IInv, TypeOK
<1>6. /\ pc'[l] # "unborn"
      /\ pc'[l] \in {"apply", "write"} => err'[l] = err[l] /\ err[l] = "nil"
      /\ err'[l] = err[l] \/ (err[l] = "nil" /\ writeEnd[l] = "open" /\ UNCHANGED writeEnd)
  BY <1>1, <1>2, <1>3 DEF IInv, TypeOK, Endpoints, Ended
<1>7. writeEnd'[l] = "EOF" => err'[l] # "other"
  BY <1>3, <1>6 DEF IInv, TypeOK, Endpoints
<1>8. Endpoints'
  BY <1>1, <1>4, <1>5, <1>6, <1>7 DEF Endpoints
<1>9. \A k \in Layers : err[k] = "EOF" => err'[k] = "EOF"
  BY <1>5, <1>6
<1>10. QED
  BY <1>8, <1>9 DEF CutByEOF

\* The steps of the goroutine whose layer is put.
LEMMA PatcherReading ==
  ASSUME HonestDiffs, IInv, Endpoints, Reading, main = "putLayer",
         NEW l \in Layers, l = layer, Patcher(l)
  PROVE  Reading'
<1> DEFINE o == Diffs[l][op[l] + 1]
<1>1. /\ UNCHANGED <<main, layer, got, readEnd>>
      /\ pc \in [Layers -> {"unborn", "apply", "write", "closeWrite", "done"}]
      /\ op \in [Layers -> Nat] /\ err \in [Layers -> {"nil", "EOF", "other"}] /\ DOMAIN pipe = Layers
  BY DEF Patcher, IInv, TypeOK
<1>2. PICK V : got \in Seq(V)
  BY DEF Reading
<1>3. readEnd[l] # "closed"
  BY DiffsAssumption DEF Endpoints, Layers
<1> DEFINE Now(file, out) == Reached(l) = State(file, out)
<1>4. ASSUME NEW s, pc' = [pc EXCEPT ![l] = s], s # "unborn",
             s # "write" => pipe'[l] = Nothing,
             err'[l] = "nil" => Taken(l)',
             s \in {"closeWrite", "done"} /\ err'[l] = "nil" => op'[l] = Len(Diffs[l]),
             s \in {"apply", "write", "closeWrite", "done"}
      PROVE  Reading'
  <2>1. pc'[l] = s
    BY <1>1, <1>4
  <2>2. QED
    BY <1>1, <1>2, <1>4, <2>1 DEF Reading, Patching
<1>5. ASSUME pc[l] \in {"apply", "write"}
      PROVE  /\ err[l] = "nil"
             /\ \E file, out :
                  /\ Now(file, out)
                  /\ \/ pipe[l] = Nothing /\ got = out
                     \/ pc[l] = "write" /\ \E chunk : pipe[l] = <<chunk>> /\ out = Append(got, chunk)
                  /\ Opened(Diffs[l], op[l]) => current = file
  BY <1>5 DEF Reading, Endpoints, Taken, Patching
<1>6. ASSUME pc[l] = "apply"
      PROVE  pipe[l] = Nothing /\ \E file : Now(file, got) /\ (Opened(Diffs[l], op[l]) => current = file)
  <2>1. pipe[l] = Nothing
    BY <1>6 DEF Reading
  <2>2. QED
    BY <1>5, <1>6, <2>1 DEF Nothing
<1>7. CASE OpenOp(l)
  <2>1. /\ pc[l] = "apply" /\ pc' = [pc EXCEPT ![l] = "apply"] /\ IsNext(l, "open") /\ NextOp(l)
        /\ UNCHANGED <<err, pipe>> /\ SetCurrentFile(Arg(l))
    BY <1>7 DEF OpenOp, Goto
  <2>2. PICK file : Now(file, got)
    BY <1>6, <2>1
  <2>3. /\ o.op = "open" /\ Arg(l) = o.arg /\ op[l] + 1 \in 1..Len(Diffs[l])
        /\ Reached(l)' = Effect(Reached(l), o)
    BY <2>1, Executed
  <2>4. current' = OpenAt(Files[o.arg], 0)
    <3>1. o.arg \in DOMAIN Files
      BY <2>3 DEF HonestDiffs, Layers
    <3>2. QED
      BY <2>1, <2>3, <3>1 DEF SetCurrentFile, HonestDiffs
  <2>5. Reached(l)' = State(current', got)
    <3>1. Effect(State(file, got), o) = State(OpenAt(Files[o.arg], 0), got)
      <4>1. o.op = "open"
        BY <2>3
      <4>2. QED
        BY <4>1, OpenEffect
    <3>2. QED
      BY <2>2, <2>3, <2>4, <3>1
  <2>6. Taken(l)'
    BY <1>1, <1>6, <2>1, <2>5 DEF Taken
  <2>7. QED
    BY <1>4, <1>6, <2>1, <2>6
<1>8. CASE SeekOp(l)
  <2>1. /\ pc[l] = "apply" /\ pc' = [pc EXCEPT ![l] = "apply"] /\ IsNext(l, "seek") /\ NextOp(l)
        /\ UNCHANGED <<err, pipe>> /\ Seek(Arg(l))
    BY <1>8 DEF SeekOp, Goto
  <2>2. PICK file : Now(file, got) /\ (Opened(Diffs[l], op[l]) => current = file)
    BY <1>6, <2>1
  <2>3. /\ o.op = "seek" /\ Arg(l) = o.arg /\ op[l] + 1 \in 1..Len(Diffs[l])
        /\ (op[l] + 1) - 1 = op[l] /\ Reached(l)' = Effect(Reached(l), o)
    BY <2>1, Executed
  <2>4. current = file
    BY <2>2, <2>3 DEF HonestDiffs, Layers
  <2>5. Reached(l)' = State(current', got)
    <3>1. Effect(State(file, got), o) = State(OpenAt(file[1].obj, o.arg), got)
      <4>1. o.op = "seek"
        BY <2>3
      <4>2. QED
        BY <4>1, SeekEffect
    <3>2. current' = OpenAt(file[1].obj, o.arg)
      BY <2>1, <2>3, <2>4 DEF Seek
    <3>3. QED
      BY <2>2, <2>3, <3>1, <3>2
  <2>6. Taken(l)'
    BY <1>1, <1>6, <2>1, <2>5 DEF Taken
  <2>7. QED
    BY <1>4, <1>6, <2>1, <2>6
<1>9. CASE CopyOp(l)
  <2>1. /\ pc[l] = "apply" /\ pc' = [pc EXCEPT ![l] = "write"] /\ IsNext(l, "copy") /\ NextOp(l)
        /\ UNCHANGED err /\ Read(Arg(l)) /\ pipe' = [pipe EXCEPT ![l] = <<BytesRead(Arg(l))>>]
    BY <1>9 DEF CopyOp, Goto
  <2>2. PICK file : Now(file, got) /\ (Opened(Diffs[l], op[l]) => current = file)
    BY <1>6, <2>1
  <2>3. /\ o.op = "copy" /\ Arg(l) = o.arg /\ op[l] + 1 \in 1..Len(Diffs[l])
        /\ (op[l] + 1) - 1 = op[l] /\ Reached(l)' = Effect(Reached(l), o)
    BY <2>1, Executed
  <2>4. current = file
    BY <2>2, <2>3 DEF HonestDiffs, Layers
  <2>5. Reached(l)' = State(current', Append(got, BytesRead(Arg(l))))
    <3>1. Effect(State(file, got), o) =
            State(OpenAt(file[1].obj, file[1].pos + o.arg),
                  Append(got, [obj |-> file[1].obj, pos |-> file[1].pos, n |-> o.arg]))
      <4>1. o.op = "copy"
        BY <2>3
      <4>2. QED
        BY <4>1, CopyEffect
    <3>2. current' = OpenAt(file[1].obj, file[1].pos + o.arg)
      BY <2>1, <2>3, <2>4 DEF Read
    <3>3. BytesRead(Arg(l)) = [obj |-> file[1].obj, pos |-> file[1].pos, n |-> o.arg]
      BY <2>3, <2>4 DEF BytesRead
    <3>4. QED
      BY <2>2, <2>3, <3>1, <3>2, <3>3
  <2>6. Taken(l)'
    <3>1. pipe'[l] = <<BytesRead(Arg(l))>> /\ pc'[l] = "write"
      BY <1>1, <2>1
    <3>2. QED
      BY <1>1, <2>5, <3>1 DEF Taken
  <2>7. QED
    BY <1>4, <2>1, <2>6
<1>10. CASE DataOp(l)
  <2>1. /\ pc[l] = "apply" /\ pc' = [pc EXCEPT ![l] = "write"] /\ IsNext(l, "data") /\ NextOp(l)
        /\ UNCHANGED <<err, current>> /\ pipe' = [pipe EXCEPT ![l] = <<Arg(l)>>]
    BY <1>10 DEF DataOp, Goto
  <2>2. PICK file : Now(file, got) /\ (Opened(Diffs[l], op[l]) => current = file)
    BY <1>6, <2>1
  <2>3. /\ o.op = "data" /\ Arg(l) = o.arg
        /\ Reached(l)' = Effect(Reached(l), o)
        /\ Opened(Diffs[l], op[l])' <=> Opened(Diffs[l], op[l])
    BY <2>1, Executed
  <2>4. Reached(l)' = State(file, Append(got, Arg(l)))
    <3>1. Effect(State(file, got), o) = State(file, Append(got, o.arg))
      <4>1. o.op = "data"
        BY <2>3
      <4>2. QED
        BY <4>1, DataEffect
    <3>2. QED
      BY <2>2, <2>3, <3>1
  <2>5. Taken(l)'
    <3>1. pipe'[l] = <<Arg(l)>> /\ pc'[l] = "write"
      BY <1>1, <2>1
    <3>2. (Opened(Diffs[l], op[l]) => current = file)'
      BY <2>1, <2>2, <2>3
    <3>3. QED
      BY <1>1, <2>4, <3>1, <3>2 DEF Taken
  <2>6. QED
    BY <1>4, <2>1, <2>5
<1>11. CASE OpFails(l)
  <2>1. /\ pc[l] = "apply" /\ pc' = [pc EXCEPT ![l] = "closeWrite"] /\ UNCHANGED pipe
        /\ \E e \in {"EOF", "other"} : err' = [err EXCEPT ![l] = e]
    BY <1>11, PatchErrorsAssumption DEF OpFails, Goto, Returns
  <2>2. err'[l] # "nil"
    BY <1>1, <2>1
  <2>3. QED
    BY <1>4, <1>6, <2>1, <2>2
<1>12. CASE OpsDone(l)
  <2>1. /\ pc[l] = "apply" /\ pc' = [pc EXCEPT ![l] = "closeWrite"] /\ UNCHANGED <<op, pipe>>
        /\ op[l] = Len(Diffs[l])
    BY <1>12 DEF OpsDone, Goto
  <2>2. PICK file : Now(file, got)
    BY <1>6, <2>1
  <2>3. Reached(l)' = State(file, got)
    BY <1>1, <2>1, <2>2 DEF Reached
  <2>4. Taken(l)'
    <3>1. ~Patching(l)'
      BY <1>1, <2>1 DEF Patching
    <3>2. QED
      BY <1>1, <1>6, <2>1, <2>3, <3>1 DEF Taken
  <2>5. QED
    BY <1>4, <1>6, <2>1, <2>4
<1>13. CASE Written(l)
  <2>1. /\ pc[l] = "write" /\ pc' = [pc EXCEPT ![l] = "apply"]
        /\ UNCHANGED <<op, err, pipe, current>> /\ pipe[l] = Nothing
    BY <1>13 DEF Written, Goto
  <2>2. PICK file : Now(file, got) /\ (Opened(Diffs[l], op[l]) => current = file)
    BY <1>5, <2>1 DEF Nothing
  <2>3. Reached(l)' = State(file, got)
    BY <1>1, <2>1, <2>2 DEF Reached
  <2>4. Taken(l)'
    <3>1. (Opened(Diffs[l], op[l]) => current = file)'
      BY <1>1, <2>1, <2>2
    <3>2. QED
      BY <1>1, <2>1, <2>3, <3>1 DEF Taken
  <2>5. QED
    BY <1>4, <2>1, <2>4
<1>14. CASE WriteFails(l)
  BY <1>3, <1>14 DEF WriteFails
<1>15. CASE CloseWithError(l)
  <2>1. /\ pc[l] = "closeWrite" /\ pc' = [pc EXCEPT ![l] = "done"]
        /\ UNCHANGED <<op, err, pipe, current>>
    BY <1>15 DEF CloseWithError, Goto
  <2>2. pipe[l] = Nothing /\ (err[l] = "nil" => op[l] = Len(Diffs[l]))
    BY <2>1 DEF Reading, Patching
  <2>3. err[l] = "nil" => Taken(l)'
    <3>1. ~Patching(l)'
      BY <1>1, <2>1 DEF Patching
    <3>2. err[l] = "nil" => \E file, out : Reached(l) = State(file, out) /\ got = out
      BY <2>1 DEF Reading, Taken
    <3>3. QED
      BY <1>1, <2>1, <2>2, <3>1, <3>2 DEF Taken, Reached
  <2>4. QED
    BY <1>1, <1>4, <2>1, <2>2, <2>3
<1>16. QED
  BY <1>7, <1>8, <1>9, <1>10, <1>11, <1>12, <1>13, <1>14, <1>15 DEF Patcher

\* A layer that PutLayer accepts is whole, unless a patch was cut by an io.EOF.
LEMMA WholeLayerPut ==
  ASSUME StreamInv, LayerPut, ~CutByEOF
  PROVE  /\ layer \in Layers /\ result = "running"
         /\ stored = [k \in 1..layer - 1 |-> Patched(Diffs[k])]
         /\ stored' = Append(stored, Patched(Diffs[layer]))
<1>1. /\ main = "putLayer" /\ writeEnd[layer] = "EOF" /\ stored' = Append(stored, got)
      /\ layer \in Layers /\ result = "running"
  BY DEF LayerPut, Step, StreamInv, IInv, Control
<1>2. pc[layer] = "done" /\ err[layer] = "nil"
  BY <1>1 DEF StreamInv, IInv, TypeOK, Ended, Endpoints, CutByEOF
<1>3. Taken(layer) /\ op[layer] = Len(Diffs[layer])
  BY <1>1, <1>2 DEF StreamInv, Reading, Patching
<1>4. got = Reached(layer).out
  BY <1>2, <1>3 DEF Taken, State
<1>5. got = Patched(Diffs[layer])
  BY <1>3, <1>4 DEF Reached, Patched
<1>6. QED
  BY <1>1, <1>5 DEF StreamInv, StoredSoFar

\* A step of ImportDelta keeps what is known of the endpoints ...
LEMMA ImporterEndpoints ==
  ASSUME StreamInv, Importer \/ PutFails
  PROVE  Endpoints' /\ (CutByEOF' <=> CutByEOF)
<1> USE DEF StreamInv, IInv, TypeOK, Born, Control, Endpoints, Step, goroutines, Layers
<1>1. CASE StartLayer
  BY <1>1 DEF StartLayer, CutByEOF
<1>2. CASE ReadPipe
  <2>1. layer \in Layers /\ pc[layer] # "unborn"
    BY <1>2 DEF ReadPipe, Reading
  <2>2. QED
    BY <1>2, <2>1 DEF ReadPipe, CutByEOF
<1>3. CASE LayerPut
  BY <1>3 DEF LayerPut, CutByEOF
<1>4. CASE PutFails
  BY <1>4 DEF PutFails, CutByEOF
<1>5. CASE CloseRead
  BY <1>5, DiffsAssumption DEF CloseRead, Proceed, CutByEOF
<1>6. CASE NoBlobReader \/ CreateImage
  BY <1>6 DEF NoBlobReader, CreateImage, CutByEOF
<1>7. CASE CloseSource \/ Cleanup
  BY <1>7 DEF CloseSource, Cleanup, CutByEOF
<1>8. QED
  BY <1>1, <1>2, <1>3, <1>4, <1>5, <1>6, <1>7 DEF Importer, PutError

\* ... and of the layer that is put ...
LEMMA ImporterReading ==
  ASSUME StreamInv, Importer \/ PutFails
  PROVE  Reading'
<1>1. CASE StartLayer
  <2>1. /\ main = "layer" /\ layer <= Len(Diffs) /\ layer' = layer
        /\ pc' = [pc EXCEPT ![layer] = "apply"] /\ got' = <<>>
        /\ UNCHANGED <<op, err, pipe>>
    BY <1>1 DEF StartLayer, Step
  <2>2. layer \in Layers
    BY <2>1, DiffsAssumption DEF StreamInv, IInv, TypeOK, Layers
  <2>3. pc[layer] = "unborn"
    BY <2>1, <2>2, DiffsAssumption DEF StreamInv, IInv, Born, Layers
  <2>4. op[layer] = 0 /\ pipe[layer] = Nothing
    BY <2>2, <2>3 DEF StreamInv, Endpoints
  <2>5. pc'[layer'] = "apply"
    BY <2>1, <2>2 DEF StreamInv, IInv, TypeOK
  <2>6. Reached(layer)' = State(NoFile, <<>>)
    <3>1. AfterOps(Diffs[layer], 0) = State(NoFile, <<>>)
      BY <2>2, Meanings DEF State
    <3>2. QED
      BY <2>1, <2>4, <3>1 DEF Reached
  <2>7. ~Opened(Diffs[layer], op[layer])'
    BY <2>1, <2>4 DEF Opened
  <2>8. Taken(layer)'
    BY <2>1, <2>4, <2>6, <2>7 DEF Taken
  <2>9. \E V : got' \in Seq(V)
    BY <2>1
  <2>10. QED
    BY <2>1, <2>4, <2>5, <2>8, <2>9 DEF Reading, Patching
<1>2. CASE ReadPipe
  <2>1. /\ main = "putLayer" /\ pipe[layer] # Nothing /\ got' = got \o pipe[layer]
        /\ pipe' = [pipe EXCEPT ![layer] = Nothing] /\ UNCHANGED <<layer, pc, op, err, current>>
    BY <1>2 DEF ReadPipe, Step
  <2>2. layer \in Layers /\ pc[layer] = "write" /\ err[layer] = "nil"
    BY <2>1 DEF StreamInv, IInv, Control, Reading, Endpoints
  <2>3. Taken(layer)
    BY <2>1, <2>2 DEF StreamInv, Reading
  <2>4. PICK file, out, chunk :
          /\ Reached(layer) = State(file, out) /\ pipe[layer] = <<chunk>>
          /\ out = Append(got, chunk)
          /\ Patching(layer) /\ Opened(Diffs[layer], op[layer]) => current = file
    BY <2>1, <2>3 DEF Taken
  <2>5. PICK V : got \in Seq(V)
    BY <2>1 DEF StreamInv, Reading
  <2>6. got' = out /\ out \in Seq(V \cup {chunk})
    BY <2>1, <2>4, <2>5
  <2>7. pipe'[layer'] = Nothing
    BY <2>1, <2>2 DEF StreamInv, IInv, TypeOK
  <2>8. Reached(layer)' = State(file, out)
    BY <2>1, <2>4 DEF Reached
  <2>9. (Patching(layer) /\ Opened(Diffs[layer], op[layer]) => current = file)'
    BY <2>1, <2>4 DEF Patching
  <2>10. Taken(layer)'
    BY <2>6, <2>7, <2>8, <2>9 DEF Taken
  <2>11. QED
    BY <2>1, <2>2, <2>6, <2>7, <2>10 DEF Reading, Patching
<1>3. CASE LayerPut \/ PutFails
  BY <1>3 DEF LayerPut, PutFails, Step, Reading
<1>4. CASE CloseRead
  BY <1>4 DEF CloseRead, Proceed, Step, Reading
<1>5. CASE NoBlobReader \/ CreateImage \/ CloseSource \/ Cleanup
  BY <1>5 DEF NoBlobReader, CreateImage, CloseSource, Cleanup, Step, Reading
<1>6. QED
  BY <1>1, <1>2, <1>3, <1>4, <1>5 DEF Importer, PutError

\* ... and of those already put.
LEMMA ImporterStored ==
  ASSUME StreamInv, Importer \/ PutFails
  PROVE  StoredSoFar'
<1> SUFFICES ASSUME ~CutByEOF', result' = "running"
             PROVE  stored' = [k \in 1..(IF main' = "closeRead" THEN layer' ELSE layer' - 1) |->
                                 Patched(Diffs[k])]
  BY DEF StoredSoFar
<1>1. ~CutByEOF
  BY ImporterEndpoints
<1>2. layer \in Nat
  BY DiffsAssumption DEF StreamInv, IInv, TypeOK
<1> DEFINE Whole(n) == [k \in 1..n |-> Patched(Diffs[k])]
<1>3. result = "running" => stored = Whole(IF main = "closeRead" THEN layer ELSE layer - 1)
  BY <1>1 DEF StreamInv, StoredSoFar
<1>4. CASE StartLayer \/ ReadPipe
  <2>1. /\ main # "closeRead" /\ main' # "closeRead" /\ UNCHANGED <<layer, stored, result>>
    BY <1>4 DEF StartLayer, ReadPipe, Step
  <2>2. QED
    BY <1>3, <2>1
<1>5. CASE LayerPut
  <2>1. main' = "closeRead" /\ layer' = layer
    BY <1>5 DEF LayerPut, Step
  <2>2. /\ layer \in Layers /\ stored = Whole(layer - 1)
        /\ stored' = Append(stored, Patched(Diffs[layer]))
    BY <1>1, <1>5, WholeLayerPut
  <2>3. stored' = Whole(layer)
    <3>1. layer - 1 \in Nat /\ (layer - 1) + 1 = layer
      BY <2>2 DEF Layers
    <3>2. Append(Whole(layer - 1), Patched(Diffs[layer])) = Whole(layer)
      BY <3>1
    <3>3. QED
      BY <2>2, <3>2
  <2>4. QED
    BY <2>1, <2>3
<1>6. CASE CloseRead
  <2>1. main = "closeRead" /\ result = "running" /\ UNCHANGED stored
    BY <1>6 DEF CloseRead, Proceed, Step
  <2>2. main' = "layer" /\ layer' = layer + 1
    BY <1>6, <2>1 DEF CloseRead, Proceed, Step
  <2>3. layer' - 1 = layer
    BY <1>2, <2>2
  <2>4. QED
    BY <1>3, <2>1, <2>2, <2>3
<1>7. CASE PutFails \/ NoBlobReader \/ CreateImage
  BY <1>7 DEF PutFails, NoBlobReader, CreateImage
<1>8. CASE CloseSource \/ Cleanup
  BY <1>8 DEF CloseSource, Cleanup, Step, StreamInv, IInv, Control
<1>9. QED
  BY <1>4, <1>5, <1>6, <1>7, <1>8 DEF Importer, PutError

\* Every step keeps the invariant.
LEMMA StreamNext ==
  ASSUME HonestDiffs, StreamInv, [Next]_vars
  PROVE  StreamInv'
<1>1. IInv'
  BY PipeNext DEF StreamInv
<1>2. CASE Importer \/ PutFails
  BY <1>1, <1>2, ImporterEndpoints, ImporterReading, ImporterStored DEF StreamInv
<1>3. ASSUME NEW l \in Layers, Patcher(l) PROVE StreamInv'
  <2>1. UNCHANGED <<main, layer, result, stored, got>>
    BY <1>3 DEF Patcher
  <2>2. Endpoints' /\ (CutByEOF => CutByEOF')
    BY <1>3, PatcherEndpoints DEF StreamInv
  <2>3. Reading'
    <3>1. CASE main = "putLayer"
      <4>1. pc[l] \in {"apply", "write", "closeWrite"}
        BY <1>3 DEF Patcher, OpenOp, SeekOp, CopyOp, DataOp, OpFails, OpsDone, Written,
                    WriteFails, CloseWithError, Goto
      <4>2. l = layer
        BY <3>1, <4>1, DiffsAssumption DEF StreamInv, IInv, TypeOK, Born, Past, Layers
      <4>3. QED
        BY <1>3, <3>1, <4>2, PatcherReading DEF StreamInv
    <3>2. CASE main # "putLayer"
      BY <2>1, <3>2 DEF Reading
    <3>3. QED
      BY <3>1, <3>2
  <2>4. StoredSoFar'
    BY <2>1, <2>2 DEF StreamInv, StoredSoFar
  <2>5. QED
    BY <1>1, <2>2, <2>3, <2>4 DEF StreamInv
<1>4. CASE UNCHANGED vars
  <2>1. Endpoints' /\ Reading' /\ StoredSoFar'
    BY <1>4 DEF vars, goroutines, StreamInv, Endpoints, Reading, StoredSoFar, Taken, Reached,
                Patching, CutByEOF
  <2>2. QED
    BY <1>1, <2>1 DEF StreamInv
<1>5. QED
  BY <1>2, <1>3, <1>4 DEF Next, Terminating

\* A step is one of LayerStream, or invisible there, or a patch was cut.
LEMMA StreamStep ==
  ASSUME StreamInv, [Next]_vars
  PROVE  [Stream!Next \/ CutByEOF']_<<stored, result>>
<1> DEFINE Outputs == [l \in Layers |-> Patched(Diffs[l])]
<1>1. Len(Diffs) \in Nat /\ Len(Outputs) = Len(Diffs)
  <2>1. Len(Diffs) \in Nat
    BY DiffsAssumption
  <2>2. QED
    BY <2>1 DEF Layers
<1>2. CASE Importer \/ PutFails
  <2> SUFFICES ASSUME ~CutByEOF' PROVE [Stream!Next]_<<stored, result>>
    OBVIOUS
  <2>1. ~CutByEOF
    BY <1>2, ImporterEndpoints
  <2>2. CASE LayerPut
    <3>1. /\ layer \in Layers /\ result = "running" /\ result' = result
          /\ stored = [k \in 1..layer - 1 |-> Patched(Diffs[k])]
          /\ stored' = Append(stored, Patched(Diffs[layer]))
      BY <2>1, <2>2, WholeLayerPut DEF LayerPut
    <3>2. Len(stored) = layer - 1 /\ layer <= Len(Diffs)
      BY <1>1, <3>1 DEF Layers
    <3>3. Len(stored) < Len(Outputs) /\ Len(stored) + 1 = layer /\ Outputs[layer] = Patched(Diffs[layer])
      BY <1>1, <3>1, <3>2 DEF Layers
    <3> HIDE DEF Outputs
    <3>4. Stream!Store
      BY <3>1, <3>3 DEF Stream!Store, Outputs
    <3>5. QED
      BY <3>4 DEF Stream!Next
  <2>3. CASE PutFails \/ NoBlobReader
    BY <2>3 DEF PutFails, NoBlobReader, Step, StreamInv, IInv, Control, Stream!Next, Stream!GiveUp
  <2>4. CASE CreateImage
    <3>1. /\ main = "layer" /\ layer > Len(Diffs) /\ result = "running"
          /\ UNCHANGED stored /\ result' \in {"ok", "error"}
      BY <2>4 DEF CreateImage, Step, StreamInv, IInv, Control
    <3>2. layer - 1 = Len(Diffs)
      <4>1. layer \in 1..Len(Diffs) + 1
        BY DEF StreamInv, IInv, TypeOK
      <4>2. Len(Diffs) \in Nat /\ layer > Len(Diffs)
        BY <1>1, <3>1
      <4> HIDE DEF Outputs
      <4>3. QED
        BY ONLY <4>1, <4>2
    <3>3. stored = Outputs
      BY <2>1, <3>1, <3>2 DEF StreamInv, StoredSoFar, Layers
    <3>4. QED
      BY <3>1, <3>3 DEF Stream!Next, Stream!Finish, Stream!GiveUp
  <2>5. CASE StartLayer \/ ReadPipe \/ CloseRead
    BY <2>5 DEF StartLayer, ReadPipe, CloseRead, Step
  <2>6. CASE CloseSource \/ Cleanup
    BY <2>6 DEF CloseSource, Cleanup, Step
  <2>7. QED
    BY <1>2, <2>2, <2>3, <2>4, <2>5, <2>6 DEF Importer, PutError
<1>3. CASE \E l \in Layers : Patcher(l)
  BY <1>3 DEF Patcher
<1>4. CASE UNCHANGED vars
  BY <1>4 DEF vars
<1>5. QED
  BY <1>2, <1>3, <1>4 DEF Next, Terminating

\* From the source a diff was made for, every layer that PutLayer accepts is the
\* whole result of its diff, and the layers appear in order, each at once and
\* for good, unless tar-patch returns a bare io.EOF: for any list of diffs of
\* any length, although all share one cursor (import.go:58-79).
THEOREM LayersAreWhole == HonestDiffs => (Spec => ImplementsStream)
<1> SUFFICES ASSUME HonestDiffs PROVE Spec => ImplementsStream
  OBVIOUS
<1>1. Init => Stream!Init
  BY DEF Init, Stream!Init
<1>2. Init => StreamInv
  BY StreamInit
<1>3. StreamInv /\ [Next]_vars => StreamInv'
  BY StreamNext
<1>4. StreamInv /\ [Next]_vars => [Stream!Next \/ CutByEOF']_<<stored, result>>
  BY StreamStep
<1>5. QED
  BY <1>1, <1>2, <1>3, <1>4, PTL DEF Spec, ImplementsStream

=============================================================================
