--------------------------- MODULE CreateDeltaProofs ---------------------------
(***************************************************************************)
(* CreateDelta publishes the whole delta or nothing: for any images,       *)
(* signatures and answers of the differ, and whatever fails, rots or       *)
(* crashes.  First what the lists built by create.go hold, then the        *)
(* invariant: what of the write list is there, and why it is intact.       *)
(***************************************************************************)
EXTENDS CreateDelta, Induction

-----------------------------------------------------------------------------
(* The layers carried, the parts of the delta and the entries written *)

\* The loop over the new image's layers, as equations (create.go:136-172).
LEMMA CarriedDef ==
  ASSUME NEW o, NEW m, Len(m.layers) \in Nat
  PROVE  \E g \in [0..Len(m.layers) -> Seq(NewOnly(o, m))] :
           /\ CarriedLayers(o, m) = g[Len(m.layers)]
           /\ g[0] = <<>>
           /\ \A n \in 1..Len(m.layers) :
                g[n] = IF LayerDigest(m, n) \in NewOnly(o, m)
                          THEN Append(g[n - 1], LayerDigest(m, n))
                          ELSE g[n - 1]
<1> DEFINE N == Len(m.layers)
           Digests == NewOnly(o, m)
           D(n) == LayerDigest(m, n)
           V == Seq(Digests)
           Empty == <<>>
           Step(n, s) == IF D(n) \in Digests THEN Append(s, D(n)) ELSE s
           F == [n \in 1..N |-> [s \in V |-> Step(n, s)]]
           Body(f, n) == IF n = 0 THEN Empty ELSE Step(n, f[n - 1])
           carried == CHOOSE f : f = [n \in 0..N |-> Body(f, n)]
<1>1. CarriedLayers(o, m) = carried[N]
  BY DEF CarriedLayers
<1>2. Empty \in V /\ \A n : \A s \in V : Step(n, s) \in V
  OBVIOUS
<1>3. N \in Nat
  OBVIOUS
<1> HIDE DEF N, Digests, D, V, carried, Step, Empty
<1>4. F \in Steps(N, V)
  BY <1>2 DEF Steps
<1>5. PICK g : Iterates(g, N, V, Empty, F)
  <2> HIDE DEF F
  <2>1. Empty \in V
    BY <1>2
  <2>2. QED
    BY <1>3, <1>4, <2>1, IteratesExist
<1>6. /\ g \in [0..N -> V] /\ g[0] = Empty
      /\ \A n \in 1..N : g[n] = Step(n, g[n - 1])
  <2>1. /\ g \in [0..N -> V] /\ g[0] = Empty
        /\ \A n \in 1..N : g[n] = F[n][g[n - 1]]
    BY <1>5 DEF Iterates
  <2>2. ASSUME NEW n \in 1..N PROVE g[n] = Step(n, g[n - 1])
    <3>1. g[n - 1] \in V
      BY <1>3, <2>1
    <3>2. QED
      BY <2>1, <3>1
  <2>3. QED
    BY <2>1, <2>2
<1>7. g = [n \in 0..N |-> Body(g, n)]
  <2>1. \A n \in 0..N : g[n] = Body(g, n)
    BY <1>6
  <2> HIDE DEF Body
  <2>2. QED
    BY <1>6, <2>1
<1>8. carried = [n \in 0..N |-> Body(carried, n)]
  <2> HIDE DEF Body
  <2>1. QED
    BY <1>7 DEF carried
<1>9. carried[N] = g[N]
  <2> DEFINE S == {n \in 0..N : carried[n] = g[n]}
  <2>1. 0 \in S
    BY <1>3, <1>6, <1>8
  <2>2. ASSUME NEW n \in Nat, n < N, n \in S PROVE n + 1 \in S
    <3>1. n + 1 \in 0..N /\ n + 1 \in 1..N /\ (n + 1) - 1 = n /\ n + 1 # 0
      BY <1>3, <2>2
    <3>2. carried[n + 1] = Body(carried, n + 1)
      <4> HIDE DEF Body
      <4>1. QED
        BY <1>8, <3>1
    <3>3. QED
      BY <2>2, <3>1, <3>2, <1>6
  <2>3. 0..N \subseteq S
    <3> HIDE DEF S
    <3>1. QED
      BY <1>3, <2>1, <2>2, InductionUpto
  <2>4. QED
    BY <1>3, <2>3
<1>10. QED
  BY <1>1, <1>6, <1>9 DEF N, Digests, D, V, Step, Empty

\* Only layers the old image lacks are carried.
LEMMA CarriedAreNew ==
  ASSUME NEW o, NEW m, Len(m.layers) \in Nat
  PROVE  CarriedLayers(o, m) \in Seq(NewOnly(o, m))
BY CarriedDef

\* Every layer the old image lacks is carried.
LEMMA NewAreCarried ==
  ASSUME NEW o, NEW m, Len(m.layers) \in Nat, NEW d \in NewOnly(o, m)
  PROVE  \E k \in 1..Len(CarriedLayers(o, m)) : CarriedLayers(o, m)[k] = d
<1> DEFINE N == Len(m.layers)
           V == Seq(NewOnly(o, m))
<1>1. PICK g \in [0..N -> V] :
        /\ CarriedLayers(o, m) = g[N]
        /\ \A n \in 1..N : g[n] = IF LayerDigest(m, n) \in NewOnly(o, m)
                                  THEN Append(g[n - 1], LayerDigest(m, n))
                                  ELSE g[n - 1]
  BY CarriedDef
<1>2. PICK j \in 1..N : LayerDigest(m, j) = d
  BY DEF NewOnly
<1> DEFINE S == {n \in 0..N : n >= j => \E k \in 1..Len(g[n]) : g[n][k] = d}
<1>3. 0 \in S
  OBVIOUS
<1>4. ASSUME NEW n \in Nat, n < N, n \in S PROVE n + 1 \in S
  <2>1. n + 1 \in 1..N /\ (n + 1) - 1 = n /\ g[n] \in V /\ g[n + 1] \in V
    BY <1>4
  <2>2. g[n + 1] = IF LayerDigest(m, n + 1) \in NewOnly(o, m)
                     THEN Append(g[n], LayerDigest(m, n + 1)) ELSE g[n]
    BY <1>1, <2>1
  <2>3. CASE n + 1 = j
    <3>1. g[n + 1] = Append(g[n], d)
      BY <1>2, <2>2, <2>3
    <3>2. Len(g[n + 1]) \in 1..Len(g[n + 1]) /\ g[n + 1][Len(g[n + 1])] = d
      BY <2>1, <3>1
    <3>3. QED
      BY <2>1, <3>2
  <2>4. CASE n + 1 # j /\ n + 1 >= j
    <3>1. PICK k \in 1..Len(g[n]) : g[n][k] = d
      BY <1>4, <2>4
    <3>2. k \in 1..Len(g[n + 1]) /\ g[n + 1][k] = d
      BY <2>1, <2>2, <3>1
    <3>3. QED
      BY <2>1, <3>2
  <2>5. CASE ~(n + 1 >= j)
    BY <2>1, <2>5
  <2>6. QED
    BY <2>3, <2>4, <2>5
<1>5. N \in S
  <2> HIDE DEF S
  <2>1. 0..N \subseteq S
    BY <1>3, <1>4, InductionUpto
  <2>2. QED
    BY <2>1
<1>6. QED
  BY <1>1, <1>2, <1>5

\* What the signature loop may append (create.go:174-212).
SignatureBlobs(s) ==
  {s[n].manifest : n \in 1..Len(s)} \cup
  UNION {{s[n].blobs[k] : k \in 1..Len(s[n].blobs)} : n \in 1..Len(s)}

\* The parts signature artifacts give rise to.
SignaturePartSet(s) ==
  [content : {"cosign-signature", "cosign-signature-content"},
   media : {"manifest", "blob"}, digest : SignatureBlobs(s), to : {NoTo}]

LEMMA SignaturePartsType ==
  ASSUME NEW s \in Signatures
  PROVE  SignatureParts(s) \in Seq(SignaturePartSet(s))
<1> DEFINE N == Len(s)
           V == Seq(SignaturePartSet(s))
           Empty == <<>>
           P(n) == PartsOfSignature(s[n])
           Step(n, q) == q \o P(n)
           F == [n \in 1..N |-> [q \in V |-> Step(n, q)]]
           Body(f, n) == IF n = 0 THEN Empty ELSE Step(n, f[n - 1])
           parts == CHOOSE f : f = [n \in 0..N |-> Body(f, n)]
<1>1. SignatureParts(s) = parts[N]
  BY DEF SignatureParts
<1>2. N \in Nat
  BY SignaturesAssumption
<1>3. ASSUME NEW n \in 1..N PROVE P(n) \in V
  <2>1. Len(s[n].blobs) \in Nat
    BY SignaturesAssumption DEF SignatureArtifact
  <2>2. Part("cosign-signature", "manifest", s[n].manifest, NoTo) \in SignaturePartSet(s)
    BY DEF Part, SignaturePartSet, SignatureBlobs
  <2>3. \A k \in 1..Len(s[n].blobs) :
          Part("cosign-signature-content", "blob", s[n].blobs[k], NoTo) \in SignaturePartSet(s)
    BY DEF Part, SignaturePartSet, SignatureBlobs
  <2>4. QED
    BY <2>1, <2>2, <2>3 DEF PartsOfSignature
<1>4. Empty \in V /\ \A n \in 1..N : \A q \in V : Step(n, q) \in V
  BY <1>3
<1> HIDE DEF N, V, P, parts, Step, Empty
<1>5. F \in Steps(N, V)
  BY <1>4 DEF Steps
<1>6. PICK g : Iterates(g, N, V, Empty, F)
  <2> HIDE DEF F
  <2>1. Empty \in V
    BY <1>4
  <2>2. QED
    BY <1>2, <1>5, <2>1, IteratesExist
<1>7. /\ g \in [0..N -> V]
      /\ \A n \in 0..N : g[n] = Body(g, n)
  <2>1. /\ g \in [0..N -> V] /\ g[0] = Empty
        /\ \A n \in 1..N : g[n] = F[n][g[n - 1]]
    BY <1>6 DEF Iterates
  <2>2. ASSUME NEW n \in 1..N PROVE g[n] = Step(n, g[n - 1])
    <3>1. g[n - 1] \in V
      BY <1>2, <2>1
    <3>2. QED
      BY <2>1, <3>1
  <2>3. QED
    BY <1>2, <2>1, <2>2
<1>8. parts = [n \in 0..N |-> Body(parts, n)]
  <2> HIDE DEF Body
  <2>1. g = [n \in 0..N |-> Body(g, n)]
    BY <1>7
  <2>2. QED
    BY <2>1 DEF parts
<1>9. 0..N \subseteq {n \in 0..N : parts[n] \in V}
  <2> DEFINE T == {n \in 0..N : parts[n] \in V}
  <2>1. 0 \in T
    BY <1>2, <1>4, <1>8
  <2>2. ASSUME NEW n \in Nat, n < N, n \in T PROVE n + 1 \in T
    <3>1. n + 1 \in 0..N /\ n + 1 \in 1..N /\ (n + 1) - 1 = n /\ n + 1 # 0
      BY <1>2, <2>2
    <3>2. parts[n + 1] = Body(parts, n + 1)
      <4> HIDE DEF Body
      <4>1. QED
        BY <1>8, <3>1
    <3>3. QED
      BY <1>4, <2>2, <3>1, <3>2
  <2> HIDE DEF T
  <2>3. 0..N \subseteq T
    BY <1>2, <2>1, <2>2, InductionUpto
  <2>4. QED
    BY <2>3 DEF T
<1>10. QED
  BY <1>1, <1>2, <1>9 DEF V

\* u is s followed by t.
Joins(u, s, t) ==
  /\ Len(u) = Len(s) + Len(t)
  /\ \A k \in 1..Len(s) : u[k] = s[k]
  /\ \A k \in 1..Len(t) : u[k + Len(s)] = t[k]

LEMMA ConcatFacts ==
  ASSUME NEW S, NEW T, NEW s \in Seq(S), NEW t \in Seq(T)
  PROVE  s \o t \in Seq(S \cup T) /\ Joins(s \o t, s, t)
BY DEF Joins

\* How many layers are carried, how many parts the signatures have.
Carried == Len(CarriedLayers(old, new))
Signed == Len(SignatureParts(sigs))
Final == Len(WriteList)

\* What parsing has established of the images and signatures at hand.
LEMMA ImageFacts ==
  ASSUME TypeOK
  PROVE  /\ ParsedImage(old) /\ ParsedImage(new)
         /\ Len(old.layers) \in Nat /\ Len(new.layers) \in Nat
         /\ CarriedLayers(old, new) \in Seq(NewOnly(old, new))
         /\ NewOnly(old, new) \subseteq LayerDigests(new)
         /\ SignatureParts(sigs) \in Seq(SignaturePartSet(sigs))
         /\ \A d \in LayerDigests(new) : d.kind = "layer" /\ d.tar \in Tar
<1>1. ParsedImage(old) /\ ParsedImage(new)
  BY PairsAssumption DEF TypeOK
<1>2. Len(old.layers) \in Nat /\ Len(new.layers) \in Nat
  BY <1>1 DEF ParsedImage
<1>3. CarriedLayers(old, new) \in Seq(NewOnly(old, new))
  BY <1>2, CarriedAreNew
<1>4. SignatureParts(sigs) \in Seq(SignaturePartSet(sigs))
  BY SignaturePartsType DEF TypeOK
<1>5. NewOnly(old, new) \subseteq LayerDigests(new)
  BY DEF NewOnly, LayerDigests
<1>6. \A d \in LayerDigests(new) : d.kind = "layer" /\ d.tar \in Tar
  BY <1>1 DEF ParsedImage, LayerDigests
<1>7. QED
  BY <1>1, <1>2, <1>3, <1>4, <1>5, <1>6

\* The parts of the delta manifest, position by position.
LEMMA PartsFacts ==
  ASSUME TypeOK
  PROVE  /\ Carried \in Nat /\ Signed \in Nat
         /\ Len(TheDelta.parts) = 2 + Carried + Signed
         /\ TheDelta.parts[1] = Part("image-manifest", "image-manifest", new, NoTo)
         /\ TheDelta.parts[2] = Part("image-config", "image-config", new.config, NoTo)
         /\ \A k \in 1..Carried :
              TheDelta.parts[k + 2] = LayerPart(CarriedLayers(old, new)[k], chosen)
         /\ \A k \in 1..Signed :
              TheDelta.parts[k + (2 + Carried)] = SignatureParts(sigs)[k]
         /\ TheDelta.kind = "delta" /\ TheDelta.sourceConfig = old.config
<1> DEFINE L == LayerParts(old, new, chosen)
           S == SignatureParts(sigs)
           I == ImageParts(new)
<1>1. Carried \in Nat /\ Signed \in Nat
  BY ImageFacts DEF Carried, Signed
<1>2. /\ Len(L) = Carried /\ L \in Seq({L[k] : k \in 1..Carried})
      /\ \A k \in 1..Carried : L[k] = LayerPart(CarriedLayers(old, new)[k], chosen)
  BY <1>1 DEF LayerParts, Carried
<1>3. Len(S) = Signed /\ S \in Seq(SignaturePartSet(sigs))
  BY ImageFacts DEF Signed
<1>4. /\ I \in Seq({I[1], I[2]}) /\ Len(I) = 2
      /\ I[1] = Part("image-manifest", "image-manifest", new, NoTo)
      /\ I[2] = Part("image-config", "image-config", new.config, NoTo)
  BY DEF ImageParts
<1>5. TheDelta.parts = (I \o L) \o S /\ TheDelta.kind = "delta"
      /\ TheDelta.sourceConfig = old.config
  BY DEF TheDelta, BuildDelta, DeltaManifest
<1> DEFINE A == {I[1], I[2]}
           B == {L[k] : k \in 1..Carried}
           C == SignaturePartSet(sigs)
<1> HIDE DEF L, S, I, A, B, C
<1> DEFINE IL == I \o L
           ILS == IL \o S
<1>6. IL \in Seq(A \cup B) /\ Joins(IL, I, L)
  <2>1. I \in Seq(A) /\ L \in Seq(B)
    BY <1>2, <1>4 DEF A, B
  <2>2. QED
    BY <2>1, ConcatFacts
<1> HIDE DEF IL
<1>7. Joins(ILS, IL, S)
  <2>1. S \in Seq(C)
    BY <1>3 DEF C
  <2>2. QED
    BY <1>6, <2>1, ConcatFacts
<1>11. TheDelta.parts = ILS
  BY <1>5 DEF IL
<1> HIDE DEF ILS
<1>8. \A k \in 1..Carried : k + 2 \in 1..2 + Carried
  BY <1>1
<1>9. 1 \in 1..2 + Carried /\ 2 \in 1..2 + Carried
  BY <1>1
<1>10. /\ Len(ILS) = 2 + Carried + Signed
       /\ ILS[1] = I[1] /\ ILS[2] = I[2]
       /\ \A k \in 1..Carried : ILS[k + 2] = L[k]
       /\ \A k \in 1..Signed : ILS[k + (2 + Carried)] = S[k]
  BY <1>1, <1>2, <1>3, <1>4, <1>6, <1>7, <1>8, <1>9 DEF Joins
<1>12. QED
  BY <1>1, <1>2, <1>4, <1>5, <1>10, <1>11 DEF S

\* The write list, position by position: the manifest's blobs come in the order
\* of its parts, after oci-layout; then {}, the manifest, and index.json.
LEMMA WriteListFacts ==
  ASSUME TypeOK
  PROVE  /\ Final = 6 + Carried + Signed /\ Carried \in Nat /\ Signed \in Nat
         /\ WriteList[1].name = LayoutFile
         /\ \A k \in 1..Len(TheDelta.parts) :
              WriteList[k + 1].name = TheDelta.parts[k].digest
         /\ WriteList[Final - 2].name = EmptyJSON
         /\ WriteList[Final - 1].name = TheDelta
         /\ WriteList[Final] = Entry(IndexFile, NoTo)
<1> DEFINE First == Plain(<<LayoutFile, new, new.config>>)
           End == Plain(<<EmptyJSON, TheDelta, IndexFile>>)
           L == LayerEntries
           S == SignatureEntries
           FL == First \o L
           FLS == FL \o S
           All == FLS \o End
<1>1. Carried \in Nat /\ Signed \in Nat
  BY PartsFacts
<1>2. /\ Len(First) = 3 /\ First \in Seq({First[k] : k \in 1..3})
      /\ First[1] = Entry(LayoutFile, NoTo) /\ First[2] = Entry(new, NoTo)
      /\ First[3] = Entry(new.config, NoTo)
  BY DEF Plain
<1>3. /\ Len(End) = 3 /\ End \in Seq({End[k] : k \in 1..3})
      /\ End[1] = Entry(EmptyJSON, NoTo) /\ End[2] = Entry(TheDelta, NoTo)
      /\ End[3] = Entry(IndexFile, NoTo)
  <2> HIDE DEF TheDelta
  <2>1. QED
    BY DEF Plain
<1>4. /\ Len(L) = Carried /\ L \in Seq({L[k] : k \in 1..Carried})
      /\ \A k \in 1..Carried : L[k] = LayerEntry(CarriedLayers(old, new)[k])
  BY <1>1 DEF LayerEntries, Carried
<1>5. /\ Len(S) = Signed /\ S \in Seq({S[k] : k \in 1..Signed})
      /\ \A k \in 1..Signed : S[k] = Entry(SignatureParts(sigs)[k].digest, NoTo)
  BY <1>1 DEF SignatureEntries, Signed
<1>6. WriteList = All
  BY DEF WriteList
<1> DEFINE A == {First[k] : k \in 1..3}
           B == {L[k] : k \in 1..Carried}
           C == {S[k] : k \in 1..Signed}
           D == {End[k] : k \in 1..3}
<1>7. First \in Seq(A) /\ L \in Seq(B) /\ S \in Seq(C) /\ End \in Seq(D)
  BY <1>2, <1>3, <1>4, <1>5
<1> HIDE DEF A, B, C, D, First, End, L, S
<1>8. FL \in Seq(A \cup B) /\ Joins(FL, First, L)
  BY <1>7, ConcatFacts
<1> HIDE DEF FL
<1>9. FLS \in Seq((A \cup B) \cup C) /\ Joins(FLS, FL, S)
  BY <1>7, <1>8, ConcatFacts
<1> HIDE DEF FLS
<1>10. Joins(All, FLS, End)
  BY <1>7, <1>9, ConcatFacts
<1> HIDE DEF All
<1>11. /\ Len(FL) = 3 + Carried
       /\ FL[1] = First[1] /\ FL[2] = First[2] /\ FL[3] = First[3]
       /\ \A k \in 1..Carried : FL[k + 3] = L[k]
  BY <1>1, <1>2, <1>4, <1>8 DEF Joins
<1>12. /\ Len(FLS) = 3 + Carried + Signed
       /\ \A k \in 1..3 + Carried : FLS[k] = FL[k]
       /\ \A k \in 1..Signed : FLS[k + (3 + Carried)] = S[k]
  BY <1>1, <1>5, <1>9, <1>11 DEF Joins
<1>13. /\ Len(All) = 6 + Carried + Signed
       /\ \A k \in 1..3 + Carried + Signed : All[k] = FLS[k]
       /\ \A k \in 1..3 : All[k + (3 + Carried + Signed)] = End[k]
  BY <1>1, <1>3, <1>10, <1>12 DEF Joins
<1>14. Final = 6 + Carried + Signed
  BY <1>6, <1>13 DEF Final
<1>15. /\ WriteList[1] = First[1] /\ WriteList[2] = First[2] /\ WriteList[3] = First[3]
       /\ WriteList[Final - 2] = End[1] /\ WriteList[Final - 1] = End[2]
       /\ WriteList[Final] = End[3]
  <2>1. /\ Final - 2 = 1 + (3 + Carried + Signed) /\ Final - 1 = 2 + (3 + Carried + Signed)
        /\ Final = 3 + (3 + Carried + Signed)
        /\ \A k \in 1..3 : k \in 1..3 + Carried /\ k \in 1..3 + Carried + Signed
    BY <1>1, <1>14
  <2>2. QED
    BY <1>6, <1>11, <1>12, <1>13, <2>1
<1>16. \A k \in 1..Carried : WriteList[k + 3] = L[k]
  <2>1. \A k \in 1..Carried : k + 3 \in 1..3 + Carried /\ k + 3 \in 1..3 + Carried + Signed
    BY <1>1
  <2>2. QED
    BY <1>6, <1>11, <1>12, <1>13, <2>1
<1>17. \A k \in 1..Signed : WriteList[k + (3 + Carried)] = S[k]
  <2>1. \A k \in 1..Signed : k + (3 + Carried) \in 1..3 + Carried + Signed
    BY <1>1
  <2>2. QED
    BY <1>6, <1>12, <1>13, <2>1
<1>18. ASSUME NEW k \in 1..Len(TheDelta.parts)
       PROVE  WriteList[k + 1].name = TheDelta.parts[k].digest
  <2>1. k = 1 \/ k = 2 \/ k - 2 \in 1..Carried \/ k - (2 + Carried) \in 1..Signed
    BY <1>1, PartsFacts
  <2>2. CASE k = 1 \/ k = 2
    BY <1>2, <1>15, <2>2, PartsFacts DEF Part, Entry
  <2>3. CASE k - 2 \in 1..Carried
    <3>1. WriteList[k + 1] = LayerEntry(CarriedLayers(old, new)[k - 2])
      <4>1. k + 1 = (k - 2) + 3
        OBVIOUS
      <4>2. QED
        BY <1>4, <1>16, <2>3, <4>1
    <3>2. TheDelta.parts[k] = LayerPart(CarriedLayers(old, new)[k - 2], chosen)
      <4>1. k = (k - 2) + 2
        OBVIOUS
      <4>2. QED
        BY <2>3, <4>1, PartsFacts
    <3>3. \A d : LayerEntry(d).name = LayerPart(d, chosen).digest
      BY DEF LayerEntry, LayerPart, Part, Entry
    <3>4. QED
      BY <3>1, <3>2, <3>3
  <2>4. CASE k - (2 + Carried) \in 1..Signed
    <3>1. k + 1 = (k - (2 + Carried)) + (3 + Carried)
          /\ k = (k - (2 + Carried)) + (2 + Carried)
      BY <1>1
    <3>2. WriteList[k + 1] = Entry(SignatureParts(sigs)[k - (2 + Carried)].digest, NoTo)
      BY <1>5, <1>17, <2>4, <3>1
    <3>3. TheDelta.parts[k] = SignatureParts(sigs)[k - (2 + Carried)]
      BY <2>4, <3>1, PartsFacts
    <3>4. QED
      BY <3>2, <3>3 DEF Entry
  <2>5. QED
    BY <2>1, <2>2, <2>3, <2>4
<1>19. QED
  BY <1>1, <1>2, <1>3, <1>14, <1>15, <1>18 DEF Entry

\* Nothing but the last entry goes by the name index.json.
LEMMA NamesFacts ==
  ASSUME TypeOK, \A d \in NewOnly(old, new) : chosen[d].kind \in {"layer", "cut", "diff"}
  PROVE  \A k \in 1..Final - 1 : WriteList[k].name # IndexFile
<1> SUFFICES ASSUME NEW k \in 1..Final - 1 PROVE WriteList[k].name.kind # "index.json"
  BY DEF IndexFile
<1>1. TheDelta.kind = "delta" /\ LayoutFile.kind = "oci-layout" /\ EmptyJSON.kind = "empty"
  BY PartsFacts DEF LayoutFile, EmptyJSON
<1>2. k \in Nat /\ (k = 1 \/ k = Final - 2 \/ k = Final - 1 \/ k - 1 \in 1..Len(TheDelta.parts))
  <2>1. Final = 6 + Carried + Signed /\ Carried \in Nat /\ Signed \in Nat
    BY WriteListFacts
  <2>2. Len(TheDelta.parts) = 2 + Carried + Signed
    BY PartsFacts
  <2>3. QED
    BY <2>1, <2>2
<1>3. CASE k = 1 \/ k = Final - 2 \/ k = Final - 1
  BY <1>1, <1>3, WriteListFacts
<1>4. CASE k - 1 \in 1..Len(TheDelta.parts)
  <2> DEFINE n == k - 1
  <2>1. WriteList[k].name = TheDelta.parts[n].digest
    <3>1. k = n + 1
      OBVIOUS
    <3> HIDE DEF n
    <3>2. QED
      BY <1>4, <3>1, WriteListFacts DEF n
  <2>2. n = 1 \/ n = 2 \/ n - 2 \in 1..Carried \/ n - (2 + Carried) \in 1..Signed
    <3>1. /\ Len(TheDelta.parts) = 2 + Carried + Signed
          /\ Carried \in Nat /\ Signed \in Nat
      BY PartsFacts
    <3>2. QED
      BY <1>2, <1>4, <3>1
  <2>3. CASE n = 1 \/ n = 2
    <3>1. new.kind = "manifest" /\ new.config.kind = "config"
      BY ImageFacts DEF ParsedImage
    <3>2. TheDelta.parts[n].digest \in {new, new.config}
      <4> HIDE DEF n
      <4>1. QED
        BY <2>3, PartsFacts DEF Part
    <3>3. QED
      BY <2>1, <3>1, <3>2
  <2>4. CASE n - 2 \in 1..Carried
    <3>1. TheDelta.parts[n] = LayerPart(CarriedLayers(old, new)[n - 2], chosen)
      <4>1. n = (n - 2) + 2
        OBVIOUS
      <4>2. QED
        BY <2>4, <4>1, PartsFacts
    <3>2. CarriedLayers(old, new)[n - 2] \in NewOnly(old, new)
      BY <2>4, ImageFacts DEF Carried
    <3>3. TheDelta.parts[n].digest = chosen[CarriedLayers(old, new)[n - 2]]
      BY <3>1 DEF LayerPart, Part
    <3>4. QED
      BY <2>1, <3>2, <3>3
  <2>5. CASE n - (2 + Carried) \in 1..Signed
    <3>1. TheDelta.parts[n] = SignatureParts(sigs)[n - (2 + Carried)]
      <4>1. n = (n - (2 + Carried)) + (2 + Carried)
        BY PartsFacts
      <4>2. QED
        BY <2>5, <4>1, PartsFacts
    <3>2. SignatureParts(sigs)[n - (2 + Carried)] \in SignaturePartSet(sigs)
      BY <2>5, ImageFacts DEF Signed
    <3>3. TheDelta.parts[n].digest \in SignatureBlobs(sigs)
      BY <3>1, <3>2 DEF SignaturePartSet
    <3>4. \A b \in SignatureBlobs(sigs) : b.kind # "index.json"
      BY SignaturesAssumption DEF TypeOK, SignatureBlobs, SignatureArtifact
    <3>5. QED
      BY <2>1, <3>3, <3>4
  <2>6. QED
    BY <2>2, <2>3, <2>4, <2>5
<1>5. QED
  BY <1>2, <1>3, <1>4

-----------------------------------------------------------------------------
(* The invariant *)

\* The entry being written, hashed or just written.
Current == WriteList[next]

\* What the differ answers is a layer, be it without its end, or a tar-diff.
ChosenAreBlobs == \A d \in DOMAIN chosen : chosen[d].kind \in {"layer", "cut", "diff"}

\* Nothing is written before everything to write is known.
NothingYet == pc \in {"parse", "diff", "load"} => DOMAIN files = {} /\ next = 1

\* The write in progress is the current entry's; all but the copied layers
\* come from memory or from files nobody else has.
InProgress ==
  ~Idle =>
    /\ writing.kind = "write"
    /\ writing.name = Current.name
    /\ Current.from = NoTo =>
         writing.content = IF Current.name = IndexFile THEN Index(TheDelta) ELSE Current.name

\* Every entry but the index is intact, being written, or about to be hashed,
\* as long as the program goes on.
Secure ==
  pc \in {"parse", "diff", "load", "write", "wrote", "hash", "ok"} =>
    \A n \in DOMAIN files \ {IndexFile} :
       Intact(n) \/ (~Idle /\ writing.name = n) \/ (pc = "hash" /\ Current.name = n)

\* The entries written so far.
Present ==
  pc \in {"write", "wrote", "hash"} =>
    \A k \in 1..Final : k < next \/ (k = next /\ pc # "write") => Has(WriteList[k].name)

\* The index is there and so is, intact, all that was to be written before it.
Whole ==
  /\ files[IndexFile] = Index(TheDelta)
  /\ \A k \in 1..Final - 1 : Intact(WriteList[k].name)

\* index.json is whole only when everything is.
IndexLast ==
  Published => /\ Whole
               /\ pc \in {"wrote", "ok", "crashed"} /\ (pc = "wrote" => next = Final)
               /\ Idle

IInv ==
  /\ TypeOK
  /\ ChosenAreBlobs
  /\ NothingYet
  /\ InProgress
  /\ Secure
  /\ Present
  /\ IndexLast

-----------------------------------------------------------------------------
(* The invariant is inductive *)

\* The names and contents that the code builds are told apart by their kind.
LEMMA Kinds ==
  /\ \A m : Index(m) # Torn
  /\ \A n, c : /\ Write(n, c) # NotWriting
               /\ Write(n, c).kind = "write" /\ Write(n, c).name = n /\ Write(n, c).content = c
  /\ \A f, t : Diff(f, t).kind = "diff"
  /\ \A t, f : Layer(t, f).kind = "layer"
  /\ \A t : CutLayer(t).kind = "cut"
<1>1. Torn.kind = "torn" /\ \A m : Index(m).kind = "index"
  BY DEF Torn, Index
<1>2. NotWriting.kind = "idle" /\ \A n, c : Write(n, c).kind = "write"
  BY DEF NotWriting, Write
<1>3. QED
  BY <1>1, <1>2 DEF Write, Diff, Layer, CutLayer

\* What a reader may report of a layer: the image's digest, that of the layer
\* recompressed, or that of a recompressed layer without its end.
LEMMA DigestFacts ==
  ASSUME TypeOK, NEW d \in LayerDigests(new)
  PROVE  ActualDigest(d) \in {d, Layer(d.tar, "gogzip"), CutLayer(d.tar)}
<1>1. PICK r \in Readers : layerDigests \in Exported(r)
  BY DEF TypeOK
<1>2. layerDigests[d] \in Exports(r, d)
  BY <1>1 DEF Exported
<1>3. QED
  BY <1>2 DEF Exports, ActualDigest

\* What a reader may report is settled by the image.
LEMMA ExportedStays ==
  ASSUME UNCHANGED new
  PROVE  \A r : Exported(r)' = Exported(r)
BY DEF Exported, LayerDigests

\* The write list depends on what was decided before the first write.
LEMMA SameList ==
  ASSUME UNCHANGED <<old, new, sigs, chosen>>
  PROVE  /\ UNCHANGED <<TheDelta, WriteList, Final>>
         /\ NewOnly(old, new)' = NewOnly(old, new)
         /\ LayerDigests(new)' = LayerDigests(new)
BY DEF TheDelta, WriteList, Final, LayerEntries, LayerEntry, SignatureEntries

\* ... and the rest of the inputs stay put as well.
LEMMA TypeStays ==
  ASSUME TypeOK, UNCHANGED <<inputs, base, chosen>>,
         UNCHANGED layerBlobs,
         pc' \in Statements,
         pc' \in {"load", "write", "wrote", "hash"} => pc \in {"load", "write", "wrote", "hash"},
         temp' \subseteq temp,
         pc' \in {"write", "wrote", "hash"} => next' \in 1..Final,
         ~Idle' => pc' = "write" /\ writing'.name \in DOMAIN files'
  PROVE  TypeOK'
<1>1. UNCHANGED <<old, new, sigs, layerDigests, base, chosen>>
  BY DEF inputs
<1>2. UNCHANGED <<WriteList, Final, LayerDigests(new), NewOnly(old, new)>>
  BY <1>1, SameList
<1>3. \A d : ActualDigest(d)' = ActualDigest(d)
  BY <1>1 DEF ActualDigest
<1>4. Filesystem(old)' = Filesystem(old) /\ \A r : Exported(r)' = Exported(r)
  BY <1>1, ExportedStays
<1>5. QED
  BY <1>1, <1>2, <1>3, <1>4 DEF TypeOK, Final

LEMMA InitIInv == Init => IInv
<1> SUFFICES ASSUME Init PROVE IInv
  OBVIOUS
<1>1. Idle /\ DOMAIN files = {} /\ DOMAIN chosen = {} /\ pc = "parse" /\ temp = {} /\ next = 1
  BY DEF Init, WriterInit, Idle
<1>2. /\ DOMAIN layerBlobs = LayerDigests(new)
      /\ \A d \in LayerDigests(new) : layerBlobs[d] = ActualDigest(d)
  BY DEF Init, Exported, ActualDigest
<1>3. TypeOK
  BY <1>1, <1>2 DEF Init, TypeOK, Statements
<1>4. QED
  BY <1>1, <1>3 DEF IInv, ChosenAreBlobs, NothingYet, InProgress, Secure, Present, IndexLast,
     Published, Has

LEMMA StartEntryIInv == IInv /\ StartEntry => IInv'
<1> SUFFICES ASSUME IInv, StartEntry PROVE IInv'
  OBVIOUS
<1> USE DEF IInv
<1> DEFINE name == Current.name
           content == ContentOf(Current)
<1>1. /\ pc = "write" /\ Idle
      /\ files' = [n \in DOMAIN files \cup {name} |-> IF n = name THEN Torn ELSE files[n]]
      /\ writing' = Write(name, content)
      /\ UNCHANGED <<inputs, base, layerBlobs, chosen, temp, pc, next>>
  BY DEF StartEntry, BeginWrite, Current
<1>2. UNCHANGED <<old, new, sigs, layerDigests>>
  BY <1>1 DEF inputs
<1>3. UNCHANGED <<TheDelta, WriteList, Final, Current>>
  BY <1>1, <1>2, SameList DEF Current
<1>4. /\ writing'.kind = "write" /\ writing'.name = name /\ writing'.content = content
      /\ ~Idle'
  BY <1>1, Kinds DEF Idle
<1>5. TypeOK'
  BY <1>1, <1>4, TypeStays DEF TypeOK, Final
<1>6. ChosenAreBlobs' /\ NothingYet'
  BY <1>1 DEF ChosenAreBlobs, NothingYet
<1>7. InProgress'
  BY <1>3, <1>4 DEF InProgress, ContentOf
<1>8. Secure'
  BY <1>1, <1>4 DEF Secure, Intact, Has
<1>9. Present'
  BY <1>1, <1>3 DEF Present, Has
<1>10. ~Published'
  BY <1>1 DEF IndexLast, Published, Has
<1>11. QED
  BY <1>5, <1>6, <1>7, <1>8, <1>9, <1>10 DEF IndexLast

LEMMA FinishEntryIInv == IInv /\ FinishEntry => IInv'
<1> SUFFICES ASSUME IInv, FinishEntry PROVE IInv'
  OBVIOUS
<1> USE DEF IInv
<1>1. /\ ~Idle /\ pc = "write" /\ writing.name \in DOMAIN files
      /\ files' = [files EXCEPT ![writing.name] = writing.content]
      /\ writing' = NotWriting /\ Idle'
      /\ pc' = IF Current.from = NoTo THEN "wrote" ELSE "hash"
      /\ UNCHANGED <<inputs, base, layerBlobs, chosen, temp, next>>
  BY DEF FinishEntry, EndWrite, TypeOK, Current, Idle
<1>2. UNCHANGED <<old, new, sigs, layerDigests>>
  BY <1>1 DEF inputs
<1>3. UNCHANGED <<TheDelta, WriteList, Final, Current>>
  BY <1>1, <1>2, SameList DEF Current
<1>4. next \in 1..Final /\ Final \in Nat /\ DOMAIN chosen = NewOnly(old, new)
  BY <1>1, WriteListFacts DEF TypeOK, Final
<1>5. TypeOK'
  BY <1>1, <1>4, TypeStays DEF TypeOK, Final, Statements
<1>6. ChosenAreBlobs' /\ NothingYet' /\ InProgress'
  BY <1>1 DEF ChosenAreBlobs, NothingYet, InProgress
<1>7. /\ writing.name = Current.name
      /\ Current.from = NoTo => writing.content = IF Current.name = IndexFile THEN Index(TheDelta)
                                                                              ELSE Current.name
  BY <1>1 DEF InProgress
<1>8. next < Final => Current.name # IndexFile
  BY <1>4, NamesFacts DEF ChosenAreBlobs, Current
<1>9. next = Final => Current.name = IndexFile /\ Current.from = NoTo
  BY WriteListFacts DEF Current, Entry
<1>10. ASSUME NEW n \in DOMAIN files \ {IndexFile}
       PROVE  Intact(n)' \/ (pc' = "hash" /\ Current.name = n)
  <2>1. CASE n # writing.name
    <3>1. Intact(n)
      BY <1>1, <2>1 DEF Secure
    <3>2. QED
      BY <1>1, <2>1, <3>1 DEF Intact, Has
  <2>2. CASE n = writing.name /\ Current.from = NoTo
    BY <1>1, <1>7, <1>10, <2>2 DEF Intact, Has
  <2>3. CASE n = writing.name /\ Current.from # NoTo
    BY <1>1, <1>7, <2>3
  <2>4. QED
    BY <2>1, <2>2, <2>3
<1>11. Secure'
  BY <1>1, <1>3, <1>10 DEF Secure
<1>12. Present'
  <2>1. \A k \in 1..Final : k < next => Has(WriteList[k].name)
    BY <1>1 DEF Present
  <2>2. Has(WriteList[next].name)
    BY <1>1, <1>7 DEF Has, Current
  <2>3. QED
    BY <1>1, <1>3, <2>1, <2>2 DEF Present, Has
<1>13. IndexLast'
  <2> SUFFICES ASSUME Published' PROVE IndexLast'
    BY DEF IndexLast
  <2>1. CASE next < Final
    <3>1. Published
      BY <1>1, <1>7, <1>8, <2>1 DEF Published, Has
    <3>2. QED
      BY <1>1, <3>1 DEF IndexLast
  <2>2. CASE next = Final
    <3>1. pc' = "wrote" /\ files'[IndexFile] = Index(TheDelta) /\ writing.name = IndexFile
      BY <1>1, <1>7, <1>9, <2>2
    <3>2. ASSUME NEW k \in 1..Final - 1 PROVE Intact(WriteList[k].name)'
      <4>1. WriteList[k].name # IndexFile
        BY <1>4, NamesFacts DEF ChosenAreBlobs
      <4>2. k \in 1..Final /\ k < next
        BY <1>4, <2>2
      <4>3. Has(WriteList[k].name)
        BY <1>1, <4>2 DEF Present
      <4>4. Intact(WriteList[k].name)
        BY <1>1, <3>1, <4>1, <4>3 DEF Secure, Has
      <4>5. QED
        BY <1>1, <1>3, <3>1, <4>1, <4>4 DEF Intact, Has
    <3>3. QED
      BY <1>1, <1>3, <2>2, <3>1, <3>2 DEF IndexLast, Whole
  <2>3. QED
    BY <1>4, <2>1, <2>2
<1>14. QED
  BY <1>5, <1>6, <1>11, <1>12, <1>13

\* The statements that leave the layout and the decisions as they are.
LEMMA StatementIInv ==
  ASSUME IInv, UNCHANGED <<files, inputs, base, layerBlobs, chosen>>, Idle',
         \/ HashCopy \/ NextEntry \/ Return \/ Fail \/ Crash
  PROVE  IInv'
<1> USE DEF IInv
<1>1. UNCHANGED <<old, new, sigs, layerDigests, chosen>>
  BY DEF inputs
<1>2. UNCHANGED <<TheDelta, WriteList, Final>> /\ Final \in Nat
  BY <1>1, SameList, WriteListFacts
<1>3. \A n : Intact(n)' = Intact(n) /\ Has(n)' = Has(n)
  BY DEF Intact, Has
<1>4. Whole' = Whole /\ Published' = Published
  BY <1>2, <1>3 DEF Whole, Published
<1>5. ChosenAreBlobs' /\ InProgress'
  BY DEF ChosenAreBlobs, InProgress
<1>6. CASE HashCopy
  <2>1. pc = "hash" /\ pc' = (IF Intact(Current.name) THEN "wrote" ELSE "failing")
        /\ UNCHANGED <<writing, temp, next>> /\ Idle
    BY <1>6 DEF HashCopy, Current, TypeOK
  <2>2. TypeOK'
    BY <2>1, TypeStays DEF TypeOK, Final, Statements
  <2>3. Secure' /\ Present'
    BY <1>2, <1>3, <2>1 DEF Secure, Present
  <2>4. NothingYet' /\ IndexLast'
    BY <1>4, <2>1 DEF NothingYet, IndexLast
  <2>5. QED
    BY <1>5, <2>2, <2>3, <2>4
<1>7. CASE NextEntry
  <2>1. pc = "wrote" /\ pc' = "write" /\ next < Final /\ next' = next + 1
        /\ UNCHANGED <<writing, temp>> /\ Idle
    BY <1>7 DEF NextEntry, Final, TypeOK
  <2>2. next \in 1..Final
    BY <2>1 DEF TypeOK, Final
  <2>3. TypeOK'
    BY <1>2, <2>1, <2>2, TypeStays DEF TypeOK, Statements
  <2>4. Secure' /\ Present'
    BY <1>2, <1>3, <2>1, <2>2 DEF Secure, Present
  <2>5. NothingYet' /\ IndexLast'
    BY <1>4, <2>1, <2>2 DEF NothingYet, IndexLast
  <2>6. QED
    BY <1>5, <2>3, <2>4, <2>5
<1>8. CASE Return
  <2>1. \/ pc = "wrote" /\ next = Final /\ pc' = "ok"
        \/ pc = "failing" /\ pc' = "error"
    BY <1>8 DEF Return, Final
  <2>2. temp' = {} /\ UNCHANGED <<writing, next>> /\ Idle
    BY <1>8, <2>1 DEF Return, TypeOK
  <2>3. TypeOK'
    BY <2>1, <2>2, TypeStays DEF TypeOK, Statements
  <2>4. Secure' /\ Present'
    BY <1>3, <2>1, <2>2 DEF Secure, Present
  <2>5. NothingYet' /\ IndexLast'
    BY <1>4, <2>1, <2>2 DEF NothingYet, IndexLast
  <2>6. QED
    BY <1>5, <2>3, <2>4, <2>5
<1>9. CASE Fail \/ Crash
  <2>1. /\ pc' \in {"failing", "crashed"} /\ UNCHANGED <<temp, next>>
        /\ pc' = "failing" => pc \in {"parse", "diff", "load", "write"}
    BY <1>9 DEF Fail, Crash
  <2>2. TypeOK'
    BY <2>1, TypeStays DEF TypeOK, Statements
  <2>3. Secure' /\ Present' /\ NothingYet'
    BY <2>1 DEF Secure, Present, NothingYet
  <2>4. IndexLast'
    BY <1>4, <2>1 DEF IndexLast
  <2>5. QED
    BY <1>5, <2>2, <2>3, <2>4
<1>10. QED
  BY <1>6, <1>7, <1>8, <1>9

\* The statements before the first write.
LEMMA PreparationIInv ==
  ASSUME IInv, Classify \/ ComputeLayerDiffs \/ LoadMetadata
  PROVE  IInv'
<1> USE DEF IInv
<1>1. /\ UNCHANGED <<files, writing, inputs, base, layerBlobs, next>>
      /\ pc \in {"parse", "diff", "load"} /\ pc' \in {"crashed", "diff", "load", "write"}
  BY DEF Classify, ComputeLayerDiffs, LoadMetadata
<1>2. DOMAIN files = {} /\ next = 1 /\ Idle /\ ~Published
  BY <1>1 DEF NothingYet, TypeOK, Published, Has
<1>3. Idle' /\ ~Published' /\ UNCHANGED <<old, new, sigs, layerDigests>>
  BY <1>1, <1>2 DEF Idle, Published, Has, inputs
<1>4. TypeOK' /\ ChosenAreBlobs'
  <2>1. CASE UNCHANGED <<chosen, temp>> /\ (pc' = "write" => pc = "load") /\ pc' # "load"
    <3>1. Final \in Nat \ {0}
      BY WriteListFacts
    <3>2. TypeOK'
      BY <1>1, <1>2, <1>3, <2>1, <3>1, TypeStays DEF TypeOK, Statements
    <3>3. QED
      BY <2>1, <3>2 DEF ChosenAreBlobs
  <2>2. CASE ComputeLayerDiffs
    <3>1. /\ DOMAIN chosen' = NewOnly(old, new)
          /\ \A d \in NewOnly(old, new) : chosen'[d] \in Answers(d)
          /\ temp' \subseteq NewOnly(old, new) /\ pc' = "load"
      BY <2>2 DEF ComputeLayerDiffs
    <3>2. \A d \in NewOnly(old, new) : chosen'[d].kind \in {"layer", "cut", "diff"}
      BY <3>1, ImageFacts, DigestFacts, Kinds DEF Answers
    <3>3. /\ NewOnly(old, new)' = NewOnly(old, new) /\ LayerDigests(new)' = LayerDigests(new)
          /\ Filesystem(old)' = Filesystem(old) /\ \A d : ActualDigest(d)' = ActualDigest(d)
      BY <1>3 DEF LayerDigests, ActualDigest
    <3>4. \A r : Exported(r)' = Exported(r)
      BY <1>3, ExportedStays
    <3>5. QED
      BY <1>1, <1>3, <3>1, <3>2, <3>3, <3>4 DEF TypeOK, Statements, ChosenAreBlobs
  <2>3. QED
    BY <2>1, <2>2 DEF Classify, LoadMetadata
<1>5. NothingYet' /\ InProgress' /\ Secure' /\ IndexLast'
  BY <1>1, <1>2, <1>3 DEF NothingYet, InProgress, Secure, IndexLast
<1>6. Present'
  BY <1>1, <1>2 DEF Present
<1>7. QED
  BY <1>4, <1>5, <1>6

LEMMA NextIInv == IInv /\ [Next]_vars => IInv'
<1> SUFFICES ASSUME IInv, [Next]_vars PROVE IInv'
  OBVIOUS
<1> USE DEF IInv
<1>1. CASE Classify \/ ComputeLayerDiffs \/ LoadMetadata
  BY <1>1, PreparationIInv
<1>2. CASE StartEntry
  BY <1>2, StartEntryIInv
<1>3. CASE FinishEntry
  BY <1>3, FinishEntryIInv
<1>4. CASE HashCopy \/ NextEntry \/ Return
  <2>1. UNCHANGED <<files, writing, inputs, base, layerBlobs, chosen>> /\ pc # "write"
    BY <1>4 DEF HashCopy, NextEntry, Return
  <2>2. Idle /\ Idle'
    BY <2>1 DEF TypeOK, Idle
  <2>3. QED
    BY <1>4, <2>1, <2>2, StatementIInv
<1>5. CASE Fail \/ Crash
  <2>1. UNCHANGED <<files, inputs, base, layerBlobs, chosen>> /\ Idle'
    BY <1>5 DEF Fail, Crash, AbortWrite, Idle
  <2>2. QED
    BY <1>5, <2>1, StatementIInv
<1>6. CASE RotOld \/ (\E d \in DOMAIN layerBlobs : RotNew(d)) \/ UNCHANGED vars
  <2>1. UNCHANGED <<files, writing, old, new, sigs, layerDigests, chosen, temp, pc, next>>
    BY <1>6 DEF RotOld, RotNew, vars, inputs
  <2>2. /\ \A d \in DOMAIN layerBlobs : layerBlobs'[d] \in {layerBlobs[d], Rotten}
        /\ DOMAIN layerBlobs' = DOMAIN layerBlobs
    BY <1>6 DEF RotOld, RotNew, vars
  <2>3. /\ UNCHANGED <<TheDelta, WriteList, Final, Current, NewOnly(old, new), LayerDigests(new)>>
        /\ UNCHANGED <<Idle, Filesystem(old), Published, Whole>>
        /\ \A n : Intact(n)' = Intact(n) /\ Has(n)' = Has(n) /\ ActualDigest(n)' = ActualDigest(n)
    BY <2>1, SameList DEF Current, Idle, Published, Whole, Intact, Has, ActualDigest
  <2>4. base' \in {Filesystem(old), <<Rotten>>}
    BY <1>6 DEF RotOld, RotNew, vars, TypeOK
  <2>5. /\ DOMAIN layerBlobs' = LayerDigests(new)
        /\ \A d \in LayerDigests(new) : layerBlobs'[d] \in {ActualDigest(d), Rotten}
    BY <2>2 DEF TypeOK
  <2>6. TypeOK'
    BY <2>1, <2>3, <2>4, <2>5, ExportedStays DEF TypeOK, Final
  <2>7. QED
    BY <2>1, <2>3, <2>6 DEF ChosenAreBlobs, NothingYet, InProgress, Secure, Present, IndexLast
<1>7. QED
  BY <1>1, <1>2, <1>3, <1>4, <1>5, <1>6 DEF Next, Terminating

-----------------------------------------------------------------------------

\* The inductive invariant holds in every run of CreateDelta.
THEOREM CreateInvariant == Spec => []IInv
<1>1. QED
  BY InitIInv, NextIInv, PTL DEF Spec

\* The names written before index.json are all that the delta lists.
LEMMA WholeIsComplete == IInv /\ Published => PublishedDeltaIsComplete /\ PublishedManifest = TheDelta
<1> SUFFICES ASSUME IInv, Published
             PROVE  PublishedDeltaIsComplete /\ PublishedManifest = TheDelta
  OBVIOUS
<1>1. TypeOK /\ Whole
  BY DEF IInv, IndexLast
<1>2. PublishedManifest = TheDelta
  BY <1>1 DEF PublishedManifest, Whole, Index
<1>3. Final = 6 + Carried + Signed /\ Carried \in Nat /\ Signed \in Nat
  BY <1>1, WriteListFacts
<1>4. 1 \in 1..Final - 1 /\ Final - 2 \in 1..Final - 1 /\ Final - 1 \in 1..Final - 1
  BY <1>3
<1>5. Intact(LayoutFile) /\ Intact(EmptyJSON) /\ Intact(TheDelta)
  <2>1. /\ WriteList[1].name = LayoutFile /\ WriteList[Final - 2].name = EmptyJSON
        /\ WriteList[Final - 1].name = TheDelta
    BY <1>1, WriteListFacts
  <2>2. QED
    BY <1>1, <1>4, <2>1 DEF Whole
<1>6. ASSUME NEW k \in 1..Len(TheDelta.parts) PROVE Intact(TheDelta.parts[k].digest)
  <2>1. k + 1 \in 1..Final - 1
    BY <1>1, <1>3, PartsFacts
  <2>2. WriteList[k + 1].name = TheDelta.parts[k].digest
    BY <1>1, WriteListFacts
  <2>3. QED
    BY <1>1, <2>1, <2>2 DEF Whole
<1>7. QED
  BY <1>2, <1>5, <1>6 DEF PublishedDeltaIsComplete

\* A delta that opens is whole: for any images and signatures, whatever the
\* differ answers, and although the layers it copies may rot under it.
THEOREM OnlyWholeDeltas == Spec => []PublishedDeltaIsComplete
<1>1. IInv => PublishedDeltaIsComplete
  BY WholeIsComplete DEF PublishedDeltaIsComplete
<1>2. QED
  BY <1>1, CreateInvariant, PTL

\* Reporting an error and leaving a delta that opens exclude one another.
THEOREM ErrorsPublishNothing == Spec => []ErrorPublishesNothing
<1>1. IInv => ErrorPublishesNothing
  BY DEF IInv, IndexLast, ErrorPublishesNothing
<1>2. QED
  BY <1>1, CreateInvariant, PTL

-----------------------------------------------------------------------------
(* What ParseDeltaArtifact reads from the delta *)

\* The positions of the parts of each kind.
LEMMA ContentFacts ==
  ASSUME TypeOK
  PROVE  /\ PartsOf(TheDelta, "image-manifest") = {1}
         /\ PartsOf(TheDelta, "image-config") = {2}
         /\ PartsOf(TheDelta, "image-layer") = 3..Carried + 2
         /\ \A n \in 3..Carried + 2 :
              TheDelta.parts[n] = LayerPart(CarriedLayers(old, new)[n - 2], chosen)
<1> DEFINE content(n) == TheDelta.parts[n].content
<1>1. /\ Len(TheDelta.parts) = 2 + Carried + Signed /\ Carried \in Nat /\ Signed \in Nat
      /\ content(1) = "image-manifest" /\ content(2) = "image-config"
  BY PartsFacts DEF Part
<1>2. ASSUME NEW n \in 3..Carried + 2
      PROVE  TheDelta.parts[n] = LayerPart(CarriedLayers(old, new)[n - 2], chosen)
  <2>1. n - 2 \in 1..Carried /\ n = (n - 2) + 2
    BY <1>1
  <2>2. QED
    BY <2>1, PartsFacts
<1>3. ASSUME NEW n \in 3..Carried + 2 PROVE content(n) = "image-layer"
  <2>1. \A d : LayerPart(d, chosen).content = "image-layer"
    BY DEF LayerPart, Part
  <2>2. QED
    BY <1>2, <2>1
<1>4. ASSUME NEW n \in Carried + 3..Len(TheDelta.parts)
      PROVE  content(n) \in {"cosign-signature", "cosign-signature-content"}
  <2>1. n - (2 + Carried) \in 1..Signed /\ n = (n - (2 + Carried)) + (2 + Carried)
    BY <1>1
  <2>2. TheDelta.parts[n] = SignatureParts(sigs)[n - (2 + Carried)]
    BY <2>1, PartsFacts
  <2>3. SignatureParts(sigs)[n - (2 + Carried)] \in SignaturePartSet(sigs)
    BY <2>1, ImageFacts DEF Signed
  <2>4. QED
    BY <2>2, <2>3 DEF SignaturePartSet
<1>5. \A n \in 1..2 + Carried + Signed :
        n = 1 \/ n = 2 \/ n \in 3..Carried + 2 \/ n \in Carried + 3..2 + Carried + Signed
  BY <1>1
<1>6. 1 \in 1..Len(TheDelta.parts) /\ 2 \in 1..Len(TheDelta.parts)
      /\ 3..Carried + 2 \subseteq 1..Len(TheDelta.parts)
  BY <1>1
<1> HIDE DEF content
<1>7. /\ {n \in 1..Len(TheDelta.parts) : content(n) = "image-manifest"} = {1}
      /\ {n \in 1..Len(TheDelta.parts) : content(n) = "image-config"} = {2}
      /\ {n \in 1..Len(TheDelta.parts) : content(n) = "image-layer"} = 3..Carried + 2
  BY <1>1, <1>3, <1>4, <1>5, <1>6
<1>8. QED
  BY <1>2, <1>7 DEF PartsOf, content

\* A set of numbers up to N has a last one.
LEMMA LastExists ==
  ASSUME NEW N \in Nat, NEW S \in SUBSET (1..N), S # {}
  PROVE  \E n \in S : \A m \in S : m <= n
<1> DEFINE T == {n \in 0..N : (\E m \in S : m <= n) =>
                              \E k \in S : \A m \in S : m <= n => m <= k}
<1>1. 0 \in T
  OBVIOUS
<1>2. ASSUME NEW n \in Nat, n < N, n \in T PROVE n + 1 \in T
  <2>1. CASE n + 1 \in S
    BY <2>1
  <2>2. CASE n + 1 \notin S
    <3>1. \A m \in S : m <= n + 1 <=> m <= n
      BY <2>2
    <3>2. QED
      BY <1>2, <3>1
  <2>3. QED
    BY <2>1, <2>2
<1>3. N \in T
  <2> HIDE DEF T
  <2>1. 0..N \subseteq T
    BY <1>1, <1>2, InductionUpto
  <2>2. QED
    BY <2>1
<1>4. \E m \in S : m <= N
  <2>1. PICK m \in S : TRUE
    OBVIOUS
  <2>2. m \in 1..N
    OBVIOUS
  <2>3. m <= N
    BY <2>2
  <2>4. QED
    BY <2>3
<1>5. PICK k \in S : \A m \in S : m <= N => m <= k
  BY <1>3, <1>4
<1>6. \A m \in S : m <= N
  OBVIOUS
<1>7. QED
  BY <1>5, <1>6

\* The delta as ParseDeltaArtifact returns it.
Built ==
  [imageManifest |-> new, imageConfig |-> new.config, sourceConfig |-> old.config,
   deltaLayerByTo |-> [d \in NewOnly(old, new) |-> LayerPart(d, chosen)]]

\* A part for each layer the old image lacks and for no other: what is parsed is
\* what was built (create.go:115-251, delta.go:69-125).
LEMMA ParsedFacts ==
  ASSUME TypeOK
  PROVE  ParseDelta(TheDelta) = Built
<1> DEFINE parts == TheDelta.parts
           carried == CarriedLayers(old, new)
           layerParts == 3..Carried + 2
<1>1. /\ LastOf(TheDelta, PartsOf(TheDelta, "image-manifest")) = parts[1]
      /\ LastOf(TheDelta, PartsOf(TheDelta, "image-config")) = parts[2]
  BY ContentFacts DEF LastOf
<1>2. parts[1].digest = new /\ parts[2].digest = new.config /\ TheDelta.sourceConfig = old.config
  BY PartsFacts DEF Part
<1>3. Carried \in Nat
  BY PartsFacts
<1>4. \A n \in layerParts : parts[n] = LayerPart(carried[n - 2], chosen)
                           /\ parts[n].to = carried[n - 2]
  BY ContentFacts DEF LayerPart, Part
<1>5. {parts[n].to : n \in layerParts} = NewOnly(old, new)
  <2>1. ASSUME NEW n \in layerParts PROVE parts[n].to \in NewOnly(old, new)
    <3>1. n - 2 \in 1..Carried
      BY <1>3
    <3>2. carried[n - 2] \in NewOnly(old, new)
      BY <3>1, ImageFacts DEF Carried
    <3>3. QED
      BY <1>4, <3>2
  <2>2. ASSUME NEW d \in NewOnly(old, new) PROVE \E n \in layerParts : parts[n].to = d
    <3>1. PICK k \in 1..Carried : carried[k] = d
      BY ImageFacts, NewAreCarried DEF Carried
    <3>2. k + 2 \in layerParts /\ (k + 2) - 2 = k
      BY <1>3
    <3>3. QED
      BY <1>4, <3>1, <3>2
  <2> HIDE DEF parts, layerParts
  <2>3. QED
    BY <2>1, <2>2
<1>6. ASSUME NEW d \in NewOnly(old, new)
      PROVE  LastOf(TheDelta, {n \in layerParts : parts[n].to = d}) = LayerPart(d, chosen)
  <2> DEFINE S == {n \in layerParts : parts[n].to = d}
  <2>1. S \in SUBSET (1..Carried + 2) /\ S # {}
    BY <1>3, <1>5
  <2>2. \A n \in S : parts[n] = LayerPart(d, chosen)
    BY <1>4
  <2> HIDE DEF S, parts
  <2>3. \E n \in S : \A m \in S : m <= n
    <3>1. Carried + 2 \in Nat
      BY <1>3
    <3>2. QED
      BY <2>1, <3>1, LastExists
  <2>4. LastOf(TheDelta, S) = LayerPart(d, chosen)
    BY <2>2, <2>3 DEF LastOf, parts
  <2>5. QED
    BY <2>4 DEF S
<1>7. DeltaLayerByTo(TheDelta) = [d \in NewOnly(old, new) |-> LayerPart(d, chosen)]
  <2>1. PartsOf(TheDelta, "image-layer") = layerParts
    BY ContentFacts
  <2> HIDE DEF layerParts
  <2>2. DeltaLayerByTo(TheDelta) =
          [to \in {parts[n].to : n \in layerParts} |->
             LastOf(TheDelta, {n \in layerParts : parts[n].to = to})]
    BY <2>1 DEF DeltaLayerByTo
  <2>3. QED
    BY <1>5, <1>6, <2>2
<1>8. QED
  BY <1>1, <1>2, <1>7 DEF ParseDelta, Built

-----------------------------------------------------------------------------
(* CreateDelta implements Publish *)

Goal == [target |-> new, source |-> old.config]

\* What ParseDeltaArtifact reads from a delta that opens is the pair of images
\* CreateDelta was given.
LEMMA SeenIsGoal == IInv /\ Published => Seen = Goal
<1> SUFFICES ASSUME IInv, Published PROVE Seen = Goal
  OBVIOUS
<1>1. TypeOK /\ PublishedDeltaIsComplete /\ PublishedManifest = TheDelta
  BY WholeIsComplete DEF IInv
<1>2. /\ ParseDelta(TheDelta).imageManifest = new
      /\ ParseDelta(TheDelta).sourceConfig = old.config
  BY <1>1, ParsedFacts DEF Built
<1>3. QED
  BY <1>1, <1>2 DEF Seen, Goal

LEMMA InputsStay == [Next]_vars => UNCHANGED <<old, new, sigs>>
BY DEF Next, Classify, ComputeLayerDiffs, LoadMetadata, StartEntry, FinishEntry, HashCopy,
   NextEntry, Return, Fail, Crash, RotOld, RotNew, Terminating, vars, inputs

\* Once the delta can be opened nothing more is written.
LEMMA PublishedStays == IInv /\ [Next]_vars /\ Published => UNCHANGED files
<1> SUFFICES ASSUME IInv, Next, Published PROVE UNCHANGED files
  BY DEF vars
<1>1. /\ pc \in {"wrote", "ok", "crashed"} /\ Idle
      /\ pc = "wrote" => next = Len(WriteList)
  BY DEF IInv, IndexLast, Final
<1>2. QED
  BY <1>1 DEF Next, Classify, ComputeLayerDiffs, LoadMetadata, StartEntry, FinishEntry, EndWrite,
     HashCopy, NextEntry, Return, Fail, Crash, AbortWrite, RotOld, RotNew, Terminating, vars

\* The output shows a reader nothing, and then at once the delta between the
\* two images, whole; it never changes after that.
THEOREM CreatePublishesTheDelta == Spec => PublishesTheDelta
<1>1. Init => Promise!Init
  BY DEF Init, WriterInit, Seen, Published, Has, Promise!Init
<1>2. IInv /\ IInv' /\ [Next]_vars => [Promise!PublishGoal]_Promise!vars
  <2> SUFFICES ASSUME IInv, IInv', [Next]_vars PROVE [Promise!PublishGoal]_Promise!vars
    OBVIOUS
  <2>1. Published => Seen = Goal
    BY SeenIsGoal
  <2>2. Published' => Seen' = Goal'
    <3>1. (IInv /\ Published => Seen = Goal)'
      BY SeenIsGoal, PTL
    <3>2. QED
      BY <3>1
  <2>3. Goal' = Goal
    BY InputsStay DEF Goal
  <2>4. CASE Published
    <3>1. Published'
      BY <2>4, PublishedStays DEF Published, Has
    <3>2. QED
      BY <2>1, <2>2, <2>3, <2>4, <3>1 DEF Promise!vars, Goal
  <2>5. CASE ~Published /\ Published'
    BY <2>2, <2>3, <2>5 DEF Seen, Promise!PublishGoal, Goal
  <2>6. CASE ~Published /\ ~Published'
    BY <2>3, <2>6 DEF Seen, Promise!vars, Goal
  <2>7. QED
    BY <2>4, <2>5, <2>6
<1>3. QED
  BY <1>1, <1>2, CreateInvariant, PTL DEF PublishesTheDelta, Promise!Spec, Spec

-----------------------------------------------------------------------------
(* What carries the layers, and that a success leaves a delta *)

\* What carries a layer is its blob as the reader delivers it, or a tar-diff
\* from what was read as the old filesystem.
Carriers(d) ==
  {ActualDigest(d)} \cup {Diff(b, t) : b \in {Filesystem(old), <<Rotten>>}, t \in Tar}

\* A delta that opens was written with something to carry each of its layers.
Carriage ==
  /\ \A d \in DOMAIN chosen : chosen[d] \in Carriers(d)
  /\ Published => DOMAIN chosen = NewOnly(old, new)

\* Every answer of the differ is a carrier.
LEMMA AnswersCarry ==
  ASSUME TypeOK, NEW d \in NewOnly(old, new)
  PROVE  Answers(d) \subseteq Carriers(d)
<1>1. d \in LayerDigests(new) /\ base \in {Filesystem(old), <<Rotten>>}
      /\ layerBlobs[d] \in {ActualDigest(d), Rotten}
  BY ImageFacts DEF TypeOK
<1>2. ActualDigest(d).tar = d.tar /\ ActualDigest(d).tar \in Tar
  BY <1>1, ImageFacts, DigestFacts DEF Layer, CutLayer
<1>3. TarsIn(layerBlobs[d]) \subseteq Tar
  BY <1>1, <1>2 DEF TarsIn, Rotten
<1>4. QED
  BY <1>1, <1>3 DEF Answers, Carriers

\* Once the layers are diffed nothing changes what carries them.
LEMMA NextCarriage ==
  ASSUME IInv, Carriage, [Next]_vars
  PROVE  Carriage'
<1>1. UNCHANGED <<old, new, layerDigests>>
  BY DEF Next, Classify, ComputeLayerDiffs, LoadMetadata, StartEntry, FinishEntry, HashCopy,
     NextEntry, Return, Fail, Crash, RotOld, RotNew, Terminating, vars, inputs
<1>2. (\A d : Carriers(d)' = Carriers(d)) /\ UNCHANGED NewOnly(old, new)
  BY <1>1 DEF Carriers, ActualDigest
<1>3. CASE ComputeLayerDiffs
  <2>1. /\ DOMAIN chosen' = NewOnly(old, new)
        /\ \A d \in NewOnly(old, new) : chosen'[d] \in Answers(d)
    BY <1>3 DEF ComputeLayerDiffs
  <2>2. QED
    BY <1>2, <2>1, AnswersCarry DEF IInv, Carriage
<1>4. CASE UNCHANGED <<chosen, files>>
  BY <1>2, <1>4 DEF Carriage, Published, Has
<1>5. CASE StartEntry \/ FinishEntry
  <2>1. pc = "write" /\ UNCHANGED chosen
    BY <1>5 DEF StartEntry, FinishEntry, EndWrite, IInv, TypeOK
  <2>2. DOMAIN chosen = NewOnly(old, new)
    BY <2>1 DEF IInv, TypeOK
  <2>3. QED
    BY <1>2, <2>1, <2>2 DEF Carriage
<1>6. QED
  BY <1>3, <1>4, <1>5 DEF Next, Classify, LoadMetadata, HashCopy,
     NextEntry, Return, Fail, Crash, AbortWrite, RotOld, RotNew, Terminating, vars, inputs

\* An entry is written from memory or a temporary file, or is a layer copied
\* from the new image.
LEMMA EntryFacts ==
  ASSUME TypeOK, NEW k \in 1..Final
  PROVE  \/ WriteList[k].from = NoTo
         \/ \E d \in NewOnly(old, new) : WriteList[k] = LayerEntry(d)
<1> DEFINE First == Plain(<<LayoutFile, new, new.config>>)
           End == Plain(<<EmptyJSON, TheDelta, IndexFile>>)
           L == LayerEntries
           S == SignatureEntries
           Inner == {First[n] : n \in 1..3} \cup {S[n] : n \in 1..Signed} \cup {End[n] : n \in 1..3}
           Outer == {L[n] : n \in 1..Carried}
           All == Inner \cup Outer
<1>1. Carried \in Nat /\ Signed \in Nat
  BY PartsFacts
<1>2. /\ Len(First) = 3 /\ First \in Seq({First[n] : n \in 1..3})
      /\ \A n \in 1..3 : First[n].from = NoTo
  BY DEF Plain, Entry
<1>3. /\ Len(End) = 3 /\ End \in Seq({End[n] : n \in 1..3})
      /\ \A n \in 1..3 : End[n].from = NoTo
  <2> HIDE DEF TheDelta
  <2>1. QED
    BY DEF Plain, Entry
<1>4. /\ Len(L) = Carried /\ L \in Seq({L[n] : n \in 1..Carried})
      /\ \A n \in 1..Carried : L[n] = LayerEntry(CarriedLayers(old, new)[n])
  BY <1>1 DEF LayerEntries, Carried
<1>5. /\ Len(S) = Signed /\ S \in Seq({S[n] : n \in 1..Signed})
      /\ \A n \in 1..Signed : S[n].from = NoTo
  BY <1>1 DEF SignatureEntries, Signed, Entry
<1>6. \A e \in Inner : e.from = NoTo
  BY <1>2, <1>3, <1>5
<1>7. \A e \in Outer : \E d \in NewOnly(old, new) : e = LayerEntry(d)
  <2>1. \A n \in 1..Carried : CarriedLayers(old, new)[n] \in NewOnly(old, new)
    BY ImageFacts DEF Carried
  <2>2. QED
    BY <1>4, <2>1
<1>8. First \in Seq(All) /\ L \in Seq(All) /\ S \in Seq(All) /\ End \in Seq(All)
  <2> HIDE DEF First, End, L, S
  <2>1. QED
    BY <1>2, <1>3, <1>4, <1>5
<1>9. WriteList = ((First \o L) \o S) \o End
  BY DEF WriteList
<1>10. WriteList \in Seq(All)
  <2> HIDE DEF First, End, L, S, All
  <2>1. QED
    BY <1>8, <1>9
<1>11. WriteList[k] \in All
  <2> HIDE DEF All
  <2>1. QED
    BY <1>10 DEF Final
<1>12. QED
  BY <1>6, <1>7, <1>11

\* index.json is not copied from anywhere, and after it the delta is there.
Indexed ==
  /\ pc = "hash" => Current.from # NoTo
  /\ pc = "ok" \/ (pc = "wrote" /\ next = Final) => Published

\* A success leaves a delta that opens (create.go:325-331).
LEMMA NextIndexed ==
  ASSUME IInv, Indexed, [Next]_vars
  PROVE  Indexed'
<1> USE DEF IInv
<1>1. CASE FinishEntry
  <2>1. /\ ~Idle /\ pc = "write" /\ writing.name \in DOMAIN files
        /\ files' = [files EXCEPT ![writing.name] = writing.content]
        /\ pc' = IF Current.from = NoTo THEN "wrote" ELSE "hash"
        /\ UNCHANGED <<old, new, sigs, chosen, next>>
    BY <1>1 DEF FinishEntry, EndWrite, TypeOK, Current, inputs
  <2>2. UNCHANGED <<TheDelta, WriteList, Final, Current>>
    BY <2>1, SameList DEF Current
  <2>3. ASSUME next = Final PROVE Published'
    <3>1. Current.name = IndexFile /\ Current.from = NoTo
      BY <2>3, WriteListFacts DEF Current, Entry
    <3>2. writing.name = IndexFile /\ writing.content = Index(TheDelta)
      BY <2>1, <3>1 DEF InProgress
    <3>3. QED
      BY <2>1, <3>2, Kinds DEF Published, Has
  <2>4. QED
    BY <2>1, <2>2, <2>3 DEF Indexed
<1>2. CASE HashCopy
  <2>1. pc = "hash" /\ UNCHANGED <<files, old, new, sigs, chosen, next>> /\ pc' \in {"wrote", "failing"}
    BY <1>2 DEF HashCopy, inputs
  <2>2. UNCHANGED <<TheDelta, WriteList, Final, Current>>
    BY <2>1, SameList DEF Current
  <2>3. next # Final
    BY <2>1, WriteListFacts DEF Indexed, Current, Entry
  <2>4. QED
    BY <2>1, <2>2, <2>3 DEF Indexed
<1>3. CASE NextEntry \/ StartEntry \/ Classify \/ ComputeLayerDiffs \/ LoadMetadata
  BY <1>3 DEF NextEntry, StartEntry, Classify, ComputeLayerDiffs, LoadMetadata, Indexed
<1>4. CASE Return
  <2>1. UNCHANGED files /\ (pc' = "ok" => pc = "wrote" /\ next = Final) /\ pc' \in {"ok", "error"}
    BY <1>4 DEF Return, Final
  <2>2. QED
    BY <2>1 DEF Indexed, Published, Has
<1>5. CASE Fail \/ Crash
  BY <1>5 DEF Fail, Crash, Indexed
<1>6. CASE RotOld \/ (\E d \in DOMAIN layerBlobs : RotNew(d)) \/ UNCHANGED vars
  <2>1. UNCHANGED <<files, old, new, sigs, chosen, pc, next>>
    BY <1>6 DEF RotOld, RotNew, vars, inputs
  <2>2. QED
    BY <2>1, SameList DEF Indexed, Current, Published, Has
<1>7. QED
  BY <1>1, <1>2, <1>3, <1>4, <1>5, <1>6 DEF Next, Terminating

\* What a delta that opens names is in its layout, intact.
LEMMA BuiltIsThere ==
  ASSUME IInv, Published
  PROVE  /\ Intact(TheDelta) /\ Intact(new) /\ Intact(new.config)
         /\ \A d \in NewOnly(old, new) : Intact(chosen[d])
<1>1. TypeOK /\ PublishedDeltaIsComplete /\ PublishedManifest = TheDelta
  BY WholeIsComplete DEF IInv
<1>2. Len(TheDelta.parts) = 2 + Carried + Signed /\ Carried \in Nat /\ Signed \in Nat
  BY <1>1, PartsFacts
<1>3. \A k \in 1..2 + Carried + Signed : Intact(TheDelta.parts[k].digest)
  BY <1>1, <1>2 DEF PublishedDeltaIsComplete
<1>4. Intact(new) /\ Intact(new.config)
  <2>1. 1 \in 1..2 + Carried + Signed /\ 2 \in 1..2 + Carried + Signed
    BY <1>2
  <2>2. TheDelta.parts[1].digest = new /\ TheDelta.parts[2].digest = new.config
    BY <1>1, PartsFacts DEF Part
  <2>3. QED
    BY <1>3, <2>1, <2>2
<1>5. ASSUME NEW d \in NewOnly(old, new) PROVE Intact(chosen[d])
  <2>1. PICK k \in 1..Carried : CarriedLayers(old, new)[k] = d
    BY <1>1, ImageFacts, NewAreCarried DEF Carried
  <2>2. k + 2 \in 3..Carried + 2 /\ k + 2 \in 1..2 + Carried + Signed /\ (k + 2) - 2 = k
    BY <1>2
  <2>3. TheDelta.parts[k + 2] = LayerPart(d, chosen)
    BY <1>1, <2>1, <2>2, ContentFacts
  <2>4. TheDelta.parts[k + 2].digest = chosen[d]
    BY <2>3 DEF LayerPart, Part
  <2>5. QED
    BY <1>3, <2>2, <2>4
<1>6. QED
  BY <1>1, <1>4, <1>5 DEF PublishedDeltaIsComplete

-----------------------------------------------------------------------------
(* A run in which nothing fails *)

\* What was read and decided is what the two images say, no new layer was
\* exported without its end, and every entry gets the content it is named after.
Unharmed ==
  /\ \A d \in NewOnly(old, new) : ActualDigest(d).kind = "layer"
  /\ base = Filesystem(old)
  /\ \A d \in LayerDigests(new) : layerBlobs[d] = ActualDigest(d)
  /\ \A d \in DOMAIN chosen : chosen[d] \in {ActualDigest(d), Diff(Filesystem(old), d.tar)}
  /\ pc \notin {"failing", "error", "crashed"}
  /\ ~Idle /\ Current.from # NoTo => writing.content = Current.name
  /\ pc = "hash" => Intact(Current.name)

\* Nothing is damaged by the statements themselves: no check of create.go
\* rejects an image whose layers all have diff_ids.
LEMMA StepUnharmed ==
  ASSUME IInv, Unharmed, ~ClassificationPanics(old, new),
         \/ Classify \/ ComputeLayerDiffs \/ LoadMetadata \/ StartEntry \/ FinishEntry
         \/ HashCopy \/ NextEntry \/ Return
  PROVE  Unharmed'
<1> USE DEF IInv
<1>1. /\ UNCHANGED <<old, new, sigs, layerDigests, base, layerBlobs>>
      /\ UNCHANGED <<Filesystem(old), LayerDigests(new)>>
      /\ \A d : ActualDigest(d)' = ActualDigest(d)
  BY DEF Classify, ComputeLayerDiffs, LoadMetadata, StartEntry, FinishEntry, HashCopy,
     NextEntry, Return, inputs, ActualDigest, LayerDigests
<1>2. /\ base' = Filesystem(old)'
      /\ \A d \in NewOnly(old, new)' : ActualDigest(d)'.kind = "layer"
      /\ \A d \in LayerDigests(new)' : layerBlobs'[d] = ActualDigest(d)'
  BY <1>1 DEF Unharmed
<1>3. CASE ComputeLayerDiffs
  <2>1. /\ DOMAIN chosen' = NewOnly(old, new)
        /\ \A d \in NewOnly(old, new) : chosen'[d] \in Answers(d)
        /\ pc' = "load" /\ pc = "diff" /\ UNCHANGED writing
    BY <1>3 DEF ComputeLayerDiffs
  <2>2. ASSUME NEW d \in NewOnly(old, new)
        PROVE  chosen'[d] \in {ActualDigest(d), Diff(Filesystem(old), d.tar)}
    <3>1. d \in LayerDigests(new) /\ d.kind = "layer"
      BY ImageFacts
    <3>2. layerBlobs[d] = ActualDigest(d) /\ ActualDigest(d).kind = "layer"
          /\ ActualDigest(d).tar = d.tar
      BY <3>1, DigestFacts DEF Unharmed, Layer, CutLayer
    <3>3. TarsIn(layerBlobs[d]) = {d.tar}
      BY <3>2 DEF TarsIn
    <3>4. QED
      BY <2>1, <3>3 DEF Answers, Unharmed
  <2>3. Idle /\ Idle'
    BY <2>1 DEF TypeOK, Idle
  <2>4. QED
    BY <1>1, <1>2, <2>1, <2>2, <2>3 DEF Unharmed
<1>4. ASSUME UNCHANGED chosen
      PROVE  /\ UNCHANGED <<WriteList, Final>>
             /\ \A d \in DOMAIN chosen' :
                  chosen'[d] \in {ActualDigest(d), Diff(Filesystem(old), d.tar)}'
  BY <1>1, <1>4, SameList DEF Unharmed
<1>5. CASE Classify \/ LoadMetadata
  <2>1. UNCHANGED <<chosen, writing>> /\ pc' \in {"diff", "write"} /\ pc # "write"
    BY <1>5 DEF Classify, LoadMetadata
  <2>2. Idle /\ Idle'
    BY <2>1 DEF TypeOK, Idle
  <2>3. QED
    BY <1>1, <1>2, <1>4, <2>1, <2>2 DEF Unharmed
<1>6. CASE StartEntry
  <2>1. /\ pc = "write" /\ UNCHANGED <<chosen, pc, next>>
        /\ writing' = Write(Current.name, ContentOf(Current))
    BY <1>6 DEF StartEntry, BeginWrite, Current
  <2>2. UNCHANGED Current /\ next \in 1..Final /\ DOMAIN chosen = NewOnly(old, new)
    BY <1>4, <2>1 DEF Current, TypeOK, Final
  <2>3. Current.from # NoTo => ContentOf(Current) = Current.name
    <3> SUFFICES ASSUME Current.from # NoTo PROVE ContentOf(Current) = Current.name
      OBVIOUS
    <3>1. PICK d \in NewOnly(old, new) : Current = LayerEntry(d)
      BY <2>2, EntryFacts DEF Current
    <3>2. chosen[d].kind # "diff" /\ Current = Entry(chosen[d], d)
      BY <3>1 DEF LayerEntry, Entry
    <3>3. chosen[d] = ActualDigest(d) /\ layerBlobs[d] = ActualDigest(d)
      BY <2>2, <3>2, ImageFacts, Kinds DEF Unharmed
    <3>4. QED
      BY <3>2, <3>3 DEF ContentOf, Entry
  <2>4. QED
    BY <1>1, <1>2, <1>4, <2>1, <2>2, <2>3, Kinds DEF Unharmed
<1>7. CASE FinishEntry
  <2>1. /\ ~Idle /\ pc = "write" /\ writing.name \in DOMAIN files
        /\ files' = [files EXCEPT ![writing.name] = writing.content]
        /\ Idle'
        /\ pc' = IF Current.from = NoTo THEN "wrote" ELSE "hash"
        /\ UNCHANGED <<chosen, next>>
    BY <1>7 DEF FinishEntry, EndWrite, TypeOK, Current, Idle
  <2>2. UNCHANGED Current /\ writing.name = Current.name
    BY <1>4, <2>1 DEF Current, InProgress
  <2>3. pc' = "hash" => Intact(Current.name)'
    BY <2>1, <2>2 DEF Unharmed, Intact, Has
  <2>4. QED
    BY <1>1, <1>2, <1>4, <2>1, <2>2, <2>3 DEF Unharmed
<1>8. CASE HashCopy \/ NextEntry \/ Return
  <2>1. /\ UNCHANGED <<chosen, writing>> /\ pc # "write" /\ pc' \in {"wrote", "write", "ok", "error", "failing"}
    BY <1>8 DEF HashCopy, NextEntry, Return
  <2>2. pc' \notin {"error", "failing"}
    BY <1>8 DEF HashCopy, NextEntry, Return, Unharmed, Current
  <2>3. Idle /\ Idle'
    BY <2>1 DEF TypeOK, Idle
  <2>4. QED
    BY <1>1, <1>2, <1>4, <2>1, <2>2, <2>3 DEF Unharmed
<1>9. QED
  BY <1>3, <1>5, <1>6, <1>7, <1>8

=============================================================================
