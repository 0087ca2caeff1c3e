-------------------------- MODULE DeltaContentProofs --------------------------
(***************************************************************************)
(* What is in a delta, for any manifests, signatures, ops and layers: the  *)
(* manifest (DeltaParse), the signatures (Signatures), the layers as the   *)
(* Rust crate patches them (TarPatch) with their integers (Uvarint), and   *)
(* the pool of workers that makes the tar-diffs (DiffPool).  Each has an   *)
(* inductive invariant of its own variables.                               *)
(***************************************************************************)
EXTENDS DeltaContent, DiffPool, Induction, FiniteSetTheorems

-----------------------------------------------------------------------------
(* DeltaParse *)

IsManifest(d) ==
  /\ d = Parse!DeltaManifest(d.sourceConfig, Parse!NoTo, d.parts, <<>>)
  /\ d.parts \in Seq(Parts \cup {Parse!Skipped})

ManifestInv == IsManifest(dm)

ManifestPart == component = "parse" => ManifestInv

\* The positions of the parts that have a role the readers know.
RolesOf(d) == {k \in 1..Len(d.parts) : Parse!Understood(d.parts[k])}

\* e has the parts of d with a known role, by sigma, and those of one role in
\* the same order.
SameRoles(d, e, sigma) ==
  /\ IsManifest(d) /\ IsManifest(e)
  /\ e.sourceConfig = d.sourceConfig
  /\ \A k \in RolesOf(d) : sigma[k] \in RolesOf(e) /\ e.parts[sigma[k]] = d.parts[k]
  /\ \A n \in RolesOf(e) : \E k \in RolesOf(d) : sigma[k] = n
  /\ \A k, l \in RolesOf(d) :
       k < l /\ Parse!Role(d.parts[k]) = Parse!Role(d.parts[l]) => sigma[k] < sigma[l]

\* A set of positions has a last one.
LEMMA LastPosition ==
  ASSUME NEW N \in Nat, NEW S \in SUBSET (1..N), S # {}
  PROVE  \E m \in S : \A k \in S : k <= m
<1> DEFINE Bounds == {n \in 0..N : \A k \in S : k <= N - n}
<1> SUFFICES ASSUME \A m \in S : \E k \in S : k > m PROVE FALSE
  <2>1. \A k, m \in S : k > m <=> ~(k <= m)
    OBVIOUS
  <2>2. QED
    BY <2>1
<1>1. 0 \in Bounds
  OBVIOUS
<1>2. ASSUME NEW n \in Nat, n < N, n \in Bounds PROVE n + 1 \in Bounds
  <2>1. ASSUME NEW k \in S PROVE k <= N - (n + 1)
    <3>1. k # N - n
      BY <1>2
    <3>2. QED
      BY <1>2, <3>1
  <2>2. QED
    BY <1>2, <2>1
<1>3. N \in Bounds
  <2> HIDE DEF Bounds
  <2>1. 0..N \subseteq Bounds
    BY <1>1, <1>2, InductionUpto
  <2>2. QED
    BY <2>1
<1>4. PICK k \in S : TRUE
  OBVIOUS
<1>5. k \in 1..N /\ k <= N - N
  BY <1>3
<1>6. QED
  BY <1>5

\* The last of several parts of one role is the same part in both.
LEMMA SameLast ==
  ASSUME NEW d, NEW e, NEW sigma, SameRoles(d, e, sigma),
         NEW S \in SUBSET RolesOf(d), S # {},
         \A k, l \in S : Parse!Role(d.parts[k]) = Parse!Role(d.parts[l])
  PROVE  Parse!LastOf(e, {sigma[k] : k \in S}) = Parse!LastOf(d, S)
<1> DEFINE T == {sigma[k] : k \in S}
<1>1. PICK m \in S : \A k \in S : k <= m
  <2>1. Len(d.parts) \in Nat /\ S \subseteq 1..Len(d.parts)
    BY DEF SameRoles, RolesOf, IsManifest
  <2>2. QED
    BY <2>1, LastPosition
<1>2. S \subseteq Nat /\ T \subseteq Nat
  BY DEF SameRoles, RolesOf, IsManifest
<1>3. \A k \in S : sigma[k] <= sigma[m]
  <2>1. ASSUME NEW k \in S, k # m PROVE sigma[k] < sigma[m]
    <3>1. k < m
      BY <1>1, <1>2, <2>1
    <3>2. QED
      BY <3>1 DEF SameRoles
  <2>2. sigma[m] <= sigma[m]
    BY <1>2
  <2>3. ASSUME NEW k \in S PROVE sigma[k] <= sigma[m]
    <3>1. sigma[k] \in Nat /\ sigma[m] \in Nat
      BY <1>2
    <3>2. QED
      BY <2>1, <2>2, <3>1
  <2>4. QED
    BY <2>3
<1>4. (CHOOSE k \in S : \A l \in S : l <= k) = m
  <2> DEFINE P(k) == \A l \in S : l <= k
             c == CHOOSE k \in S : P(k)
  <2>1. P(m) /\ \A k \in S : P(k) => k = m
    BY <1>1, <1>2
  <2> HIDE DEF P
  <2>2. c \in S /\ P(c)
    BY <2>1
  <2> HIDE DEF c
  <2>3. c = m
    BY <2>1, <2>2
  <2>4. QED
    BY <2>3 DEF c, P
<1>5. (CHOOSE k \in T : \A l \in T : l <= k) = sigma[m]
  <2> DEFINE P(k) == \A l \in T : l <= k
             c == CHOOSE k \in T : P(k)
  <2>1. sigma[m] \in T /\ P(sigma[m])
    BY <1>3
  <2>2. \A k \in T : P(k) => k = sigma[m]
    <3>1. ASSUME NEW k \in T, P(k) PROVE k = sigma[m]
      <4>1. k \in Nat /\ sigma[m] \in Nat
        BY <1>2
      <4>2. sigma[m] <= k /\ k <= sigma[m]
        BY <2>1, <3>1
      <4>3. QED
        BY <4>1, <4>2
    <3>2. QED
      BY <3>1
  <2> HIDE DEF P, T
  <2>3. c \in T /\ P(c)
    BY <2>1
  <2> HIDE DEF c
  <2>4. c = sigma[m]
    BY <2>2, <2>3
  <2>5. QED
    BY <2>4 DEF c, P
<1>6. e.parts[sigma[m]] = d.parts[m]
  BY DEF SameRoles
<1>7. QED
  BY <1>4, <1>5, <1>6 DEF Parse!LastOf

\* Manifests with the same roles have the same parts of every role.
LEMMA SamePartsOf ==
  ASSUME NEW d, NEW e, NEW sigma, SameRoles(d, e, sigma),
         NEW c \in {"image-manifest", "image-config", "image-layer"}
  PROVE  /\ Parse!PartsOf(d, c) \subseteq RolesOf(d)
         /\ Parse!PartsOf(e, c) = {sigma[k] : k \in Parse!PartsOf(d, c)}
<1>1. \A x : Parse!PartsOf(x, c) \subseteq RolesOf(x)
  BY DEF Parse!PartsOf, RolesOf, Parse!Understood
<1>2. ASSUME NEW k \in Parse!PartsOf(d, c) PROVE sigma[k] \in Parse!PartsOf(e, c)
  BY <1>1, <1>2 DEF SameRoles, Parse!PartsOf, RolesOf
<1>3. ASSUME NEW n \in Parse!PartsOf(e, c) PROVE \E k \in Parse!PartsOf(d, c) : sigma[k] = n
  <2>1. PICK k \in RolesOf(d) : sigma[k] = n
    BY <1>1, <1>3 DEF SameRoles
  <2>2. k \in Parse!PartsOf(d, c)
    BY <1>3, <2>1 DEF SameRoles, Parse!PartsOf, RolesOf
  <2>3. QED
    BY <2>1, <2>2
<1>4. QED
  BY <1>1, <1>2, <1>3

\* What the readers take out of d they take out of e.
LEMMA SameParse ==
  ASSUME NEW d, NEW e, NEW sigma, SameRoles(d, e, sigma),
         \A c \in {"image-manifest", "image-config"} : Parse!PartsOf(d, c) # {}
  PROVE  Parse!ParseDelta(e) = Parse!ParseDelta(d)
<1>1. ASSUME NEW c \in {"image-manifest", "image-config"}
      PROVE  Parse!LastOf(e, Parse!PartsOf(e, c)) = Parse!LastOf(d, Parse!PartsOf(d, c))
  <2>1. \A k, l \in Parse!PartsOf(d, c) : Parse!Role(d.parts[k]) = Parse!Role(d.parts[l])
    BY DEF Parse!PartsOf, Parse!Role, Parse!IsLayer
  <2>2. QED
    BY <1>1, <2>1, SameLast, SamePartsOf
<1> DEFINE L(x) == Parse!PartsOf(x, "image-layer")
           At(x, to) == {k \in L(x) : x.parts[k].to = to}
<1>2. L(d) \subseteq RolesOf(d) /\ L(e) = {sigma[k] : k \in L(d)}
  BY SamePartsOf
<1>3. \A k \in L(d) : e.parts[sigma[k]] = d.parts[k]
  BY <1>2 DEF SameRoles
<1>4. {e.parts[k].to : k \in L(e)} = {d.parts[k].to : k \in L(d)}
  BY <1>2, <1>3
<1>5. ASSUME NEW to \in {d.parts[k].to : k \in L(d)}
      PROVE  Parse!LastOf(e, At(e, to)) = Parse!LastOf(d, At(d, to))
  <2>1. At(d, to) \subseteq RolesOf(d) /\ At(d, to) # {}
    BY <1>2
  <2>2. At(e, to) = {sigma[k] : k \in At(d, to)}
    BY <1>2, <1>3
  <2>3. \A k, l \in At(d, to) : Parse!Role(d.parts[k]) = Parse!Role(d.parts[l])
    BY DEF Parse!PartsOf, Parse!Role, Parse!IsLayer
  <2> HIDE DEF At
  <2>4. QED
    BY <2>1, <2>2, <2>3, SameLast
<1>6. Parse!DeltaLayerByTo(e) = Parse!DeltaLayerByTo(d)
  BY <1>4, <1>5 DEF Parse!DeltaLayerByTo
<1>7. QED
  BY <1>1, <1>6 DEF Parse!ParseDelta, SameRoles

\* They stay alike when the same positions are passed over.
LEMMA SameWithout ==
  ASSUME NEW d, NEW e, NEW sigma, SameRoles(d, e, sigma), NEW S
  PROVE  SameRoles(Parse!Without(d, S), Parse!Without(e, S), sigma)
<1> DEFINE Passed(p) == Parse!IsLayer(p) /\ p.to \in S
           W(x) == Parse!Without(x, S)
<1>1. ~Parse!Understood(Parse!Skipped)
  BY DEF Parse!Understood, Parse!Skipped, Parse!Part
<1>2. ASSUME NEW x, IsManifest(x)
      PROVE  /\ IsManifest(W(x)) /\ W(x).sourceConfig = x.sourceConfig
             /\ Len(W(x).parts) = Len(x.parts)
             /\ \A k \in 1..Len(x.parts) :
                  W(x).parts[k] = IF Passed(x.parts[k]) THEN Parse!Skipped ELSE x.parts[k]
  <2> DEFINE parts == [k \in DOMAIN x.parts |->
                         IF Passed(x.parts[k]) THEN Parse!Skipped ELSE x.parts[k]]
  <2>1. x.parts \in Seq(Parts \cup {Parse!Skipped})
    BY <1>2 DEF IsManifest
  <2>2. W(x) = [x EXCEPT !.parts = parts]
    BY DEF Parse!Without
  <2>3. DOMAIN x.parts = 1..Len(x.parts) /\ Len(x.parts) \in Nat
    BY <2>1
  <2>4. \A k \in 1..Len(x.parts) : parts[k] \in Parts \cup {Parse!Skipped}
    BY <2>1, <2>3
  <2>5. parts \in Seq(Parts \cup {Parse!Skipped}) /\ Len(parts) = Len(x.parts)
    <3>1. DOMAIN parts = 1..Len(x.parts)
      BY <2>3
    <3>2. parts = [k \in 1..Len(x.parts) |-> parts[k]]
      BY <2>3
    <3> HIDE DEF parts
    <3>3. QED
      BY <2>3, <2>4, <3>1, <3>2
  <2> HIDE DEF parts
  <2>6. W(x) = Parse!DeltaManifest(x.sourceConfig, Parse!NoTo, parts, <<>>)
    <3>1. x = Parse!DeltaManifest(x.sourceConfig, Parse!NoTo, x.parts, <<>>)
      BY <1>2 DEF IsManifest
    <3>2. QED
      BY <2>2, <3>1 DEF Parse!DeltaManifest
  <2>7. W(x).parts = parts /\ W(x).sourceConfig = x.sourceConfig
    BY <2>6 DEF Parse!DeltaManifest
  <2>8. QED
    BY <2>3, <2>5, <2>6, <2>7 DEF IsManifest, parts
<1>3. ASSUME NEW x, IsManifest(x)
      PROVE  RolesOf(W(x)) = {k \in RolesOf(x) : ~Passed(x.parts[k])}
  BY <1>1, <1>2, <1>3 DEF RolesOf
<1>4. IsManifest(d) /\ IsManifest(e)
  BY DEF SameRoles
<1>5. \A k \in RolesOf(W(d)) : k \in RolesOf(d) /\ ~Passed(d.parts[k]) /\ W(d).parts[k] = d.parts[k]
  BY <1>2, <1>3, <1>4 DEF RolesOf
<1>6. \A k \in RolesOf(W(e)) : k \in RolesOf(e) /\ ~Passed(e.parts[k]) /\ W(e).parts[k] = e.parts[k]
  BY <1>2, <1>3, <1>4 DEF RolesOf
<1>7. ASSUME NEW k \in RolesOf(W(d))
      PROVE  sigma[k] \in RolesOf(W(e)) /\ W(e).parts[sigma[k]] = W(d).parts[k]
  <2>1. sigma[k] \in RolesOf(e) /\ e.parts[sigma[k]] = d.parts[k]
    BY <1>5 DEF SameRoles
  <2>2. sigma[k] \in RolesOf(W(e))
    BY <1>3, <1>4, <1>5, <2>1
  <2>3. QED
    BY <1>5, <1>6, <2>1, <2>2
<1>8. ASSUME NEW n \in RolesOf(W(e)) PROVE \E k \in RolesOf(W(d)) : sigma[k] = n
  <2>1. PICK k \in RolesOf(d) : sigma[k] = n
    BY <1>6 DEF SameRoles
  <2>2. ~Passed(d.parts[k])
    BY <1>6, <2>1 DEF SameRoles
  <2>3. QED
    BY <1>3, <1>4, <2>1, <2>2
<1>9. ASSUME NEW k \in RolesOf(W(d)), NEW l \in RolesOf(W(d)),
             k < l, Parse!Role(W(d).parts[k]) = Parse!Role(W(d).parts[l])
      PROVE  sigma[k] < sigma[l]
  BY <1>5, <1>9 DEF SameRoles
<1>10. W(e).sourceConfig = W(d).sourceConfig
  BY <1>2, <1>4 DEF SameRoles
<1> HIDE DEF W, Passed
<1>11. SameRoles(W(d), W(e), sigma)
  BY <1>2, <1>4, <1>7, <1>8, <1>9, <1>10 DEF SameRoles
<1>12. QED
  BY <1>11 DEF W

\* Both readers read e as they read d.
LEMMA SameReaders ==
  ASSUME NEW d, NEW e, NEW sigma, SameRoles(d, e, sigma)
  PROVE  Parse!ReadAlike(e, d)
<1>1. Parse!HasImage(e) <=> Parse!HasImage(d)
  <2>1. ASSUME NEW c \in {"image-manifest", "image-config"}
        PROVE  /\ Parse!PartsOf(e, c) = {} <=> Parse!PartsOf(d, c) = {}
               /\ Parse!PartsOf(d, c) # {} => Parse!ImagePart(e, c) = Parse!ImagePart(d, c)
    <3>1. /\ Parse!PartsOf(d, c) \subseteq RolesOf(d)
          /\ Parse!PartsOf(e, c) = {sigma[k] : k \in Parse!PartsOf(d, c)}
      BY <2>1, SamePartsOf
    <3>2. \A k, l \in Parse!PartsOf(d, c) : Parse!Role(d.parts[k]) = Parse!Role(d.parts[l])
      BY <2>1 DEF Parse!PartsOf, Parse!Role, Parse!IsLayer
    <3>3. Parse!PartsOf(d, c) # {} =>
            Parse!LastOf(e, Parse!PartsOf(e, c)) = Parse!LastOf(d, Parse!PartsOf(d, c))
      BY <3>1, <3>2, SameLast
    <3>4. Parse!PartsOf(e, c) = {} <=> Parse!PartsOf(d, c) = {}
      BY <3>1
    <3>5. QED
      BY <3>3, <3>4 DEF Parse!ImagePart
  <2>2. QED
    BY <2>1 DEF Parse!HasImage
<1>2. e.sourceConfig = d.sourceConfig
  BY DEF SameRoles
<1>3. Parse!InvalidTo(e) <=> Parse!InvalidTo(d)
  <2>1. \A x : IsManifest(x) => (Parse!InvalidTo(x) <=>
          \E k \in RolesOf(x) : Parse!IsLayer(x.parts[k]) /\ x.parts[k].to = Parse!NotADigest)
    BY DEF Parse!InvalidTo, RolesOf, Parse!IsLayer, Parse!Understood, IsManifest
  <2>2. QED
    BY <2>1 DEF SameRoles
<1>4. ASSUME NEW S, Parse!HasImage(d)
      PROVE  Parse!ParseDelta(Parse!Without(e, S)) = Parse!ParseDelta(Parse!Without(d, S))
  <2>1. SameRoles(Parse!Without(d, S), Parse!Without(e, S), sigma)
    BY SameWithout
  <2>2. ASSUME NEW c \in {"image-manifest", "image-config"}
        PROVE  Parse!PartsOf(Parse!Without(d, S), c) # {}
    <3>1. PICK k \in 1..Len(d.parts) : d.parts[k].content = c
      BY <1>4 DEF Parse!HasImage, Parse!PartsOf
    <3>2. d = Parse!DeltaManifest(d.sourceConfig, Parse!NoTo, d.parts, <<>>)
          /\ d.parts \in Seq(Parts \cup {Parse!Skipped})
      BY DEF SameRoles, IsManifest
    <3>3. Parse!Without(d, S).parts =
            [n \in DOMAIN d.parts |->
               IF Parse!IsLayer(d.parts[n]) /\ d.parts[n].to \in S THEN Parse!Skipped ELSE d.parts[n]]
      BY <3>2 DEF Parse!Without, Parse!DeltaManifest
    <3>4. Parse!Without(d, S).parts[k].content = c
      BY <3>1, <3>2, <3>3 DEF Parse!IsLayer
    <3>5. k \in 1..Len(Parse!Without(d, S).parts)
      BY <3>1, <3>2, <3>3
    <3>6. QED
      BY <3>4, <3>5 DEF Parse!PartsOf
  <2>3. QED
    BY <2>1, <2>2, SameParse
<1>5. QED
  BY <1>1, <1>2, <1>3, <1>4 DEF Parse!ReadAlike, Parse!GoParse, Parse!RustParse

\* A manifest whose parts are replaced.
LEMMA NewParts ==
  ASSUME NEW d, IsManifest(d), NEW parts \in Seq(Parts \cup {Parse!Skipped})
  PROVE  LET e == [d EXCEPT !.parts = parts]
         IN IsManifest(e) /\ e.parts = parts /\ e.sourceConfig = d.sourceConfig
<1> DEFINE e == [d EXCEPT !.parts = parts]
<1>1. d = Parse!DeltaManifest(d.sourceConfig, Parse!NoTo, d.parts, <<>>)
  BY DEF IsManifest
<1>2. e = Parse!DeltaManifest(d.sourceConfig, Parse!NoTo, parts, <<>>)
  BY <1>1 DEF Parse!DeltaManifest
<1>3. e.parts = parts /\ e.sourceConfig = d.sourceConfig
  BY <1>2 DEF Parse!DeltaManifest
<1>4. QED
  BY <1>2, <1>3 DEF IsManifest

\* Exchanging two neighbours of different roles changes no order within a role.
LEMMA SwappedAlike ==
  ASSUME ManifestInv, NEW k \in 1..Len(dm.parts) - 1,
         Parse!Role(dm.parts[k]) # Parse!Role(dm.parts[k + 1])
  PROVE  Parse!ReadAlike(Parse!Swapped(k), dm)
<1> DEFINE N == Len(dm.parts)
           V == Parts \cup {Parse!Skipped}
           new == [dm.parts EXCEPT ![k] = dm.parts[k + 1], ![k + 1] = dm.parts[k]]
           sigma == [n \in 1..N |-> IF n = k THEN k + 1 ELSE IF n = k + 1 THEN k ELSE n]
           e == Parse!Swapped(k)
<1>1. dm = Parse!DeltaManifest(dm.sourceConfig, Parse!NoTo, dm.parts, <<>>) /\ dm.parts \in Seq(V)
  BY DEF ManifestInv, IsManifest
<1>2. N \in Nat /\ k \in 1..N /\ k + 1 \in 1..N /\ DOMAIN dm.parts = 1..N
  BY <1>1
<1>3. new \in Seq(V) /\ Len(new) = N
  BY <1>1, <1>2
<1>4. /\ new[k] = dm.parts[k + 1] /\ new[k + 1] = dm.parts[k]
      /\ \A n \in 1..N : n # k /\ n # k + 1 => new[n] = dm.parts[n]
  BY <1>1, <1>2
<1> HIDE DEF new
<1>5. e = [dm EXCEPT !.parts = new]
  BY DEF Parse!Swapped, new
<1>6. e.parts = new /\ e.sourceConfig = dm.sourceConfig
  BY <1>3, <1>5, NewParts DEF ManifestInv
<1>7. IsManifest(e)
  BY <1>3, <1>5, NewParts DEF ManifestInv
<1>8. \A n \in 1..N : sigma[n] \in 1..N /\ new[sigma[n]] = dm.parts[n] /\ sigma[sigma[n]] = n
  BY <1>2, <1>4
<1> HIDE DEF e
<1>9. ASSUME NEW n \in RolesOf(dm) PROVE sigma[n] \in RolesOf(e) /\ e.parts[sigma[n]] = dm.parts[n]
  BY <1>3, <1>6, <1>8 DEF RolesOf
<1>10. ASSUME NEW n \in RolesOf(e) PROVE sigma[n] \in RolesOf(dm) /\ sigma[sigma[n]] = n
  <2>1. n \in 1..N /\ Parse!Understood(new[n])
    BY <1>3, <1>6 DEF RolesOf
  <2>2. new[n] = dm.parts[sigma[n]]
    BY <1>8, <2>1
  <2>3. QED
    BY <1>8, <2>1, <2>2 DEF RolesOf
<1>11. ASSUME NEW m \in RolesOf(dm), NEW n \in RolesOf(dm), m < n,
              Parse!Role(dm.parts[m]) = Parse!Role(dm.parts[n])
       PROVE  sigma[m] < sigma[n]
  <2>1. m \in 1..N /\ n \in 1..N /\ ~(m = k /\ n = k + 1)
    BY <1>11 DEF RolesOf
  <2>2. QED
    BY <1>2, <1>11, <2>1
<1> HIDE DEF sigma
<1>12. SameRoles(dm, e, sigma)
  BY <1>6, <1>7, <1>9, <1>10, <1>11 DEF SameRoles, ManifestInv
<1>13. QED
  BY <1>12, SameReaders DEF e

\* Leaving out a part of an unknown role changes no order either.
LEMMA LeftOutAlike ==
  ASSUME ManifestInv, NEW k \in 1..Len(dm.parts), ~Parse!Understood(dm.parts[k])
  PROVE  Parse!ReadAlike(Parse!LeftOut(k), dm)
<1> DEFINE N == Len(dm.parts)
           V == Parts \cup {Parse!Skipped}
           first == SubSeq(dm.parts, 1, k - 1)
           rest == SubSeq(dm.parts, k + 1, N)
           new == first \o rest
           sigma == [n \in 1..N |-> IF n < k THEN n ELSE n - 1]
           e == Parse!LeftOut(k)
<1>1. dm = Parse!DeltaManifest(dm.sourceConfig, Parse!NoTo, dm.parts, <<>>) /\ dm.parts \in Seq(V)
  BY DEF ManifestInv, IsManifest
<1>2. N \in Nat \ {0} /\ k \in 1..N
  BY <1>1
<1>3. /\ first \in Seq(V) /\ Len(first) = k - 1
      /\ \A n \in 1..k - 1 : first[n] = dm.parts[n]
  BY <1>1, <1>2
<1>4. /\ rest \in Seq(V) /\ Len(rest) = N - k
      /\ \A n \in 1..N - k : rest[n] = dm.parts[k + n]
  BY <1>1, <1>2
<1> HIDE DEF first, rest
<1>5. new \in Seq(V) /\ Len(new) = N - 1
  <2>1. new \in Seq(V) /\ Len(new) = Len(first) + Len(rest)
    <3>1. first \in Seq(V) /\ rest \in Seq(V)
      BY <1>3, <1>4
    <3> HIDE DEF V
    <3>2. QED
      BY <3>1
  <2>2. (k - 1) + (N - k) = N - 1
    BY <1>2
  <2>3. QED
    BY <1>3, <1>4, <2>1, <2>2
<1>6. /\ \A n \in 1..k - 1 : new[n] = dm.parts[n]
      /\ \A n \in k..N - 1 : new[n] = dm.parts[n + 1]
  <2>1. ASSUME NEW n \in 1..k - 1 PROVE new[n] = dm.parts[n]
    BY <1>2, <1>3, <1>4
  <2>2. ASSUME NEW n \in k..N - 1 PROVE new[n] = dm.parts[n + 1]
    <3>1. n \in Int /\ k <= n /\ n <= N - 1
      BY <1>2
    <3>2. n - (k - 1) \in 1..N - k /\ n > k - 1 /\ n <= (k - 1) + (N - k)
      BY <1>2, <3>1
    <3>3. new[n] = rest[n - (k - 1)]
      BY <1>2, <1>3, <1>4, <3>1, <3>2
    <3>4. rest[n - (k - 1)] = dm.parts[k + (n - (k - 1))] /\ k + (n - (k - 1)) = n + 1
      BY <1>2, <1>4, <3>1, <3>2
    <3>5. QED
      BY <3>3, <3>4
  <2>3. QED
    BY <2>1, <2>2
<1> HIDE DEF new
<1>7. e = [dm EXCEPT !.parts = new]
  BY DEF Parse!LeftOut, Parse!RemoveAt, new, first, rest
<1>8. e.parts = new /\ e.sourceConfig = dm.sourceConfig
  BY <1>5, <1>7, NewParts DEF ManifestInv
<1>9. IsManifest(e)
  BY <1>5, <1>7, NewParts DEF ManifestInv
<1> HIDE DEF e
<1>10. ASSUME NEW n \in RolesOf(dm)
       PROVE  sigma[n] \in RolesOf(e) /\ e.parts[sigma[n]] = dm.parts[n] /\ n # k
  <2>1. n \in 1..N /\ n # k /\ Parse!Understood(dm.parts[n])
    BY DEF RolesOf
  <2>2. sigma[n] \in 1..N - 1 /\ new[sigma[n]] = dm.parts[n]
    <3>1. CASE n < k
      BY <1>2, <1>6, <2>1, <3>1
    <3>2. CASE n > k
      <4>1. sigma[n] = n - 1 /\ n - 1 \in k..N - 1 /\ (n - 1) + 1 = n /\ n - 1 \in 1..N - 1
        BY <1>2, <2>1, <3>2
      <4>2. QED
        BY <1>6, <4>1
    <3>3. QED
      BY <1>2, <2>1, <3>1, <3>2
  <2>3. QED
    BY <1>5, <1>8, <2>1, <2>2 DEF RolesOf
<1>11. ASSUME NEW n \in RolesOf(e) PROVE \E m \in RolesOf(dm) : sigma[m] = n
  <2>1. n \in 1..N - 1 /\ Parse!Understood(new[n])
    BY <1>5, <1>8 DEF RolesOf
  <2>2. CASE n < k
    <3>1. n \in 1..N /\ sigma[n] = n /\ new[n] = dm.parts[n]
      BY <1>2, <1>6, <2>1, <2>2
    <3>2. QED
      BY <2>1, <3>1 DEF RolesOf
  <2>3. CASE n >= k
    <3>1. n + 1 \in 1..N /\ sigma[n + 1] = n /\ new[n] = dm.parts[n + 1]
      BY <1>2, <1>6, <2>1, <2>3
    <3>2. QED
      BY <2>1, <3>1 DEF RolesOf
  <2>4. QED
    BY <1>2, <2>1, <2>2, <2>3
<1>12. ASSUME NEW m \in RolesOf(dm), NEW n \in RolesOf(dm), m < n PROVE sigma[m] < sigma[n]
  <2>1. m \in 1..N /\ n \in 1..N /\ m # k /\ n # k
    BY <1>10 DEF RolesOf
  <2>2. QED
    BY <1>2, <1>12, <2>1
<1> HIDE DEF sigma
<1>13. SameRoles(dm, e, sigma)
  BY <1>8, <1>9, <1>10, <1>11, <1>12 DEF SameRoles, ManifestInv
<1>14. QED
  BY <1>13, SameReaders DEF e

\* What is parsed always is a manifest.
LEMMA ManifestInvariant == ContentSpec => []ManifestPart
<1>1. ContentInit => ManifestPart
  <2> SUFFICES ASSUME ContentInit, component = "parse" PROVE ManifestInv
    BY DEF ManifestPart
  <2>1. PICK s \in Sources : dm = Parse!DeltaManifest(s, Parse!NoTo, <<>>, <<>>)
    BY DEF ContentInit, Parse!Init
  <2>2. dm.sourceConfig = s /\ dm.parts = <<>>
    BY <2>1 DEF Parse!DeltaManifest
  <2>3. dm = Parse!DeltaManifest(dm.sourceConfig, Parse!NoTo, dm.parts, <<>>)
    BY <2>1, <2>2, Zenon
  <2>4. dm.parts \in Seq(Parts \cup {Parse!Skipped})
    BY <2>2
  <2>5. QED
    BY <2>3, <2>4 DEF ManifestInv, IsManifest
<1>2. ManifestPart /\ [ContentNext]_contentVars => ManifestPart'
  <2> SUFFICES ASSUME ManifestPart, [ContentNext]_contentVars, component' = "parse"
               PROVE  ManifestInv'
    BY DEF ManifestPart
  <2>1. component = "parse" /\ [Parse!Next]_parseVars
    BY DEF ContentNext, contentVars
  <2>2. dm = Parse!DeltaManifest(dm.sourceConfig, Parse!NoTo, dm.parts, <<>>)
        /\ dm.parts \in Seq(Parts \cup {Parse!Skipped})
    BY <2>1 DEF ManifestPart, ManifestInv, IsManifest
  <2>3. ASSUME NEW p \in Parts, Parse!AddPart(p) PROVE ManifestInv'
    <3> DEFINE new == Append(dm.parts, p)
    <3>1. dm' = [dm EXCEPT !.parts = new] /\ new \in Seq(Parts \cup {Parse!Skipped})
      BY <2>2, <2>3 DEF Parse!AddPart
    <3>2. IsManifest([dm EXCEPT !.parts = new])
      BY <2>1, <3>1, NewParts DEF ManifestPart, ManifestInv
    <3>3. QED
      BY <3>1, <3>2 DEF ManifestInv, IsManifest
  <2>4. CASE UNCHANGED parseVars
    BY <2>2, <2>4 DEF ManifestInv, IsManifest, parseVars
  <2>5. QED
    BY <2>1, <2>3, <2>4 DEF Parse!Next, Parse!vars, parseVars
<1>3. QED
  BY <1>1, <1>2, PTL DEF ContentSpec

\* A manifest that the Rust crate accepts is accepted by the program, and both
\* find the same parts in it, whatever other parts stand among them.
THEOREM RustReadsLikeGo == ContentSpec => []RustAcceptsLikeGo
<1>1. RustAcceptsLikeGo
  <2> SUFFICES ASSUME Parse!IsDeltaArtifact(artifactType), Parse!RustParse(dm) # Parse!Rejected
               PROVE  Parse!GoParse(dm, artifactType) = Parse!RustParse(dm)
    BY DEF RustAcceptsLikeGo, Parse!RustAcceptsLikeGo
  <2>1. /\ dm.sourceConfig # Parse!NoTo /\ Parse!HasImage(dm) /\ ~Parse!InvalidTo(dm)
        /\ Parse!RustParse(dm) = Parse!ParseDelta(Parse!Without(dm, {Parse!NoTo}))
    BY DEF Parse!RustParse
  <2>2. \A k \in DOMAIN dm.parts :
          Parse!IsLayer(dm.parts[k]) /\ dm.parts[k].to \in {Parse!NoTo, Parse!NotADigest} <=>
          Parse!IsLayer(dm.parts[k]) /\ dm.parts[k].to \in {Parse!NoTo}
    BY <2>1 DEF Parse!InvalidTo
  <2>3. Parse!Without(dm, {Parse!NoTo, Parse!NotADigest}) = Parse!Without(dm, {Parse!NoTo})
    BY <2>2 DEF Parse!Without
  <2>4. QED
    BY <2>1, <2>3 DEF Parse!GoParse, Parse!IsDeltaArtifact
<1>2. QED
  BY <1>1, PTL

\* Neither parser depends on where a part stands: exchanging neighbours of
\* different roles, or leaving out a part nobody knows, reads the same.
THEOREM RolesAreNotPositions == ContentSpec => []RolesNotPositions
<1>1. ManifestPart => RolesNotPositions
  BY SwappedAlike, LeftOutAlike DEF ManifestPart, RolesNotPositions, Parse!RolesNotPositions
<1>2. QED
  BY <1>1, ManifestInvariant, PTL

-----------------------------------------------------------------------------
(* Flattening *)

\* What two lists make when they are joined.
Joins(joined, s, t) ==
  /\ Len(joined) = Len(s) + Len(t)
  /\ \A n \in 1..Len(s) : joined[n] = s[n]
  /\ \A n \in 1..Len(t) : joined[Len(s) + n] = t[n]

\* Joining two lists.
LEMMA Joined ==
  ASSUME NEW V, NEW s \in Seq(V), NEW t \in Seq(V)
  PROVE  Joins(s \o t, s, t)
BY DEF Joins

\* Where each of N lists ends when they are joined.
Ends(ends, N, seqs) == ends[0] = 0 /\ \A k \in 1..N : ends[k] = ends[k - 1] + Len(seqs[k])

\* Lists that are joined end one after the other.
LEMMA EndsGrow ==
  ASSUME NEW N \in Nat, NEW V, NEW seqs \in [1..N -> Seq(V)], NEW ends, Ends(ends, N, seqs)
  PROVE  \A k \in 0..N : ends[k] \in Nat /\ \A m \in 0..k : ends[m] <= ends[k]
<1> DEFINE S == {k \in 0..N : \A m \in 0..k : ends[m] \in Nat /\ ends[m] <= ends[k]}
<1>1. 0 \in S
  BY DEF Ends
<1>2. ASSUME NEW k \in Nat, k < N, k \in S PROVE k + 1 \in S
  <2>1. k + 1 \in 1..N /\ (k + 1) - 1 = k /\ k + 1 \in 0..N
    BY <1>2
  <2>2. ends[k + 1] = ends[k] + Len(seqs[k + 1])
    BY <2>1 DEF Ends
  <2>3. ends[k] \in Nat /\ Len(seqs[k + 1]) \in Nat
    BY <1>2, <2>1
  <2>4. ends[k] <= ends[k + 1] /\ ends[k + 1] \in Nat
    BY <2>2, <2>3
  <2>5. ASSUME NEW m \in 0..k + 1 PROVE ends[m] \in Nat /\ ends[m] <= ends[k + 1]
    <3>1. CASE m = k + 1
      BY <2>4, <3>1
    <3>2. CASE m # k + 1
      <4>1. m \in 0..k
        BY <1>2, <3>2
      <4>2. ends[m] \in Nat /\ ends[m] <= ends[k]
        BY <1>2, <4>1
      <4>3. QED
        BY <2>3, <2>4, <4>2
    <3>3. QED
      BY <3>1, <3>2
  <2>6. QED
    BY <2>1, <2>4, <2>5
<1>3. 0..N \subseteq S
  <2> HIDE DEF S
  <2>1. QED
    BY <1>1, <1>2, InductionUpto
<1>4. QED
  BY <1>3

\* The recursion by which FlattenSeq joins N lists.
Flattening(N, seqs) ==
  CHOOSE f : f = [k \in 1..N |-> IF k = 1 THEN seqs[k] ELSE f[k - 1] \o seqs[k]]

\* Where the elements of N lists are when they are joined.
Places(joined, N, ends, seqs) ==
  /\ Len(joined) = ends[N]
  /\ \A m \in 1..N : \A n \in 1..Len(seqs[m]) :
       ends[m - 1] + n \in 1..ends[N] /\ joined[ends[m - 1] + n] = seqs[m][n]

\* FlattenSeq puts them there.
LEMMA Flattened ==
  ASSUME NEW N \in Nat, N # 0, NEW V, NEW seqs \in [1..N -> Seq(V)],
         NEW ends, Ends(ends, N, seqs)
  PROVE  Flattening(N, seqs)[N] \in Seq(V) /\ Places(Flattening(N, seqs)[N], N, ends, seqs)
<1> DEFINE flat == Flattening(N, seqs)
           W == Seq(V)
           F == [k \in 1..N |-> [s \in W |-> s \o seqs[k]]]
           Body(f, k) == IF k = 1 THEN seqs[k] ELSE f[k - 1] \o seqs[k]
<1>0. N \in Nat /\ 1 \in 1..N /\ N \in 1..N /\ \A s, t \in W : s \o t \in W
  OBVIOUS
<1>1. <<>> \in W /\ \A k \in 1..N : seqs[k] \in W
  OBVIOUS
<1> HIDE DEF W
<1>2. F \in Steps(N, W)
  BY <1>0, <1>1 DEF Steps
<1>3. PICK g : Iterates(g, N, W, <<>>, F)
  <2> HIDE DEF F
  <2>1. QED
    BY <1>0, <1>1, <1>2, IteratesExist
<1>4. /\ g \in [0..N -> W] /\ g[0] = <<>>
      /\ \A k \in 1..N : g[k] = g[k - 1] \o seqs[k]
  <2>1. ASSUME NEW k \in 1..N PROVE g[k] = g[k - 1] \o seqs[k]
    <3>1. k - 1 \in 0..N
      BY <1>0
    <3>2. g[k] = F[k][g[k - 1]] /\ g[k - 1] \in W
      <4> HIDE DEF F
      <4>1. QED
        BY <1>3, <3>1 DEF Iterates
    <3>3. QED
      BY <3>2
  <2>2. QED
    BY <1>3, <2>1 DEF Iterates
<1>5. g[1] = seqs[1]
  <2>1. g[1] = <<>> \o seqs[1]
    <3>1. g[1] = g[1 - 1] \o seqs[1] /\ 1 - 1 = 0
      BY <1>0, <1>4
    <3>2. QED
      BY <1>4, <3>1
  <2>2. seqs[1] \in Seq(V)
    BY <1>0
  <2>3. QED
    BY <2>1, <2>2
<1> DEFINE h == [k \in 1..N |-> g[k]]
<1>6. h = [k \in 1..N |-> Body(h, k)]
  <2>1. ASSUME NEW k \in 1..N PROVE h[k] = Body(h, k)
    <3>1. CASE k = 1
      BY <1>5, <3>1
    <3>2. CASE k # 1
      <4>1. k - 1 \in 1..N
        BY <1>0, <3>2
      <4>2. QED
        BY <1>4, <3>2, <4>1
    <3>3. QED
      BY <3>1, <3>2
  <2> HIDE DEF Body
  <2>2. QED
    BY <2>1
<1>7. flat = [k \in 1..N |-> Body(flat, k)]
  <2> HIDE DEF h
  <2>1. flat = CHOOSE f : f = [k \in 1..N |-> Body(f, k)]
    BY DEF Flattening
  <2> HIDE DEF Body, flat
  <2>2. QED
    BY <1>6, <2>1
<1> HIDE DEF flat
<1>8. flat[N] = g[N]
  <2> DEFINE S == {k \in 0..N : k = 0 \/ flat[k] = g[k]}
  <2>1. 0 \in S
    OBVIOUS
  <2>2. ASSUME NEW k \in Nat, k < N, k \in S PROVE k + 1 \in S
    <3>1. k + 1 \in 1..N /\ (k + 1) - 1 = k
      <4> HIDE DEF S
      <4>1. k < N /\ N \in Nat
        BY <2>2
      <4>2. QED
        BY <4>1
    <3>2. flat[k + 1] = Body(flat, k + 1)
      <4> HIDE DEF Body
      <4>1. \A n \in 1..N : flat[n] = Body(flat, n)
        BY <1>7, Zenon
      <4>2. QED
        BY <3>1, <4>1
    <3>3. CASE k = 0
      BY <1>5, <3>1, <3>2, <3>3
    <3>4. CASE k # 0
      <4>1. g[k + 1] = g[k] \o seqs[k + 1]
        BY <1>4, <3>1
      <4>2. flat[k] = g[k] /\ k + 1 # 1
        BY <2>2, <3>4
      <4>3. flat[(k + 1) - 1] = g[k]
        BY <3>1, <4>2
      <4>4. flat[k + 1] = flat[(k + 1) - 1] \o seqs[k + 1]
        BY <3>2, <4>2
      <4>5. flat[k + 1] = g[k + 1]
        BY <4>1, <4>3, <4>4, Zenon
      <4>6. QED
        BY <3>1, <4>5
    <3>5. QED
      BY <3>3, <3>4
  <2>3. 0..N \subseteq S
    <3> HIDE DEF S
    <3>1. QED
      BY <1>0, <2>1, <2>2, InductionUpto
  <2>4. N \in S /\ N # 0
    <3>1. N \in 0..N /\ N # 0
      BY <1>0
    <3> HIDE DEF S
    <3>2. QED
      BY <2>3, <3>1
  <2>5. QED
    BY <2>4
<1>9. \A k \in 0..N : ends[k] \in Nat /\ \A m \in 0..k : ends[m] <= ends[k]
  BY <1>0, EndsGrow
<1> DEFINE PlacesUpto(k) ==
             /\ Len(g[k]) = ends[k]
             /\ \A m \in 1..k : \A n \in 1..Len(seqs[m]) :
                  ends[m - 1] + n \in 1..ends[k] /\ g[k][ends[m - 1] + n] = seqs[m][n]
           S == {k \in 0..N : PlacesUpto(k)}
<1>10. 0 \in S
  <2>1. Len(<<>>) = 0 /\ ends[0] = 0 /\ 0 \in 0..N /\ 1..0 = {}
    BY <1>0 DEF Ends
  <2>2. QED
    BY <1>4, <2>1
<1>11. ASSUME NEW k \in Nat, k < N, k \in S PROVE k + 1 \in S
  <2>1. k + 1 \in 1..N /\ (k + 1) - 1 = k /\ k \in 0..N
    BY <1>11
  <2>2. g[k] \in Seq(V) /\ seqs[k + 1] \in Seq(V) /\ g[k + 1] = g[k] \o seqs[k + 1]
    BY <1>4, <2>1 DEF W
  <2>3. ends[k + 1] = ends[k] + Len(seqs[k + 1]) /\ ends[k] \in Nat /\ Len(seqs[k + 1]) \in Nat
    BY <1>9, <2>1, <2>2 DEF Ends
  <2>4. Len(g[k]) = ends[k]
    BY <1>11
  <2>5. /\ Len(g[k + 1]) = ends[k + 1]
        /\ \A n \in 1..ends[k] : g[k + 1][n] = g[k][n]
        /\ \A n \in 1..Len(seqs[k + 1]) : g[k + 1][ends[k] + n] = seqs[k + 1][n]
    <3>1. \A s, u \in Seq(V) : Joins(s \o u, s, u)
      BY Joined
    <3>2. Joins(g[k + 1], g[k], seqs[k + 1])
      BY <2>2, <3>1, Zenon
    <3>3. QED
      BY <2>3, <2>4, <3>2 DEF Joins
  <2>6. ASSUME NEW m \in 1..k + 1, NEW n \in 1..Len(seqs[m])
        PROVE  ends[m - 1] + n \in 1..ends[k + 1] /\ g[k + 1][ends[m - 1] + n] = seqs[m][n]
    <3>1. CASE m \in 1..k
      <4>1. ends[m - 1] + n \in 1..ends[k] /\ g[k][ends[m - 1] + n] = seqs[m][n]
        BY <1>11, <3>1
      <4>2. ends[m - 1] + n \in 1..ends[k + 1]
        BY <2>3, <4>1
      <4>3. QED
        BY <2>5, <4>1, <4>2
    <3>2. CASE m = k + 1
      <4>1. ends[m - 1] + n = ends[k] + n /\ n \in 1..Len(seqs[k + 1])
        BY <2>1, <3>2
      <4>2. g[k + 1][ends[k] + n] = seqs[k + 1][n]
        BY <2>5, <4>1
      <4>3. ends[k] + n \in 1..ends[k + 1]
        BY <2>3, <4>1
      <4>4. QED
        BY <3>2, <4>1, <4>2, <4>3
    <3>3. QED
      BY <3>1, <3>2
  <2>7. PlacesUpto(k + 1) /\ k + 1 \in 0..N
    BY <2>1, <2>5, <2>6
  <2> HIDE DEF PlacesUpto
  <2>8. QED
    BY <2>7
<1>12. N \in S
  <2> HIDE DEF S
  <2>1. 0..N \subseteq S
    BY <1>0, <1>10, <1>11, InductionUpto
  <2>2. QED
    BY <1>0, <2>1
<1>13. PlacesUpto(N) /\ flat[N] \in Seq(V)
  BY <1>0, <1>4, <1>8, <1>12 DEF W
<1>14. Places(flat[N], N, ends, seqs)
  BY <1>8, <1>13 DEF Places
<1>15. QED
  BY <1>13, <1>14 DEF flat

\* The ends of a finite number of lists exist.
LEMMA EndsExist ==
  ASSUME NEW N \in Nat, NEW V, NEW seqs \in [1..N -> Seq(V)]
  PROVE  \E ends : Ends(ends, N, seqs)
<1> DEFINE F == [k \in 1..N |-> [s \in Nat |-> s + Len(seqs[k])]]
<1>1. F \in Steps(N, Nat)
  BY DEF Steps
<1>2. PICK g : Iterates(g, N, Nat, 0, F)
  BY <1>1, IteratesExist
<1>3. ASSUME NEW k \in 1..N PROVE g[k] = g[k - 1] + Len(seqs[k])
  <2>1. k - 1 \in 0..N
    OBVIOUS
  <2>2. g[k] = F[k][g[k - 1]] /\ g[k - 1] \in Nat
    <3> HIDE DEF F
    <3>1. QED
      BY <1>2, <2>1 DEF Iterates
  <2>3. QED
    BY <2>2
<1>4. QED
  BY <1>2, <1>3 DEF Ends, Iterates

-----------------------------------------------------------------------------
(* Signatures *)

\* The signatures a store may hold.
Storable == Stored \cup UNION {{sigs[k] : k \in DOMAIN sigs} : sigs \in Initial}

\* A signature takes at least one byte.
LEMMA StorableLengths ==
  \A sig \in Storable : sig.len \in Nat /\ (sig.form = "sigstore" => sig.len # 0)
<1>1. ASSUME NEW sigs \in Initial, NEW k \in DOMAIN sigs PROVE StoredSignature(sigs[k])
  BY SignaturesAssumption
<1>2. \A sig \in Stored : StoredSignature(sig)
  BY SignaturesAssumption
<1>3. QED
  BY <1>1, <1>2 DEF Storable, StoredSignature

UnitsOf(sigs) == [k \in 1..Len(sigs) |-> Sig!Units(sigs[k])]

\* The blob has the signatures one after the other, and ends says where each ends.
Laid(blob, sigs, ends) ==
  /\ Len(blob) = ends[Len(sigs)]
  /\ \A m \in 1..Len(sigs) : \A n \in 1..sigs[m].len :
       ends[m - 1] + n \in 1..ends[Len(sigs)] /\ blob[ends[m - 1] + n] = [sig |-> sigs[m], at |-> n]

UnitsAmong(sigs) == {[sig |-> sigs[k], at |-> n] : k \in 1..Len(sigs), n \in Nat}

\* The blob in which signatures are kept one after the other.
LEMMA Concatenated ==
  ASSUME NEW sigs \in Seq(Storable)
  PROVE  /\ Sig!Concatenation(sigs) \in Seq(UnitsAmong(sigs))
         /\ \A ends : Ends(ends, Len(sigs), UnitsOf(sigs)) =>
              Laid(Sig!Concatenation(sigs), sigs, ends)
<1> DEFINE N == Len(sigs)
           units == UnitsOf(sigs)
           U == UnitsAmong(sigs)
           flat == Flattening(N, units)
           blob == Sig!Concatenation(sigs)
<1>1. N \in Nat /\ DOMAIN sigs = 1..N
  OBVIOUS
<1>2. ASSUME NEW k \in 1..N
      PROVE  /\ units[k] \in Seq(U) /\ Len(units[k]) = sigs[k].len
             /\ \A n \in 1..sigs[k].len : units[k][n] = [sig |-> sigs[k], at |-> n]
  <2>1. sigs[k].len \in Nat
    BY StorableLengths
  <2>2. units[k] = [n \in 1..sigs[k].len |-> [sig |-> sigs[k], at |-> n]]
    BY DEF UnitsOf, Sig!Units
  <2>3. QED
    BY <2>1, <2>2 DEF UnitsAmong
<1>3. units \in [1..N -> Seq(U)]
  BY <1>2 DEF UnitsOf
<1>4. blob = Sig!FlattenSeq(units)
  BY <1>1 DEF Sig!Concatenation, UnitsOf
<1>5. Len(units) = N
  BY <1>1 DEF UnitsOf
<1> HIDE DEF units, U
<1>6. CASE N = 0
  <2>1. blob = units /\ units = <<>>
    BY <1>3, <1>4, <1>5, <1>6 DEF Sig!FlattenSeq
  <2>2. \E ends : Ends(ends, N, units)
    BY <1>1, <1>3, EndsExist
  <2>3. QED
    BY <1>6, <2>1, <2>2 DEF Ends, Laid, UnitsAmong, units, U
<1>7. CASE N # 0
  <2>1. blob = flat[N]
    BY <1>4, <1>5, <1>7 DEF Sig!FlattenSeq, Flattening
  <2>2. N \in Nat \ {0}
    BY <1>1, <1>7
  <2> HIDE DEF blob, N
  <2>3. \E ends : Ends(ends, N, units)
    BY <1>1, <1>3, EndsExist
  <2> HIDE DEF flat
  <2>4. ASSUME NEW ends, Ends(ends, N, units)
        PROVE  flat[N] \in Seq(U) /\ Places(flat[N], N, ends, units)
    BY <1>1, <1>3, <1>7, <2>4, Flattened, Zenon DEF flat
  <2>5. blob \in Seq(U)
    BY <2>1, <2>3, <2>4
  <2>6. ASSUME NEW ends, Ends(ends, N, units)
        PROVE  /\ Len(blob) = ends[N]
               /\ \A m \in 1..N : \A n \in 1..sigs[m].len :
                    /\ ends[m - 1] + n \in 1..ends[N]
                    /\ blob[ends[m - 1] + n] = [sig |-> sigs[m], at |-> n]
    <3>1. Places(blob, N, ends, units)
      BY <2>1, <2>4, <2>6
    <3>2. QED
      BY <1>2, <3>1 DEF Places
  <2>7. QED
    BY <2>3, <2>5, <2>6 DEF Laid, units, U, blob, N
<1>8. QED
  BY <1>6, <1>7

-----------------------------------------------------------------------------

\* What ParseSigstoreBlobs finds at the k-th size, and the signature it makes.
Whole(blob, k) == Sig!InBlob(blob, k) /\ Sig!Parses(Sig!Slice(blob, k))
Found(blob, k) == Sig!Slice(blob, k)[1].sig

\* Where the signatures end according to the sizes, and what Offset is.
OffsetsEnd(end, blob, N) ==
  /\ end \in [0..N -> Nat] /\ end[0] = 0
  /\ \A k \in 1..N : end[k] = end[k - 1] + sizes[k] /\ Sig!Offset(blob, k) = end[k - 1]

\* Its recursion has a solution, whatever sizes the metadata lists.
LEMMA Offsets ==
  ASSUME sizes \in Seq(Nat), NEW blob
  PROVE  \E end : OffsetsEnd(end, blob, Len(sizes))
<1> DEFINE N == Len(sizes)
           F == [k \in 1..N |-> [n \in Nat |-> n + sizes[k]]]
           Body(f, n) == IF n = 0 THEN 0 ELSE f[n - 1] + sizes[n]
           end == CHOOSE f : f = [n \in 0..N |-> IF n = 0 THEN 0 ELSE f[n - 1] + sizes[n]]
<1>1. N \in Nat /\ \A k \in 1..N : sizes[k] \in Nat
  OBVIOUS
<1>2. F \in Steps(N, Nat)
  BY <1>1 DEF Steps
<1>3. PICK g : Iterates(g, N, Nat, 0, F)
  <2> HIDE DEF F
  <2>1. QED
    BY <1>1, <1>2, IteratesExist
<1>4. ASSUME NEW n \in 1..N PROVE g[n] = g[n - 1] + sizes[n]
  <2>1. n - 1 \in 0..N
    BY <1>1
  <2>2. g[n] = F[n][g[n - 1]] /\ g[n - 1] \in Nat
    <3> HIDE DEF F
    <3>1. QED
      BY <1>3, <2>1 DEF Iterates
  <2>3. QED
    BY <2>2
<1>5. g \in [0..N -> Nat] /\ g[0] = 0
  BY <1>3 DEF Iterates
<1>6. g = [n \in 0..N |-> Body(g, n)]
  <2>1. ASSUME NEW n \in 0..N PROVE g[n] = Body(g, n)
    BY <1>1, <1>4, <1>5
  <2> HIDE DEF Body
  <2>2. QED
    BY <1>5, <2>1
<1>7. end = [n \in 0..N |-> Body(end, n)]
  <2>1. end = CHOOSE f : f = [n \in 0..N |-> Body(f, n)]
    OBVIOUS
  <2> HIDE DEF Body, end
  <2>2. QED
    BY <1>6, <2>1
<1>8. \A k \in 1..N : Sig!Offset(blob, k) = end[k - 1]
  BY DEF Sig!Offset
<1> HIDE DEF end
<1>9. end[0] = 0 /\ \A k \in 1..N : end[k] = end[k - 1] + sizes[k]
  BY <1>1, <1>7
<1> DEFINE S == {n \in 0..N : end[n] \in Nat}
<1>10. 0 \in S
  BY <1>1, <1>9
<1>11. ASSUME NEW n \in Nat, n < N, n \in S PROVE n + 1 \in S
  <2>1. n + 1 \in 1..N /\ (n + 1) - 1 = n
    BY <1>1, <1>11
  <2>2. QED
    BY <1>1, <1>9, <1>11, <2>1
<1>12. 0..N \subseteq S
  <2> HIDE DEF S
  <2>1. QED
    BY <1>1, <1>10, <1>11, InductionUpto
<1>13. end \in [0..N -> Nat]
  <2>1. \A n \in 0..N : Body(end, n) \in Nat
    <3>1. \A n \in 0..N : n # 0 => n \in 1..N /\ n - 1 \in 0..N
      BY <1>1
    <3>2. \A n \in 0..N : end[n] \in Nat
      BY <1>12
    <3>3. QED
      BY <1>1, <3>1, <3>2
  <2> HIDE DEF Body
  <2>2. QED
    BY <1>7, <2>1
<1>14. QED
  BY <1>8, <1>9, <1>13 DEF OffsetsEnd

\* The loop finds the slices that are whole signatures, and nothing else.
LEMMA Parsed ==
  ASSUME sizes \in Seq(Nat), NEW blob
  PROVE  /\ Sig!ParseSigstoreBlobs(blob) \in
              Seq({Found(blob, k) : k \in {n \in 1..Len(sizes) : Whole(blob, n)}})
         /\ \A k \in 1..Len(sizes) : Whole(blob, k) =>
              \E n \in 1..Len(Sig!ParseSigstoreBlobs(blob)) :
                Sig!ParseSigstoreBlobs(blob)[n] = Found(blob, k)
<1> DEFINE N == Len(sizes)
           V == {Found(blob, k) : k \in {n \in 1..N : Whole(blob, n)}}
           W == Seq(V)
           F == [k \in 1..N |->
                  [s \in W |-> IF Whole(blob, k) THEN Append(s, Found(blob, k)) ELSE s]]
           Body(f, n) ==
             IF n = 0 THEN <<>>
             ELSE IF Whole(blob, n) THEN Append(f[n - 1], Found(blob, n)) ELSE f[n - 1]
           parsed == CHOOSE f : f = [n \in 0..N |-> Body(f, n)]
<1>1. N \in Nat
  OBVIOUS
<1>2. \A k \in 1..N, s \in W : Whole(blob, k) => Append(s, Found(blob, k)) \in W
  OBVIOUS
<1>3. <<>> \in W
  OBVIOUS
<1> HIDE DEF W
<1>4. F \in Steps(N, W)
  BY <1>2 DEF Steps
<1>5. PICK g : Iterates(g, N, W, <<>>, F)
  <2> HIDE DEF F
  <2>1. QED
    BY <1>1, <1>3, <1>4, IteratesExist
<1>6. g \in [0..N -> W] /\ g[0] = <<>>
  BY <1>5 DEF Iterates
<1>7. ASSUME NEW n \in 1..N
      PROVE  g[n] = IF Whole(blob, n) THEN Append(g[n - 1], Found(blob, n)) ELSE g[n - 1]
  <2>1. n - 1 \in 0..N
    BY <1>1
  <2>2. g[n] = F[n][g[n - 1]] /\ g[n - 1] \in W
    <3> HIDE DEF F
    <3>1. QED
      BY <1>5, <2>1 DEF Iterates
  <2>3. QED
    BY <2>2
<1>8. g = [n \in 0..N |-> Body(g, n)]
  <2>1. ASSUME NEW n \in 0..N PROVE g[n] = Body(g, n)
    <3>1. CASE n = 0
      BY <1>6, <3>1
    <3>2. CASE n # 0
      <4>1. n \in 1..N
        BY <1>1, <3>2
      <4>2. QED
        BY <1>7, <3>2, <4>1
    <3>3. QED
      BY <3>1, <3>2
  <2> HIDE DEF Body
  <2>2. QED
    BY <1>6, <2>1
<1>9. parsed = [n \in 0..N |-> Body(parsed, n)]
  <2> HIDE DEF Body
  <2>1. QED
    BY <1>8
<1>10. Sig!ParseSigstoreBlobs(blob) = parsed[N]
  BY DEF Sig!ParseSigstoreBlobs, Whole, Found
<1> HIDE DEF parsed
<1> DEFINE S == {n \in 0..N :
                  /\ parsed[n] \in Seq(V)
                  /\ \A k \in 1..n : Whole(blob, k) =>
                       \E l \in 1..Len(parsed[n]) : parsed[n][l] = Found(blob, k)}
<1>11. 0 \in S
  <2>1. 0 \in 0..N
    BY <1>1
  <2>2. parsed[0] = <<>>
    BY <1>9, <2>1
  <2> HIDE DEF V
  <2>3. parsed[0] \in Seq(V) /\ \A k \in 1..0 : FALSE
    BY <2>2
  <2>4. QED
    BY <2>1, <2>3
<1>12. ASSUME NEW n \in Nat, n < N, n \in S PROVE n + 1 \in S
  <2>1. n + 1 \in 0..N /\ n + 1 \in 1..N /\ (n + 1) - 1 = n /\ n + 1 # 0
    BY <1>1, <1>12
  <2>2. parsed[n + 1] =
          IF Whole(blob, n + 1) THEN Append(parsed[n], Found(blob, n + 1)) ELSE parsed[n]
    BY <1>9, <2>1
  <2>3. /\ parsed[n] \in Seq(V)
        /\ \A k \in 1..n : Whole(blob, k) =>
             \E l \in 1..Len(parsed[n]) : parsed[n][l] = Found(blob, k)
    BY <1>12
  <2>4. CASE ~Whole(blob, n + 1)
    <3>1. parsed[n + 1] = parsed[n] /\ \A k \in 1..n + 1 : k \in 1..n \/ k = n + 1
      BY <2>2, <2>4
    <3> HIDE DEF V
    <3>2. QED
      BY <2>1, <2>3, <2>4, <3>1
  <2>5. CASE Whole(blob, n + 1)
    <3>1. Found(blob, n + 1) \in V
      BY <2>1, <2>5
    <3> HIDE DEF V
    <3> DEFINE s == parsed[n]
               t == parsed[n + 1]
    <3>2. s \in Seq(V) /\ t = Append(s, Found(blob, n + 1))
      BY <2>2, <2>3, <2>5
    <3> HIDE DEF s, t
    <3>3. /\ t \in Seq(V) /\ Len(t) = Len(s) + 1 /\ t[Len(s) + 1] = Found(blob, n + 1)
          /\ \A l \in 1..Len(s) : t[l] = s[l]
      BY <3>1, <3>2
    <3>4. ASSUME NEW k \in 1..n + 1, Whole(blob, k)
          PROVE  \E l \in 1..Len(t) : t[l] = Found(blob, k)
      <4>1. Len(s) \in Nat /\ Len(s) + 1 \in 1..Len(t)
        BY <3>2, <3>3
      <4>2. CASE k \in 1..n
        <5>1. PICK l \in 1..Len(s) : s[l] = Found(blob, k)
          BY <2>3, <3>4, <4>2 DEF s
        <5>2. l \in 1..Len(t)
          BY <3>3, <4>1
        <5>3. QED
          BY <3>3, <5>1, <5>2
      <4>3. CASE k = n + 1
        BY <3>3, <4>1, <4>3
      <4>4. QED
        BY <4>2, <4>3
    <3>5. QED
      BY <2>1, <3>3, <3>4 DEF t
  <2>6. QED
    BY <2>4, <2>5
<1>13. N \in S
  <2> HIDE DEF S
  <2>1. 0..N \subseteq S
    BY <1>1, <1>11, <1>12, InductionUpto
  <2>2. QED
    BY <1>1, <2>1
<1>14. QED
  BY <1>10, <1>13

\* Whatever the sizes are, a signature that is found is one of those in the blob.
LEMMA FoundIsStored ==
  ASSUME NEW sigs \in Seq(Storable), sizes \in Seq(Nat), NEW k \in 1..Len(sizes),
         Whole(Sig!Concatenation(sigs), k)
  PROVE  LET one == Found(Sig!Concatenation(sigs), k)
         IN one.form = "sigstore" /\ \E n \in 1..Len(sigs) : one = sigs[n]
<1> DEFINE blob == Sig!Concatenation(sigs)
           U == UnitsAmong(sigs)
           at == Sig!Offset(blob, k)
           slice == Sig!Slice(blob, k)
<1>1. blob \in Seq(U)
  BY Concatenated
<1>2. at \in Nat
  <2>1. PICK end : OffsetsEnd(end, blob, Len(sizes))
    BY Offsets, Zenon
  <2>2. k - 1 \in 0..Len(sizes)
    OBVIOUS
  <2>3. QED
    BY <2>1, <2>2 DEF OffsetsEnd
<1>3. sizes[k] \in Nat /\ at + sizes[k] <= Len(blob) /\ slice = SubSeq(blob, at + 1, at + sizes[k])
  BY DEF Whole, Sig!InBlob, Sig!Slice
<1>4. slice # <<>> /\ slice[1].sig.form = "sigstore"
  BY DEF Whole, Sig!Parses
<1> HIDE DEF blob, U, at, slice
<1>5. slice[1] \in U
  <2>1. sizes[k] # 0
    BY <1>1, <1>2, <1>3, <1>4
  <2>2. at + 1 \in 1..Len(blob) /\ slice[1] = blob[at + 1]
    BY <1>1, <1>2, <1>3, <2>1
  <2>3. QED
    BY <1>1, <2>2
<1>6. \E m \in 1..Len(sigs) : slice[1].sig = sigs[m]
  <2>1. PICK m \in 1..Len(sigs), n \in Nat : slice[1] = [sig |-> sigs[m], at |-> n]
    BY <1>5 DEF U, UnitsAmong
  <2>2. slice[1].sig = sigs[m]
    BY <2>1
  <2>3. QED
    BY <2>2
<1>7. QED
  BY <1>4, <1>6 DEF Found, slice, blob

\* With sizes that are up to date every sigstore signature is found.
LEMMA StoredIsFound ==
  ASSUME NEW sigs \in Seq(Storable), sizes = [k \in 1..Len(sigs) |-> sigs[k].len],
         NEW k \in 1..Len(sigs), sigs[k].form = "sigstore"
  PROVE  Whole(Sig!Concatenation(sigs), k) /\ Found(Sig!Concatenation(sigs), k) = sigs[k]
<1> DEFINE blob == Sig!Concatenation(sigs)
           N == Len(sigs)
           U == UnitsAmong(sigs)
<1>1. /\ N \in Nat /\ \A m \in 1..N : sigs[m].len \in Nat /\ sizes[m] = sigs[m].len
      /\ sigs[k].len # 0
  BY StorableLengths
<1>2. sizes \in Seq(Nat) /\ Len(sizes) = N
  BY <1>1
<1>3. PICK end : OffsetsEnd(end, blob, N)
  BY <1>2, Offsets, Zenon
<1>4. Ends(end, N, UnitsOf(sigs))
  <2>1. ASSUME NEW m \in 1..N PROVE Len(UnitsOf(sigs)[m]) = sizes[m]
    <3>1. UnitsOf(sigs)[m] = [n \in 1..sigs[m].len |-> [sig |-> sigs[m], at |-> n]]
      BY DEF UnitsOf, Sig!Units
    <3>2. QED
      BY <1>1, <3>1
  <2>2. QED
    BY <1>3, <2>1 DEF Ends, OffsetsEnd
<1>5. /\ blob \in Seq(U) /\ Len(blob) = end[N]
      /\ \A n \in 1..sigs[k].len :
           end[k - 1] + n \in 1..end[N] /\ blob[end[k - 1] + n] = [sig |-> sigs[k], at |-> n]
  <2>1. blob \in Seq(U) /\ Laid(blob, sigs, end)
    BY <1>4, Concatenated, Zenon
  <2>2. QED
    BY <2>1 DEF Laid
<1> DEFINE len == sigs[k].len
           at == end[k - 1]
<1>6. k - 1 \in 0..N /\ at \in Nat /\ len \in Nat \ {0} /\ end[N] \in Nat
  BY <1>1, <1>3 DEF OffsetsEnd
<1>7. at + len <= Len(blob)
  <2>1. len \in 1..len
    BY <1>6
  <2> HIDE DEF blob, U
  <2>2. at + len \in 1..end[N]
    BY <1>5, <2>1
  <2>3. QED
    BY <1>5, <1>6, <2>2
<1>8. Sig!Slice(blob, k) = SubSeq(blob, at + 1, at + len)
  BY <1>1, <1>3 DEF Sig!Slice, OffsetsEnd
<1>9. Sig!Slice(blob, k) = Sig!Units(sigs[k])
  <2>1. Sig!Units(sigs[k]) = [n \in 1..len |-> [sig |-> sigs[k], at |-> n]]
    BY DEF Sig!Units
  <2> DEFINE slice == SubSeq(blob, at + 1, at + len)
  <2> HIDE DEF blob, at, len, U
  <2>2. slice = [n \in 1..len |-> blob[(at + 1) + n - 1]]
    <3>1. (at + len) - (at + 1) + 1 = len
      BY <1>6
    <3>2. QED
      BY <1>5, <1>6, <1>7, <3>1
  <2>3. \A n \in 1..len : blob[(at + 1) + n - 1] = [sig |-> sigs[k], at |-> n]
    <3>1. \A n \in 1..len : (at + 1) + n - 1 = at + n
      BY <1>6
    <3>2. QED
      BY <1>5, <3>1 DEF at, len
  <2>4. slice = [n \in 1..len |-> [sig |-> sigs[k], at |-> n]]
    <3> HIDE DEF slice
    <3>1. QED
      BY <2>2, <2>3
  <2>5. QED
    BY <1>8, <2>1, <2>4
<1>10. Sig!InBlob(blob, k)
  BY <1>1, <1>3, <1>7 DEF Sig!InBlob, OffsetsEnd
<1>11. Sig!Slice(blob, k) # <<>> /\ Sig!Slice(blob, k)[1].sig = sigs[k]
  <2>1. Sig!Units(sigs[k]) = [n \in 1..len |-> [sig |-> sigs[k], at |-> n]]
    BY DEF Sig!Units
  <2> HIDE DEF len, blob
  <2>2. 1 \in 1..len /\ Sig!Units(sigs[k])[1] = [sig |-> sigs[k], at |-> 1]
    BY <1>6, <2>1
  <2>3. Sig!Units(sigs[k]) # <<>>
    <3>1. DOMAIN Sig!Units(sigs[k]) = 1..len /\ DOMAIN <<>> = {}
      BY <2>1
    <3>2. QED
      BY <2>2, <3>1
  <2>4. QED
    BY <1>9, <2>2, <2>3
<1>12. QED
  BY <1>9, <1>10, <1>11 DEF Whole, Found, Sig!Parses

-----------------------------------------------------------------------------

Keys == {"signatures", "signature-digest"}

\* The list that getSignatureSizes chooses.
Chosen(lists) == IF lists["signatures"] # <<>> THEN "signatures" ELSE "signature-digest"

Sigstore == {sig \in signed : sig.form = "sigstore"}

\* What is in the store was made, and until it is signed again the metadata agrees.
StoreInv ==
  /\ inStore \in [Keys -> Seq(Storable)] /\ listed \in [Keys -> Seq(Storable)]
  /\ \A key \in Keys : \A n \in 1..Len(inStore[key]) : inStore[key][n] \in signed
  /\ ~resigned => listed = inStore

\* The sizes are those of a list that was in the store.
SizesInv ==
  verifyPc = "blob" =>
    /\ from \in Keys /\ sizes \in Seq(Nat)
    /\ ~resigned =>
         /\ from = Chosen(inStore)
         /\ sizes = [k \in 1..Len(inStore[from]) |-> inStore[from][k].len]

EmbeddedInv == embedded \in Seq(Seq(Sigstore))

Embedded(sig) == \E k \in 1..Len(embedded) : \E l \in 1..Len(embedded[k]) : embedded[k][l] = sig

\* Every sigstore signature of the image is in the delta.
ExtractedInv ==
  verifyPc \notin {"sizes", "blob"} /\ ~resigned =>
    \A n \in 1..Len(inStore[Chosen(inStore)]) :
      inStore[Chosen(inStore)][n].form = "sigstore" => Embedded(inStore[Chosen(inStore)][n])

\* The loops' indices, and that no layer before them vouches for the image.
LoopInv ==
  /\ manifestAt \in 1..Len(embedded) + 1 /\ layerAt \in Nat \ {0}
  /\ verifyPc \in {"sizes", "blob"} => manifestAt = 1 /\ layerAt = 1
  /\ manifestAt <= Len(embedded) /\ embedded[manifestAt] # <<>> =>
       layerAt <= Len(embedded[manifestAt])
  /\ lost = {} =>
       \A k \in 1..Len(embedded) : \A l \in 1..Len(embedded[k]) :
         k < manifestAt \/ (k = manifestAt /\ l < layerAt) => ~Sig!Genuine(embedded[k][l])

EndInv ==
  /\ verifyPc \in {"sizes", "blob", "verify", "verified", "rejected"}
  /\ verifyPc = "rejected" => manifestAt > Len(embedded)
  /\ verifyPc = "verified" =>
       /\ manifestAt \in 1..Len(embedded) /\ layerAt \in 1..Len(embedded[manifestAt])
       /\ Sig!Genuine(embedded[manifestAt][layerAt])

SignatureInv ==
  component = "signatures" =>
    StoreInv /\ SizesInv /\ EmbeddedInv /\ ExtractedInv /\ LoopInv /\ EndInv

\* At first the metadata lists what is in the store, and no layer was looked at.
LEMMA SignaturesInit == ContentInit => SignatureInv
<1> SUFFICES ASSUME ContentInit, component = "signatures" PROVE SignatureInv
  BY DEF SignatureInv
<1>1. Sig!Init
  BY DEF ContentInit
<1>2. PICK given \in Given :
             /\ embedded = given
             /\ signed = (UNION {Sig!ToSet(inStore[k]) : k \in DOMAIN inStore}) \cup
                         (UNION {Sig!ToSet(given[k]) : k \in DOMAIN given})
  BY <1>1 DEF Sig!Init
<1>3. /\ inStore \in [Keys -> Initial] /\ listed = inStore /\ ~resigned
      /\ lost = {} /\ manifestAt = 1 /\ layerAt = 1 /\ verifyPc = "sizes"
  BY <1>1 DEF Sig!Init, Keys
<1>4. StoreInv
  <2>1. ASSUME NEW sigs \in Initial PROVE sigs \in Seq(Storable)
    <3>1. sigs \in Seq({sigs[k] : k \in DOMAIN sigs})
      BY SignaturesAssumption
    <3>2. {sigs[k] : k \in DOMAIN sigs} \subseteq Storable
      BY DEF Storable
    <3>3. QED
      BY <3>1, <3>2
  <2>2. inStore \in [Keys -> Seq(Storable)]
    BY <1>3, <2>1
  <2>3. ASSUME NEW key \in Keys, NEW n \in 1..Len(inStore[key]) PROVE inStore[key][n] \in signed
    <3>1. key \in DOMAIN inStore /\ n \in DOMAIN inStore[key]
      BY <2>2
    <3>2. inStore[key][n] \in Sig!ToSet(inStore[key])
      BY <3>1 DEF Sig!ToSet
    <3>3. QED
      BY <1>2, <3>1, <3>2
  <2>4. QED
    BY <1>3, <2>2, <2>3 DEF StoreInv
<1>5. EmbeddedInv
  <2>1. ASSUME NEW k \in DOMAIN given PROVE given[k] \in Seq(Sigstore)
    <3>1. ASSUME NEW l \in DOMAIN given[k] PROVE given[k][l] \in Sigstore
      <4>1. given[k][l].form = "sigstore"
        BY SignaturesAssumption
      <4>2. given[k][l] \in Sig!ToSet(given[k])
        BY DEF Sig!ToSet
      <4>3. given[k][l] \in signed
        BY <1>2, <4>2
      <4>4. QED
        BY <4>1, <4>3 DEF Sigstore
    <3>2. given[k] \in Seq({given[k][l] : l \in DOMAIN given[k]})
      BY SignaturesAssumption
    <3>3. {given[k][l] : l \in DOMAIN given[k]} \subseteq Sigstore
      BY <3>1
    <3>4. QED
      BY <3>2, <3>3
  <2> DEFINE W == Seq(Sigstore)
  <2>2. {given[k] : k \in DOMAIN given} \subseteq W
    BY <2>1
  <2>3. given \in Seq({given[k] : k \in DOMAIN given})
    BY SignaturesAssumption
  <2> HIDE DEF W
  <2>4. given \in Seq(W)
    BY <2>2, <2>3
  <2>5. QED
    BY <1>2, <2>4 DEF EmbeddedInv, W
<1>6. LoopInv
  <2>1. \A k \in 1..Len(embedded) : embedded[k] # <<>> => 1 <= Len(embedded[k])
    BY <1>5 DEF EmbeddedInv
  <2>2. Len(embedded) \in Nat
    BY <1>5 DEF EmbeddedInv
  <2>3. QED
    BY <1>3, <2>1, <2>2 DEF LoopInv
<1>7. SizesInv /\ ExtractedInv /\ EndInv
  BY <1>3 DEF SizesInv, ExtractedInv, EndInv
<1>8. QED
  BY <1>4, <1>5, <1>6, <1>7 DEF SignatureInv

\* Another process signs the image, or the metadata catches up.
LEMMA StoreSteps ==
  ASSUME StoreInv, SizesInv, EmbeddedInv, ExtractedInv, LoopInv, EndInv,
         \/ \E key \in DOMAIN inStore, sig \in Stored : Sig!SignAgain(key, sig)
         \/ Sig!ListAgain
  PROVE  (StoreInv /\ SizesInv /\ EmbeddedInv /\ ExtractedInv /\ LoopInv /\ EndInv)'
<1>1. UNCHANGED <<sizes, from, embedded, lost, manifestAt, layerAt, verifyPc>>
  BY DEF Sig!SignAgain, Sig!ListAgain, Sig!delta
<1>2. ASSUME NEW key \in DOMAIN inStore, NEW sig \in Stored, Sig!SignAgain(key, sig)
      PROVE  (StoreInv /\ SizesInv /\ EmbeddedInv /\ ExtractedInv)'
  <2>1. PICK sigs \in {<<sig>>, Append(inStore[key], sig)} :
               inStore' = [inStore EXCEPT ![key] = sigs]
    BY <1>2 DEF Sig!SignAgain
  <2>2. signed' = signed \cup {sig} /\ resigned' /\ listed' = listed
    BY <1>2 DEF Sig!SignAgain
  <2>3. key \in Keys /\ sig \in Storable /\ inStore[key] \in Seq(Storable)
    BY DEF StoreInv, Storable
  <2>4. sigs \in Seq(Storable) /\ \A n \in 1..Len(sigs) : sigs[n] \in signed'
    <3>1. CASE sigs = <<sig>>
      <4>1. Len(sigs) = 1 /\ sigs[1] = sig
        BY <3>1
      <4>2. \A n \in 1..Len(sigs) : n = 1
        BY <4>1
      <4>3. QED
        BY <2>2, <2>3, <3>1, <4>1, <4>2
    <3>2. CASE sigs = Append(inStore[key], sig)
      <4>1. \A n \in 1..Len(sigs) : (n \in 1..Len(inStore[key]) /\ sigs[n] = inStore[key][n])
                                   \/ sigs[n] = sig
        BY <2>3, <3>2
      <4>2. \A n \in 1..Len(inStore[key]) : inStore[key][n] \in signed
        BY <2>3 DEF StoreInv
      <4>3. QED
        BY <2>2, <2>3, <3>2, <4>1, <4>2
    <3>3. QED
      BY <3>1, <3>2
  <2>5. StoreInv'
    <3>1. inStore' \in [Keys -> Seq(Storable)]
      BY <2>1, <2>4 DEF StoreInv
    <3>2. ASSUME NEW k \in Keys, NEW n \in 1..Len(inStore'[k]) PROVE inStore'[k][n] \in signed'
      <4>1. CASE k = key
        BY <2>1, <2>3, <2>4, <4>1 DEF StoreInv
      <4>2. CASE k # key
        <5>1. inStore'[k] = inStore[k]
          BY <2>1, <4>2 DEF StoreInv
        <5>2. QED
          BY <2>2, <5>1 DEF StoreInv
      <4>3. QED
        BY <4>1, <4>2
    <3>3. QED
      BY <2>2, <3>1, <3>2 DEF StoreInv, Storable
  <2>6. EmbeddedInv'
    <3> DEFINE W == Seq(Sigstore)
    <3>1. Sigstore \subseteq Sigstore'
      BY <2>2 DEF Sigstore
    <3>2. W \subseteq W'
      BY <3>1
    <3>3. embedded \in Seq(W)
      BY DEF EmbeddedInv
    <3> HIDE DEF W
    <3>4. embedded \in Seq(W')
      BY <3>2, <3>3
    <3>5. QED
      BY <1>1, <3>4 DEF EmbeddedInv, W
  <2>7. QED
    BY <1>1, <2>2, <2>5, <2>6 DEF SizesInv, ExtractedInv, Keys
<1>3. ASSUME Sig!ListAgain PROVE (StoreInv /\ SizesInv /\ EmbeddedInv /\ ExtractedInv)'
  <2>1. listed' = inStore /\ UNCHANGED <<inStore, signed, resigned>>
    BY <1>3 DEF Sig!ListAgain
  <2>2. StoreInv'
    BY <2>1 DEF StoreInv, Storable, Keys
  <2>3. QED
    BY <1>1, <2>1, <2>2 DEF SizesInv, EmbeddedInv, ExtractedInv, Embedded, Sigstore, Chosen
<1>4. (LoopInv /\ EndInv)'
  BY <1>1 DEF LoopInv, EndInv, Sig!Genuine, Sig!SignedBy, Sig!Payload
<1>5. QED
  BY <1>2, <1>3, <1>4

\* The two steps of extracting the signatures of the image.
LEMMA ExtractSteps ==
  ASSUME StoreInv, SizesInv, EmbeddedInv, ExtractedInv, LoopInv, EndInv,
         Sig!GetSignatureSizes \/ Sig!ExtractSignatures
  PROVE  (StoreInv /\ SizesInv /\ EmbeddedInv /\ ExtractedInv /\ LoopInv /\ EndInv)'
<1>1. UNCHANGED <<inStore, listed, signed, resigned, lost, manifestAt, layerAt>>
  BY DEF Sig!GetSignatureSizes, Sig!ExtractSignatures, Sig!store, Sig!delta
<1>2. StoreInv'
  BY <1>1 DEF StoreInv, Storable, Keys
<1>3. ASSUME Sig!GetSignatureSizes
      PROVE  (SizesInv /\ EmbeddedInv /\ ExtractedInv /\ LoopInv /\ EndInv)'
  <2>1. /\ verifyPc = "sizes" /\ verifyPc' = "blob" /\ embedded' = embedded
        /\ from' = Chosen(listed) /\ sizes' = [k \in DOMAIN listed[from'] |-> listed[from'][k].len]
    BY <1>3 DEF Sig!GetSignatureSizes, Chosen, Sig!delta
  <2>2. from' \in Keys /\ listed[from'] \in Seq(Storable)
    BY <2>1 DEF StoreInv, Chosen, Keys
  <2>3. \A k \in 1..Len(listed[from']) : listed[from'][k].len \in Nat
    <3>1. \A k \in 1..Len(listed[from']) : listed[from'][k] \in Storable
      BY <2>2
    <3>2. QED
      BY <3>1, StorableLengths
  <2>4. sizes' = [k \in 1..Len(listed[from']) |-> listed[from'][k].len] /\ sizes' \in Seq(Nat)
    BY <2>1, <2>2, <2>3
  <2>5. SizesInv'
    BY <1>1, <2>1, <2>2, <2>4 DEF SizesInv, StoreInv, Chosen, Keys
  <2>6. EmbeddedInv'
    BY <1>1, <2>1 DEF EmbeddedInv, Sigstore
  <2>7. (ExtractedInv /\ LoopInv /\ EndInv)'
    BY <1>1, <2>1 DEF ExtractedInv, LoopInv, EndInv, Sig!Genuine, Sig!SignedBy, Sig!Payload
  <2>8. QED
    BY <2>5, <2>6, <2>7
<1>4. ASSUME Sig!ExtractSignatures
      PROVE  (SizesInv /\ EmbeddedInv /\ ExtractedInv /\ LoopInv /\ EndInv)'
  <2> DEFINE sigs == inStore[from]
             blob == Sig!Concatenation(sigs)
             parsed == Sig!ParseSigstoreBlobs(blob)
  <2>1. /\ verifyPc = "blob" /\ verifyPc' = "verify" /\ UNCHANGED <<sizes, from>>
        /\ embedded' = IF parsed = <<>> THEN embedded ELSE <<parsed>> \o embedded
    BY <1>4 DEF Sig!ExtractSignatures
  <2>2. from \in Keys /\ sizes \in Seq(Nat) /\ sigs \in Seq(Storable)
    BY <2>1 DEF SizesInv, StoreInv
  <2>3. parsed \in Seq(Sigstore)
    <3> DEFINE V == {Found(blob, k) : k \in {n \in 1..Len(sizes) : Whole(blob, n)}}
    <3>1. ASSUME NEW k \in 1..Len(sizes), Whole(blob, k) PROVE Found(blob, k) \in Sigstore
      <4>1. Found(blob, k).form = "sigstore" /\ \E n \in 1..Len(sigs) : Found(blob, k) = sigs[n]
        BY <2>2, <3>1, FoundIsStored
      <4>2. \A n \in 1..Len(sigs) : sigs[n] \in signed
        BY <2>2 DEF StoreInv
      <4>3. QED
        BY <4>1, <4>2 DEF Sigstore
    <3>2. V \subseteq Sigstore
      BY <3>1
    <3>3. parsed \in Seq(V)
      BY <2>2, Parsed
    <3> HIDE DEF V, parsed
    <3>4. QED
      BY <3>2, <3>3
  <2> DEFINE W == Seq(Sigstore)
  <2>4. embedded \in Seq(W) /\ parsed \in W
    BY <2>3 DEF EmbeddedInv
  <2>5. parsed # <<>> => Joins(embedded', <<parsed>>, embedded)
    <3>1. <<parsed>> \in Seq(W)
      <4> HIDE DEF W, parsed
      <4>1. QED
        BY <2>4
    <3>2. Joins(<<parsed>> \o embedded, <<parsed>>, embedded)
      <4> HIDE DEF W, parsed
      <4>1. QED
        BY <2>4, <3>1, Joined, Zenon
    <3>3. QED
      BY <2>1, <3>2, Zenon
  <2>6. embedded' \in Seq(W)
    <3> HIDE DEF W, parsed
    <3>1. QED
      BY <2>1, <2>4
  <2> HIDE DEF W, parsed
  <2>7. parsed # <<>> => Len(embedded') = Len(embedded) + 1 /\ embedded'[1] = parsed
    <3>1. Len(<<parsed>>) = 1 /\ <<parsed>>[1] = parsed /\ 1 \in 1..1
      OBVIOUS
    <3>2. Len(embedded) \in Nat
      BY <2>4
    <3>3. QED
      BY <2>5, <3>1, <3>2 DEF Joins
  <2>8. SizesInv'
    BY <2>1 DEF SizesInv
  <2>9. EmbeddedInv'
    BY <1>1, <2>6 DEF EmbeddedInv, W, Sigstore
  <2>10. ExtractedInv'
    <3> SUFFICES ASSUME ~resigned PROVE ExtractedInv'
      BY <1>1 DEF ExtractedInv
    <3>1. /\ from = Chosen(inStore)
          /\ sizes = [k \in 1..Len(inStore[from]) |-> inStore[from][k].len]
      BY <2>1 DEF SizesInv
    <3>2. ASSUME NEW n \in 1..Len(sigs), sigs[n].form = "sigstore"
          PROVE  \E l \in 1..Len(parsed) : parsed[l] = sigs[n]
      <4>1. Whole(blob, n) /\ Found(blob, n) = sigs[n]
        BY <2>2, <3>1, <3>2, StoredIsFound
      <4>2. n \in 1..Len(sizes)
        BY <2>2, <3>1
      <4>3. QED
        BY <2>2, <4>1, <4>2, Parsed DEF parsed
    <3>3. ASSUME NEW n \in 1..Len(sigs), sigs[n].form = "sigstore" PROVE Embedded(sigs[n])'
      <4>1. PICK l \in 1..Len(parsed) : parsed[l] = sigs[n]
        BY <3>2, <3>3
      <4>2. parsed # <<>>
        BY <4>1
      <4>3. embedded'[1] = parsed /\ 1 \in 1..Len(embedded')
        BY <2>4, <2>7, <4>2
      <4>4. QED
        BY <1>1, <2>1, <4>1, <4>3 DEF Embedded
    <3>4. QED
      BY <1>1, <2>1, <3>1, <3>3 DEF ExtractedInv, Chosen
  <2>11. LoopInv'
    <3>1. manifestAt' = 1 /\ layerAt' = 1
      BY <1>1, <2>1 DEF LoopInv
    <3>2. Len(embedded') \in Nat /\ \A k \in 1..Len(embedded') : embedded'[k] \in W
      BY <2>6
    <3>3. \A k \in 1..Len(embedded') : embedded'[k] # <<>> => 1 <= Len(embedded'[k])
      BY <3>2 DEF W
    <3>4. QED
      BY <2>1, <3>1, <3>2, <3>3 DEF LoopInv
  <2>12. EndInv'
    BY <2>1 DEF EndInv
  <2>13. QED
    BY <2>8, <2>9, <2>10, <2>11, <2>12
<1>5. QED
  BY <1>2, <1>3, <1>4

\* Damaging a payload, and the steps of VerifyDeltaSignature.
LEMMA VerifySteps ==
  ASSUME StoreInv, SizesInv, EmbeddedInv, ExtractedInv, LoopInv, EndInv,
         \/ \E sig \in signed : Sig!Damage(sig.payload)
         \/ Sig!VerifyLayer \/ Sig!Reject
  PROVE  (StoreInv /\ SizesInv /\ EmbeddedInv /\ ExtractedInv /\ LoopInv /\ EndInv)'
<1>1. UNCHANGED <<inStore, listed, signed, resigned, sizes, from, embedded>>
  BY DEF Sig!Damage, Sig!VerifyLayer, Sig!Reject, Sig!store, Sig!delta
<1>2. verifyPc = "verify" /\ verifyPc' \in {"verify", "verified", "rejected"}
  BY DEF Sig!Damage, Sig!VerifyLayer, Sig!Reject
<1>3. (StoreInv /\ SizesInv /\ EmbeddedInv)'
  BY <1>1, <1>2 DEF StoreInv, SizesInv, EmbeddedInv, Sigstore, Storable, Keys
<1>4. ExtractedInv'
  BY <1>1, <1>2 DEF ExtractedInv, Embedded, Chosen
<1>5. ASSUME NEW sig \in signed, Sig!Damage(sig.payload) PROVE (LoopInv /\ EndInv)'
  BY <1>1, <1>2, <1>5 DEF Sig!Damage, LoopInv, EndInv
<1>6. ASSUME Sig!VerifyLayer PROVE (LoopInv /\ EndInv)'
  <2> DEFINE manifest == embedded[manifestAt]
             layer == manifest[layerAt]
  <2>1. manifestAt \in 1..Len(embedded) /\ lost' = lost
    BY <1>6 DEF Sig!VerifyLayer, LoopInv, Sig!delta
  <2>2. /\ Len(embedded) \in Nat /\ manifest \in Seq(Sigstore)
        /\ \A k \in 1..Len(embedded) : Len(embedded[k]) \in Nat
    BY <2>1 DEF EmbeddedInv
  <2>3. ASSUME manifest # <<>>, Sig!Passes(layer) PROVE (LoopInv /\ EndInv)'
    <3>1. verifyPc' = "verified" /\ UNCHANGED <<manifestAt, layerAt>>
      BY <1>6, <2>3 DEF Sig!VerifyLayer
    <3>2. Sig!Genuine(layer)
      BY <2>3 DEF Sig!Passes, Sig!Genuine
    <3>3. layerAt \in 1..Len(manifest)
      BY <2>1, <2>2, <2>3 DEF LoopInv
    <3>4. LoopInv'
      BY <1>1, <2>1, <3>1 DEF LoopInv, Sig!Genuine, Sig!SignedBy
    <3>5. EndInv'
      BY <1>1, <2>1, <3>1, <3>2, <3>3 DEF EndInv, Sig!Genuine, Sig!SignedBy
    <3>6. QED
      BY <3>4, <3>5
  <2>4. ASSUME ~(manifest # <<>> /\ Sig!Passes(layer)) PROVE (LoopInv /\ EndInv)'
    <3>1. /\ verifyPc' = "verify"
          /\ IF layerAt >= Len(manifest) THEN manifestAt' = manifestAt + 1 /\ layerAt' = 1
                                         ELSE layerAt' = layerAt + 1 /\ manifestAt' = manifestAt
      BY <1>2, <1>6, <2>4 DEF Sig!VerifyLayer, Sig!LastLayer
    <3>2. ASSUME lost = {}, manifest # <<>> PROVE ~Sig!Genuine(layer)
      BY <2>4, <3>2 DEF Sig!Passes, Sig!Genuine
    <3>3. \A k \in 1..Len(embedded) : embedded[k] # <<>> => 1 <= Len(embedded[k])
      BY DEF EmbeddedInv
    <3>4. layerAt \in Nat \ {0}
      BY DEF LoopInv
    <3>5. /\ manifestAt' \in 1..Len(embedded) + 1 /\ layerAt' \in Nat \ {0}
          /\ manifestAt' <= Len(embedded) /\ embedded[manifestAt'] # <<>> =>
               layerAt' <= Len(embedded[manifestAt'])
      <4>1. CASE layerAt >= Len(manifest)
        <5>1. manifestAt' = manifestAt + 1 /\ layerAt' = 1
          BY <3>1, <4>1
        <5>2. manifestAt' \in 1..Len(embedded) + 1
          BY <2>1, <2>2, <5>1
        <5>3. manifestAt' <= Len(embedded) => manifestAt' \in 1..Len(embedded)
          BY <2>2, <5>2
        <5>4. QED
          BY <3>3, <5>1, <5>2, <5>3
      <4>2. CASE ~(layerAt >= Len(manifest))
        <5>1. manifestAt' = manifestAt /\ layerAt' = layerAt + 1
          BY <3>1, <4>2
        <5>2. layerAt + 1 <= Len(manifest)
          BY <2>1, <2>2, <3>4, <4>2
        <5>3. QED
          BY <2>1, <2>2, <3>4, <5>1, <5>2
      <4>3. QED
        BY <4>1, <4>2
    <3>6. ASSUME lost = {}, NEW k \in 1..Len(embedded), NEW l \in 1..Len(embedded[k]),
                 k < manifestAt' \/ (k = manifestAt' /\ l < layerAt')
          PROVE  ~Sig!Genuine(embedded[k][l])
      <4>1. k < manifestAt \/ (k = manifestAt /\ l < layerAt) \/ (k = manifestAt /\ l = layerAt)
        <5>1. CASE layerAt >= Len(manifest)
          <6>1. manifestAt' = manifestAt + 1 /\ layerAt' = 1
            BY <3>1, <5>1
          <6>2. k < manifestAt \/ k = manifestAt
            BY <2>1, <3>6, <6>1
          <6>3. k = manifestAt => l <= layerAt
            BY <2>1, <2>2, <3>4, <5>1
          <6>4. QED
            BY <2>2, <3>4, <6>2, <6>3
        <5>2. CASE ~(layerAt >= Len(manifest))
          <6>1. manifestAt' = manifestAt /\ layerAt' = layerAt + 1
            BY <3>1, <5>2
          <6>2. QED
            BY <2>1, <2>2, <3>4, <3>6, <6>1
        <5>3. QED
          BY <5>1, <5>2
      <4>2. CASE k < manifestAt \/ (k = manifestAt /\ l < layerAt)
        BY <3>6, <4>2 DEF LoopInv
      <4>3. CASE k = manifestAt /\ l = layerAt
        <5>1. manifest # <<>>
          BY <2>2, <4>3
        <5>2. QED
          BY <3>2, <3>6, <4>3, <5>1
      <4>4. QED
        BY <4>1, <4>2, <4>3
    <3>7. LoopInv'
      <4>1. \A k, l : Sig!Genuine(embedded[k][l])' = Sig!Genuine(embedded[k][l])
        BY <1>1 DEF Sig!Genuine, Sig!SignedBy
      <4>2. QED
        BY <1>1, <2>1, <3>1, <3>5, <3>6 DEF LoopInv, Sig!Genuine, Sig!SignedBy
    <3>8. EndInv'
      BY <3>1 DEF EndInv
    <3>9. QED
      BY <3>7, <3>8
  <2>5. QED
    BY <2>3, <2>4
<1>7. ASSUME Sig!Reject PROVE (LoopInv /\ EndInv)'
  <2>1. /\ manifestAt > Len(embedded) /\ verifyPc' = "rejected"
        /\ UNCHANGED <<lost, manifestAt, layerAt>>
    BY <1>7 DEF Sig!Reject, Sig!delta
  <2>2. QED
    BY <1>1, <2>1 DEF LoopInv, EndInv, Sig!Genuine, Sig!SignedBy
<1>8. QED
  BY <1>3, <1>4, <1>5, <1>6, <1>7

\* The invariant of the signatures' way.
LEMMA SignaturesInvariant == ContentSpec => []SignatureInv
<1>1. ASSUME SignatureInv, [ContentNext]_contentVars PROVE SignatureInv'
  <2> SUFFICES ASSUME component' = "signatures"
               PROVE  (StoreInv /\ SizesInv /\ EmbeddedInv /\ ExtractedInv /\ LoopInv /\ EndInv)'
    BY DEF SignatureInv
  <2>1. component = "signatures" /\ (Sig!Next \/ UNCHANGED signatureVars)
    BY <1>1 DEF ContentNext, contentVars, signatureVars
  <2>2. StoreInv /\ SizesInv /\ EmbeddedInv /\ ExtractedInv /\ LoopInv /\ EndInv
    BY <1>1, <2>1 DEF SignatureInv
  <2>3. CASE UNCHANGED signatureVars
    <3>1. UNCHANGED <<inStore, listed, signed, resigned, sizes, from, embedded, lost,
                      manifestAt, layerAt, verifyPc>>
      BY <2>3 DEF signatureVars
    <3>2. (StoreInv /\ SizesInv /\ EmbeddedInv /\ ExtractedInv)'
      BY <2>2, <3>1 DEF StoreInv, SizesInv, EmbeddedInv, ExtractedInv, Embedded, Sigstore,
                        Chosen, Storable, Keys
    <3>3. (LoopInv /\ EndInv)'
      BY <2>2, <3>1 DEF LoopInv, EndInv, Sig!Genuine, Sig!SignedBy
    <3>4. QED
      BY <3>2, <3>3
  <2>4. CASE Sig!Next
    <3>1. Sig!Next =>
            \/ \E key \in DOMAIN inStore, sig \in Stored : Sig!SignAgain(key, sig)
            \/ Sig!ListAgain \/ Sig!GetSignatureSizes \/ Sig!ExtractSignatures
            \/ \E sig \in signed : Sig!Damage(sig.payload)
            \/ Sig!VerifyLayer \/ Sig!Reject
            \/ UNCHANGED signatureVars
      BY DEF Sig!Next, Sig!vars, signatureVars
    <3>2. QED
      BY <2>2, <2>3, <2>4, <3>1, StoreSteps, ExtractSteps, VerifySteps, Zenon
  <2>5. QED
    BY <2>1, <2>3, <2>4
<1>2. QED
  BY SignaturesInit, <1>1, PTL DEF ContentSpec

\* Only a signature that was made, by the key and for the image, verifies a
\* delta: for any signatures, lengths and stores, also with sizes that are out
\* of date (containerstorage.go:144-168, verify.go:49-90).
THEOREM VerifiedWasSigned == ContentSpec => []VerifiedIsSigned
<1>1. SignatureInv => VerifiedIsSigned
  <2> SUFFICES ASSUME SignatureInv, component = "signatures", verifyPc = "verified"
               PROVE  \E sig \in signed : sig.form = "sigstore" /\ Sig!Genuine(sig)
    BY DEF VerifiedIsSigned, Sig!VerifiedIsSigned
  <2>1. /\ manifestAt \in 1..Len(embedded) /\ layerAt \in 1..Len(embedded[manifestAt])
        /\ Sig!Genuine(embedded[manifestAt][layerAt])
    BY DEF SignatureInv, EndInv
  <2>2. embedded[manifestAt] \in Seq(Sigstore)
    BY <2>1 DEF SignatureInv, EmbeddedInv
  <2>3. embedded[manifestAt][layerAt] \in Sigstore
    BY <2>1, <2>2
  <2>4. QED
    BY <2>1, <2>3 DEF Sigstore
<1>2. QED
  BY SignaturesInvariant, <1>1, PTL

\* A genuine signature is not lost among others, for any lists of them, unless
\* the image is signed while it is read or a blob of the delta is damaged.
THEOREM SignedGetsVerified == ContentSpec => []SignedIsVerified
<1>1. SignatureInv => SignedIsVerified
  <2> SUFFICES ASSUME SignatureInv, component = "signatures", verifyPc = "rejected",
                      lost = {}, ~resigned
               PROVE  /\ \A k \in DOMAIN embedded : \A sig \in Sig!ToSet(embedded[k]) :
                           ~Sig!Genuine(sig)
                      /\ \A sig \in Sig!ToSet(inStore[Chosen(inStore)]) :
                           ~(sig.form = "sigstore" /\ Sig!Genuine(sig))
    BY DEF SignedIsVerified, Sig!SignedIsVerified, Chosen
  <2>1. embedded \in Seq(Seq(Sigstore))
    BY DEF SignatureInv, EmbeddedInv
  <2>2. ASSUME NEW k \in 1..Len(embedded), NEW l \in 1..Len(embedded[k])
        PROVE  ~Sig!Genuine(embedded[k][l])
    <3>1. k < manifestAt
      <4>1. manifestAt > Len(embedded) /\ manifestAt \in Nat /\ Len(embedded) \in Nat
        BY <2>1 DEF SignatureInv, EndInv, LoopInv
      <4>2. QED
        BY <4>1
    <3>2. QED
      BY <3>1 DEF SignatureInv, LoopInv
  <2>3. ASSUME NEW k \in DOMAIN embedded, NEW sig \in Sig!ToSet(embedded[k])
        PROVE  ~Sig!Genuine(sig)
    <3>1. k \in 1..Len(embedded) /\ embedded[k] \in Seq(Sigstore)
      BY <2>1
    <3>2. \E l \in 1..Len(embedded[k]) : sig = embedded[k][l]
      BY <3>1 DEF Sig!ToSet
    <3>3. QED
      BY <2>2, <3>1, <3>2
  <2>4. ASSUME NEW sig \in Sig!ToSet(inStore[Chosen(inStore)]), sig.form = "sigstore"
        PROVE  ~Sig!Genuine(sig)
    <3>1. inStore[Chosen(inStore)] \in Seq(Storable)
      BY DEF SignatureInv, StoreInv, Chosen, Keys
    <3>2. PICK n \in 1..Len(inStore[Chosen(inStore)]) : sig = inStore[Chosen(inStore)][n]
      BY <3>1 DEF Sig!ToSet
    <3>3. Embedded(sig)
      BY <2>4, <3>2 DEF SignatureInv, ExtractedInv
    <3>4. QED
      BY <2>2, <3>3 DEF Embedded
  <2>5. QED
    BY <2>3, <2>4
<1>2. QED
  BY SignaturesInvariant, <1>1, PTL

-----------------------------------------------------------------------------
(* The stream of a tar-diff *)

ItemsOf(ops) == [k \in 1..Len(ops) |-> Patch!Items(ops[k])]

OpFacts(op) ==
  /\ op.payload \in Seq(Nat) /\ op.trailing \in Seq(Nat)
  /\ op.code \notin {"data", "add", "dict"} => op.payload = <<>>
  /\ op.code # "dict" => op.trailing = <<>>
  /\ op.code \in {"seek", "copy"} => op.arg \in Nat

\* The facts about one op.
LEMMA OpsAre == \A op \in Ops : OpFacts(op)
BY OpsAssumption DEF OpFacts

\* An op is its first item, and its bytes follow.
LEMMA ItemsAre ==
  ASSUME NEW op \in Ops
  PROVE  /\ Patch!Size(op) \in Nat
         /\ Patch!Items(op) \in Seq({Patch!Items(op)[n] : n \in DOMAIN Patch!Items(op)})
         /\ Len(Patch!Items(op)) = 1 + Patch!Size(op)
         /\ Patch!Items(op)[1] = op
         /\ \A n \in 1..Patch!Size(op) :
              Patch!Items(op)[1 + n].byte = (op.payload \o op.trailing)[n]
<1> DEFINE bytes == op.payload \o op.trailing
           size == Patch!Size(op)
           rest == [j \in 1..size |-> [code |-> "payload", byte |-> bytes[j]]]
           V == {op} \cup {rest[j] : j \in 1..size}
           items == Patch!Items(op)
<1>1. bytes \in Seq(Nat) /\ size = Len(bytes)
  BY OpsAre DEF OpFacts, Patch!Size
<1> HIDE DEF bytes, size
<1>2. size \in Nat
  BY <1>1
<1>3. <<op>> \in Seq(V) /\ rest \in Seq(V) /\ Len(rest) = size /\ Len(<<op>>) = 1
  <2>1. op \in V /\ \A j \in 1..size : rest[j] \in V
    OBVIOUS
  <2>2. DOMAIN rest = 1..size /\ rest = [j \in 1..size |-> rest[j]]
    OBVIOUS
  <2> HIDE DEF V, rest
  <2>3. <<op>> \in Seq(V) /\ Len(<<op>>) = 1
    BY <2>1
  <2>4. rest \in [1..size -> V]
    BY <2>1, <2>2
  <2>5. QED
    BY <1>2, <2>3, <2>4
<1>4. items = <<op>> \o rest
  BY DEF Patch!Items, size, bytes
<1> DEFINE first == <<op>>
<1>5. first[1] = op /\ 1 \in 1..1 /\ \A n \in 1..size : rest[n].byte = bytes[n]
  OBVIOUS
<1> HIDE DEF V, rest, items, first
<1>6. Joins(items, first, rest) /\ items \in Seq(V)
  <2>1. first \in Seq(V) /\ rest \in Seq(V) /\ items = first \o rest
    BY <1>3, <1>4 DEF first
  <2>2. Joins(first \o rest, first, rest)
    BY <2>1, Joined, Zenon
  <2>3. first \o rest \in Seq(V)
    BY <2>1
  <2>4. QED
    BY <2>1, <2>2, <2>3, Zenon
<1>7. Len(first) = 1 /\ Len(rest) = size
  BY <1>3 DEF first
<1>8. /\ Len(items) = 1 + size /\ items[1] = op
      /\ \A n \in 1..size : items[1 + n].byte = bytes[n]
  BY <1>2, <1>5, <1>6, <1>7 DEF Joins
<1>9. items \in Seq({items[n] : n \in DOMAIN items})
  BY <1>6
<1>10. QED
  BY <1>2, <1>8, <1>9 DEF items, size, bytes

\* Where the ops of the delta end in the stream.
LEMMA OpsEnd ==
  ASSUME program \in Seq(Ops)
  PROVE  /\ \A k \in 0..Len(program) : Patch!End(k) \in Nat
         /\ Patch!End(0) = 0
         /\ \A k \in 1..Len(program) :
              Patch!End(k) = Patch!End(k - 1) + 1 + Patch!Size(program[k])
<1> DEFINE N == Len(program)
           size == [n \in 1..N |-> Patch!Size(program[n])]
           F == [k \in 1..N |-> [n \in Nat |-> n + 1 + size[k]]]
           Body(f, n) == IF n = 0 THEN 0 ELSE f[n - 1] + 1 + Patch!Size(program[n])
           end == CHOOSE f : f = [n \in 0..N |-> Body(f, n)]
<1>1. N \in Nat /\ \A k \in 1..N : program[k] \in Ops
  OBVIOUS
<1>2. \A k \in 1..N : Patch!Size(program[k]) \in Nat /\ size[k] = Patch!Size(program[k])
  BY <1>1, ItemsAre
<1> HIDE DEF size
<1>3. F \in Steps(N, Nat)
  BY <1>2 DEF Steps
<1>4. PICK g : Iterates(g, N, Nat, 0, F)
  <2> HIDE DEF F
  <2>1. QED
    BY <1>1, <1>3, IteratesExist
<1>5. ASSUME NEW n \in 1..N PROVE g[n] = g[n - 1] + 1 + Patch!Size(program[n])
  <2>1. n - 1 \in 0..N
    BY <1>1
  <2>2. g[n] = F[n][g[n - 1]] /\ g[n - 1] \in Nat
    <3> HIDE DEF F
    <3>1. QED
      BY <1>4, <2>1 DEF Iterates
  <2>3. QED
    BY <1>2, <2>2
<1>6. g \in [0..N -> Nat] /\ g[0] = 0
  BY <1>4 DEF Iterates
<1>7. g = [n \in 0..N |-> Body(g, n)]
  <2>1. ASSUME NEW n \in 0..N PROVE g[n] = Body(g, n)
    <3>1. n # 0 => n \in 1..N
      BY <1>1
    <3>2. QED
      BY <1>5, <1>6, <3>1
  <2> HIDE DEF Body
  <2>2. QED
    BY <1>6, <2>1
<1>8. end = [n \in 0..N |-> Body(end, n)]
  <2> HIDE DEF Body
  <2>1. QED
    BY <1>7
<1>9. \A k : Patch!End(k) = end[k]
  BY DEF Patch!End
<1> HIDE DEF end
<1>10. end[0] = 0 /\ \A k \in 1..N : end[k] = end[k - 1] + 1 + Patch!Size(program[k])
  <2>1. 0 \in 0..N /\ \A k \in 1..N : k \in 0..N /\ k # 0
    BY <1>1
  <2>2. QED
    BY <1>8, <2>1
<1> DEFINE S == {n \in 0..N : end[n] \in Nat}
<1>11. 0 \in S
  BY <1>1, <1>10
<1>12. ASSUME NEW n \in Nat, n < N, n \in S PROVE n + 1 \in S
  <2>1. n + 1 \in 1..N /\ (n + 1) - 1 = n /\ n + 1 \in 0..N
    BY <1>1, <1>12
  <2>2. QED
    BY <1>2, <1>10, <1>12, <2>1
<1>13. 0..N \subseteq S
  <2> HIDE DEF S
  <2>1. QED
    BY <1>1, <1>11, <1>12, InductionUpto
<1>14. QED
  BY <1>9, <1>10, <1>13

\* The stream has the items of one op after the other.
LEMMA StreamIs ==
  ASSUME program \in Seq(Ops)
  PROVE  /\ Len(Patch!Stream) = Patch!End(Len(program))
         /\ \A m \in 1..Len(program) : \A n \in 1..1 + Patch!Size(program[m]) :
              /\ Patch!End(m - 1) + n \in 1..Len(Patch!Stream)
              /\ Patch!Stream[Patch!End(m - 1) + n] = Patch!Items(program[m])[n]
<1> DEFINE N == Len(program)
           items == ItemsOf(program)
           V == UNION {{Patch!Items(op)[n] : n \in DOMAIN Patch!Items(op)} : op \in Ops}
           W == Seq(V)
           end == [k \in 0..N |-> Patch!End(k)]
           flat == Flattening(N, items)
<1>1. N \in Nat /\ DOMAIN program = 1..N /\ \A k \in 1..N : program[k] \in Ops
  OBVIOUS
<1>2. ASSUME NEW op \in Ops PROVE Patch!Items(op) \in W
  <2>1. {Patch!Items(op)[n] : n \in DOMAIN Patch!Items(op)} \subseteq V
    OBVIOUS
  <2>2. Patch!Items(op) \in Seq({Patch!Items(op)[n] : n \in DOMAIN Patch!Items(op)})
    BY ItemsAre
  <2> HIDE DEF V
  <2>3. QED
    BY <2>1, <2>2
<1>3. items \in [1..N -> W] /\ \A k \in 1..N : items[k] = Patch!Items(program[k])
  BY <1>1, <1>2 DEF ItemsOf
<1>4. \A k \in 1..N : Len(items[k]) = 1 + Patch!Size(program[k])
  BY <1>1, <1>3, ItemsAre
<1>5. Patch!Stream = Patch!FlattenSeq(items)
  BY <1>1 DEF Patch!Stream, ItemsOf
<1>6. Len(items) = N
  BY <1>1 DEF ItemsOf
<1>7. Ends(end, N, items)
  <2>1. end[0] = 0 /\ \A k \in 1..N : end[k] = end[k - 1] + 1 + Patch!Size(program[k])
    BY <1>1, OpsEnd
  <2>2. \A k \in 1..N : end[k - 1] \in Nat /\ Patch!Size(program[k]) \in Nat
    <3>1. \A k \in 1..N : k - 1 \in 0..N
      BY <1>1
    <3>2. QED
      BY <1>1, <3>1, OpsEnd, ItemsAre
  <2> HIDE DEF end
  <2>3. QED
    <3>1. ASSUME NEW k \in 1..N PROVE end[k] = end[k - 1] + Len(items[k])
      <4> DEFINE size == Patch!Size(program[k])
                 before == end[k - 1]
      <4>1. end[k] = before + 1 + size /\ before \in Nat /\ size \in Nat /\ Len(items[k]) = 1 + size
        BY <1>4, <2>1, <2>2
      <4> HIDE DEF before, size
      <4>2. end[k] = before + Len(items[k])
        BY <4>1
      <4>3. QED
        BY <4>2 DEF before
    <3>2. QED
      BY <2>1, <3>1 DEF Ends
<1> HIDE DEF items, V, W
<1>8. CASE N = 0
  <2>1. Patch!Stream = items /\ items = <<>>
    BY <1>3, <1>5, <1>6, <1>8 DEF Patch!FlattenSeq
  <2>2. Patch!End(0) = 0
    BY OpsEnd
  <2>3. QED
    BY <1>8, <2>1, <2>2
<1>9. CASE N # 0
  <2>1. Patch!Stream = flat[N]
    BY <1>5, <1>6, <1>9 DEF Patch!FlattenSeq, Flattening
  <2> HIDE DEF N, flat, end
  <2>2. Places(flat[N], N, end, items)
    BY <1>1, <1>3, <1>7, <1>9, Flattened, Zenon DEF flat, W
  <2>3. /\ Len(Patch!Stream) = end[N]
        /\ \A m \in 1..N : \A n \in 1..Len(items[m]) :
             /\ end[m - 1] + n \in 1..end[N]
             /\ Patch!Stream[end[m - 1] + n] = items[m][n]
    BY <2>1, <2>2 DEF Places
  <2>4. end[N] = Patch!End(N) /\ \A m \in 1..N : end[m - 1] = Patch!End(m - 1)
    BY <1>1 DEF end
  <2>5. QED
    BY <1>3, <1>4, <2>3, <2>4 DEF N
<1>10. QED
  BY <1>8, <1>9

\* Patch's recursions as functions of the ops, which never change.
EndOf(ops, k) ==
  LET end[n \in 0..Len(ops)] == IF n = 0 THEN 0 ELSE end[n - 1] + 1 + Patch!Size(ops[n])
  IN end[k]

MeaningOf(ops, k) ==
  LET after[n \in 0..Len(ops)] ==
        IF n = 0 THEN [path |-> NoPath, cursor |-> 0, out |-> <<>>]
        ELSE Patch!Effect(after[n - 1], ops[n])
  IN after[k]

\* The recursions are those of the current ops.
LEMMA OfTheProgram ==
  \A k : Patch!End(k) = EndOf(program, k) /\ Patch!Meaning(k) = MeaningOf(program, k)
BY DEF Patch!End, EndOf, Patch!Meaning, MeaningOf

\* As long as the program stays they stay.
LEMMA SameProgram ==
  ASSUME program' = program
  PROVE  \A k : Patch!End(k)' = Patch!End(k) /\ Patch!Meaning(k)' = Patch!Meaning(k)
<1>1. (\A k : Patch!End(k) = EndOf(program, k) /\ Patch!Meaning(k) = MeaningOf(program, k))'
  BY OfTheProgram, PTL
<1>2. \A k : EndOf(program, k)' = EndOf(program, k) /\ MeaningOf(program, k)' = MeaningOf(program, k)
  OBVIOUS
<1>3. QED
  BY <1>1, <1>2, OfTheProgram

\* And so does what makes a delta well-formed.
LEMMA SameMeaning ==
  ASSUME UNCHANGED Patch!input
  PROVE  Patch!WellFormed' = Patch!WellFormed
<1>1. UNCHANGED <<media, program, version, whole>>
  BY DEF Patch!input
<1>2. QED
  BY <1>1, SameProgram DEF Patch!WellFormed, Patch!Applicable, Patch!Size, Patch!Content

\* What the ops up to k mean.
LEMMA Meanings ==
  ASSUME program \in Seq(Ops)
  PROVE  /\ Patch!Meaning(0) = [path |-> NoPath, cursor |-> 0, out |-> <<>>]
         /\ \A k \in 1..Len(program) :
              Patch!Meaning(k) = Patch!Effect(Patch!Meaning(k - 1), program[k])
<1> DEFINE N == Len(program)
           start == [path |-> NoPath, cursor |-> 0, out |-> <<>>]
           Does(s, k) == Patch!Effect(s, program[k])
           Body(f, n) == IF n = 0 THEN start ELSE Does(f[n - 1], n)
           after == CHOOSE f : f = [n \in 0..N |-> Body(f, n)]
           S == {m \in 0..N : \E f : f = [n \in 0..m |-> Body(f, n)]}
<1>1. N \in Nat
  OBVIOUS
<1>2. \A k : Patch!Meaning(k) = after[k]
  BY DEF Patch!Meaning
<1> HIDE DEF start, Does
<1>3. 0 \in S
  <2> DEFINE f == [n \in 0..0 |-> start]
  <2>1. f = [n \in 0..0 |-> Body(f, n)]
    <3>1. \A n \in 0..0 : n = 0
      OBVIOUS
    <3>2. QED
      BY <3>1
  <2> HIDE DEF f
  <2>2. QED
    BY <1>1, <2>1
<1>4. ASSUME NEW m \in Nat, m < N, m \in S PROVE m + 1 \in S
  <2>1. PICK f : f = [n \in 0..m |-> Body(f, n)]
    BY <1>4
  <2> DEFINE g == [n \in 0..m + 1 |-> IF n = m + 1 THEN Does(f[m], n) ELSE f[n]]
  <2>2. ASSUME NEW n \in 0..m + 1 PROVE g[n] = Body(g, n)
    <3>1. CASE n = m + 1
      <4>1. n # 0 /\ n - 1 = m /\ m \in 0..m + 1 /\ m # m + 1
        BY <1>4, <3>1
      <4>2. g[n] = Does(f[m], n) /\ g[n - 1] = f[m]
        BY <3>1, <4>1
      <4>3. QED
        BY <4>1, <4>2
    <3>2. CASE n # m + 1
      <4>1. n \in 0..m /\ (n # 0 => n - 1 \in 0..m + 1 /\ n - 1 # m + 1)
        BY <1>4, <3>2
      <4>2. g[n] = f[n] /\ (n # 0 => g[n - 1] = f[n - 1])
        BY <3>2, <4>1
      <4>3. f[n] = Body(f, n)
        BY <2>1, <4>1
      <4>4. QED
        BY <4>2, <4>3
    <3>3. QED
      BY <3>1, <3>2
  <2>3. g = [n \in 0..m + 1 |-> g[n]]
    OBVIOUS
  <2> HIDE DEF g, Body
  <2>4. g = [n \in 0..m + 1 |-> Body(g, n)]
    BY <2>2, <2>3
  <2>5. m + 1 \in 0..N
    BY <1>1, <1>4
  <2>6. QED
    BY <2>4, <2>5
<1>5. N \in S
  <2> HIDE DEF S
  <2>1. 0..N \subseteq S
    BY <1>1, <1>3, <1>4, InductionUpto
  <2>2. QED
    BY <1>1, <2>1
<1>6. after = [n \in 0..N |-> Body(after, n)]
  <2> HIDE DEF Body
  <2>1. QED
    BY <1>5
<1> HIDE DEF after
<1>7. after[0] = start /\ \A k \in 1..N : after[k] = Does(after[k - 1], k)
  <2>1. 0 \in 0..N /\ \A k \in 1..N : k \in 0..N /\ k # 0
    BY <1>1
  <2>2. QED
    BY <1>6, <2>1
<1>8. QED
  BY <1>2, <1>7 DEF start, Does

\* What one op does.
State(p, c, o) == [path |-> p, cursor |-> c, out |-> o]

\* By its code.
LEMMA Effects ==
  ASSUME NEW p, NEW c, NEW o, NEW op
  PROVE  LET after == Patch!Effect(State(p, c, o), op)
             n == Len(op.payload)
         IN /\ op.code = "data" => after = State(p, c, o \o op.payload)
            /\ op.code = "open" => after = State(op.arg, 0, o)
            /\ op.code = "seek" => after = State(p, op.arg, o)
            /\ op.code = "copy" => after = State(p, c + op.arg, o \o Patch!Segment(p, c, op.arg))
            /\ op.code = "add" =>
                 after = State(p, c + n, o \o Patch!AddBytes(op.payload, Patch!Segment(p, c, n)))
            /\ op.code = "dict" =>
                 after = State(p, Len(Patch!Content(p)), o \o (Patch!Content(p) \o op.payload))
BY DEF Patch!Effect, State

\* At an op: the item there is the next of the program, and the payload its bytes.
LEMMA AtItem ==
  ASSUME program \in Seq(Ops), NEW k \in 0..Len(program), pos = Patch!End(k),
         pos < Len(Patch!Stream)
  PROVE  /\ k + 1 \in 1..Len(program) /\ (k + 1) - 1 = k
         /\ Patch!Item = program[k + 1] /\ Patch!Item \in Ops
         /\ Patch!Size(Patch!Item) \in Nat
         /\ Patch!End(k + 1) = pos + 1 + Patch!Size(Patch!Item)
         /\ Patch!Payload(Patch!Size(Patch!Item)) = Patch!Item.payload \o Patch!Item.trailing
<1> DEFINE N == Len(program)
           op == program[k + 1]
           size == Patch!Size(op)
           bytes == op.payload \o op.trailing
<1>1. N \in Nat
  OBVIOUS
<1>2. k # N
  BY StreamIs
<1>3. k + 1 \in 1..N /\ (k + 1) - 1 = k
  BY <1>1, <1>2
<1>4. op \in Ops
  BY <1>3
<1>5. size \in Nat /\ Patch!Items(op)[1] = op /\ \A n \in 1..size : Patch!Items(op)[1 + n].byte = bytes[n]
  BY <1>4, ItemsAre
<1>6. Patch!End(k + 1) = pos + 1 + size
  BY <1>3, OpsEnd
<1>7. \A n \in 1..1 + size : Patch!Stream[pos + n] = Patch!Items(op)[n]
  BY <1>3, StreamIs
<1> HIDE DEF size
<1>8. Patch!Item = op
  <2>1. 1 \in 1..1 + size
    BY <1>5
  <2>2. Patch!Stream[pos + 1] = Patch!Items(op)[1]
    BY <1>7, <2>1
  <2>3. QED
    BY <1>5, <2>2 DEF Patch!Item
<1>9. \A n \in 1..size : Patch!Stream[pos + 1 + n].byte = bytes[n]
  <2>1. pos \in Nat
    BY OpsEnd
  <2>2. ASSUME NEW n \in 1..size PROVE Patch!Stream[pos + 1 + n].byte = bytes[n]
    <3>1. 1 + n \in 1..1 + size /\ pos + (1 + n) = pos + 1 + n
      BY <1>5, <2>1
    <3>2. Patch!Stream[pos + 1 + n] = Patch!Items(op)[1 + n]
      BY <1>7, <3>1
    <3>3. QED
      BY <1>5, <3>2
  <2>3. QED
    BY <2>2
<1>10. Patch!Payload(size) = bytes
  <2>1. bytes \in Seq(Nat) /\ size = Len(bytes)
    BY <1>4, OpsAre DEF OpFacts, Patch!Size, size
  <2>2. Patch!Payload(size) = [n \in 1..size |-> Patch!Stream[pos + 1 + n].byte]
    BY DEF Patch!Payload
  <2> HIDE DEF bytes
  <2>3. bytes = [n \in 1..size |-> bytes[n]]
    BY <2>1
  <2>4. [n \in 1..size |-> Patch!Stream[pos + 1 + n].byte] = [n \in 1..size |-> bytes[n]]
    BY <1>9
  <2>5. QED
    BY <2>2, <2>3, <2>4
<1>11. QED
  BY <1>3, <1>4, <1>5, <1>6, <1>8, <1>10 DEF size

\* The stream is read at an op, and what was done is what the ops before it mean.
AtAnOp ==
  patchPc \in {"header", "op", "compare", "ok"} =>
    \E k \in 0..Len(program) :
      /\ pos = Patch!End(k)
      /\ Patch!WellFormed =>
           Patch!Meaning(k) = [path |-> openPath, cursor |-> cursor, out |-> out]
      /\ patchPc = "header" => k = 0
      /\ media = "tar-diff" /\ patchPc \in {"compare", "ok"} => k = Len(program)

PatchInv ==
  component = "patch" =>
    /\ program \in Seq(Ops) /\ cursor \in Nat /\ openPath \in DOMAIN OldFiles \cup {NoPath}
    /\ patchPc = "op" => media = "tar-diff"
    /\ patchPc = "header" => cursor = 0 /\ openPath = NoPath /\ out = <<>>
    /\ outHash = out /\ (patchPc = "ok" => outHash = expected)
    /\ AtAnOp

\* dst takes the bytes, or the interpreter stops.
LEMMA Written ==
  ASSUME NEW V, NEW bytes \in Seq(V), Patch!Write(bytes), outHash = out
  PROVE  /\ outHash' = out'
         /\ patchPc' \in {"op", "error"} /\ (patchPc' = "op" => out' = out \o bytes)
<1>1. PICK n \in 0..Len(bytes) :
             /\ out' = out \o SubSeq(bytes, 1, n) /\ outHash' = outHash \o SubSeq(bytes, 1, n)
             /\ patchPc' = IF n = Len(bytes) THEN "op" ELSE "error"
  BY Zenon DEF Patch!Write
<1> DEFINE part == SubSeq(bytes, 1, n)
<1>2. n = Len(bytes) => part = bytes
  BY DEF part
<1>3. out' = out \o part /\ outHash' = outHash \o part
  BY <1>1, Zenon
<1> HIDE DEF part
<1>4. outHash' = out'
  BY <1>3, Zenon
<1>5. n = Len(bytes) => out' = out \o bytes
  BY <1>2, <1>3, Zenon
<1>6. QED
  BY <1>1, <1>4, <1>5

\* A segment of a file is a list.
LEMMA Segments ==
  ASSUME NEW p, NEW start \in Nat, NEW n \in Nat
  PROVE  \E V : Patch!Segment(p, start, n) \in Seq(V)
<1> DEFINE s == Patch!Segment(p, start, n)
<1>1. s = [l \in 1..n |-> Patch!Content(p)[l + (start + 1) - 1]]
  <2>1. 1 + (start + n) - (start + 1) = n
    OBVIOUS
  <2>2. QED
    BY <2>1 DEF Patch!Segment
<1>2. s = [l \in 1..n |-> s[l]]
  BY <1>1
<1> HIDE DEF s
<1>3. s \in [1..n -> {s[l] : l \in 1..n}]
  BY <1>2
<1> DEFINE V == {s[l] : l \in 1..n}
<1> HIDE DEF V
<1>4. s \in [1..n -> V]
  BY <1>3 DEF V
<1>5. s \in Seq(V)
  BY <1>4
<1>6. QED
  BY <1>5 DEF s

\* After an op whose effect is the state reached, the next op follows.
LEMMA NextOp ==
  ASSUME program \in Seq(Ops), NEW k \in 0..Len(program), pos = Patch!End(k),
         pos < Len(Patch!Stream),
         Patch!WellFormed => Patch!Meaning(k) = State(openPath, cursor, out),
         UNCHANGED Patch!input, pos' = pos + 1 + Patch!Size(Patch!Item),
         patchPc' \in {"op", "error"},
         patchPc' = "op" =>
           Patch!Effect(State(openPath, cursor, out), Patch!Item) = State(openPath', cursor', out')
  PROVE  AtAnOp'
<1> SUFFICES ASSUME patchPc' = "op" PROVE AtAnOp'
  BY DEF AtAnOp
<1>1. /\ k + 1 \in 1..Len(program) /\ (k + 1) - 1 = k /\ Patch!Item = program[k + 1]
      /\ Patch!End(k + 1) = pos + 1 + Patch!Size(Patch!Item)
  BY AtItem
<1>2. program' = program
  BY DEF Patch!input
<1>3. pos' = Patch!End(k + 1)'
  BY <1>1, <1>2, SameProgram
<1>4. Patch!WellFormed' => Patch!Meaning(k + 1)' = State(openPath', cursor', out')
  <2>1. Patch!Meaning(k + 1) = Patch!Effect(Patch!Meaning(k), program[k + 1])
    BY <1>1, Meanings
  <2>2. Patch!WellFormed' = Patch!WellFormed /\ Patch!Meaning(k + 1)' = Patch!Meaning(k + 1)
    BY <1>2, SameMeaning, SameProgram
  <2>3. QED
    BY <1>1, <2>1, <2>2
<1>5. k + 1 \in 0..Len(program')
  BY <1>1, <1>2
<1>6. QED
  BY <1>3, <1>4, <1>5 DEF AtAnOp, State

\* The ops that write what they say, and those that only move.
LEMMA OpSteps ==
  ASSUME component = "patch", PatchInv,
         \/ Patch!OpData \/ Patch!OpOpen \/ Patch!OpCopy \/ Patch!OpAddData \/ Patch!OpSeek
         \/ Patch!OpZstdDict
  PROVE  /\ AtAnOp' /\ UNCHANGED Patch!input /\ outHash' = out' /\ patchPc' \in {"op", "error"}
         /\ cursor' \in Nat /\ openPath' \in DOMAIN OldFiles \cup {NoPath}
         /\ patchPc = "op"
<1> DEFINE op == Patch!Item
           here == State(openPath, cursor, out)
<1>1. /\ program \in Seq(Ops) /\ cursor \in Nat /\ openPath \in DOMAIN OldFiles \cup {NoPath}
      /\ outHash = out /\ AtAnOp
  BY DEF PatchInv
<1>2. patchPc = "op" /\ pos < Len(Patch!Stream) /\ UNCHANGED Patch!input
  BY DEF Patch!OpData, Patch!OpOpen, Patch!OpCopy, Patch!OpAddData, Patch!OpSeek,
         Patch!OpZstdDict, Patch!At, Patch!input
<1>3. PICK k \in 0..Len(program) :
             pos = Patch!End(k) /\ (Patch!WellFormed => Patch!Meaning(k) = here)
  BY <1>1, <1>2 DEF AtAnOp, State
<1>4. /\ op \in Ops /\ Patch!Size(op) \in Nat
      /\ Patch!Payload(Patch!Size(op)) = op.payload \o op.trailing
  BY <1>1, <1>2, <1>3, AtItem
<1>5. OpFacts(op)
  BY <1>4, OpsAre
<1>6. op.code # "dict" =>
        /\ Patch!Payload(Patch!Size(op)) = op.payload /\ Patch!Size(op) = Len(op.payload)
  <2> SUFFICES ASSUME op.code # "dict"
               PROVE  Patch!Payload(Patch!Size(op)) = op.payload
                      /\ Patch!Size(op) = Len(op.payload)
    OBVIOUS
  <2>1. op.trailing = <<>> /\ op.payload \in Seq(Nat)
    BY <1>5 DEF OpFacts
  <2>2. op.payload \o <<>> = op.payload
    BY <2>1
  <2>3. op.payload \o op.trailing = op.payload
    BY <2>1, <2>2, Zenon
  <2>4. QED
    BY <1>4, <2>3 DEF Patch!Size
<1>7. op.payload \in Seq(Nat) /\ Len(op.payload) \in Nat
  BY <1>5 DEF OpFacts
<1>8. \A p \in DOMAIN OldFiles \cup {NoPath} :
        Patch!Content(p) \in Seq(Nat) /\ Len(Patch!Content(p)) \in Nat
  BY FilesAssumption DEF Patch!Content
<1> HIDE DEF op
<1>9. ASSUME pos' = pos + 1 + Patch!Size(op), patchPc' \in {"op", "error"},
             patchPc' = "op" => Patch!Effect(here, op) = State(openPath', cursor', out')
      PROVE  AtAnOp'
  BY <1>1, <1>2, <1>3, <1>9, NextOp DEF op
<1>15. op.code \in {"open", "copy", "seek"} => Patch!Size(op) = 0
  <2> SUFFICES ASSUME op.code \in {"open", "copy", "seek"} PROVE Patch!Size(op) = 0
    OBVIOUS
  <2>1. op.payload = <<>> /\ op.code # "dict"
    BY <1>5 DEF OpFacts
  <2>2. QED
    BY <1>6, <2>1
<1>10. CASE Patch!OpData
  <2>1. /\ op.code = "data" /\ Patch!Write(op.payload) /\ pos' = pos + 1 + Patch!Size(op)
        /\ UNCHANGED <<openPath, cursor>>
    <3>1. op.code = "data" /\ Patch!Write(Patch!Payload(Patch!Size(op)))
          /\ pos' = pos + 1 + Patch!Size(op) /\ UNCHANGED <<openPath, cursor>>
      BY <1>10, Zenon DEF Patch!OpData, Patch!At, op
    <3>2. op.code # "dict"
      BY <3>1
    <3>3. QED
      BY <1>6, <3>1, <3>2, Zenon
  <2>2. /\ outHash' = out' /\ patchPc' \in {"op", "error"}
        /\ patchPc' = "op" => out' = out \o op.payload
    BY <1>1, <1>7, <2>1, Written, Zenon
  <2>3. Patch!Effect(here, op) = State(openPath, cursor, out \o op.payload)
    BY <2>1, Effects
  <2>4. AtAnOp'
    BY <1>9, <2>1, <2>2, <2>3, Zenon
  <2>5. QED
    BY <1>1, <1>2, <2>1, <2>2, <2>4
<1>11. CASE Patch!OpOpen
  <2>1. /\ op.code = "open" /\ Patch!CanApply /\ pos' = pos + 1
        /\ openPath' = op.arg /\ cursor' = 0 /\ UNCHANGED <<out, outHash, patchPc>>
    BY <1>11 DEF Patch!OpOpen, Patch!At, op
  <2>2. op.arg \in DOMAIN OldFiles
    BY <2>1 DEF Patch!CanApply, Patch!Applicable, op
  <2>3. Patch!Effect(here, op) = State(openPath', cursor', out')
    BY <2>1, Effects
  <2>4. pos' = pos + 1 + Patch!Size(op)
    BY <1>1, <1>3, <1>15, <2>1, OpsEnd
  <2>5. QED
    BY <1>1, <1>2, <1>9, <2>1, <2>2, <2>3, <2>4
<1>12. CASE Patch!OpSeek
  <2>1. /\ op.code = "seek" /\ pos' = pos + 1
        /\ cursor' = op.arg /\ UNCHANGED <<openPath, out, outHash, patchPc>>
    BY <1>12 DEF Patch!OpSeek, Patch!At, op
  <2>2. op.arg \in Nat
    BY <1>5, <2>1 DEF OpFacts
  <2>3. Patch!Effect(here, op) = State(openPath', cursor', out')
    BY <2>1, Effects
  <2>4. pos' = pos + 1 + Patch!Size(op)
    BY <1>1, <1>3, <1>15, <2>1, OpsEnd
  <2>5. QED
    BY <1>1, <1>2, <1>9, <2>1, <2>2, <2>3, <2>4
<1>13. CASE Patch!OpCopy
  <2> DEFINE bytes == Patch!Segment(openPath, cursor, op.arg)
  <2>1. /\ op.code = "copy" /\ Patch!Write(bytes) /\ pos' = pos + 1
        /\ cursor' = cursor + op.arg /\ openPath' = openPath
    BY <1>13, Zenon DEF Patch!OpCopy, Patch!At, op
  <2>2. op.arg \in Nat
    BY <1>5, <2>1 DEF OpFacts
  <2>3. PICK V : bytes \in Seq(V)
    BY <1>1, <2>2, Segments
  <2>4. Patch!Effect(here, op) = State(openPath, cursor + op.arg, out \o bytes)
    BY <2>1, Effects
  <2>5. pos' = pos + 1 + Patch!Size(op)
    BY <1>1, <1>3, <1>15, <2>1, OpsEnd
  <2> HIDE DEF bytes
  <2>6. /\ outHash' = out' /\ patchPc' \in {"op", "error"}
        /\ patchPc' = "op" => out' = out \o bytes
    BY <1>1, <2>1, <2>3, Written, Zenon
  <2>7. AtAnOp'
    BY <1>9, <2>1, <2>4, <2>5, <2>6, Zenon
  <2>8. cursor' \in Nat
    BY <1>1, <2>1, <2>2
  <2>9. QED
    BY <1>1, <1>2, <2>1, <2>6, <2>7, <2>8
<1>14. CASE Patch!OpAddData
  <2> DEFINE n == Len(op.payload)
             segment == Patch!Segment(openPath, cursor, n)
             bytes == Patch!AddBytes(op.payload, segment)
  <2>1. /\ op.code = "add" /\ Patch!Write(bytes) /\ pos' = pos + 1 + Patch!Size(op)
        /\ cursor' = cursor + n /\ openPath' = openPath
    <3>1. /\ op.code = "add" /\ pos' = pos + 1 + Patch!Size(op)
          /\ Patch!Write(Patch!AddBytes(Patch!Payload(Patch!Size(op)),
                                        Patch!Segment(openPath, cursor, Patch!Size(op))))
          /\ cursor' = cursor + Patch!Size(op) /\ openPath' = openPath
      BY <1>14, Zenon DEF Patch!OpAddData, Patch!At, op
    <3>2. op.code # "dict"
      BY <3>1
    <3>3. QED
      BY <1>6, <3>1, <3>2, Zenon
  <2>2. n \in Nat /\ DOMAIN op.payload = 1..n
    BY <1>7
  <2>3. \E V : bytes \in Seq(V)
    <3>1. bytes = [l \in 1..n |-> (op.payload[l] + segment[l]) % Byte]
      BY <2>2 DEF Patch!AddBytes
    <3> HIDE DEF n, segment
    <3>2. bytes = [l \in 1..n |-> bytes[l]]
      BY <3>1
    <3> HIDE DEF bytes
    <3>3. bytes \in [1..n -> {bytes[l] : l \in 1..n}]
      BY <3>2
    <3> DEFINE V == {bytes[l] : l \in 1..n}
    <3> HIDE DEF V
    <3>4. bytes \in Seq(V)
      BY <2>2, <3>3 DEF V
    <3>5. QED
      BY <3>4
  <2>4. PICK V : bytes \in Seq(V)
    BY <2>3
  <2>5. Patch!Effect(here, op) = State(openPath, cursor + n, out \o bytes)
    BY <2>1, Effects
  <2> HIDE DEF bytes, n
  <2>6. /\ outHash' = out' /\ patchPc' \in {"op", "error"}
        /\ patchPc' = "op" => out' = out \o bytes
    BY <1>1, <2>1, <2>4, Written, Zenon
  <2>7. AtAnOp'
    BY <1>9, <2>1, <2>5, <2>6, Zenon
  <2>8. cursor' \in Nat
    BY <1>1, <2>1, <2>2
  <2>9. QED
    BY <1>1, <1>2, <2>1, <2>6, <2>7, <2>8
<1>16. CASE Patch!OpZstdDict
  <2> DEFINE content == Patch!Content(openPath)
             bytes == content \o op.payload
  <2>1. /\ op.code = "dict" /\ Patch!Write(bytes)
        /\ pos' = pos + (1 + Patch!Size(op))
        /\ cursor' = Len(content) /\ openPath' = openPath
    BY <1>16, Zenon DEF Patch!OpZstdDict, Patch!At, Patch!DictConsumed, op
  <2>2. content \in Seq(Nat) /\ Len(content) \in Nat
    BY <1>1, <1>8
  <2>3. bytes \in Seq(Nat)
    <3> HIDE DEF content
    <3>1. QED
      BY <1>7, <2>2
  <2>4. Patch!Effect(here, op) = State(openPath, Len(content), out \o bytes)
    BY <2>1, Effects
  <2>5. pos' = pos + 1 + Patch!Size(op)
    <3> DEFINE size == Patch!Size(op)
    <3>1. pos \in Nat /\ size \in Nat /\ pos' = pos + (1 + size)
      BY <1>1, <1>3, <1>4, <2>1, OpsEnd
    <3> HIDE DEF size
    <3>2. pos' = pos + 1 + size
      BY <3>1
    <3>3. QED
      BY <3>2 DEF size
  <2> HIDE DEF bytes, content
  <2>6. /\ outHash' = out' /\ patchPc' \in {"op", "error"}
        /\ patchPc' = "op" => out' = out \o bytes
    BY <1>1, <2>1, <2>3, Written, Zenon
  <2>7. AtAnOp'
    BY <1>9, <2>1, <2>4, <2>5, <2>6, Zenon
  <2>8. QED
    BY <1>1, <1>2, <2>1, <2>2, <2>6, <2>7
<1>17. QED
  BY <1>10, <1>11, <1>12, <1>13, <1>14, <1>16

\* The interpreter starts at the first op with nothing written.
LEMMA PatchStart == ContentInit => PatchInv
<1> SUFFICES ASSUME ContentInit, component = "patch" PROVE PatchInv
  BY DEF PatchInv
<1>1. Patch!Init
  BY DEF ContentInit
<1>2. /\ program \in Patch!SeqOf(Ops, MaxOps) /\ pos = 0 /\ openPath = NoPath /\ cursor = 0
      /\ out = <<>> /\ outHash = <<>> /\ patchPc = "header"
  BY <1>1 DEF Patch!Init
<1>3. program \in Seq(Ops)
  BY <1>2 DEF Patch!SeqOf
<1>4. Patch!End(0) = 0 /\ Patch!Meaning(0) = [path |-> NoPath, cursor |-> 0, out |-> <<>>]
  BY <1>3, OpsEnd, Meanings
<1>5. 0 \in 0..Len(program)
  BY <1>3
<1>6. AtAnOp
  BY <1>2, <1>4, <1>5 DEF AtAnOp
<1>7. QED
  BY <1>2, <1>3, <1>6 DEF PatchInv

\* The steps that read no op.
LEMMA OtherSteps ==
  ASSUME component = "patch", PatchInv,
         \/ Patch!ReadHeader \/ Patch!CopyOriginal \/ Patch!MediaRejected \/ Patch!OpRejected
         \/ Patch!StreamFails \/ Patch!EndOfDelta \/ Patch!CompareDiffID
  PROVE  PatchInv'
<1>1. /\ program \in Seq(Ops) /\ cursor \in Nat /\ openPath \in DOMAIN OldFiles \cup {NoPath}
      /\ patchPc = "op" => media = "tar-diff"
      /\ patchPc = "header" => cursor = 0 /\ openPath = NoPath /\ out = <<>>
      /\ outHash = out /\ (patchPc = "ok" => outHash = expected)
      /\ AtAnOp
  BY DEF PatchInv
<1>2. UNCHANGED <<media, program, version, whole, expected>>
      /\ UNCHANGED Patch!input /\ UNCHANGED <<pos, openPath, cursor>>
  BY DEF Patch!ReadHeader, Patch!CopyOriginal, Patch!MediaRejected, Patch!OpRejected,
         Patch!StreamFails, Patch!EndOfDelta, Patch!CompareDiffID, Patch!Goto, Patch!input
<1>3. /\ patchPc' = "op" => media = "tar-diff" /\ patchPc = "header"
      /\ patchPc' # "header" /\ outHash' = out'
      /\ patchPc' = "ok" => patchPc = "compare" /\ outHash' = expected
      /\ patchPc' = "compare" =>
           \/ patchPc = "header" /\ media = "layer"
           \/ patchPc = "op" /\ pos = Len(Patch!Stream)
      /\ media = "tar-diff" => out' = out
  BY <1>1 DEF Patch!ReadHeader, Patch!CopyOriginal, Patch!MediaRejected, Patch!OpRejected,
         Patch!StreamFails, Patch!EndOfDelta, Patch!CompareDiffID, Patch!Goto
<1>4. ASSUME patchPc' \in {"op", "compare", "ok"} PROVE AtAnOp'
  <2>1. patchPc \in {"header", "op", "compare"}
    BY <1>3, <1>4
  <2>2. PICK k \in 0..Len(program) :
               /\ pos = Patch!End(k)
               /\ Patch!WellFormed =>
                    Patch!Meaning(k) = [path |-> openPath, cursor |-> cursor, out |-> out]
               /\ media = "tar-diff" /\ patchPc \in {"compare", "ok"} => k = Len(program)
    BY <1>1, <2>1 DEF AtAnOp
  <2>3. Patch!WellFormed => media = "tar-diff"
    BY DEF Patch!WellFormed
  <2>4. ASSUME patchPc = "op", pos = Len(Patch!Stream) PROVE k = Len(program)
    <3> SUFFICES ASSUME k # Len(program) PROVE FALSE
      OBVIOUS
    <3> DEFINE N == Len(program)
    <3>1. N \in Nat
      BY <1>1
    <3> HIDE DEF N
    <3>2. k + 1 \in 1..N /\ (k + 1) - 1 = k
      BY <3>1 DEF N
    <3>3. Patch!Size(program[k + 1]) \in Nat
      <4>1. program \in Seq(Ops)
        BY <1>1
      <4>2. program[k + 1] \in Ops
        BY <3>2, <4>1 DEF N
      <4>3. \A op \in Ops : Patch!Size(op) \in Nat
        BY ItemsAre
      <4>4. QED
        BY <4>2, <4>3
    <3>4. 1 \in 1..1 + Patch!Size(program[k + 1])
      BY <3>3
    <3>5. pos + 1 \in 1..Len(Patch!Stream)
      <4>1. program \in Seq(Ops)
        BY <1>1
      <4>2. \A m \in 1..N : \A n \in 1..1 + Patch!Size(program[m]) :
              Patch!End(m - 1) + n \in 1..Len(Patch!Stream)
        BY <4>1, StreamIs DEF N
      <4>3. Patch!End((k + 1) - 1) + 1 \in 1..Len(Patch!Stream)
        BY <3>2, <3>4, <4>2
      <4>4. QED
        BY <2>2, <3>2, <4>3
    <3>6. pos \in Nat
      BY <1>1, <2>2, OpsEnd
    <3>7. QED
      BY <2>4, <3>5, <3>6
  <2>5. media = "tar-diff" /\ patchPc' \in {"compare", "ok"} => k = Len(program)
    BY <1>3, <2>2, <2>4
  <2>6. pos' = Patch!End(k)' /\ Patch!Meaning(k)' = Patch!Meaning(k)
        /\ Patch!WellFormed' = Patch!WellFormed
    BY <1>2, <2>2, SameProgram, SameMeaning
  <2>7. Patch!WellFormed' =>
          Patch!Meaning(k)' = [path |-> openPath', cursor |-> cursor', out |-> out']
    BY <1>2, <1>3, <2>2, <2>3, <2>6
  <2>8. k \in 0..Len(program')
    BY <1>2
  <2>9. QED
    BY <1>2, <1>3, <2>5, <2>6, <2>7, <2>8 DEF AtAnOp
<1>5. AtAnOp'
  <2>1. patchPc' \notin {"op", "compare", "ok"} => AtAnOp'
    BY <1>3 DEF AtAnOp
  <2>2. QED
    BY <1>4, <2>1
<1>6. QED
  BY <1>1, <1>2, <1>3, <1>5 DEF PatchInv

\* The invariant of the interpreter.
LEMMA PatchInvariant == ContentSpec => []PatchInv
<1>1. ASSUME PatchInv, [ContentNext]_contentVars PROVE PatchInv'
  <2> SUFFICES ASSUME component' = "patch" PROVE PatchInv'
    BY DEF PatchInv
  <2>1. component = "patch" /\ (Patch!Next \/ UNCHANGED patchVars)
    BY <1>1 DEF ContentNext, contentVars, patchVars
  <2>2. CASE UNCHANGED patchVars
    <3>1. UNCHANGED Patch!input
          /\ UNCHANGED <<media, program, expected, pos, openPath, cursor, out, outHash, patchPc>>
      BY <2>2 DEF patchVars, Patch!input
    <3>2. \A k : Patch!End(k)' = Patch!End(k) /\ Patch!Meaning(k)' = Patch!Meaning(k)
      BY <3>1, SameProgram
    <3>3. Patch!WellFormed' = Patch!WellFormed
      BY <3>1, SameMeaning
    <3>4. AtAnOp => AtAnOp'
      BY <3>1, <3>2, <3>3 DEF AtAnOp
    <3>5. QED
      BY <1>1, <2>1, <3>1, <3>4 DEF PatchInv
  <2>3. CASE Patch!Next
    <3>1. Patch!Next =>
            \/ Patch!ReadHeader \/ Patch!CopyOriginal \/ Patch!MediaRejected
            \/ Patch!OpRejected \/ Patch!StreamFails \/ Patch!EndOfDelta \/ Patch!CompareDiffID
            \/ Patch!OpData \/ Patch!OpOpen \/ Patch!OpCopy \/ Patch!OpAddData \/ Patch!OpSeek
            \/ Patch!OpZstdDict
            \/ UNCHANGED patchVars
      BY DEF Patch!Next, Patch!vars, patchVars
    <3>2. ASSUME \/ Patch!OpData \/ Patch!OpOpen \/ Patch!OpCopy \/ Patch!OpAddData
                 \/ Patch!OpSeek \/ Patch!OpZstdDict
          PROVE  PatchInv'
      <4>1. /\ AtAnOp' /\ UNCHANGED Patch!input /\ outHash' = out' /\ patchPc' \in {"op", "error"}
            /\ cursor' \in Nat /\ openPath' \in DOMAIN OldFiles \cup {NoPath}
            /\ patchPc = "op"
        BY <1>1, <2>1, <3>2, OpSteps
      <4>2. program' = program /\ media' = media
        BY <4>1 DEF Patch!input
      <4>3. program \in Seq(Ops) /\ media = "tar-diff"
        BY <1>1, <2>1, <4>1 DEF PatchInv
      <4>4. QED
        BY <4>1, <4>2, <4>3 DEF PatchInv
    <3>3. QED
      BY <1>1, <2>1, <2>2, <2>3, <3>1, <3>2, OtherSteps
  <2>4. QED
    BY <2>1, <2>2, <2>3
<1>2. QED
  BY PatchStart, <1>1, PTL DEF ContentSpec

\* reconstruct_layer_to returns Ok only if what dst took is the layer that
\* expected_diff_id names.
THEOREM OkMeansTheLayer == ContentSpec => []OkIsTheLayer
<1>1. PatchInv => OkIsTheLayer
  BY DEF PatchInv, OkIsTheLayer, Patch!OkIsTheLayer
<1>2. QED
  BY PatchInvariant, <1>1, PTL

\* The interpreter reads ops where ops begin and does what the format says, for
\* every program of ops, every set of files and every limit.
THEOREM InterpreterFollowsTheFormat == ContentSpec => []FollowsTheFormat
<1>1. PatchInv => FollowsTheFormat
  <2> SUFFICES ASSUME PatchInv, component = "patch", patchPc \in {"op", "compare", "ok"}
               PROVE  \E k \in 0..Len(program) :
                        /\ pos = Patch!End(k)
                        /\ Patch!WellFormed =>
                             Patch!Meaning(k) = [path |-> openPath, cursor |-> cursor, out |-> out]
                        /\ media = "tar-diff" /\ patchPc # "op" => k = Len(program)
    BY DEF FollowsTheFormat, Patch!FollowsTheFormat
  <2>1. AtAnOp
    BY DEF PatchInv
  <2>2. QED
    BY <2>1 DEF AtAnOp
<1>2. QED
  BY PatchInvariant, <1>1, PTL

-----------------------------------------------------------------------------
(* Uvarint: while it reads, the reader has the value of the groups it took, *)
(* and that is below the power of two its shift stands for.  The powers and *)
(* the value are recursive functions, in one step of which f[n] rests on    *)
(* f[n - 1].                                                                *)

\* Natural at first, and at each number if at the one before.
LEMMA StaysNat ==
  ASSUME NEW N \in Nat, NEW f, f[0] \in Nat,
         \A n \in 1..N : f[n - 1] \in Nat => f[n] \in Nat
  PROVE  \A n \in 0..N : f[n] \in Nat
<1> DEFINE S == {n \in 0..N : f[n] \in Nat}
<1>1. 0 \in S
  OBVIOUS
<1>2. ASSUME NEW n \in Nat, n < N, n \in S PROVE n + 1 \in S
  <2>1. n + 1 \in 1..N /\ (n + 1) - 1 = n /\ n + 1 \in 0..N /\ f[n] \in Nat
    BY <1>2
  <2>2. QED
    BY <2>1
<1> HIDE DEF S
<1>3. 0..N \subseteq S
  BY <1>1, <1>2, InductionUpto
<1>4. QED
  BY <1>3 DEF S

\* Equal at first, and at each number if at the one before.
LEMMA Agree ==
  ASSUME NEW N \in Nat, NEW f, NEW g, f[0] = g[0],
         \A n \in 1..N : f[n - 1] = g[n - 1] => f[n] = g[n]
  PROVE  f[N] = g[N]
<1> DEFINE S == {n \in 0..N : f[n] = g[n]}
<1>1. 0 \in S
  OBVIOUS
<1>2. ASSUME NEW n \in Nat, n < N, n \in S PROVE n + 1 \in S
  <2>1. n + 1 \in 1..N /\ (n + 1) - 1 = n /\ n + 1 \in 0..N /\ f[n] = g[n]
    BY <1>2
  <2>2. QED
    BY <2>1
<1> HIDE DEF S
<1>3. 0..N \subseteq S
  BY <1>1, <1>2, InductionUpto
<1>4. N \in S
  BY <1>3
<1>5. QED
  BY <1>4 DEF S

\* The powers of two up to N.
Doubles(p, N) ==
  p[0] = 1 /\ \A n \in 1..N : p[n] = 2 * p[n - 1]

\* TwoTo is computed along them.
LEMMA Powers ==
  ASSUME NEW N \in Nat
  PROVE  \E p : Doubles(p, N) /\ p[N] = Integer!TwoTo(N) /\ \A n \in 0..N : p[n] \in Nat
<1> DEFINE F == [n \in 1..N |-> [v \in Nat |-> 2 * v]]
           Body(f, n) == IF n = 0 THEN 1 ELSE 2 * f[n - 1]
           p == CHOOSE f : f = [n \in 0..N |-> Body(f, n)]
<1>1. Integer!TwoTo(N) = p[N]
  BY DEF Integer!TwoTo
<1>2. F \in Steps(N, Nat) /\ 1 \in Nat
  BY DEF Steps
<1>3. PICK g : Iterates(g, N, Nat, 1, F)
  BY <1>2, IteratesExist
<1>4. g \in [0..N -> Nat] /\ \A n \in 0..N : g[n] = Body(g, n)
  <2>1. g \in [0..N -> Nat] /\ g[0] = 1 /\ \A n \in 1..N : g[n] = F[n][g[n - 1]]
    BY <1>3 DEF Iterates
  <2>2. \A n \in 0..N : n = 0 \/ (n \in 1..N /\ n - 1 \in 0..N)
    OBVIOUS
  <2>3. \A n \in 1..N : \A v \in Nat : F[n][v] = 2 * v
    OBVIOUS
  <2> HIDE DEF F
  <2>4. QED
    BY <2>1, <2>2, <2>3
<1> HIDE DEF F, Body
<1>5. g = [n \in 0..N |-> Body(g, n)]
  BY <1>4
<1>6. p = [n \in 0..N |-> Body(p, n)]
  BY <1>5
<1> HIDE DEF p
<1>7. Doubles(p, N)
  <2>1. 0 \in 0..N /\ \A n \in 1..N : n \in 0..N /\ n # 0
    OBVIOUS
  <2>2. QED
    BY <1>6, <2>1 DEF Body, Doubles
<1>8. \A n \in 0..N : p[n] \in Nat
  <2>1. p[0] \in Nat /\ \A n \in 1..N : p[n - 1] \in Nat => p[n] \in Nat
    BY <1>7 DEF Doubles
  <2>2. QED
    BY <2>1, StaysNat
<1>9. QED
  BY <1>1, <1>7, <1>8

\* And so it doubles.
LEMMA NextPower ==
  /\ Integer!TwoTo(0) = 1
  /\ \A n \in Nat : Integer!TwoTo(n) \in Nat /\ Integer!TwoTo(n + 1) = 2 * Integer!TwoTo(n)
<1>1. Integer!TwoTo(0) = 1
  BY Powers DEF Doubles
<1>2. ASSUME NEW n \in Nat
      PROVE  Integer!TwoTo(n) \in Nat /\ Integer!TwoTo(n + 1) = 2 * Integer!TwoTo(n)
  <2>1. PICK p : Doubles(p, n) /\ p[n] = Integer!TwoTo(n) /\ \A m \in 0..n : p[m] \in Nat
    BY Powers
  <2>2. n + 1 \in Nat
    OBVIOUS
  <2>3. PICK q : Doubles(q, n + 1) /\ q[n + 1] = Integer!TwoTo(n + 1)
    BY <2>2, Powers
  <2>4. p[n] = q[n]
    <3>1. \A m \in 1..n : m \in 1..n + 1
      OBVIOUS
    <3>2. p[0] = q[0] /\ \A m \in 1..n : p[m - 1] = q[m - 1] => p[m] = q[m]
      BY <2>1, <2>3, <3>1 DEF Doubles
    <3>3. QED
      BY <3>2, Agree
  <2>5. n + 1 \in 1..n + 1 /\ (n + 1) - 1 = n /\ n \in 0..n
    OBVIOUS
  <2>6. QED
    BY <2>1, <2>3, <2>4, <2>5 DEF Doubles
<1>3. QED
  BY <1>1, <1>2

\* A power of a sum is the product of the powers.
LEMMA PowerOfSum ==
  ASSUME NEW a \in Nat, NEW b \in Nat
  PROVE  Integer!TwoTo(a + b) = Integer!TwoTo(a) * Integer!TwoTo(b)
<1> DEFINE T(n) == Integer!TwoTo(n)
           S == {n \in Nat : T(a + n) = T(a) * T(n)}
<1>1. T(0) = 1 /\ \A n \in Nat : T(n) \in Nat /\ T(n + 1) = 2 * T(n)
  BY NextPower
<1> HIDE DEF T
<1>2. 0 \in S
  BY <1>1
<1>3. ASSUME NEW n \in Nat, n \in S PROVE n + 1 \in S
  <2>1. a + n \in Nat /\ a + (n + 1) = (a + n) + 1
    OBVIOUS
  <2>2. T(a + (n + 1)) = 2 * T(a + n) /\ T(n + 1) = 2 * T(n)
    BY <1>1, <2>1
  <2>3. T(a + n) = T(a) * T(n)
    BY <1>3
  <2>4. T(a) \in Nat /\ T(n) \in Nat
    BY <1>1
  <2>5. \A x, y \in Nat : 2 * (x * y) = x * (2 * y)
    OBVIOUS
  <2>6. T(a + (n + 1)) = T(a) * T(n + 1)
    BY <2>2, <2>3, <2>4, <2>5
  <2>7. QED
    BY <2>6
<1> HIDE DEF S
<1>4. b \in S
  BY <1>2, <1>3, SetInduction
<1>5. QED
  BY <1>4 DEF S, T

\* It is not 0.
LEMMA PowerPositive == \A n \in Nat : Integer!TwoTo(n) \in Nat \ {0}
<1> DEFINE S == {n \in Nat : Integer!TwoTo(n) # 0}
<1>1. 0 \in S
  BY NextPower
<1>2. \A n \in Nat : n \in S => n + 1 \in S
  <2> SUFFICES ASSUME NEW n \in S PROVE n + 1 \in S
    OBVIOUS
  <2>1. Integer!TwoTo(n) \in Nat /\ Integer!TwoTo(n) # 0
        /\ Integer!TwoTo(n + 1) = 2 * Integer!TwoTo(n)
    BY NextPower
  <2>2. QED
    BY <2>1
<1> HIDE DEF S
<1>3. Nat \subseteq S
  BY <1>1, <1>2, SetInduction
<1>4. QED
  BY <1>3, NextPower DEF S

-----------------------------------------------------------------------------

\* The values of the first groups.
Sums(v, bytes) ==
  /\ v[0] = 0
  /\ \A n \in 1..Len(bytes) : v[n] = v[n - 1] + bytes[n].bits * Integer!TwoTo(Group * (n - 1))

\* Value is computed along them.
LEMMA Values ==
  ASSUME NEW bytes \in Seq(Integer!Bytes)
  PROVE  \E v : Sums(v, bytes) /\ v[Len(bytes)] = Integer!Value(bytes)
                /\ \A n \in 0..Len(bytes) : v[n] \in Nat
<1> DEFINE N == Len(bytes)
           term == [n \in 1..N |-> bytes[n].bits * Integer!TwoTo(Group * (n - 1))]
           F == [n \in 1..N |-> [x \in Nat |-> x + term[n]]]
           Body(f, n) ==
             IF n = 0 THEN 0 ELSE f[n - 1] + bytes[n].bits * Integer!TwoTo(Group * (n - 1))
           v == CHOOSE f : f = [n \in 0..N |-> Body(f, n)]
<1>1. Integer!Value(bytes) = v[N]
  BY DEF Integer!Value
<1>2. N \in Nat
  OBVIOUS
<1>3. \A n \in 1..N : term[n] \in Nat
  <2> SUFFICES ASSUME NEW n \in 1..N PROVE bytes[n].bits * Integer!TwoTo(Group * (n - 1)) \in Nat
    OBVIOUS
  <2>1. bytes[n].bits \in Nat
    <3>1. bytes[n] \in Integer!Bytes
      OBVIOUS
    <3>2. QED
      BY <3>1 DEF Integer!Bytes
  <2>2. Group * (n - 1) \in Nat
    BY <1>2, IntegerAssumption
  <2>3. Integer!TwoTo(Group * (n - 1)) \in Nat
    BY <2>2, NextPower
  <2>4. \A x, y \in Nat : x * y \in Nat
    OBVIOUS
  <2>5. QED
    BY <2>1, <2>3, <2>4
<1>4. \A n \in 1..N : term[n] = bytes[n].bits * Integer!TwoTo(Group * (n - 1))
  OBVIOUS
<1> HIDE DEF term, N
<1>5. F \in Steps(N, Nat) /\ 0 \in Nat
  BY <1>3 DEF Steps
<1>6. PICK g : Iterates(g, N, Nat, 0, F)
  BY <1>2, <1>5, IteratesExist
<1>7. g \in [0..N -> Nat] /\ \A n \in 0..N : g[n] = Body(g, n)
  <2>1. g \in [0..N -> Nat] /\ g[0] = 0 /\ \A n \in 1..N : g[n] = F[n][g[n - 1]]
    BY <1>6 DEF Iterates
  <2>2. \A n \in 0..N : n = 0 \/ (n \in 1..N /\ n - 1 \in 0..N)
    BY <1>2
  <2>3. \A n \in 1..N : \A x \in Nat : F[n][x] = x + term[n]
    OBVIOUS
  <2> HIDE DEF F
  <2>4. \A n \in 1..N : g[n] = g[n - 1] + term[n]
    BY <2>1, <2>2, <2>3
  <2>5. \A n \in 1..N : n # 0
    OBVIOUS
  <2>6. QED
    BY <1>4, <2>1, <2>2, <2>4, <2>5
<1> HIDE DEF F, Body
<1>8. g = [n \in 0..N |-> Body(g, n)]
  BY <1>7
<1>9. v = [n \in 0..N |-> Body(v, n)]
  BY <1>8
<1> HIDE DEF v
<1>10. /\ v[0] = 0
       /\ \A n \in 1..N : v[n] = v[n - 1] + bytes[n].bits * Integer!TwoTo(Group * (n - 1))
  <2>1. 0 \in 0..N /\ \A n \in 1..N : n \in 0..N /\ n # 0
    BY <1>2
  <2>2. QED
    BY <1>9, <2>1 DEF Body
<1>11. \A n \in 0..N : v[n] \in Nat
  <2>1. \A n \in 1..N : v[n - 1] \in Nat => v[n] \in Nat
    BY <1>3, <1>4, <1>10
  <2>2. v[0] \in Nat
    BY <1>10
  <2>3. QED
    BY <1>2, <2>1, <2>2, StaysNat
<1>12. QED
  BY <1>1, <1>10, <1>11 DEF N, Sums

\* One more group adds its bits, shifted behind those before.
LEMMA NextValue ==
  ASSUME NEW bytes \in Seq(Integer!Bytes), NEW byte \in Integer!Bytes
  PROVE  /\ Integer!Value(bytes) \in Nat
         /\ Integer!Value(Append(bytes, byte)) =
              Integer!Value(bytes) + byte.bits * Integer!TwoTo(Group * Len(bytes))
<1> DEFINE longer == Append(bytes, byte)
           N == Len(bytes)
<1>1. /\ longer \in Seq(Integer!Bytes) /\ Len(longer) = N + 1 /\ N \in Nat
      /\ longer[N + 1] = byte /\ \A n \in 1..N : longer[n] = bytes[n]
  OBVIOUS
<1> HIDE DEF longer
<1>2. PICK v : Sums(v, bytes) /\ v[N] = Integer!Value(bytes) /\ \A n \in 0..N : v[n] \in Nat
  BY Values
<1>3. PICK w : Sums(w, longer) /\ w[N + 1] = Integer!Value(longer)
  BY <1>1, Values
<1> HIDE DEF N
<1>4. v[N] = w[N]
  <2>1. \A n \in 1..N : n \in 1..N + 1
    BY <1>1
  <2>2. v[0] = w[0]
    BY <1>2, <1>3 DEF Sums
  <2>3. \A n \in 1..N : v[n - 1] = w[n - 1] => v[n] = w[n]
    BY <1>1, <1>2, <1>3, <2>1 DEF Sums, N
  <2>4. QED
    BY <1>1, <2>2, <2>3, Agree
<1>5. w[N + 1] = w[N] + byte.bits * Integer!TwoTo(Group * N)
  <2>1. N + 1 \in 1..N + 1 /\ (N + 1) - 1 = N
    BY <1>1
  <2>2. QED
    BY <1>1, <1>3, <2>1 DEF Sums
<1>6. N \in 0..N
  BY <1>1
<1>7. QED
  BY <1>2, <1>3, <1>4, <1>5, <1>6 DEF N, longer

\* No group, no bits.
LEMMA NoValue == Integer!Value(<<>>) = 0
<1>1. <<>> \in Seq(Integer!Bytes) /\ Len(<<>>) = 0
  OBVIOUS
<1>2. PICK v : Sums(v, <<>>) /\ v[Len(<<>>)] = Integer!Value(<<>>)
  BY <1>1, Values
<1>3. QED
  BY <1>1, <1>2 DEF Sums

\* The bits above all those before them: what fits, and where the next go.
LEMMA FittingBits ==
  ASSUME NEW P \in Nat \ {0}, NEW Q \in Nat, NEW G \in Nat,
         NEW r \in Nat, NEW b \in Nat, r < P
  PROVE  /\ b <= (P * Q - 1) \div P => r + b * P < P * Q
         /\ b < G => r + b * P < P * G
<1>1. ASSUME NEW H \in Nat, b < H PROVE r + b * P < P * H
  <2>1. H - 1 - b \in Nat /\ (H - 1 - b) * P \in Nat
    BY <1>1
  <2>2. P * H = b * P + P + (H - 1 - b) * P
    BY <1>1
  <2>3. P * H \in Nat /\ b * P \in Nat
    OBVIOUS
  <2>4. QED
    BY <2>1, <2>2, <2>3
<1>2. ASSUME b <= (P * Q - 1) \div P PROVE b < Q
  <2> DEFINE d == (P * Q - 1) \div P
  <2>1. P * Q \in Nat /\ d \in Int /\ P * d <= P * Q - 1
    OBVIOUS
  <2> HIDE DEF d
  <2>2. CASE d >= Q
    <3>1. d - Q \in Nat
      BY <2>1, <2>2
    <3>2. (d - Q) * P \in Nat /\ P * d = P * Q + (d - Q) * P
      BY <2>1, <3>1
    <3>3. QED
      BY <2>1, <3>2
  <2>3. QED
    BY <1>2, <2>1, <2>2 DEF d
<1>3. QED
  BY <1>1, <1>2

\* Bits that do not fit are worth more than there is room for.
LEMMA ExceedingBits ==
  ASSUME NEW P \in Nat \ {0}, NEW W \in Nat, NEW b \in Nat, b > W \div P
  PROVE  b * P > W
<1> DEFINE d == W \div P
           m == W % P
<1>1. d \in Nat /\ m \in Nat /\ m < P /\ W = P * d + m
  OBVIOUS
<1> HIDE DEF d, m
<1>2. b - 1 - d \in Nat
  BY <1>1 DEF d
<1>3. (b - 1 - d) * P \in Nat /\ b * P = P * d + P + (b - 1 - d) * P
  BY <1>1, <1>2
<1>4. P * d \in Int /\ b * P \in Int
  BY <1>1
<1>5. QED
  BY <1>1, <1>3, <1>4

-----------------------------------------------------------------------------

\* While the reader reads on.
Continued ==
  /\ \A k \in 1..Len(consumed) : consumed[k].more
  /\ shift = Group * Len(consumed)
  /\ value = Integer!Value(consumed)
  /\ value < Integer!TwoTo(shift)
  /\ (Len(consumed) - 1) * Group < Width

IntegerInv ==
  /\ unread \in Seq(Integer!Bytes) /\ consumed \in Seq(Integer!Bytes)
  /\ outcome = "reading" => Continued
  /\ Integer!DecodesExactly

IntegerPart == component = "uvarint" => IntegerInv

\* Nothing is read at first.
LEMMA IntegerStart == ContentInit => IntegerPart
<1> SUFFICES ASSUME ContentInit, component = "uvarint" PROVE IntegerInv
  BY DEF IntegerPart
<1>1. /\ unread \in Integer!SeqOf(Integer!Bytes, MaxBytes)
      /\ consumed = <<>> /\ value = 0 /\ shift = 0 /\ outcome = "reading"
  BY DEF ContentInit, Integer!Init
<1>2. unread \in Seq(Integer!Bytes)
  BY <1>1 DEF Integer!SeqOf
<1>3. /\ Len(consumed) = 0 /\ Group * 0 = 0 /\ (0 - 1) * Group < Width /\ (0 - 2) * Group < Width
      /\ 1..0 = {} /\ 1..(0 - 1) = {}
  BY <1>1, IntegerAssumption
<1>4. Integer!Value(consumed) = 0 /\ Integer!TwoTo(0) = 1
  BY <1>1, NoValue, NextPower
<1>5. Continued
  BY <1>1, <1>3, <1>4 DEF Continued
<1>6. Integer!DecodesExactly
  BY <1>1, <1>3 DEF Integer!DecodesExactly
<1>7. QED
  BY <1>1, <1>2, <1>5, <1>6 DEF IntegerInv

\* What the byte that is read makes of the value.
LEMMA ByteRead ==
  ASSUME NEW byte \in Integer!Bytes, NEW bytes \in Seq(Integer!Bytes),
         NEW v, v = Integer!Value(bytes), NEW s, s = Group * Len(bytes), v < Integer!TwoTo(s)
  PROVE  LET next == Integer!Value(Append(bytes, byte))
             room == Integer!MaxValue \div Integer!TwoTo(s)
         IN /\ next = v + byte.bits * Integer!TwoTo(s) /\ next \in Nat /\ s \in Nat
            /\ s < Width /\ byte.bits <= room =>
                 /\ next <= Integer!MaxValue
                 /\ next % Integer!TwoTo(Width) = next
                 /\ next < Integer!TwoTo(s + Group)
            /\ byte.bits > room => next > Integer!MaxValue
<1> DEFINE P == Integer!TwoTo(s)
           G == Integer!TwoTo(Group)
           W == Integer!TwoTo(Width)
           b == byte.bits
           next == Integer!Value(Append(bytes, byte))
<1>1. s \in Nat /\ Group \in Nat /\ Width \in Nat
  BY IntegerAssumption
<1>2. P \in Nat \ {0} /\ G \in Nat \ {0} /\ W \in Nat \ {0}
  BY <1>1, PowerPositive
<1>3. b \in Nat /\ b < G
  BY <1>2 DEF Integer!Bytes
<1>4. v \in Nat /\ next = v + b * P
  BY NextValue
<1>5. v < P
  OBVIOUS
<1>6. Integer!TwoTo(s + Group) = P * G
  BY <1>1, PowerOfSum
<1>7. s < Width => W = P * Integer!TwoTo(Width - s) /\ Integer!TwoTo(Width - s) \in Nat
  <2> SUFFICES ASSUME s < Width
               PROVE  W = P * Integer!TwoTo(Width - s) /\ Integer!TwoTo(Width - s) \in Nat
    OBVIOUS
  <2>1. Width - s \in Nat /\ s + (Width - s) = Width
    BY <1>1
  <2>2. Integer!TwoTo(s + (Width - s)) = P * Integer!TwoTo(Width - s)
    BY <1>1, <2>1, PowerOfSum
  <2>3. QED
    BY <2>1, <2>2, PowerPositive
<1>8. Integer!MaxValue = W - 1
  BY DEF Integer!MaxValue
<1> HIDE DEF P, G, W, b, next
<1>9. next \in Nat
  <2>1. b * P \in Nat
    BY <1>2, <1>3
  <2>2. QED
    BY <1>4, <2>1
<1>10. ASSUME s < Width, b <= (W - 1) \div P
       PROVE  next <= W - 1 /\ next % W = next /\ next < P * G
  <2>1. PICK Q \in Nat : W = P * Q
    BY <1>7, <1>10
  <2>2. v + b * P < P * Q /\ v + b * P < P * G
    BY <1>2, <1>3, <1>4, <1>5, <1>10, <2>1, FittingBits
  <2>3. next < W /\ next < P * G
    BY <1>4, <2>1, <2>2
  <2>4. next <= W - 1
    BY <1>2, <1>9, <2>3
  <2>5. next % W = next
    BY <1>2, <1>9, <2>3
  <2>6. QED
    BY <2>3, <2>4, <2>5
<1>11. ASSUME b > (W - 1) \div P PROVE next > W - 1
  <2>1. W - 1 \in Nat
    BY <1>2
  <2>2. b * P > W - 1
    BY <1>2, <1>3, <1>11, <2>1, ExceedingBits
  <2>3. b * P \in Nat
    BY <1>2, <1>3
  <2>4. QED
    BY <1>4, <2>1, <2>2, <2>3
<1>12. QED
  BY <1>1, <1>4, <1>6, <1>8, <1>9, <1>10, <1>11 DEF P, G, W, b, next

\* A byte is read.
LEMMA ReadByteStep == IntegerInv /\ Integer!ReadByte => IntegerInv'
<1> SUFFICES ASSUME IntegerInv, Integer!ReadByte PROVE IntegerInv'
  OBVIOUS
<1> DEFINE byte == Head(unread)
           N == Len(consumed)
<1>1. /\ unread \in Seq(Integer!Bytes) /\ consumed \in Seq(Integer!Bytes)
      /\ outcome = "reading" /\ unread # <<>> /\ Continued
  BY DEF IntegerInv, Integer!ReadByte
<1>2. byte \in Integer!Bytes /\ unread' \in Seq(Integer!Bytes) /\ N \in Nat
  BY <1>1 DEF Integer!ReadByte
<1>3. consumed' = Append(consumed, byte)
  BY DEF Integer!ReadByte
<1>4. IF Integer!Fits(byte.bits)
        THEN /\ value' = (value + byte.bits * Integer!TwoTo(shift)) % Integer!TwoTo(Width)
             /\ shift' = IF byte.more THEN shift + Group ELSE shift
             /\ outcome' = IF byte.more THEN "reading" ELSE "ok"
        ELSE outcome' = "error"
  BY DEF Integer!ReadByte
<1> HIDE DEF byte
<1>5. /\ consumed' \in Seq(Integer!Bytes) /\ Len(consumed') = N + 1
      /\ consumed'[N + 1] = byte /\ \A k \in 1..N : consumed'[k] = consumed[k]
  BY <1>1, <1>2, <1>3
<1> HIDE DEF N
<1>6. /\ \A k \in 1..N : consumed'[k].more
      /\ shift = Group * N /\ (N - 1) * Group < Width
  BY <1>1, <1>5 DEF Continued, N
<1> DEFINE next == Integer!Value(consumed')
           room == Integer!MaxValue \div Integer!TwoTo(shift)
<1>7. /\ next = value + byte.bits * Integer!TwoTo(shift) /\ next \in Nat /\ shift \in Nat
      /\ shift < Width /\ byte.bits <= room =>
           /\ next <= Integer!MaxValue
           /\ next % Integer!TwoTo(Width) = next
           /\ next < Integer!TwoTo(shift + Group)
      /\ byte.bits > room => next > Integer!MaxValue
  <2>1. value = Integer!Value(consumed) /\ value < Integer!TwoTo(shift)
        /\ shift = Group * Len(consumed)
    BY <1>1 DEF Continued
  <2>2. QED
    BY <1>1, <1>2, <1>3, <2>1, ByteRead
<1>8. (N + 1) - 1 = N /\ (N + 1) - 2 = N - 1
  BY <1>2 DEF N
<1>9. Integer!Value(consumed)' = next
  OBVIOUS
<1>10. Integer!Fits(byte.bits) <=> shift < Width /\ byte.bits <= room
  BY DEF Integer!Fits
<1> HIDE DEF next, room
<1>11. CASE Integer!Fits(byte.bits) /\ byte.more
  <2>1. outcome' = "reading" /\ shift' = shift + Group /\ value' = next
        /\ next < Integer!TwoTo(shift + Group) /\ shift < Width
    BY <1>4, <1>7, <1>10, <1>11
  <2>2. \A k \in 1..Len(consumed') : consumed'[k].more
    BY <1>2, <1>5, <1>6, <1>11 DEF N
  <2>3. shift' = Group * Len(consumed') /\ (Len(consumed') - 1) * Group < Width
    <3>1. Group * (N + 1) = Group * N + Group /\ N * Group = Group * N
      BY <1>2, IntegerAssumption DEF N
    <3>2. QED
      BY <1>5, <1>6, <1>8, <2>1, <3>1
  <2>4. Continued'
    BY <1>9, <2>1, <2>2, <2>3 DEF Continued
  <2>5. (Len(consumed') - 2) * Group < Width /\ \A k \in 1..(Len(consumed') - 1) : consumed'[k].more
    BY <1>5, <1>6, <1>8
  <2>6. Integer!DecodesExactly'
    BY <2>1, <2>5 DEF Integer!DecodesExactly
  <2>7. QED
    BY <1>2, <1>5, <2>4, <2>6 DEF IntegerInv
<1>12. ASSUME outcome' \in {"ok", "error"},
              outcome' = "ok" => value' = next /\ next <= Integer!MaxValue /\ ~byte.more,
              outcome' = "error" => next > Integer!MaxValue \/ shift >= Width
       PROVE  IntegerInv'
  <2>1. (Len(consumed') - 2) * Group < Width /\ \A k \in 1..(Len(consumed') - 1) : consumed'[k].more
    BY <1>5, <1>6, <1>8
  <2>2. shift = (Len(consumed') - 1) * Group
    <3>1. N * Group = Group * N
      BY <1>2, IntegerAssumption DEF N
    <3>2. QED
      BY <1>5, <1>6, <1>8, <3>1
  <2>3. ~byte.more => Integer!Complete(consumed')
    <3>1. consumed' # <<>> /\ Integer!Last(consumed') = byte
      BY <1>2, <1>5 DEF Integer!Last, N
    <3>2. QED
      BY <2>1, <3>1 DEF Integer!Complete
  <2>4. Integer!DecodesExactly'
    BY <1>9, <1>12, <2>1, <2>2, <2>3 DEF Integer!DecodesExactly
  <2>5. QED
    BY <1>2, <1>5, <1>12, <2>4 DEF IntegerInv
<1>13. CASE Integer!Fits(byte.bits) /\ ~byte.more
  <2>1. outcome' = "ok" /\ value' = next /\ next <= Integer!MaxValue
    BY <1>4, <1>7, <1>10, <1>13
  <2>2. QED
    BY <1>12, <1>13, <2>1
<1>14. CASE ~Integer!Fits(byte.bits)
  <2>1. outcome' = "error" /\ (shift >= Width \/ byte.bits > room)
    <3>1. room \in Int /\ byte.bits \in Int
      <4>1. Integer!TwoTo(shift) \in Nat \ {0} /\ Integer!MaxValue \in Int
        BY <1>7, IntegerAssumption, PowerPositive DEF Integer!MaxValue
      <4>2. QED
        BY <1>2, <4>1 DEF room, Integer!Bytes
    <3>2. QED
      BY <1>4, <1>7, <1>10, <1>14, <3>1, IntegerAssumption
  <2>2. QED
    BY <1>7, <1>12, <2>1
<1>15. QED
  BY <1>11, <1>13, <1>14

\* The input ends.
LEMMA EndOfInputStep == IntegerInv /\ Integer!EndOfInput => IntegerInv'
<1> SUFFICES ASSUME IntegerInv, Integer!EndOfInput PROVE IntegerInv'
  OBVIOUS
<1>1. /\ UNCHANGED <<unread, consumed, value, shift>> /\ outcome' = "error"
      /\ unread = <<>> /\ Continued
  BY DEF IntegerInv, Integer!EndOfInput
<1>2. ~Integer!Complete(consumed)
  <2>1. consumed # <<>> => Len(consumed) \in 1..Len(consumed)
    BY DEF IntegerInv
  <2>2. QED
    BY <1>1, <2>1 DEF Continued, Integer!Complete, Integer!Last
<1>3. Integer!DecodesExactly'
  BY <1>1, <1>2 DEF IntegerInv, Integer!DecodesExactly
<1>4. QED
  BY <1>1, <1>3 DEF IntegerInv

\* The invariant of the integers.
LEMMA IntegerInvariant == ContentSpec => []IntegerPart
<1>1. ASSUME IntegerPart, [ContentNext]_contentVars PROVE IntegerPart'
  <2> SUFFICES ASSUME component' = "uvarint" PROVE IntegerInv'
    BY DEF IntegerPart
  <2>1. component = "uvarint" /\ (Integer!Next \/ UNCHANGED uvarintVars)
    BY <1>1 DEF ContentNext, contentVars, uvarintVars
  <2>2. IntegerInv
    BY <1>1, <2>1 DEF IntegerPart
  <2>3. CASE UNCHANGED uvarintVars
    BY <2>2, <2>3 DEF uvarintVars, IntegerInv, Continued, Integer!DecodesExactly, Integer!Complete
  <2>4. QED
    BY <2>1, <2>2, <2>3, ReadByteStep, EndOfInputStep
    DEF Integer!Next, Integer!vars, uvarintVars
<1>2. QED
  BY IntegerStart, <1>1, PTL DEF ContentSpec

\* read_uvarint returns exactly what the bytes stand for or an error, and reads
\* nothing past the integer, for every width and group size.
THEOREM IntegersDecodeExactly == ContentSpec => []DecodesExactly
<1>1. IntegerPart => DecodesExactly
  BY DEF IntegerPart, IntegerInv, DecodesExactly
<1>2. QED
  BY IntegerInvariant, <1>1, PTL

-----------------------------------------------------------------------------
(* DiffPool: the properties of the pool are not inductive.  IInv adds what   *)
(* the counters count, which goroutines can exist in each phase of the main  *)
(* goroutine, and what each goroutine has left behind at each statement.     *)

\* Goroutines registered with the WaitGroup and not yet done.
Live == {j \in Jobs : pc[j] \notin {"unborn", "gone"}}

\* The counters count what they are for.
Counters ==
  /\ sem = Cardinality(Holders)
  /\ sem <= Parallelism
  /\ wg = Cardinality(Live)

\* Which goroutines there can be, by what the main goroutine is doing.
Phases ==
  /\ main = "open" => \A j \in Jobs : pc[j] = "unborn"
  /\ main = "wait" => \A j \in Jobs : pc[j] # "unborn"
  /\ main \in {"scan", "clean", "ok"} => \A j \in Jobs : pc[j] = "gone"
  /\ main = "failed" => (\A j \in Jobs : pc[j] = "unborn") \/ (\A j \in Jobs : pc[j] = "gone")

\* What worker j leaves behind when it is done: an error and no file, the
\* original and no file, or a tar-diff and its file.
Left(j) ==
  \/ errs[j] /\ results[j] = "none" /\ j \notin temp
  \/ ~errs[j] /\ results[j] = "original" /\ j \notin temp
  \/ ~errs[j] /\ results[j] = "diff" /\ j \in temp

\* The slots and the temporary file of worker j, statement by statement.
Slots(j) ==
  /\ pc[j] \in {"unborn", "acquire", "readBlob", "createTemp"} =>
       ~errs[j] /\ results[j] = "none" /\ j \notin temp
  /\ pc[j] \in {"tarDiff", "stat", "hash"} =>
       ~errs[j] /\ results[j] = "none" /\ j \in temp
  /\ pc[j] \in {"release", "wgDone"} => Left(j)
  /\ pc[j] = "gone" =>
       IF main \in {"clean", "failed"} THEN results[j] = "diff" \/ j \notin temp
                                       ELSE Left(j)

Outcome ==
  /\ main = "ok" => \A j \in Jobs : ~errs[j]
  /\ main = "failed" => temp = {}

IInv ==
  /\ TypeOK
  /\ Counters
  /\ Phases
  /\ \A j \in Jobs : Slots(j)
  /\ Outcome

-----------------------------------------------------------------------------

\* A set of jobs is finite, and moving one job in or out changes its size by 1.
LEMMA JobSets ==
  ASSUME NEW S \in SUBSET Jobs
  PROVE  /\ IsFiniteSet(S)
         /\ Cardinality(S) \in Nat
         /\ \A j : j \notin S => Cardinality(S \cup {j}) = Cardinality(S) + 1
         /\ \A j \in S : Cardinality(S \ {j}) = Cardinality(S) - 1
         /\ (\E j : j \in S) => Cardinality(S) > 0
         /\ Cardinality(S) = 0 => S = {}
<1>1. IsFiniteSet(S)
  BY JobsAssumption, FS_Subset
<1>2. Cardinality(S) \in Nat
  BY <1>1, FS_CardinalityType
<1>3. \A j : j \notin S => Cardinality(S \cup {j}) = Cardinality(S) + 1
  BY <1>1, FS_AddElement
<1>4. \A j \in S : Cardinality(S \ {j}) = Cardinality(S) - 1
  BY <1>1, FS_RemoveElement
<1>5. Cardinality(S) = 0 => S = {}
  BY <1>1, FS_EmptySet
<1>6. (\E j : j \in S) => Cardinality(S) > 0
  BY <1>2, <1>5
<1>7. QED
  BY <1>1, <1>2, <1>3, <1>4, <1>5, <1>6

\* At first no worker exists and the counters are zero.
LEMMA InitIInv == Init => IInv
<1> SUFFICES ASSUME Init PROVE IInv
  OBVIOUS
<1>1. TypeOK
  BY DEF Init, TypeOK, MainStates, WorkerStates
<1>2. Counters
  <2>1. Holders = {} /\ Live = {}
    BY DEF Init, Holders, Holding, Live
  <2>2. QED
    BY <2>1, FS_EmptySet, ParallelismAssumption DEF Init, Counters
<1>3. Phases /\ Outcome /\ \A j \in Jobs : Slots(j)
  BY DEF Init, Phases, Outcome, Slots
<1>4. QED
  BY <1>1, <1>2, <1>3 DEF IInv

\* Every step of the pool keeps its invariant.
LEMMA NextIInv == IInv /\ [Next]_vars => IInv'
<1> SUFFICES ASSUME IInv, [Next]_vars PROVE IInv'
  OBVIOUS
<1> USE DEF IInv
<1>1. CASE OpenSources
  <2>1. TypeOK' /\ Phases' /\ Outcome' /\ \A j \in Jobs : Slots(j)'
    BY <1>1 DEF OpenSources, TypeOK, MainStates, Phases, Outcome, Slots, Left
  <2>2. Counters'
    BY <1>1 DEF OpenSources, Counters, Holders, Live
  <2>3. QED
    BY <2>1, <2>2
<1>2. ASSUME NEW j \in Jobs, Spawn(j) PROVE IInv'
  <2>1. TypeOK' /\ Phases' /\ Outcome' /\ \A k \in Jobs : Slots(k)'
    BY <1>2 DEF Spawn, TypeOK, WorkerStates, Phases, Outcome, Slots, Left
  <2>2. Counters'
    <3>1. Holders' = Holders /\ Live' = Live \cup {j} /\ j \notin Live
      BY <1>2 DEF Spawn, TypeOK, Holders, Holding, Live
    <3>2. QED
      BY <1>2, <3>1, JobSets DEF Spawn, Counters, Live
  <2>3. QED
    BY <2>1, <2>2
<1>3. CASE AllSpawned
  <2>1. TypeOK' /\ Phases' /\ Outcome' /\ \A j \in Jobs : Slots(j)'
    BY <1>3 DEF AllSpawned, TypeOK, MainStates, Phases, Outcome, Slots, Left
  <2>2. Counters'
    BY <1>3 DEF AllSpawned, Counters, Holders, Live
  <2>3. QED
    BY <2>1, <2>2
<1>4. CASE Wait
  <2>1. \A j \in Jobs : pc[j] = "gone"
    <3>1. Live = {}
      BY <1>4, JobSets DEF Wait, Counters, Live
    <3>2. QED
      BY <1>4, <3>1 DEF Wait, Phases, Live
  <2>2. TypeOK' /\ Phases' /\ Outcome' /\ \A j \in Jobs : Slots(j)'
    BY <1>4, <2>1 DEF Wait, TypeOK, MainStates, Phases, Outcome, Slots, Left
  <2>3. Counters'
    BY <1>4 DEF Wait, Counters, Holders, Live
  <2>4. QED
    BY <2>2, <2>3
<1>5. CASE ScanErrors
  <2>1. TypeOK' /\ Phases' /\ Outcome' /\ \A j \in Jobs : Slots(j)'
    BY <1>5 DEF ScanErrors, TypeOK, MainStates, Phases, Outcome, Slots, Left
  <2>2. Counters'
    BY <1>5 DEF ScanErrors, Counters, Holders, Live
  <2>3. QED
    BY <2>1, <2>2
<1>6. ASSUME NEW j \in Jobs, RemoveResult(j) PROVE IInv'
  <2>1. TypeOK' /\ Phases' /\ Outcome' /\ \A k \in Jobs : Slots(k)'
    BY <1>6 DEF RemoveResult, TypeOK, Phases, Outcome, Slots, Left
  <2>2. Counters'
    BY <1>6 DEF RemoveResult, Counters, Holders, Live
  <2>3. QED
    BY <2>1, <2>2
<1>7. CASE ReturnError
  <2>1. temp = {}
    BY <1>7 DEF ReturnError, TypeOK, Phases, Slots
  <2>2. TypeOK' /\ Phases' /\ Outcome' /\ \A j \in Jobs : Slots(j)'
    BY <1>7, <2>1 DEF ReturnError, TypeOK, MainStates, Phases, Outcome, Slots, Left
  <2>3. Counters'
    BY <1>7 DEF ReturnError, Counters, Holders, Live
  <2>4. QED
    BY <2>2, <2>3
<1>8. ASSUME NEW j \in Jobs, Worker(j) PROVE IInv'
  <2>0. pc[j] \notin {"unborn", "gone"} /\ pc'[j] # "unborn"
    BY <1>8 DEF Worker, Acquire, ReadBlob, CreateTemp, RunTarDiff, Stat, FallBack,
                HashFails, HashDiff, Release, WgDone, Goto, TypeOK
  <2>1. UNCHANGED main /\ main \in {"spawn", "wait"}
    BY <1>8, <2>0 DEF Worker, Acquire, ReadBlob, CreateTemp, RunTarDiff, Stat,
                HashFails, HashDiff, Release, WgDone, Phases, TypeOK, MainStates
  <2>2. pc' = [pc EXCEPT ![j] = pc'[j]]
    BY <1>8 DEF Worker, Acquire, ReadBlob, CreateTemp, RunTarDiff, Stat, FallBack,
                HashFails, HashDiff, Release, WgDone, Goto, TypeOK
  <2>3. Phases' /\ Outcome'
    BY <2>0, <2>1, <2>2 DEF Phases, Outcome, TypeOK
  <2>4. \A k \in Jobs \ {j} : Slots(k)'
    <3>1. \A k \in Jobs \ {j} : /\ pc'[k] = pc[k] /\ results'[k] = results[k]
                                /\ errs'[k] = errs[k] /\ (k \in temp' <=> k \in temp)
      BY <1>8 DEF Worker, Acquire, ReadBlob, CreateTemp, RunTarDiff, Stat, FallBack,
                HashFails, HashDiff, Release, WgDone, Goto, ReturnErr, ReturnResult, TypeOK
    <3>2. QED
      BY <2>1, <3>1 DEF Slots, Left
  <2>5. CASE Acquire(j)
    <3>1. TypeOK' /\ Slots(j)'
      BY <2>5 DEF Acquire, Goto, TypeOK, WorkerStates, Slots
    <3>2. Holders' = Holders \cup {j} /\ j \notin Holders /\ Live' = Live
      BY <2>5 DEF Acquire, Goto, TypeOK, Holders, Holding, Live
    <3>3. Cardinality(Holders') = Cardinality(Holders) + 1
      <4>1. Holders \in SUBSET Jobs
        BY DEF Holders
      <4>2. QED
        BY <3>2, <4>1, JobSets
    <3>4. Counters'
      BY <2>5, <3>2, <3>3, ParallelismAssumption DEF Acquire, Counters, TypeOK
    <3>5. QED
      BY <2>3, <2>4, <3>1, <3>4
  <2>6. CASE ReadBlob(j) \/ CreateTemp(j) \/ RunTarDiff(j) \/ Stat(j) \/ HashFails(j) \/ HashDiff(j)
    <3>1. TypeOK'
      BY <2>6 DEF ReadBlob, CreateTemp, RunTarDiff, Stat, FallBack, HashFails, HashDiff,
                  Goto, ReturnErr, ReturnResult, TypeOK, WorkerStates
    <3>2. Slots(j)'
      BY <2>1, <2>6 DEF ReadBlob, CreateTemp, RunTarDiff, Stat, FallBack, HashFails, HashDiff,
                  Goto, ReturnErr, ReturnResult, TypeOK, Slots, Left
    <3>3. Holders' = Holders /\ Live' = Live /\ UNCHANGED <<sem, wg>>
      BY <2>6 DEF ReadBlob, CreateTemp, RunTarDiff, Stat, FallBack, HashFails, HashDiff,
                  Goto, TypeOK, Holders, Holding, Live
    <3>4. Counters'
      BY <3>3 DEF Counters
    <3>5. QED
      BY <2>3, <2>4, <3>1, <3>2, <3>4
  <2>7. CASE Release(j)
    <3>1. Holders' = Holders \ {j} /\ j \in Holders /\ Live' = Live
      BY <2>7 DEF Release, Goto, TypeOK, Holders, Holding, Live
    <3>2. Cardinality(Holders') = Cardinality(Holders) - 1 /\ Cardinality(Holders) > 0
      <4>1. Holders \in SUBSET Jobs
        BY DEF Holders
      <4>2. QED
        BY <3>1, <4>1, JobSets
    <3>3. Counters' /\ sem' \in Nat
      BY <2>7, <3>1, <3>2, ParallelismAssumption DEF Release, Counters, TypeOK
    <3>4. TypeOK' /\ Slots(j)'
      BY <2>7, <3>3 DEF Release, Goto, TypeOK, WorkerStates, Slots, Left
    <3>5. QED
      BY <2>3, <2>4, <3>3, <3>4
  <2>8. CASE WgDone(j)
    <3>1. Live' = Live \ {j} /\ j \in Live /\ Holders' = Holders
      BY <2>8 DEF WgDone, Goto, TypeOK, Holders, Holding, Live
    <3>2. Counters' /\ wg' \in Nat
      BY <2>8, <3>1, JobSets DEF WgDone, Counters, Live, TypeOK
    <3>3. TypeOK' /\ Slots(j)'
      BY <2>1, <2>8, <3>2 DEF WgDone, Goto, TypeOK, WorkerStates, Slots, Left
    <3>4. QED
      BY <2>3, <2>4, <3>2, <3>3
  <2>9. QED
    BY <1>8, <2>5, <2>6, <2>7, <2>8 DEF Worker
<1>9. CASE UNCHANGED vars
  BY <1>9 DEF vars, TypeOK, Counters, Holders, Live, Phases, Slots, Left, Outcome
<1>10. QED
  BY <1>1, <1>2, <1>3, <1>4, <1>5, <1>6, <1>7, <1>8, <1>9 DEF Next, Main, Terminating

\* The inductive invariant holds in every run of the pool.
THEOREM PoolInvariant == Spec => []IInv
<1>1. QED
  BY InitIInv, NextIInv, PTL DEF Spec

\* However many layers there are and whatever fails, never more than
\* Parallelism of them are being diffed (create.go:404-414).
THEOREM ParallelismBounded == Spec => []AtMostParallelism
<1>1. IInv => AtMostParallelism
  BY DEF IInv, Counters, AtMostParallelism
<1>2. QED
  BY <1>1, PoolInvariant, PTL

\* Temporary files: none after an error, exactly those of the returned paths
\* after a success.
THEOREM NoFileLeaks == Spec => []TempFilesAccounted
<1>1. IInv => TempFilesAccounted
  BY DEF IInv, TypeOK, Phases, Slots, Left, Outcome, TempFilesAccounted
<1>2. QED
  BY <1>1, PoolInvariant, PTL

\* A success has a result for every layer.
THEOREM SuccessHasAllResults == Spec => []SuccessIsTotal
<1>1. IInv => SuccessIsTotal
  BY DEF IInv, Phases, Slots, Left, Outcome, SuccessIsTotal
<1>2. QED
  BY <1>1, PoolInvariant, PTL

\* The slots the main goroutine reads after wg.Wait are written by nobody.
THEOREM SlotsStableAfterWait == Spec => NoWorkerWritesAfterWait
<1>1. IInv /\ [Next]_vars =>
        [/\ main \in {"scan", "clean", "ok", "failed"} => UNCHANGED <<results, errs>>
         /\ main \in {"scan", "ok", "failed"} => UNCHANGED temp]_vars
  <2> SUFFICES ASSUME IInv, Next, main \in {"scan", "clean", "ok", "failed"}
               PROVE  /\ UNCHANGED <<results, errs>>
                      /\ main # "clean" => UNCHANGED temp
    BY DEF vars
  <2>1. \A j \in Jobs : pc[j] \in {"unborn", "gone"}
    BY DEF IInv, Phases
  <2>2. \A j \in Jobs : ~Worker(j)
    BY <2>1 DEF Worker, Acquire, ReadBlob, CreateTemp, RunTarDiff, Stat, FallBack,
                HashFails, HashDiff, Release, WgDone, Goto
  <2>3. CASE Main
    BY <2>3 DEF Main, OpenSources, AllSpawned, Wait, ScanErrors, ReturnError, Spawn, RemoveResult
  <2>4. CASE Terminating
    BY <2>4 DEF Terminating, vars
  <2>5. QED
    BY <2>2, <2>3, <2>4 DEF Next
<1>2. QED
  BY <1>1, PoolInvariant, PTL DEF NoWorkerWritesAfterWait, Spec

-----------------------------------------------------------------------------
(* The pool implements the batch *)

\* The pool starts as the batch does.
LEMMA BatchInit == Init => Batch!Init
BY DEF Init, Batch!Init, Returned

\* Every step that leaves the main goroutine short of its return, or past it,
\* is invisible to the caller; the two returning steps are the batch's.
LEMMA BatchNext == IInv /\ [Next]_vars => [Batch!Next]_Batch!vars
<1> SUFFICES ASSUME IInv, [Next]_vars PROVE [Batch!Next]_Batch!vars
  OBVIOUS
<1> USE DEF Returned
<1>1. CASE ~Returned /\ ~Returned'
  BY <1>1 DEF Batch!vars
<1>2. CASE Returned
  <2>1. ~Main
    BY <1>2 DEF Main, OpenSources, AllSpawned, Wait, ScanErrors, ReturnError, Spawn, RemoveResult
  <2>2. \A j \in Jobs : ~Worker(j)
    <3>1. \A j \in Jobs : pc[j] \in {"unborn", "gone"}
      BY <1>2 DEF IInv, Phases
    <3>2. QED
      BY <3>1 DEF Worker, Acquire, ReadBlob, CreateTemp, RunTarDiff, Stat, FallBack,
                  HashFails, HashDiff, Release, WgDone, Goto
  <2>3. UNCHANGED vars
    BY <2>1, <2>2 DEF Next, Terminating
  <2>4. QED
    BY <2>3 DEF vars, Batch!vars
<1>3. CASE ~Returned /\ main' = "ok"
  <2>1. ScanErrors
    BY <1>3 DEF Next, Main, OpenSources, AllSpawned, Wait, ScanErrors, ReturnError, Spawn,
                RemoveResult, Worker, Acquire, ReadBlob, CreateTemp, RunTarDiff, Stat,
                HashFails, HashDiff, Release, WgDone, Terminating, vars
  <2>2. \A j \in Jobs : /\ results[j] \in {"diff", "original"}
                        /\ j \in temp <=> results[j] = "diff"
    BY <1>3, <2>1 DEF IInv, Phases, Slots, Left, ScanErrors
  <2>3. results \in [Jobs -> {"diff", "original"}] /\ temp = {j \in Jobs : results[j] = "diff"}
    BY <2>2 DEF IInv, TypeOK
  <2>4. QED
    BY <1>3, <2>1, <2>3 DEF ScanErrors, Batch!Next, Batch!Succeed
<1>4. CASE ~Returned /\ main' = "failed"
  <2>1. temp' = {}
    BY <1>4, NextIInv DEF IInv, Outcome
  <2>2. QED
    BY <1>4, <2>1 DEF Batch!Next, Batch!Fail
<1>5. QED
  BY <1>1, <1>2, <1>3, <1>4

\* Whatever the interleaving of the goroutines, the caller sees one atomic
\* answer: an error with nothing left, or a choice for every layer with the
\* temporary files it calls for.
THEOREM PoolImplementsBatch == Spec => ImplementsBatch
<1>1. QED
  BY BatchInit, BatchNext, PoolInvariant, PTL DEF ImplementsBatch, Batch!Spec, Spec

================================================================================
