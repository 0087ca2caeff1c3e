------------------------------- MODULE Signatures -------------------------------
(***************************************************************************)
(* The way of a signature: out of the one blob where containers/storage    *)
(* keeps the signatures of an image (containerstorage.go:113-262), into    *)
(* the delta beside those given with --signature (create.go:511-549), and  *)
(* to VerifyDeltaSignature (verify.go:20-112).  Another process may sign   *)
(* the image while it is read, and blobs of the delta may be damaged.      *)
(***************************************************************************)
EXTENDS SequencesExt

CONSTANTS Stored,         \* signatures a store may hold
          Initial,        \* the lists of them an image may have
          Given,          \* lists of signature artifacts given with --signature
          Key, Target     \* the verifier's key, the embedded manifest's digest

(***************************************************************************)
(* A signature has a form ("sigstore", or one that is skipped), a length   *)
(* in the blob, a payload, and an annotation: who signed which payload.    *)
(***************************************************************************)
Payload(type, image) == [type |-> type, image |-> image]
SignedBy(signer, payload) == [signer |-> signer, payload |-> payload]
NoAnnotation == SignedBy("nobody", Payload("none", "none"))
Signature(form, len, payload, annotation) ==
  [form |-> form, len |-> len, payload |-> payload, annotation |-> annotation]

VARIABLES stored,         \* the signatures in the blob, by key
          listed,         \* those whose sizes the metadata lists, by key
          signed,         \* all that were ever stored or given
          resigned,       \* the image was signed again
          sizes, from,    \* what getSignatureSizes returned
          embedded,       \* the delta's signature manifests: lists of layers
          damaged,        \* payloads whose blob is damaged in the delta
          i, j,           \* indices of the loops of VerifyDeltaSignature
          pc

vars == <<stored, listed, signed, resigned, sizes, from, embedded, damaged, i, j, pc>>

store == <<stored, listed, signed, resigned>>
delta == <<embedded, damaged>>

\* The blob has one unit per byte: which signature it belongs to and where.
Units(sig) == [k \in 1..sig.len |-> [sig |-> sig, at |-> k]]
Concatenation(sigs) == FlattenSeq([k \in DOMAIN sigs |-> Units(sigs[k])])

Init ==
  /\ stored \in [{"signatures", "signature-digest"} -> Initial]
  /\ listed = stored
  /\ \E given \in Given :
       /\ embedded = given
       /\ signed = (UNION {ToSet(stored[k]) : k \in DOMAIN stored}) \cup
                   (UNION {ToSet(given[k]) : k \in DOMAIN given})
  /\ resigned = FALSE
  /\ sizes = <<>> /\ from = "none"
  /\ damaged = {}
  /\ i = 1 /\ j = 1
  /\ pc = "sizes"

-----------------------------------------------------------------------------
(* Another process replaces the signatures of the image: the blob and the    *)
(* metadata are two calls of the store.                                      *)

SignAgain(key, sig) ==
  /\ ~resigned /\ pc \in {"sizes", "blob"}
  /\ \E sigs \in {<<sig>>, Append(stored[key], sig)} : stored' = [stored EXCEPT ![key] = sigs]
  /\ signed' = signed \cup {sig}
  /\ resigned' = TRUE
  /\ UNCHANGED <<listed, sizes, from, delta, i, j, pc>>

ListAgain ==
  /\ listed # stored /\ pc \in {"sizes", "blob"}
  /\ listed' = stored
  /\ UNCHANGED <<stored, signed, resigned, sizes, from, delta, i, j, pc>>

-----------------------------------------------------------------------------
(* Creating the delta *)

\* The list of the image, else the one of its manifest's digest.
GetSignatureSizes ==
  /\ pc = "sizes"
  /\ from' = IF listed["signatures"] # <<>> THEN "signatures" ELSE "signature-digest"
  /\ sizes' = [k \in DOMAIN listed[from'] |-> listed[from'][k].len]
  /\ pc' = "blob"
  /\ UNCHANGED <<store, delta, i, j>>

\* A slice that is one whole signature of the right form; anything else lacks
\* the prefix or does not parse.
Parses(slice) ==
  slice # <<>> /\ slice = Units(slice[1].sig) /\ slice[1].sig.form = "sigstore"

\* Variant: the offset only moves past the signatures that parse.
OffsetSkipping(blob, k) ==
  FoldLeft(LAMBDA at, n :
             IF at + n <= Len(blob) /\ Parses(SubSeq(blob, at + 1, at + n)) THEN at + n ELSE at,
           0, SubSeq(sizes, 1, k - 1))

\* Where the k-th signature begins: after all of those before it.
Offset(blob, k) ==
  LET end[n \in 0..Len(sizes)] == IF n = 0 THEN 0 ELSE end[n - 1] + sizes[n]
  IN end[k - 1]

Slice(blob, k) == SubSeq(blob, Offset(blob, k) + 1, Offset(blob, k) + sizes[k])

InBlob(blob, k) == Offset(blob, k) + sizes[k] <= Len(blob)

ParseSigstoreBlobs(blob) ==
  LET parsed[n \in 0..Len(sizes)] ==
        IF n = 0 THEN <<>>
        ELSE IF InBlob(blob, n) /\ Parses(Slice(blob, n))
             THEN Append(parsed[n - 1], Slice(blob, n)[1].sig)
             ELSE parsed[n - 1]
  IN parsed[Len(sizes)]

\* buildSignatureArtifact: one manifest, a layer per signature; none if there is
\* none.  The artifacts given on the command line follow.
ExtractSignatures ==
  /\ pc = "blob"
  /\ LET sigs == ParseSigstoreBlobs(Concatenation(stored[from]))
     IN embedded' = IF sigs = <<>> THEN embedded ELSE <<sigs>> \o embedded
  /\ pc' = "verify"
  /\ UNCHANGED <<store, sizes, from, damaged, i, j>>

Damage(payload) ==
  /\ pc = "verify" /\ payload \notin damaged
  /\ damaged' = damaged \cup {payload}
  /\ UNCHANGED <<store, sizes, from, embedded, i, j, pc>>

-----------------------------------------------------------------------------
(* VerifyDeltaSignature *)

\* Variant: what the payload is about is not compared.
PassesForAnyImage(layer) ==
  /\ layer.payload \notin damaged
  /\ layer.annotation = SignedBy(Key, layer.payload)
  /\ layer.payload.type = "cosign"

\* verifySignatureLayer: the payload is read with its digest, the annotation is
\* the key's signature of it, and it names the embedded manifest.
Passes(layer) ==
  /\ layer.payload \notin damaged
  /\ layer.annotation = SignedBy(Key, layer.payload)
  /\ layer.payload.type = "cosign"
  /\ layer.payload.image = Target

\* The layer at j is the last of its manifest.
LastLayer(manifest) == j >= Len(manifest)

VerifyLayer ==
  /\ pc = "verify" /\ i <= Len(embedded)
  /\ IF embedded[i] # <<>> /\ Passes(embedded[i][j])
       THEN pc' = "verified" /\ UNCHANGED <<i, j>>
       ELSE /\ IF LastLayer(embedded[i]) THEN i' = i + 1 /\ j' = 1 ELSE j' = j + 1 /\ i' = i
            /\ UNCHANGED pc
  /\ UNCHANGED <<store, sizes, from, delta>>

Reject ==
  /\ pc = "verify" /\ i > Len(embedded)
  /\ pc' = "rejected"
  /\ UNCHANGED <<store, sizes, from, delta, i, j>>

Next ==
  \/ \E key \in DOMAIN stored, sig \in Stored : SignAgain(key, sig)
  \/ ListAgain \/ GetSignatureSizes \/ ExtractSignatures
  \/ \E sig \in signed : Damage(sig.payload)
  \/ VerifyLayer \/ Reject
  \/ pc \in {"verified", "rejected"} /\ UNCHANGED vars

Spec == Init /\ [][Next]_vars

-----------------------------------------------------------------------------
(* Properties *)

\* A signature that vouches for the delta's image.
Genuine(sig) ==
  /\ sig.annotation = SignedBy(Key, sig.payload)
  /\ sig.payload.type = "cosign" /\ sig.payload.image = Target

\* A delta is only verified by a signature that was once made, by the key, for
\* the image it carries: cutting one blob by a list of sizes, also one that is
\* out of date, never joins parts of several (containerstorage.go:144-168,
\* verify.go:49-90).
VerifiedIsSigned == pc = "verified" => \E sig \in signed : sig.form = "sigstore" /\ Genuine(sig)

\* A genuine signature is not lost among others: not by ones of another form,
\* of other keys or images, or without annotation, whether they stand before it
\* in the blob, in its manifest or in another manifest.  Only damage, or
\* signing the image while it is read, can hide it.
SignedIsVerified ==
  pc = "rejected" /\ damaged = {} /\ ~resigned =>
    /\ \A k \in DOMAIN embedded : \A sig \in ToSet(embedded[k]) : ~Genuine(sig)
    /\ LET key == IF stored["signatures"] # <<>> THEN "signatures" ELSE "signature-digest"
       IN \A sig \in ToSet(stored[key]) : ~(sig.form = "sigstore" /\ Genuine(sig))

=============================================================================
