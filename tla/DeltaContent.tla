---------------------------- MODULE DeltaContent ----------------------------
(***************************************************************************)
(* What is read out of a delta, each part on its own: the manifest by both *)
(* parsers (DeltaParse), the signatures (Signatures), and in the Rust      *)
(* crate the layers (TarPatch) and the integers of tar-diffs (Uvarint).    *)
(***************************************************************************)
EXTENDS Components, OCI

CONSTANTS Parts, MaxParts, Sources, Damages, DeltaType, OtherType,
          Stored, Initial, Given, VerifyKey, Target,
          Byte, OldFiles, NoPath, Ops, MaxOps, MaxAddData, MaxDict,
          Width, Group, MaxBytes

VARIABLES dm, artifactType, damaged,
          inStore, listed, signed, resigned, sizes, from, embedded, lost,
          manifestAt, layerAt, verifyPc,
          media, program, version, whole, expected, pos, openPath, cursor, out, outHash, patchPc,
          unread, consumed, value, shift, outcome

parseVars == <<dm, artifactType, damaged>>
signatureVars ==
  <<inStore, listed, signed, resigned, sizes, from, embedded, lost, manifestAt, layerAt, verifyPc>>
patchVars ==
  <<media, program, version, whole, expected, pos, openPath, cursor, out, outHash, patchPc>>
uvarintVars == <<unread, consumed, value, shift, outcome>>

Parse == INSTANCE DeltaParse

Sig == INSTANCE Signatures WITH
  Key <- VerifyKey, stored <- inStore, damaged <- lost, i <- manifestAt, j <- layerAt, pc <- verifyPc

Patch == INSTANCE TarPatch WITH
  Files <- OldFiles, path <- openPath, hashed <- outHash, pc <- patchPc

Integer == INSTANCE Uvarint WITH result <- value

(***************************************************************************)
(* A sigstore signature takes some bytes, those of its prefix at least     *)
(* (containerstorage.go:155).  What is given with --signature are          *)
(* manifests of signatures already made (create.go:511-549).               *)
(***************************************************************************)
StoredSignature(sig) == sig.len \in Nat /\ (sig.form = "sigstore" => sig.len # 0)

ASSUME SignaturesAssumption ==
  /\ \A sig \in Stored : StoredSignature(sig)
  /\ \A sigs \in Initial :
       /\ sigs \in Seq({sigs[k] : k \in DOMAIN sigs})
       /\ \A k \in DOMAIN sigs : StoredSignature(sigs[k])
  /\ \A given \in Given :
       /\ given \in Seq({given[k] : k \in DOMAIN given})
       /\ \A k \in DOMAIN given :
            /\ given[k] \in Seq({given[k][l] : l \in DOMAIN given[k]})
            /\ \A l \in DOMAIN given[k] : given[k][l].form = "sigstore"

(***************************************************************************)
(* Only data, add and dict ops carry bytes (a path is the op's argument),  *)
(* only a dictionary's frame may end before them, and positions are not    *)
(* negative (lib.rs:207-269).                                              *)
(***************************************************************************)
ASSUME OpsAssumption ==
  \A op \in Ops :
    /\ op.payload \in Seq(Nat) /\ op.trailing \in Seq(Nat)
    /\ op.code \notin {"data", "add", "dict"} => op.payload = <<>>
    /\ op.code # "dict" => op.trailing = <<>>
    /\ op.code \in {"seek", "copy"} => op.arg \in Nat

ASSUME FilesAssumption ==
  NoPath \notin DOMAIN OldFiles /\ \A p \in DOMAIN OldFiles : OldFiles[p] \in Seq(Nat)

(***************************************************************************)
(* The integers are u64, in groups of 7 bits (lib.rs:105-119).             *)
(***************************************************************************)
ASSUME IntegerAssumption == Width \in Nat \ {0} /\ Group \in Nat

ParseIdle == dm = Idle /\ artifactType = Idle /\ damaged = Idle

SignatureIdle ==
  /\ inStore = Idle /\ listed = Idle /\ signed = Idle /\ resigned = Idle /\ sizes = Idle
  /\ from = Idle /\ embedded = Idle /\ lost = Idle /\ manifestAt = Idle /\ layerAt = Idle
  /\ verifyPc = Idle

PatchIdle ==
  /\ media = Idle /\ program = Idle /\ version = Idle /\ whole = Idle /\ expected = Idle
  /\ pos = Idle /\ openPath = Idle /\ cursor = Idle /\ out = Idle /\ outHash = Idle
  /\ patchPc = Idle

UvarintIdle ==
  unread = Idle /\ consumed = Idle /\ value = Idle /\ shift = Idle /\ outcome = Idle

ContentInit ==
  /\ component \in {"parse", "signatures", "patch", "uvarint"}
  /\ IF component = "parse" THEN Parse!Init ELSE ParseIdle
  /\ IF component = "signatures" THEN Sig!Init ELSE SignatureIdle
  /\ IF component = "patch" THEN Patch!Init ELSE PatchIdle
  /\ IF component = "uvarint" THEN Integer!Init ELSE UvarintIdle

ContentNext ==
  /\ UNCHANGED component
  /\ \/ /\ component = "parse" /\ Parse!Next
        /\ UNCHANGED <<signatureVars, patchVars, uvarintVars>>
     \/ /\ component = "signatures" /\ Sig!Next
        /\ UNCHANGED <<parseVars, patchVars, uvarintVars>>
     \/ /\ component = "patch" /\ Patch!Next
        /\ UNCHANGED <<parseVars, signatureVars, uvarintVars>>
     \/ /\ component = "uvarint" /\ Integer!Next
        /\ UNCHANGED <<parseVars, signatureVars, patchVars>>

contentVars == <<component, parseVars, signatureVars, patchVars, uvarintVars>>

ContentSpec == ContentInit /\ [][ContentNext]_contentVars

-----------------------------------------------------------------------------
(* The components' properties, as they are stated and explained there *)

\* DeltaParse: what the crate accepts, the program accepts and reads alike.
RustAcceptsLikeGo == component = "parse" => Parse!RustAcceptsLikeGo

\* DeltaParse: the parts' roles do not depend on their positions.
RolesNotPositions == component = "parse" => Parse!RolesNotPositions

\* Signatures: only a genuine signature verifies the delta.
VerifiedIsSigned == component = "signatures" => Sig!VerifiedIsSigned

\* Signatures: a genuine signature is not lost among others.
SignedIsVerified == component = "signatures" => Sig!SignedIsVerified

\* TarPatch: success is the expected layer.
OkIsTheLayer == component = "patch" => Patch!OkIsTheLayer

\* TarPatch: every op does what the format says.
FollowsTheFormat == component = "patch" => Patch!FollowsTheFormat

\* Uvarint: exactly what the bytes stand for, or an error, and no byte too many.
DecodesExactly == component = "uvarint" => Integer!DecodesExactly

=============================================================================
