-------------------------------- MODULE Layouts --------------------------------
(***************************************************************************)
(* The two forms of an OCI layout, a tar archive and a directory, given    *)
(* the same calls of an OCIWriter (ocistorage.go:295-398), and what the    *)
(* OCIReader of each finds in it (ocistorage.go:96-290): the entries of a  *)
(* name that was written twice, of a stream that is shorter or longer than *)
(* was announced, and the manifest that an image reference chooses in      *)
(* index.json.                                                             *)
(***************************************************************************)
EXTENDS Integers, SequencesExt

CONSTANTS Digests,     \* digests of the blobs written
          RefNames,    \* image names that do not begin with "@"
          NoName,      \* the empty image name
          IndexJSON,   \* the name index.json
          Lengths,     \* lengths a blob's stream may be announced with and have
          MaxManifests, MaxEntries    \* bounds: manifests of an index, writes

VARIABLES archive,     \* the entries of the tar in order: name, content, complete
          dir,         \* name -> content of the files of the directory
          tarState     \* "open"; "closed" with no error from any call; "failed"

vars == <<archive, dir, tarState>>

\* Contents: the first n bytes of the stream of a blob; index.json is a list of
\* manifests; what a write that was cut off left.
Bytes(d, n) == [kind |-> "blob", digest |-> d, length |-> n]
Short == [kind |-> "short"]
Index(manifests) == [kind |-> "index", manifests |-> manifests]

\* buildIndexDescriptor (common.go:164): the image name becomes ref.name.
BuildIndexDescriptor(d, imageName) == [digest |-> d, ref |-> imageName]

-----------------------------------------------------------------------------
(* Writers.  A directory takes what it is given.  tar.Writer takes no more    *)
(* than was announced, and remembers how much of the last entry is missing:   *)
(* the call that wrote too little reports nothing (common.go:142-154), the    *)
(* next header or Close fails.                                                *)

Init == archive = <<>> /\ dir = [n \in {} |-> Short] /\ tarState = "open"

Pending == archive # <<>> /\ ~Last(archive).complete

TarWrite(name, content, complete) ==
  archive' = IF Pending THEN archive
             ELSE Append(archive, [name |-> name, content |-> content,
                                   complete |-> complete])

DirWrite(name, content) ==
  dir' = [n \in DOMAIN dir \cup {name} |-> IF n = name THEN content ELSE dir[n]]

Writing == tarState = "open" /\ Len(archive) < MaxEntries

\* The stream has n bytes; size were announced.  tar.Writer keeps size of them
\* and reports the rest (ErrWriteTooLong); the caller then gives up.
WriteFileFromReader(d, size, n) ==
  /\ Writing
  /\ TarWrite(d, Bytes(d, IF n < size THEN n ELSE size), n >= size)
  /\ DirWrite(d, Bytes(d, n))
  /\ tarState' = IF Pending \/ n > size THEN "failed" ELSE "open"

WriteFile(name, content) ==
  /\ Writing
  /\ TarWrite(name, content, TRUE)
  /\ DirWrite(name, content)
  /\ tarState' = IF Pending THEN "failed" ELSE "open"

\* A write is cut off by an I/O error or the end of the process.
WriteCutOff(name) ==
  /\ Writing
  /\ TarWrite(name, Short, FALSE)
  /\ DirWrite(name, Short)
  /\ tarState' = "failed"

\* Close of the archive's writer reports an entry that is not complete.
CloseWriter ==
  /\ tarState = "open"
  /\ tarState' = IF Pending THEN "failed" ELSE "closed"
  /\ UNCHANGED <<archive, dir>>

\* Between two writes the caller gives up, or the process ends.
Stop == tarState = "open" /\ tarState' = "failed" /\ UNCHANGED <<archive, dir>>

Descriptors == {BuildIndexDescriptor(d, r) : d \in Digests, r \in RefNames \cup {NoName}}

Indexes == {Index(ms) : ms \in SeqOf(Descriptors, MaxManifests)}

Next ==
  \/ \E d \in Digests : \E size, n \in Lengths : WriteFileFromReader(d, size, n)
  \/ \E content \in Indexes : WriteFile(IndexJSON, content)
  \/ \E name \in Digests \cup {IndexJSON} : WriteCutOff(name)
  \/ CloseWriter
  \/ Stop
  \/ tarState # "open" /\ UNCHANGED vars

Spec == Init /\ [][Next]_vars

-----------------------------------------------------------------------------
(* Readers *)

NotFound == [kind |-> "error"]
Panic == [kind |-> "panic"]
Found(d) == [kind |-> "found", digest |-> d]

\* indexTarArchive reads to the end of the last entry or fails.
TarOpens == \A k \in DOMAIN archive : archive[k].complete

\* Variant: the first entry of a name is kept.
TarEntryFirst(name) == SelectInSeq(archive, LAMBDA e : e.name = name)

\* entries[hdr.Name] of a later entry replaces the earlier one; 0 if none.
TarEntry(name) == SelectLastInSeq(archive, LAMBDA e : e.name = name)

TarRead(name) == IF TarEntry(name) = 0 THEN NotFound ELSE archive[TarEntry(name)].content

DirRead(name) == IF name \in DOMAIN dir THEN dir[name] ELSE NotFound

\* The forms of an image name in a reference path:name.
Unnamed == [form |-> "none"]
Named(ref) == [form |-> "name", ref |-> ref]
At(pos) == [form |-> "position", pos |-> pos]
AtText == [form |-> "text"]         \* "@" and no number

\* Only the upper bound is compared (ocistorage.go:112).
AtPosition(manifests, pos) ==
  IF pos >= Len(manifests) THEN NotFound
  ELSE IF pos < 0 THEN Panic ELSE Found(manifests[pos + 1].digest)

FirstNamed(manifests, ref) ==
  LET k == SelectInSeq(manifests, LAMBDA m : m.ref = ref)
  IN IF k = 0 THEN NotFound ELSE Found(manifests[k].digest)

ParseManifestDigestFromIndex(content, image) ==
  IF content.kind # "index" \/ content.manifests = <<>> \/ image = AtText THEN NotFound
  ELSE IF image.form = "position" THEN AtPosition(content.manifests, image.pos)
  ELSE IF image.form = "name" THEN FirstNamed(content.manifests, image.ref)
  ELSE Found(content.manifests[1].digest)

GetManifestDigest(content, image) == ParseManifestDigestFromIndex(content, image)

-----------------------------------------------------------------------------
(* Properties *)

Names == Digests \cup {IndexJSON}
ImageNames ==
  {Unnamed, AtText} \cup {Named(r) : r \in RefNames} \cup
  {At(p) : p \in -1..MaxManifests}

\* The archive has the beginning of the stream that the directory has, and the
\* call that wrote it, the last one, reported an error.
CutAtSize(n) ==
  /\ tarState = "failed" /\ n \in Digests /\ Last(archive).name = n
  /\ \E size, length \in Lengths :
       size < length /\ TarRead(n) = Bytes(n, size) /\ DirRead(n) = Bytes(n, length)

\* An archive that was closed without an error opens, although the call that
\* wrote too little reported none; and whatever opens answers every read as the
\* directory written by the same calls: the last write of a name counts in both,
\* nothing that ended early is found.  They differ in one thing, a stream longer
\* than was announced: the archive cuts it and reports that, the directory keeps
\* it all and does not (common.go:142-154, ocistorage.go:197-212 and 369-394).
ReadersAgree ==
  /\ tarState = "closed" => TarOpens
  /\ TarOpens =>
       /\ \A n \in Names : TarRead(n) = DirRead(n) \/ CutAtSize(n)
       /\ \A image \in ImageNames :
            GetManifestDigest(TarRead(IndexJSON), image) =
              GetManifestDigest(DirRead(IndexJSON), image)

=============================================================================
