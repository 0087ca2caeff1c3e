------------------------------- MODULE OCIWriter -------------------------------
(***************************************************************************)
(* An OCI layout under construction: the tar archive or the directory      *)
(* behind an OCIWriter (ocistorage.go:295-398).  A write first creates the *)
(* entry and then fills it, so a crash or an I/O error in between leaves   *)
(* it torn.  Writing a name again replaces the earlier entry: a directory  *)
(* truncates the file, a reader of an archive uses the last entry          *)
(* (ocistorage.go:205).                                                    *)
(***************************************************************************)
EXTENDS OCI

VARIABLES files,         \* name -> content, for the entries that exist
          writing        \* the write in progress

NotWriting == [kind |-> "idle"]

Torn == [kind |-> "torn"]

Write(name, content) == [kind |-> "write", name |-> name, content |-> content]

WriterInit ==
  /\ files = [n \in {} |-> Torn]
  /\ writing = NotWriting

Idle == writing = NotWriting

\* The entry exists (again) and none of its new content is safe yet.
BeginWrite(name, content) ==
  /\ Idle
  /\ files' = [n \in DOMAIN files \cup {name} |->
                 IF n = name THEN Torn ELSE files[n]]
  /\ writing' = Write(name, content)

EndWrite ==
  /\ ~Idle
  /\ files' = [files EXCEPT ![writing.name] = writing.content]
  /\ writing' = NotWriting

\* The writer is given up, perhaps in the middle of a write: what reached the
\* disk stays there.
AbortWrite ==
  /\ writing' = NotWriting
  /\ UNCHANGED files

-----------------------------------------------------------------------------
(* What a reader of the layout finds. *)

Has(name) == name \in DOMAIN files

\* A blob whose content is what its digest says.
Intact(digest) == Has(digest) /\ files[digest] = digest

\* The layout can be opened: index.json is there and parses.
Published == Has(IndexFile) /\ files[IndexFile] # Torn

PublishedManifest == files[IndexFile].manifest

=============================================================================
