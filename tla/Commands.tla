-------------------------------- MODULE Commands --------------------------------
(***************************************************************************)
(* The three commands around CreateDelta, ApplyDelta and ImportDelta       *)
(* (cmd/create.go:98-180, cmd/apply.go:49-145, cmd/import.go:49-114): what *)
(* each acquires, in which order, where it may fail, and the               *)
(* deferred calls that run in reverse when it returns.  Images and deltas  *)
(* may be in containers/storage: such a reader opens the store, finds the  *)
(* image, exports what it needs, and shuts the store down when it is       *)
(* closed (ocistorage.go:41-62, 594-598).  All of them share one store.    *)
(* A release may fail, and nobody looks at its error.                      *)
(***************************************************************************)
EXTENDS SequencesExt

VARIABLES command,      \* "create", "apply" or "import"
          source,       \* --container-storage, or another source of apply
          inStorage,    \* the readers whose image is in containers/storage
          step,         \* index of the next statement, or past the end
          deferred,     \* the deferred calls, the last one runs first
          held,         \* what is acquired and not released
          left,         \* what was given up: releases that failed, a reader
                        \* that opened the store for an image it did not find
          storeUp,      \* the store is open
          misused,      \* the store was used while it was shut down
          pc            \* "running", "returning", "done"

vars ==
  <<command, source, inStorage, step, deferred, held, left, storeUp, misused, pc>>

config == <<command, source, inStorage>>

Readers == {"old", "new", "signature", "delta"}

Statements ==
  CASE command = "create" -> <<"tmpDir", "old", "new", "signature", "writer", "work">>
    [] command = "apply" /\ source = "storage" ->
         <<"tmpDir", "delta", "parse", "verify", "store", "mount", "writer", "work">>
    [] command = "apply" /\ source # "storage" ->
         <<"tmpDir", "delta", "parse", "verify", "source", "writer", "work">>
    [] command = "import" ->
         <<"store", "tmpDir", "delta", "parse", "verify", "mount", "work">>

\* Variant: the store's shutdown is deferred after the data source's cleanup.
DefersMisordered(s) ==
  CASE s = "store" -> <<>>
    [] s = "mount" -> <<"mount", "store">>
    [] s = "parse" -> <<"delta">>
    [] s \in {"tmpDir", "old", "new", "signature", "source"} -> <<s>>
    [] OTHER -> <<>>

\* The deferred call that follows a statement: delta.Close only after the parse,
\* before that a failure closes the reader itself; the writer is never deferred.
Defers(s) ==
  CASE s = "parse" -> <<"delta">>
    [] s \in {"tmpDir", "old", "new", "signature", "store", "source", "mount"} -> <<s>>
    [] OTHER -> <<>>

Init ==
  /\ command \in {"create", "apply", "import"}
  /\ source \in {"storage", "other"}
  /\ inStorage \in SUBSET Readers
  /\ step = 1 /\ deferred = <<>> /\ held = {} /\ left = {}
  /\ storeUp = FALSE /\ misused = FALSE
  /\ pc = "running"

At(s) == pc = "running" /\ Statements[step] = s

Advance(s) ==
  /\ step' = step + 1
  /\ deferred' = deferred \o Defers(s)
  /\ pc' = IF step = Len(Statements) THEN "returning" ELSE "running"

Shuts(d) == d = "store" \/ d \in inStorage

\* The parts of a release that may fail.
MayFail(d) ==
  IF d = "store" THEN {"shutdown"} ELSE IF Shuts(d) THEN {d, "shutdown"} ELSE {d}

\* The release of d, of what was held while the store was up or not: it removes,
\* unmounts or closes, and the store's owners also call Shutdown(false), which is
\* refused while a layer is mounted.
Release(d, had, up) ==
  \E failures \in SUBSET MayFail(d) :
    /\ held' = had \ ({d} \ failures)
    /\ storeUp' = (up /\ (Shuts(d) => "shutdown" \in failures \/ "mount" \in had))
    /\ left' = left \cup failures

\* OpenOCIReader; the reader of an image in storage opens the store
\* (ParseReference), exports the image and owns the store from then on.
OpenReader(r) ==
  /\ At(r)
  /\ held' = held \cup {r}
  /\ storeUp' = (storeUp \/ r \in inStorage)
  /\ Advance(r)
  /\ UNCHANGED <<config, left, misused>>

\* Variant: the reader is closed as soon as the delta is parsed.
ParseDeltaClosing ==
  /\ At("parse") /\ Advance("parse")
  /\ Release("delta", held, storeUp)
  /\ UNCHANGED <<config, misused>>

ParseDelta ==
  At("parse") /\ Advance("parse")
  /\ UNCHANGED <<config, held, left, storeUp, misused>>

Verify ==
  At("verify") /\ Advance("verify")
  /\ UNCHANGED <<config, held, left, storeUp, misused>>

\* The temporary directory, the ostree repository or the directory, the store.
Acquire(s) ==
  /\ At(s)
  /\ held' = held \cup {s}
  /\ storeUp' = (storeUp \/ s = "store")
  /\ Advance(s)
  /\ UNCHANGED <<config, left, misused>>

Mount ==
  /\ At("mount")
  /\ held' = held \cup {"mount"}
  /\ misused' = (misused \/ ~storeUp)
  /\ Advance("mount")
  /\ UNCHANGED <<config, left, storeUp>>

\* OpenOCIWriter truncates an archive or creates the directory.
OpenWriter ==
  /\ At("writer")
  /\ held' = held \cup {"writer"}
  /\ Advance("writer")
  /\ UNCHANGED <<config, left, storeUp, misused>>

\* CreateDelta, ApplyDelta or ImportDelta.  Whether it fails or not, the writer
\* is closed before the command returns.
Work ==
  /\ At("work")
  /\ held' = held \ {"writer"}
  /\ misused' = (misused \/ (command = "import" /\ ~storeUp))
  /\ Advance("work")
  /\ UNCHANGED <<config, left, storeUp>>

Failing(s) ==
  /\ At(s)
  /\ pc' = "returning"
  /\ UNCHANGED <<config, step, deferred, misused>>

\* A reader of storage fails: ParseReference, before the store is open or after,
\* or ResolveReference, which leave an open store to nobody
\* (ocistorage.go:44-52); or newCSReader, whose error removes the exported
\* layers and shuts the store down (ocistorage.go:55-59).
StorageReaderFails(r) ==
  /\ r \in inStorage
  /\ Failing(r)
  /\ \/ UNCHANGED <<held, left, storeUp>>
     \/ storeUp' = TRUE /\ left' = left \cup {"unresolved"} /\ UNCHANGED held
     \/ Release(r, held \cup {r}, TRUE)

\* A delta that does not parse is closed.
ParseDeltaFails == Failing("parse") /\ Release("delta", held, storeUp)

\* Another statement returns an error; CreateDelta's and ApplyDelta's closes the
\* writer, the others acquired nothing.
StatementFails ==
  /\ \E s \in {"tmpDir", "verify", "store", "source", "mount", "writer", "work"} \cup
               (Readers \ inStorage) :
       /\ Failing(s)
       /\ held' = IF s = "work" THEN held \ {"writer"} ELSE held
  /\ UNCHANGED <<left, storeUp>>

\* The deferred calls run, the last one first; Cleanup unmounts, which needs the
\* store.
RunDeferred ==
  /\ pc = "returning" /\ deferred # <<>>
  /\ LET d == Last(deferred)
     IN /\ Release(d, held, storeUp)
        /\ misused' = (misused \/ (d = "mount" /\ ~storeUp))
  /\ deferred' = Front(deferred)
  /\ UNCHANGED <<config, step, pc>>

Return ==
  /\ pc = "returning" /\ deferred = <<>>
  /\ pc' = "done"
  /\ UNCHANGED <<config, step, deferred, held, left, storeUp, misused>>

Next ==
  \/ \E r \in Readers : OpenReader(r)
  \/ \E s \in {"tmpDir", "source", "store"} : Acquire(s)
  \/ ParseDelta \/ Verify \/ Mount \/ OpenWriter \/ Work
  \/ \E r \in Readers : StorageReaderFails(r)
  \/ ParseDeltaFails \/ StatementFails \/ RunDeferred \/ Return
  \/ (pc = "done" /\ UNCHANGED vars)

Spec == Init /\ [][Next]_vars

-----------------------------------------------------------------------------
(* Properties *)

\* Wherever a command fails, and whichever of its images are in the one store:
\* when it returns, whatever it acquired and still holds (a mount, temporary
\* files, an open reader or output) is something whose release was tried and
\* failed, and the store is open only if a shutdown failed, a layer could not be
\* unmounted, or a reader did not find its image (cmd/create.go:98-180,
\* cmd/apply.go:49-145, cmd/import.go:49-114, ocistorage.go:41-62).
ReturnReleasesAll ==
  pc = "done" =>
    /\ held \subseteq left
    /\ storeUp => left \cap {"shutdown", "mount", "unresolved"} # {}

\* The store is never used after somebody has shut it down, although each
\* reader shuts it down for all when it is closed (ocistorage.go:594-598): the
\* old image's file system is unmounted before, and the readers are closed
\* after the last use.
StoreOutlivesItsUsers == ~misused

=============================================================================
