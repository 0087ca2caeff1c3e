------------------------------ MODULE DataSource ------------------------------
(***************************************************************************)
(* The files of the old image as tar-patch sees them: one current file and *)
(* a cursor in it, as in OstreeRepoDataSource (ostreerepo.go:20-24 and     *)
(* 231-278).  What is read is not bytes but where it was read: an object   *)
(* and a position.                                                         *)
(***************************************************************************)
EXTENDS Naturals, Sequences

CONSTANTS PathToObj,     \* path in the repository -> object
          UsrEtc         \* path below etc/ -> the same path below usr/etc/

VARIABLES current,       \* the open file: <<>> or <<[obj, pos]>>
          mounted        \* Cleanup (an unmount, for container storage) is still to come

NoFile == <<>>

OpenAt(obj, pos) == <<[obj |-> obj, pos |-> pos]>>

DataSourceInit == current = NoFile /\ mounted = TRUE

\* The path that is looked up: etc/ is found under usr/etc/ when it is not there.
Key(path) ==
  IF path \notin DOMAIN PathToObj /\ path \in DOMAIN UsrEtc THEN UsrEtc[path] ELSE path

SetCurrentFile(path) ==
  /\ Key(path) \in DOMAIN PathToObj
  /\ current' = OpenAt(PathToObj[Key(path)], 0)

\* The old file is closed before the new one is looked up.
SetCurrentFileFails == current' = NoFile

Seek(offset) == current # NoFile /\ current' = OpenAt(current[1].obj, offset)

\* n bytes from the cursor.
Read(n) ==
  current # NoFile /\ current' = OpenAt(current[1].obj, current[1].pos + n)

BytesRead(n) == [obj |-> current[1].obj, pos |-> current[1].pos, n |-> n]

Close == current' = NoFile

=============================================================================
