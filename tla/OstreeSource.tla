------------------------------ MODULE OstreeSource ------------------------------
(***************************************************************************)
(* Finding the old image in an OSTree repository that others change at the *)
(* same time (ostreerepo.go:49-251): list the refs, look for the config    *)
(* digest in the commit of each, list the files of the commit found, and   *)
(* open their objects by path.  A ref is resolved once for its metadata    *)
(* and once more for its files.                                            *)
(***************************************************************************)
EXTENDS FiniteSets

CONSTANTS Refs, Commits,
          ConfigOf,      \* commit -> config digest of its "ostree.manifest"
          Tree,          \* commit -> path -> object
          Wanted,        \* the delta's source config
          UsrEtc,        \* path below etc/ -> the same path below usr/etc/
          Requests,      \* paths tar-diffs name
          None

VARIABLES refs,          \* ref -> commit
          stored,        \* commits whose objects are all in the repository
          pc,
          toScan,        \* refs of listOstreeRefs still to look at
          found,         \* the ref findOstreeRefByConfig returns
          source,        \* the commit that is enumerated
          toList,        \* its paths still to enumerate
          pathToObj,
          opened,        \* <<path, object>> for each SetCurrentFile
          excused        \* refs changed, or unreadable, since they were listed

repository == <<refs, stored>>
vars == <<repository, pc, toScan, found, source, toList, pathToObj, opened, excused>>

Init ==
  /\ refs \in [Refs -> Commits]
  /\ stored = {refs[r] : r \in Refs}
  /\ pc = "list"
  /\ toScan = {} /\ found = None
  /\ source = None /\ toList = {}
  /\ pathToObj = [p \in {} |-> None]
  /\ opened = {} /\ excused = {}

-----------------------------------------------------------------------------
(* The repository, changed by updates and clean-ups. *)

Excuse(r) == excused' = IF pc = "list" THEN excused ELSE excused \cup {r}

program == <<pc, toScan, found, source, toList, pathToObj, opened>>

MoveRef(r, c) ==
  /\ refs' = [x \in DOMAIN refs \cup {r} |-> IF x = r THEN c ELSE refs[x]]
  /\ stored' = stored \cup {c}
  /\ Excuse(r)
  /\ UNCHANGED program

DeleteRef(r) ==
  /\ r \in DOMAIN refs
  /\ refs' = [x \in DOMAIN refs \ {r} |-> refs[x]]
  /\ Excuse(r)
  /\ UNCHANGED <<stored, program>>

Prune ==
  /\ stored' = {refs[r] : r \in DOMAIN refs}
  /\ stored' # stored
  /\ UNCHANGED <<refs, program, excused>>

HasObject(o) == \E c \in stored : \E p \in DOMAIN Tree[c] : Tree[c][p] = o

-----------------------------------------------------------------------------
(* findOstreeRefByConfig *)

ListRefs ==
  /\ pc = "list"
  /\ toScan' = DOMAIN refs
  /\ pc' = IF toScan' = {} THEN "error" ELSE "scan"
  /\ UNCHANGED <<repository, found, source, toList, pathToObj, opened, excused>>

Resolves(r) == r \in DOMAIN refs /\ refs[r] \in stored

Scanned(r) ==
  /\ pc = "scan"
  /\ r \in toScan
  /\ toScan' = toScan \ {r}
  /\ UNCHANGED <<repository, source, toList, pathToObj, opened>>

\* Variant: a ref that cannot be read ends the search.
ScanStopping(r) ==
  /\ Scanned(r)
  /\ IF Resolves(r) /\ ConfigOf[refs[r]] = Wanted
       THEN found' = r /\ pc' = "enumerate"
       ELSE UNCHANGED found /\ pc' = IF Resolves(r) THEN pc ELSE "error"
  /\ UNCHANGED excused

\* The loop body: the first ref in the order of the hash table that matches.
\* A ref whose metadata cannot be read is passed over.
Scan(r) ==
  /\ Scanned(r)
  /\ IF Resolves(r) /\ ConfigOf[refs[r]] = Wanted
       THEN found' = r /\ pc' = "enumerate"
       ELSE UNCHANGED <<found, pc>>
  /\ UNCHANGED excused

ScanUnreadable(r) ==
  /\ Scanned(r)
  /\ Excuse(r)
  /\ UNCHANGED <<found, pc>>

NotFound ==
  /\ pc = "scan" /\ toScan = {}
  /\ pc' = "error"
  /\ UNCHANGED <<repository, toScan, found, source, toList, pathToObj, opened, excused>>

-----------------------------------------------------------------------------
(* enumerateCommitFiles *)

\* The ref is resolved again; a tree that is gone is an error.
ReadCommit ==
  /\ pc = "enumerate"
  /\ Resolves(found)
  /\ source' = refs[found]
  /\ toList' = DOMAIN Tree[source']
  /\ pc' = "listing"
  /\ UNCHANGED <<repository, toScan, found, pathToObj, opened, excused>>

\* A file is entered with its object ...
ListFile(p) ==
  /\ pc = "listing" /\ p \in toList
  /\ toList' = toList \ {p}
  /\ pathToObj' = [q \in DOMAIN pathToObj \cup {p} |-> Tree[source][q]]
  /\ UNCHANGED <<repository, pc, toScan, found, source, opened, excused>>

\* ... or left out when its checksum cannot be resolved.
SkipFile(p) ==
  /\ pc = "listing" /\ p \in toList
  /\ toList' = toList \ {p}
  /\ UNCHANGED <<repository, pc, toScan, found, source, pathToObj, opened, excused>>

Listed ==
  /\ pc = "listing" /\ toList = {}
  /\ pc' = "patch"
  /\ UNCHANGED <<repository, toScan, found, source, toList, pathToObj, opened, excused>>

-----------------------------------------------------------------------------
(* OstreeRepoDataSource *)

\* Variant: the path is looked up in the ref, not in the list.
ObjectInRef(path) ==
  LET tree == IF found \in DOMAIN refs THEN Tree[refs[found]] ELSE pathToObj
      key == IF path \notin DOMAIN tree /\ path \in DOMAIN UsrEtc THEN UsrEtc[path] ELSE path
  IN IF key \in DOMAIN tree THEN tree[key] ELSE None

Object(path) ==
  LET key == IF path \notin DOMAIN pathToObj /\ path \in DOMAIN UsrEtc
               THEN UsrEtc[path] ELSE path
  IN IF key \in DOMAIN pathToObj THEN pathToObj[key] ELSE None

SetCurrentFile(path) ==
  /\ pc = "patch"
  /\ IF HasObject(Object(path))
       THEN opened' = opened \cup {<<path, Object(path)>>} /\ UNCHANGED pc
       ELSE pc' = "error" /\ UNCHANGED opened
  /\ UNCHANGED <<repository, toScan, found, source, toList, pathToObj, excused>>

\* Any call of the library may fail; and the layers come to an end.
Ends(outcome) ==
  /\ pc' = outcome
  /\ UNCHANGED <<repository, toScan, found, source, toList, pathToObj, opened, excused>>

Fail == pc \in {"list", "enumerate", "listing", "patch"} /\ Ends("failed")

Done == pc = "patch" /\ Ends("ok")

Running == pc \notin {"ok", "error", "failed"}

Next ==
  \/ Running /\ \E r \in Refs : DeleteRef(r) \/ (\E c \in Commits : MoveRef(r, c))
  \/ Running /\ Prune
  \/ ListRefs \/ NotFound \/ ReadCommit \/ Listed \/ Done \/ Fail
  \/ \E r \in toScan : Scan(r) \/ ScanUnreadable(r)
  \/ \E p \in toList : ListFile(p) \/ SkipFile(p)
  \/ \E p \in Requests : SetCurrentFile(p)
  \/ ~Running /\ UNCHANGED vars

Spec == Init /\ [][Next]_vars

-----------------------------------------------------------------------------
(* Properties *)

\* Whatever is deployed or pruned meanwhile, the files patched from are those
\* of one commit, at the path asked for or below usr/; and unless its ref was
\* changed during the run, it is the commit of the old image
\* (ostreerepo.go:218-228, 231-250).
PatchesFromOneCommit ==
  /\ \A file \in opened :
       \E p \in DOMAIN Tree[source] :
         /\ p = file[1] \/ (file[1] \in DOMAIN UsrEtc /\ p = UsrEtc[file[1]])
         /\ Tree[source][p] = file[2]
  /\ source # None /\ found \notin excused => ConfigOf[source] = Wanted

\* The search fails only if no ref that stayed in place holds the old image:
\* refs that vanish, move or cannot be read do not end it
\* (ostreerepo.go:301-324).
FindsWhatStays ==
  pc = "error" /\ found = None =>
    \A r \in DOMAIN refs \ excused : ConfigOf[refs[r]] # Wanted

\* README.md:69-71: "the ostree ref of the old image is located by matching the
\* source image config digest recorded in the delta, and its commit is
\* enumerated".  The ref is resolved again to enumerate it
\* (ostreerepo.go:88, 128, 333).
EnumeratesTheMatch == source # None => ConfigOf[source] = Wanted

=============================================================================
