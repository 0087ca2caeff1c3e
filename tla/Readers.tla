-------------------------------- MODULE Readers --------------------------------
(***************************************************************************)
(* Where images come from, each on its own: a layout (Layouts), containers *)
(* and storage (StorageReader), an OSTree repository (OstreeSource), and   *)
(* the commands that open and close them (Commands).                       *)
(***************************************************************************)
EXTENDS Components, Integers, Sequences

CONSTANTS Digests, RefNames, NoName, IndexJSON, Lengths, MaxManifests, MaxEntries,
          Images, Copies, Chunks,
          Refs, Commits, ConfigOf, Tree, Wanted, UsrEtc, Requests, None

VARIABLES archive, dir, tarState,
          image, present, layerFiles, layerDigests, onDisk, i, written, hashed, exportPc,
          refs, stored, toScan, found, commit, toList, pathToObj, opened, excused, sourcePc,
          command, source, inStorage, step, deferred, held, left, storeUp, misused, commandPc

layoutVars == <<archive, dir, tarState>>
storageVars ==
  <<image, present, layerFiles, layerDigests, onDisk, i, written, hashed, exportPc>>
ostreeVars ==
  <<refs, stored, toScan, found, commit, toList, pathToObj, opened, excused, sourcePc>>
commandVars ==
  <<command, source, inStorage, step, deferred, held, left, storeUp, misused, commandPc>>

Layout == INSTANCE Layouts
Storage == INSTANCE StorageReader WITH pc <- exportPc
Ostree == INSTANCE OstreeSource WITH source <- commit, pc <- sourcePc
Command == INSTANCE Commands WITH pc <- commandPc

\* Blobs are below blobs/, index.json is not; streams have lengths.
ASSUME LayoutAssumption == IndexJSON \notin Digests /\ Lengths \subseteq Nat

(***************************************************************************)
(* An image of the store has lists of layers and of diff_ids, and a layer  *)
(* that is listed twice has the same diff_id twice.                        *)
(***************************************************************************)
ASSUME ImagesAssumption ==
  \A m \in Images :
    /\ m.layers \in Seq({m.layers[k] : k \in DOMAIN m.layers})
    /\ m.diffIDs \in Seq({m.diffIDs[k] : k \in DOMAIN m.diffIDs})
    /\ \A k, l \in DOMAIN m.layers \cap DOMAIN m.diffIDs :
         m.layers[k] = m.layers[l] => m.diffIDs[k] = m.diffIDs[l]

\* A compressed layer has an end, which Close writes.
ASSUME ChunksAssumption == Chunks \in Nat \ {0}

\* None is no ref, no commit and no object.
ASSUME NoneAssumption ==
  /\ None \notin Refs \cup Commits
  /\ \A c \in Commits : \A p \in DOMAIN Tree[c] : Tree[c][p] # None

LayoutIdle == archive = Idle /\ dir = Idle /\ tarState = Idle

StorageIdle ==
  /\ image = Idle /\ present = Idle /\ layerFiles = Idle /\ layerDigests = Idle
  /\ onDisk = Idle /\ i = Idle /\ written = Idle /\ hashed = Idle /\ exportPc = Idle

OstreeIdle ==
  /\ refs = Idle /\ stored = Idle /\ toScan = Idle /\ found = Idle /\ commit = Idle
  /\ toList = Idle /\ pathToObj = Idle /\ opened = Idle /\ excused = Idle
  /\ sourcePc = Idle

CommandIdle ==
  /\ command = Idle /\ source = Idle /\ inStorage = Idle /\ step = Idle
  /\ deferred = Idle /\ held = Idle /\ left = Idle /\ storeUp = Idle /\ misused = Idle /\ commandPc = Idle

Init ==
  /\ component \in {"layout", "storage", "ostree", "command"}
  /\ IF component = "layout" THEN Layout!Init ELSE LayoutIdle
  /\ IF component = "storage" THEN Storage!Init ELSE StorageIdle
  /\ IF component = "ostree" THEN Ostree!Init ELSE OstreeIdle
  /\ IF component = "command" THEN Command!Init ELSE CommandIdle

Next ==
  /\ UNCHANGED component
  /\ \/ /\ component = "layout" /\ Layout!Next
        /\ UNCHANGED <<storageVars, ostreeVars, commandVars>>
     \/ /\ component = "storage" /\ Storage!Next
        /\ UNCHANGED <<layoutVars, ostreeVars, commandVars>>
     \/ /\ component = "ostree" /\ Ostree!Next
        /\ UNCHANGED <<layoutVars, storageVars, commandVars>>
     \/ /\ component = "command" /\ Command!Next
        /\ UNCHANGED <<layoutVars, storageVars, ostreeVars>>

vars == <<component, layoutVars, storageVars, ostreeVars, commandVars>>

Spec == Init /\ [][Next]_vars

-----------------------------------------------------------------------------
(* The components' properties, as they are stated and explained there *)

\* Layouts: an archive that opens answers every read as the directory, but for
\* a stream it has cut and reported.
ReadersAgree == component = "layout" => Layout!ReadersAgree

\* StorageReader: no exported file is shorter than its digest promises.
DigestIsNotAhead == component = "storage" => Storage!DigestIsNotAhead

\* StorageReader: an open reader has its layers, no other leaves any.
OpenReaderHasItsLayers == component = "storage" => Storage!OpenReaderHasItsLayers

\* OstreeSource: all files come from one commit, the old image's if it stays.
PatchesFromOneCommit == component = "ostree" => Ostree!PatchesFromOneCommit

\* OstreeSource: an image that stays in place is found.
FindsWhatStays == component = "ostree" => Ostree!FindsWhatStays

\* OstreeSource: README.md:69-71, the commit that matched is enumerated.
EnumeratesTheMatch == component = "ostree" => Ostree!EnumeratesTheMatch

\* Commands: a command that returns has released, or tried to, all it acquired.
ReturnReleasesAll == component = "command" => Command!ReturnReleasesAll

\* Commands: the shared store is not used after somebody shut it down.
StoreOutlivesItsUsers == component = "command" => Command!StoreOutlivesItsUsers

=============================================================================
