----------------------------- MODULE MCPatchPipe -----------------------------
(***************************************************************************)
(* Two diffs against an image with a file in etc/, which the repository    *)
(* has under usr/etc/, and one in bin/.  The second diff goes back in its  *)
(* file, and opens the file the first one left open.                       *)
(***************************************************************************)
EXTENDS PatchPipe

CONSTANTS etcConf, usrEtcConf, binSh, conf, sh, header

MCPaths == [p \in {usrEtcConf, binSh} |-> IF p = binSh THEN sh ELSE conf]

MCUsrEtc == [p \in {etcConf} |-> usrEtcConf]

MCFiles == [p \in {etcConf, binSh} |-> IF p = binSh THEN sh ELSE conf]

Op(name, arg) == [op |-> name, arg |-> arg]

MCDiffs ==
  <<<<Op("data", header), Op("open", binSh), Op("seek", 3), Op("copy", 1),
      Op("open", etcConf), Op("copy", 2)>>,
    <<Op("open", etcConf), Op("copy", 2), Op("copy", 1), Op("seek", 1), Op("copy", 1)>>>>

ASSUME HonestAssumption == HonestDiffs

=============================================================================
