SPECIFICATION FairSpec
CONSTANTS
  etcConf = etcConf
  usrEtcConf = usrEtcConf
  binSh = binSh
  conf = conf
  sh = sh
  header = header
  PathToObj <- MCPaths
  UsrEtc <- MCUsrEtc
  Files <- MCFiles
  Diffs <- MCDiffs
  PatchErrors = {"EOF", "other"}
INVARIANTS
  OnePatcherAtATime
  SuccessReleasesSource
PROPERTIES
  ImplementsStream
  EverybodyEnds
