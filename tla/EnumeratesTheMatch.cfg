SPECIFICATION Spec
CONSTANTS
  Idle = Idle
  None = None
  NoName = NoName
  IndexJSON = IndexJSON
  Digests = {m1, m2}
  RefNames = {r1, r2}
  Lengths = {1, 2}
  MaxManifests = 2
  MaxEntries = 3
  Images <- MCImages
  Copies <- MCCopies
  Chunks = 3
  Refs = {"r1", "r2"}
  Commits = {old, again, other}
  ConfigOf <- MCConfigOf
  Tree <- MCTree
  Wanted = "wanted"
  UsrEtc <- MCUsrEtc
  Requests = {"x", "etc"}
  a = a
  b = b
  la = la
  lb = lb
  s1 = s1
  s2 = s2
  s3 = s3
  old = old
  again = again
  other = other
INVARIANT
  EnumeratesTheMatch
