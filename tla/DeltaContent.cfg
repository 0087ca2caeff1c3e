SPECIFICATION ContentSpec
CONSTANTS
  Idle = Idle
  Tar <- MCTar
  NoDiffID = NoDiffID
  Parts <- MCParts
  MaxParts = 4
  Sources <- MCSources
  Damages <- MCDamages
  DeltaType = DeltaType
  OtherType = OtherType
  Stored <- MCStored
  Initial <- MCInitial
  Given <- MCGiven
  VerifyKey = ourKey
  Target = ourImage
  Byte = 3
  OldFiles <- MCFiles
  NoPath = NoPath
  Ops <- MCOps
  MaxOps = 4
  MaxAddData = 2
  MaxDict = 2
  Width = 4
  Group = 3
  MaxBytes = 4
  ta = ta
  tb = tb
  tx = tx
  ourKey = ourKey
  theirKey = theirKey
  ourImage = ourImage
  theirImage = theirImage
  fileF = fileF
  fileG = fileG
INVARIANTS
  RustAcceptsLikeGo
  RolesNotPositions
  VerifiedIsSigned
  SignedIsVerified
  OkIsTheLayer
  FollowsTheFormat
  DecodesExactly
