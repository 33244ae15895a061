SPECIFICATION SpecStores
CONSTANTS
  Username = {ua, ub}
  Password = {pa, pb}
  Client = {c1, c2}
  LastTime = 1
  MaxDraws = 3
  None = None
  Chunk = {ca, cb}
  Data = {da, db}
  Volume = {va, vb}
  Inode = {i1, i2, i3}
  Capacity = 1
  Identity = Identity
  Absent = Absent
  Partial = Partial
  Unknown = Unknown
  Object = {o1}
  Pieces <- ThreePieces
  Digest = {sa, sb}
  Undecided = Undecided
  PageSize = 2
  Concurrency = 2
  Attempts = 2
  NoFile = NoFile
INVARIANTS
  TokenOfOwner
  AccountKept
  StatIsDurable
  VolumeKept
  UploadKeepsFile
  CompleteFindsAll
  TargetIsWhole
PROPERTY KeepsPromises
SYMMETRY Symmetric
CHECK_DEADLOCK FALSE
