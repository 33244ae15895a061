SPECIFICATION SpecRegistered
CONSTANTS
  None = None
  o1 = o1
  i1 = i1
  v1 = v1
  Object = {o1, o2}
  Size <- TwoUploads
  ChunkSize = 2
  Replicas = 2
  Sha = {sa}
  Node = {1, 2, 3}
  Capacity = 3
  FreeReports = {3}
  Instance = {i1}
  Processes <- OneProcess
  VolumeOf <- SameVolume
  Ageing = {1}
  ExpireLimit = 1
  CheckLimit = 1
  Confirmer = {h1}
  Worker = {}
  Maintainer = {m1}
INVARIANTS
  Accounting
  NoOvercommit
  ReservationsWait
  UploadDecidesObject
PROPERTY KeepsObjects
