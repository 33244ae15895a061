SPECIFICATION SpecRecovery
CONSTANTS
  None = None
  o1 = o1
  i1 = i1
  i2 = i2
  i3 = i3
  v1 = v1
  v2 = v2
  Object = {o1}
  Size <- OneByte
  ChunkSize = 1
  Replicas = 2
  Sha = {sa}
  Node = {1, 2, 3}
  Capacity = 1
  FreeReports = {0, 1}
  Instance = {i1, i2, i3}
  Processes <- FirstRestartsTwice
  VolumeOf <- ThenNewVolume
  Ageing = {1}
  ExpireLimit = 1
  CheckLimit = 1
  Confirmer = {}
  Worker = {w1}
  Maintainer = {m1}
  LateCalls = FALSE
  FaultLimit = 2
INVARIANTS
  OnCurrentVolume
  ValidIsStored
  SpaceInv
