SPECIFICATION SpecTakeover
CONSTANTS
  None = None
  o1 = o1
  i1 = i1
  v1 = v1
  Object = {o1}
  Size <- OneByte
  ChunkSize = 1
  Replicas = 2
  Sha = {sa}
  Node = {1, 2, 3, 4}
  Capacity = 1
  FreeReports = {1}
  Instance = {i1}
  Processes <- OneProcess
  VolumeOf <- SameVolume
  Ageing = {}
  ExpireLimit = 1
  CheckLimit = 1
  Confirmer = {}
  Worker = {w1, w2}
  Maintainer = {}
INVARIANTS
  DeletedRowsStayDown
  OneRepairTarget
  RepairHoldsReservation
SYMMETRY Workers
