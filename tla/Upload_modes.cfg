SPECIFICATION ModeFair
CONSTANTS
  Key = {"large", "small"}
  Size <- TwoOrOne
  Name <- SameName
  MaxFiles = 2
  LastSecond = 1
  Client = {c1}
  Slot = {s1}
  None = None
INVARIANTS
  CompletedWasConfirmed
  NotMixed
  PatientIsStored
  PatientIsWhole
PROPERTIES
  ConfirmOnlyAdvances
  DownloadEnds
