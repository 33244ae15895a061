SPECIFICATION UploadsSpec
CONSTANTS
  Key = {"large", "small"}
  Size <- TwoBlocks
  Name <- SameName
  MaxFiles = 2
  LastSecond = 1
  Client = {c1}
  Slot = {s1}
  None = None
INVARIANTS
  SettledIsWhole
