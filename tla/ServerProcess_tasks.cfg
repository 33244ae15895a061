SPECIFICATION ProcessSpec
CONSTANTS
  Thread = {t1, t2, t3}
  Size = 2
  Nested = 2
  Outages = 1
  Submitter = {s1}
  MaxTasks = 3
  Handlers <- ConfirmChunk
INVARIANTS
  AtMostSize
  NoLostWakeup
  NoTaskAsleep
  DrainedAtEnd
PROPERTIES
  Executed
CHECK_DEADLOCK FALSE
