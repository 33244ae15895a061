SPECIFICATION ProcessSpec
CONSTANTS
  Thread = {t1, t2}
  Size = 1
  Nested = 2
  Outages = 1
  Submitter = {s1, s2}
  MaxTasks = 3
  Handlers <- OneStatement
PROPERTIES
  DestructorEnds
CHECK_DEADLOCK FALSE
