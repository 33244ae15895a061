SPECIFICATION Spec
CONSTANTS
  None = None
  c1 = c1
  c2 = c2
  Client = {c1, c2}
  Links = 2
  Address = {a1, a2}
  MaxCalls <- SecondCallsOnce
  FaultLimit = 1
  MagicBody = {"request"}
  StrayLength = 2
  Instances = {s1, s2}
  Fallback = s1
INVARIANTS
  AnswersOwnCall
  PromisesAlive
  AtMostOnce
  Reassembled
  SessionPerConnection
PROPERTY Served
CHECK_DEADLOCK FALSE
