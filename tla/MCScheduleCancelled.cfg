SPECIFICATION Spec
CONSTANTS
  s1 = s1
  w1 = w1
  w2 = w2
  c1 = c1
  c2 = c2
  d1 = d1
  a1 = a1
  j1 = j1
  Schedule = {s1}
  Job = {j1}
  Worker = {w1}
  Caller = {}
  Client = {c1, c2}
  Admin = {}
  ScheduleType = {"IMMEDIATE", "ONCE"}
  Target = {"messaging"}
  ListsIds = FALSE
  MaxIterations = 1
  ATTEMPTS = 2
  MAX_STALLED_COUNT = 1
  MaxFaults = 0
PROPERTY CancelHonoured
CHECK_DEADLOCK FALSE
