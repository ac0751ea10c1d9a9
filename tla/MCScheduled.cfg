SPECIFICATION FairSpec
CONSTANTS
  s1 = s1
  w1 = w1
  w2 = w2
  c1 = c1
  c2 = c2
  d1 = d1
  a1 = a1
  j1 = j1
  Schedule = {s1}
  Job = {j1}
  Worker = {w1}
  Caller = {}
  Client = {c1, c2}
  Admin = {a1}
  ScheduleType = {"IMMEDIATE", "ONCE", "REPEAT"}
  Target = {"messaging", "placeholder", "unknown"}
  ListsIds = TRUE
  MaxIterations = 2
  ATTEMPTS = 1
  MAX_STALLED_COUNT = 1
  MaxFaults = 1
INVARIANT TypeOK
INVARIANT SchedulerInv
PROPERTY RemovedStaysOut
PROPERTY ExecutionPromised
PROPERTY ScheduledIsExecuted
CHECK_DEADLOCK FALSE
