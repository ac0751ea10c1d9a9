SPECIFICATION SystemSpec
CONSTANTS
  s1 = s1
  w1 = w1
  w2 = w2
  c1 = c1
  c2 = c2
  d1 = d1
  a1 = a1
  j1 = j1
  m1 = m1
  Schedule = {s1}
  Job = {j1}
  Reader = {m1}
  ScheduleType = {"ONCE"}
  Target = {"messaging", "placeholder"}
  ListsIds = FALSE
  MaxIterations = 1
  ATTEMPTS = 2
  MAX_STALLED_COUNT = 1
  HEALTHY_PERCENT = 95
  Worker = {w1, w2}
  Caller = {d1}
  Client = {c1}
  Admin = {a1}
  MaxFaults = 1
  Bound <- EveryMethod
INVARIANT RepeatsAreExplained
INVARIANT CompletedIsRecorded
INVARIANT CompletedWasDone
INVARIANT RunningRowsAreRuns
INVARIANT CallsAreRecorded
INVARIANT QueuesDownOnlyByFaults
INVARIANT ReportedWasDone
INVARIANT SystemInv
SYMMETRY WorkerSymmetry
CHECK_DEADLOCK FALSE
