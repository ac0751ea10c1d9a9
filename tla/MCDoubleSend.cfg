SPECIFICATION Spec
CONSTANTS
  m1 = m1
  m2 = m2
  p1 = p1
  p2 = p2
  r1 = r1
  r2 = r2
  Msg = {m1}
  Pod = {p1}
  Slot = {1}
  Client = {r1}
  Content = {"a"}
  MaxTime = 1
  Horizon = 2
  PROCESS_BATCH_SIZE = 1
  RETRY_LIMIT = 1
  Hydrated <- RawColumns
  MaxFaults = 0
INVARIANT NoDoubleSend
