SPECIFICATION FairSpec
CONSTANTS
  Pod = {"p1", "p2", "p3"}
  This = "p1"
  RETRY_ATTEMPTS = 2
  SESSION_IS_UTC = FALSE
  MaxFaults = 2
INVARIANT TypeOK
INVARIANT ReadyOnWholeSchema
INVARIANT CreatedOnce
INVARIANT ShiftIsRecorded
INVARIANT ProcessInv
PROPERTY ReadyInTheEnd
PROPERTY ShutdownDrains
CHECK_DEADLOCK FALSE
