SPECIFICATION FairSpec
CONSTANTS
  Kid = {"k1", "k2", "k3"}
  Documents <- Rotations
  Fetch = {1, 2, 3}
  BACKOFF_MAX_ATTEMPTS = 3
  MaxOutages = 2
INVARIANT TypeOK
INVARIANT FetchesBounded
INVARIANT SetBackAtMostOnce
PROPERTY ReadyInTheEnd
PROPERTY PublishedKeysAreKnown
CHECK_DEADLOCK FALSE
