\* Two producers, enough entries for several batches. The process may end.
CONSTANTS
  Producers = {p1, p2}
  COUNT_THRESHOLD = 2
  MaxEntries = 5
  MayDestroy = TRUE
SPECIFICATION FairSpec
INVARIANT InOrderOnce
PROPERTY FullIsFlushed
CHECK_DEADLOCK FALSE
