\* The program ends while the background thread is anywhere.
CONSTANTS
  Producers = {p1}
  COUNT_THRESHOLD = 2
  MaxEntries = 2
  MayDestroy = TRUE
SPECIFICATION FairSpec
PROPERTY DestructorReturns
CHECK_DEADLOCK FALSE
