\* Nothing is destroyed; time passes and the logger is left alone.
CONSTANTS
  Producers = {p1}
  COUNT_THRESHOLD = 2
  MaxEntries = 2
  MayDestroy = FALSE
SPECIFICATION FairSpec
PROPERTY EveryEntryFlushed
CHECK_DEADLOCK FALSE
