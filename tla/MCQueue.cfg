\* Three consumers, four values; when all values are gone everybody may sleep.
CONSTANTS
  Values = {v1, v2, v3, v4}
  Consumers = {c1, c2, c3}
SPECIFICATION FairSpec
INVARIANTS FifoOnce NoLostWakeup
PROPERTY SleepersServed
CHECK_DEADLOCK FALSE
