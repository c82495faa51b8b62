\* Two threads load at the same time, as two reactors do.
CONSTANTS
  Keys = {k1, k2}
  Sizes = {1}
  Capacity = 2
  IntMax = 7
  Readers = {t1, t2}
  Writers = {t1}
  Header = Header
  Tailer = Tailer
  None = None
SPECIFICATION Spec
INVARIANT ListMatchesMap
