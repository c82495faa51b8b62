\* One thread loads and inserts, another one inserts: sizes make one insertion
\* evict none, one or two entries, or be refused.
CONSTANTS
  Keys = {k1, k2, k3}
  Sizes = {0, 1, 2, 4}
  Capacity = 3
  IntMax = 7
  Readers = {t1}
  Writers = {t1, t2}
  Header = Header
  Tailer = Tailer
  None = None
SPECIFICATION FairSpec
INVARIANTS ListMatchesMap WithinCapacity
PROPERTIES ImplementsLRU HoldersFinish
