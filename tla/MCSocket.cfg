\* Two objects, three descriptors: numbers are reused.
CONSTANTS
  Objs = {s1, s2}
  MaxFd = 2
  Requests <- SomeRequests
SPECIFICATION Spec
SYMMETRY Symmetry
INVARIANTS HeldIsMine NoLeak AtItsAddress
CHECK_DEADLOCK FALSE
