\* Two reactors, three clients, two descriptor numbers: numbers are reused.
CONSTANTS
  Conns = {c1, c2, c3}
  Fds = {f1, f2}
  Loopers = {r1, r2}
  MayExit = {r1}
  PollSize = 2
  MaxInbuf = 1
  None = None
SPECIFICATION Spec
SYMMETRY Symmetry
INVARIANTS NoUseAfterFree DeletesItsOwn OneHolder OneThreadPerConnection NoLostEdge ReactorInv
PROPERTIES AcceptedIsKept ImplementsService
