\* Two threads at most: a server may be built with 0, 1 or 2 reactors.  With up to one
\* reactor there are two clients and one descriptor; with two, one client.
\* A server that is gone, or waits for ever, may stop.
CONSTANTS
  Conns = {c1, c2}
  Fds = {f1}
  Loopers = {r1, r2}
  MayExit = {r1, r2}
  PollSize = 1
  MaxInbuf = 2
  None = None
  Workers = {w1, w2}
  PortArgs = {0, 65536, 12138}
  PortBase = 65536
  MaxClients <- Crowd
SPECIFICATION ServerSpec
INVARIANTS RunsOnce MembersOutliveThreads NothingLeaks
PROPERTIES DestructorReturns EveryLoopRuns DataIsRead EofReleases ExitStops ClientsAccepted
CHECK_DEADLOCK FALSE
