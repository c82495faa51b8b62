\* One client, every kind of request, one change of a file at any moment; the
\* cache holds one of the two files.
CONSTANTS
  Conns = {"c1"}
  Loopers = {"l1"}
  Home <- Alone
  Texts <- AllTexts
  Files <- Paths
  Index <- Routes
  CgiUrls <- Cgis
  Suffix <- LastDot
  TypeOf <- Types
  Sizes = {1, 2}
  Start <- Disk
  Becomes <- Changes
  Capacity = 2
  SendBuf = 2
  MaxAsked = 2
  MaxEdits = 1
  Part = Part
  Dir = Dir
  Unknown = Unknown
  None = None
SPECIFICATION FairSpec
INVARIANTS AnsweredInOrder NothingStranded CloseIsAnnounced Framed Survives
PROPERTY Served
CHECK_DEADLOCK FALSE
