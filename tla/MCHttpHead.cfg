\* A GET and a HEAD of the same file.
CONSTANTS
  Conns = {"c1"}
  Loopers = {"l1"}
  Home <- Alone
  Texts <- HeadTexts
  Files <- Paths
  Index <- Routes
  CgiUrls <- Cgis
  Suffix <- LastDot
  TypeOf <- Types
  Sizes = {1, 2}
  Start <- Disk
  Becomes <- Changes
  Capacity = 2
  SendBuf = 2
  MaxAsked = 2
  MaxEdits = 0
  Part = Part
  Dir = Dir
  Unknown = Unknown
  None = None
SPECIFICATION Spec
INVARIANTS HeadHasNoBody
CHECK_DEADLOCK FALSE
