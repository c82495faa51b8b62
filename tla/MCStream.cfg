\* Texts of four pieces hold up to four terminators, whole or in parts; eight bytes
\* typed overfill the buffers of both directions.
CONSTANTS
  Colon = Colon
  CR = CR
  LF = LF
  a = a
  Pieces <- SomePieces
  MaxPieces = 4
  MaxTyped = 8
  BufSize = 2
  TempBufSize = 2
  NetSize = 2
SPECIFICATION Spec
INVARIANTS StreamKept PoppedIsARequest FramesAreExact SplitIsExact
PROPERTY EchoArrives
CHECK_DEADLOCK FALSE
