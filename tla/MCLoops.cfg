CONSTANTS
  BlockSize = 4
  FileLens <- MCFileLens
  ArraySizes <- MCArraySizes
  ShortReads = TRUE
  InputBuf = 3
  Window = 4
  Literals <- MCLiterals
  Lengths <- MCLengths
  MaxInput = 4
SPECIFICATION LoopsSpec
INVARIANT CollectedSoFar
INVARIANT LinesAreFile
PROPERTY LinesReturn
INVARIANT OneBufferIsRight
INVARIANT LengthIsRight
PROPERTY InflateReturns
CHECK_DEADLOCK FALSE
