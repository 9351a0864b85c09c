CONSTANTS
  BlockSize = 4
  FileLens <- MCFileLens
  ArraySizes <- MCArraySizes
  ShortReads = TRUE
  InputBuf = 3
  Window = 4
  Literals <- MCLiterals
  Lengths <- MCLengths
  MaxInput = 4
SPECIFICATION LoopsSpec
INVARIANT InflatedIsPlain
CHECK_DEADLOCK FALSE
