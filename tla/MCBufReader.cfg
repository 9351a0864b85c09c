CONSTANTS
  BlockSize = 5
  FileLens <- MCFileLens
  ArraySizes <- MCArraySizes
  ShortReads = FALSE
SPECIFICATION FairSpec
INVARIANT TypeOK
INVARIANT BlocksAreWindows
INVARIANT CallFollowsStream
INVARIANT PanicOnlyPastEnd
PROPERTY FailedPeekKeepsPlace
PROPERTY ImplementsByteStream
PROPERTY InBoundsCallReturns
CHECK_DEADLOCK FALSE
