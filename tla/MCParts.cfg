CONSTANTS
  Children <- MCChildren
  Attributes <- MCAttributes
  Once <- MCOnce
  Words = {"a"}
  MaxSize <- MCMaxSize
  Chars = {"/", ".", "a"}
  MaxPath = 5
  Trees <- MCTrees
  WordSize = 64
  NameLens = {0, 1, 3}
  ExtraLens = {0, 1, 3, 4, 6, 9}
  DataLens = {0, 1, 2, 5}
  MaxArchive = 50
  Counts = {0, 446, 447, 463, 479, 495, 510, 511, 512}
  W = 64
  Base = 3
  End = 14
  Aligns = {1, 2, 4, 16}
  Sizes = {2, 3, 5, 20}
SPECIFICATION Spec
CHECK_DEADLOCK FALSE
INVARIANT StackIsPath
INVARIANT PanicMeansBadFile
INVARIANT LeavesAreKept
INVARIANT TitleIsItsOwn
INVARIANT MetadataIsDocuments
INVARIANT SpineIsDocuments
INVARIANT OkMeansWholePackage
INVARIANT RootfileIsLast
INVARIANT SplitIsRuns
INVARIANT BaseDirIsLeading
INVARIANT DirsArePath
INVARIANT HeaderEndsExactly
INVARIANT PartitionWasRead
INVARIANT BlocksApart
INVARIANT NullMeansFull
