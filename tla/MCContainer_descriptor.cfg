CONSTANTS
  Books <- MCBooks
  Archive <- MCArchive
  RootDir = "root"
  CopyChunk = 2
  InputBuf = 4
  DescLen = 3
  ClusterSize = 4
SPECIFICATION Spec
INVARIANT DescriptorIsSeen
