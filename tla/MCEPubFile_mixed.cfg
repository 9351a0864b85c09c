CONSTANTS
  Books = {"a", "b"}
  Instances = {"i"}
  Archive <- MCArchive
  Path <- MCPath
  Opf <- MCOpf
  Ncx <- MCNcx
  RootDir = "expanded"
  Memo = "epub_file.txt"
  RootXml = "container.xml"
  None = "none"
  Torn = "torn"
  CopyChunk = 1
  InputBuf = 2
  DescLen = 3
  ClusterSize = 4
SPECIFICATION EPubSpec
INVARIANT HasExpandedMeansOnDisk
