CONSTANTS
  FileLens <- TwoFiles
  PieceLength = 3
  SliceSize = 2
  MaxRead = 4
  FlagRoom = 1000
  Missing = Missing
  NoPlace = NoPlace
  Spoilt <- AtMostOne
SPECIFICATION FairSpec
INVARIANTS
  ChecksAgree
  PanicsForNoPlace
PROPERTIES
  RightBytesStay
  DownloadCompletes
