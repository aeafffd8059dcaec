CONSTANTS
  FileLens <- TwoFiles
  PieceLength = 4
  SliceSize = 2
  MaxRead = 4
  FlagRoom = 1000
  Missing = Missing
  NoPlace = NoPlace
  Spoilt <- AtMostOne
SPECIFICATION Spec
INVARIANT
  ChecksAgree
