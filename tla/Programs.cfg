CONSTANTS
  Selected <- AllPrograms
  Commands <- FourCommands
  Runs <- TwoRuns
  Files <- SharedFiles
  Imports <- SharedImports
  Project <- SharedProject
  Output <- Outputs
  AtOnce = 2
  Nothing = Nothing
  Tests <- TheTests
  Dirs <- TheDirs
  NArgs = 2
  Outcomes <- TheOutcomes
  ExitCodes = 256
  Games <- TheGames
  Tries <- TheTries
  Aim <- InOrder
  Messages <- TheMessages
  MaxDict = 8
  LenLimit = 4
  ByteBits = 8
  Clients <- TheClients
  Wanted <- TheWanted
  Scripts <- ServerScripts
  FileSizes <- TheSizes
  ReadSize = 2
  PipeSize = 4
  MaxFds = 13
  Ids <- TheIds
  TorrentNames <- TheNames
  MaxLines = 3
  t1 = t1
  t2 = t2
  t3 = t3
SPECIFICATION ProgramsSpec
INVARIANTS
  GoodBuildsSucceed
  RunsItsOwnProgram
  VerdictsCount
  PlayIsTrue
  RoundTrip
  ServesUnlessProvoked
  AnswersMatch
  ListedAsHidden
PROPERTIES
  GameEnds
  ReadAsWritten
  LispIsMeant
  MachinesCompute
