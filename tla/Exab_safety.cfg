CONSTANTS
  Main = Main
  NoOne = NoOne
  Nothing = Nothing
  EndOfPipe = EndOfPipe
  Threads = {0, 1, 2, Main}
  Readers <- Workers
  Writers = {Main}
  Closers = {Main}
  Items = {NULL}
  THPIPESIZE = 2
  Requests = 5
  Concurrency = 3
  MaxFailures = 2
  SpuriousLimit = 1
SPECIFICATION ExabFairSpec
INVARIANTS
  EachNudgeAccounted
  FreedPipeUnused
  AllServedAtEnd
PROPERTIES
  ExabEnds
  ClosedReadersReturn
