CONSTANTS
  Main = Main
  NoOne = NoOne
  Nothing = Nothing
  EndOfPipe = EndOfPipe
  Threads = {0, 1, Main}
  Readers <- Workers
  Writers = {Main}
  Closers = {Main}
  Items = {NULL}
  THPIPESIZE = 1
  Requests = 4
  Concurrency = 2
  MaxFailures = 2
  SpuriousLimit = 0
SPECIFICATION ExabFairSpec
CHECK_DEADLOCK FALSE
PROPERTY ExabEnds
