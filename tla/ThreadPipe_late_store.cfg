CONSTANTS
  NoOne = NoOne
  Nothing = Nothing
  EndOfPipe = EndOfPipe
  Threads = {r1, r2, w1, w2}
  Readers = {r1, r2}
  Writers = {w1, w2}
  Closers = {w1}
  Items = {a}
  THPIPESIZE = 1
SPECIFICATION Spec
PROPERTY NothingStoredAfterClose
