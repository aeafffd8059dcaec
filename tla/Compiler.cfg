CONSTANTS
  main = main
  web = web
  net = net
  MainFile = main
  Files <- ThreeFiles
  ImportLists <- Lists
  FaultMaps <- OneFault
SPECIFICATION CompilerSpec
INVARIANTS
  NeverPanics
  OrderIsTopological
  LoopIffCyclic
  OrderIsReachable
  HeadersComplete
PROPERTIES
  Terminates
  SyntaxIsChecked
  TypesAreTrue
  MeaningSurvives
