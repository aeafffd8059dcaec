CONSTANTS
  main = main
  web = web
  net = net
  MainFile = main
  Files <- ThreeFiles
  ImportLists <- Lists
  FaultMaps <- OneFault
SPECIFICATION CompilerSpec
PROPERTIES
  StrSwitchIsASwitch
