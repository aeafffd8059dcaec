CONSTANTS
  Nslots = 3
  Ntimers = 1
  Nfds = 2
  MaxIn = 1
  MaxOut = 1
  Nobody = Nobody
  NoTimer = NoTimer
SPECIFICATION FairSpec
INVARIANTS
  DescriptorsApart
PROPERTIES
  CrashesAreProvoked
  InputIsServed
  TimersRun
  NewClientsWait
