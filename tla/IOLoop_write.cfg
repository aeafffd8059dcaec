CONSTANTS
  Nslots = 3
  Ntimers = 1
  Nfds = 2
  MaxIn = 1
  MaxOut = 1
  Nobody = Nobody
  NoTimer = NoTimer
SPECIFICATION Spec
PROPERTY WritesSucceed
