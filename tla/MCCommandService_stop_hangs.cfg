\* A service told to stop may wait for ever.
SPECIFICATION FairSpec
CONSTANTS
  Clients = {c1}
  Dirs = {}
  NoDir = NoDir
  Stray = Stray
  Requests <- OnlyInfo
  Nobody = Nobody
  BufSize = 6
  HelpSize = 2
  MaxSignals = 1
  MaxKills = 0
PROPERTIES
  ServiceStops
\* Everybody may be done, the service idle.
CHECK_DEADLOCK FALSE
