\* A directory that outlives its request.
SPECIFICATION Spec
CONSTANTS
  Clients = {c1, c2}
  Dirs = {d1}
  NoDir = NoDir
  Stray = Stray
  Requests <- GoodAnywhere
  Nobody = Nobody
  BufSize = 6
  HelpSize = 2
  MaxSignals = 0
  MaxKills = 0
INVARIANTS
  DirOnlyThisTime
\* Everybody may be done, the service idle.
CHECK_DEADLOCK FALSE
