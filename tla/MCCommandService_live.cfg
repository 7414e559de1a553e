\* What is answered and what ends, under fairness.
SPECIFICATION FairSpec
CONSTANTS
  Clients = {c1, c2}
  Dirs = {}
  NoDir = NoDir
  Stray = Stray
  Requests <- BadOrMixed
  Nobody = Nobody
  BufSize = 6
  HelpSize = 2
  MaxSignals = 2
  MaxKills = 0
INVARIANTS
  OwnReply
PROPERTIES
  Answered
  JoinsWithToken
  LoopFindsPool
\* Everybody may be done, the service idle.
CHECK_DEADLOCK FALSE
