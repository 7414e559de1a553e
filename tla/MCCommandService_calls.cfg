\* Three clients; one signal and one killed client may disturb them.
SPECIFICATION Spec
CONSTANTS
  Clients = {c1, c2, c3}
  Dirs = {d1}
  NoDir = NoDir
  Stray = Stray
  Requests <- GoodOrMixed
  Nobody = Nobody
  BufSize = 6
  HelpSize = 2
  MaxSignals = 1
  MaxKills = 1
SYMMETRY Symmetry
INVARIANTS
  TurnTaking
  OwnReply
  QueuedOnce
  OneAdmitted
  BoundedDrift
PROPERTIES
  ThreadGoneFirst
  ImplementsCalls
\* Everybody may be done, the service idle.
CHECK_DEADLOCK FALSE
