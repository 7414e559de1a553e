\* Three processes, any of them killed, pidof and any call of init may fail.
\* The output of pidof fills str with two processes and not with one.
SPECIFICATION Spec
CONSTANTS
  Procs = {p1, p2, p3}
  None = None
  Digits = 6
  Chunk = 10
  MaxKills = 3
  SystemFails = TRUE
SYMMETRY Symmetry
INVARIANTS
  OnePrimary
  NamesKept
  Coherent
  RoomToWrite
  CleanStart
\* All processes may be gone, or wait for a service that is.
CHECK_DEADLOCK FALSE
