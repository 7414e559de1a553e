\* Two threads log before, while and after a third opens the file.
SPECIFICATION FairSpec
CONSTANTS
  Threads = {main, t1, t2}
  Main = main
  Nobody = Nobody
  Types = {"file", "console"}
  Levels = {7}
  Level = 7
  Rotates = {TRUE, FALSE}
  Limit = 2
  MaxLine = 2
  MaxCalls = 2
INVARIANTS
  LinesToFile
  FileBounded
PROPERTIES
  PrintReturns
\* Every thread has made its calls.
CHECK_DEADLOCK FALSE
