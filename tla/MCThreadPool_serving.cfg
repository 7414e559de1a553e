\* Two workers, two callers, three jobs; pthread_create may fail.  The queue the
\* pool implements, no lost wakeup, work that is taken, and a clean end.
SPECIFICATION FairSpec
CONSTANTS
  N = 2
  Callers = {c1, c2}
  Jobs = {1, 2, 3}
  EarlyJobs = {1, 2}
  Nobody = Nobody
  CreateMayFail = TRUE
INVARIANTS
  CountMatchesList
  NoLostWakeup
  QuietWhenFreed
PROPERTIES
  ImplementsWorkQueue
  EveryJobTaken
  CleanDestroy
\* The pool ends destroyed, or lost to a failed pthread_create.
CHECK_DEADLOCK FALSE
