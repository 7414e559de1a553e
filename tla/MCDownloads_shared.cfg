\* Three jobs of one name, which may be there before, two workers; any server may
\* stall.  (A directory is a file whose open fails, as any may.)
SPECIFICATION LiveSpec
CONSTANTS
  j1 = j1
  j2 = j2
  j3 = j3
  fa = fa
  Jobs = {j1, j2, j3}
  Workers = {w1, w2}
  NoJob = NoJob
  Files = {fa}
  FileOf <- OneName
  BodyLen <- FirstLonger
  OldFiles = {fa}
  Directories = {}
INVARIANTS
  OwnBody
  SuccessReleases
  WritersBounded
PROPERTIES
  SettledStays
  StartsUnlessStuck
\* All jobs may be done, or the service may have ended.
CHECK_DEADLOCK FALSE
