\* Two jobs of one name.
SPECIFICATION Spec
CONSTANTS
  j1 = j1
  j2 = j2
  j3 = j3
  fa = fa
  Jobs = {j1, j2}
  Workers = {w1, w2}
  NoJob = NoJob
  Files = {fa}
  FileOf <- OneName
  BodyLen <- OneBuffer
  OldFiles = {}
  Directories = {}
INVARIANTS
  OneSuccessPerFile
\* All jobs may be done, or the service may have ended.
CHECK_DEADLOCK FALSE
