\* thread_pool_destory may wait for ever for a worker that missed its broadcast.
SPECIFICATION FairSpecJobsReturn
CONSTANTS
  N = 1
  Callers = {c1}
  Jobs = {1}
  EarlyJobs = {1}
  Nobody = Nobody
  CreateMayFail = FALSE
PROPERTIES
  DestroyReturns
CHECK_DEADLOCK FALSE
