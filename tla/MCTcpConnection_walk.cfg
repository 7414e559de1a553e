\* Hosts of up to three addresses, with every mixture of answers.
SPECIFICATION Spec
CONSTANTS
  N = 3
INVARIANTS
  OneSocket
  PlainFailureIsClean
  FirstAccepting
\* The object, or the process, is gone at the end.
CHECK_DEADLOCK FALSE
