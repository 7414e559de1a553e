\* One request and the header of its answer; every use of the list of headers.
SPECIFICATION Spec
CONSTANTS
  host = host
  agent = agent
  other = other
  third = third
  near = near
  far = far
  text = text
  Keys = {host, agent, other, third}
  Values = {near, far, text}
  None = None
  MaxHeaders = 3
  Names <- MCNames
  Hosts = {near, far}
  Fixed = text
  Length <- MCLength
  Paths <- MCPaths
  BufInit = 12
  BufStep = 4
  MaxInt = 63
  MaxBytes = 7
INVARIANTS
  NamesFit
  RequestFits
  ShortIsSent
  HeaderFits
  LateAbort
  HeaderEndsRight
PROPERTIES
  ImplementsHeaderMap
\* The exchange ends.
CHECK_DEADLOCK FALSE
