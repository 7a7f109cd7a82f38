SPECIFICATION Spec
CONSTANTS
  None = None
  slack = slack
  wiki = wiki
  send = send
  read = read
  Servers <- TwoServers
  ToolNames <- TwoTools
  c1 = c1
  c2 = c2
  c3 = c3
  Calls <- ThreeCalls
  Requests <- SmallRequests
SYMMETRY Symmetric
INVARIANTS
  SessionsMatchUse
  OnlyDeclaredReached
