SPECIFICATION FairSpec
CHECK_DEADLOCK FALSE
CONSTANTS
  None = None
  Profiles <- MCProfiles
  Specs <- MCSpecs
  Configured = {"main", "backup", "strict"}
  Needing = {"a", "b"}
  Reasons = {"timeout", "rate_limit"}
  Modes = {"one_shot", "loop"}
  Gateways = {"production"}
  MaxCalls = 3
INVARIANTS
  ToolsStayWithOneAttempt
  ToolFailureIsFinal
  CallsBounded
  StuckTurnEarnsOneReprompt
  TransportFallsBack
PROPERTIES
  StepEnds
