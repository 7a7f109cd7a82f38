SPECIFICATION EvidenceSpec
CHECK_DEADLOCK FALSE
CONSTANTS
  Absent = Absent
  Runs = {r1, r2}
  Payloads <- MCPayloads
  Policies <- MCPolicies
  Wirings = {"passed"}
  HeadRows = 1
  TailRows = 1
  SampleRows = 2
  MaxClock = 2
  MaxAttempts = 2
SYMMETRY Symmetry
INVARIANTS
  SignalLossIsLegible
  ModelNeverBlind
PROPERTIES
  ServedWithinPolicy
