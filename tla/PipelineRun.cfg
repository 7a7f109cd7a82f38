SPECIFICATION Spec
CONSTANTS
  None = None
  Values <- AllValues
  Setups <- AllSetups
  InitialTrust = "trusted"
  MaxDisturbances = 3
INVARIANTS
  TypeOK
  Reviewed
  NoRerunWhileOpen
  LedgerTellsTheRun
  InputsConsistent
  TaintFollowsData
  OutputsOfDeployedCode
