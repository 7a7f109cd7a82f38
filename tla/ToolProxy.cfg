SPECIFICATION ConfinedSpec
CHECK_DEADLOCK FALSE
CONSTANTS
  a1 = a1
  a2 = a2
  Attempts <- TwoAttempts
  NumSteps = 2
  Tools <- AllTools
  Args <- AllArgs
  Registered <- Known
  Exfil = {"mail"}
  UntrustedSource = {"web"}
  ReadOnly = {"web"}
  Declared <- MCDeclared
  Versions = {"v1", "v2"}
  Denied = {"wipe"}
  HasLedger = TRUE
  InitialTrust = "trusted"
  MaxCallsPerTool = 2
  MaxToolCalls = 4
  MaxDistinctTools = 2
  Uses <- MCUses
SYMMETRY Interchangeable
INVARIANTS
  AtMostOnceEffect
  ReplayAgreement
  NoExfil
  CapsBind
  CommittedIsResolved
  ReplaysCleanly
  AuditIsOwn
  ReceiptStands
  ReceiptAccounts
PROPERTIES
  CommitsMatchLedger
