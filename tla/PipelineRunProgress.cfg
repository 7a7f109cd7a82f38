SPECIFICATION FairSpec
CONSTANTS
  None = None
  Values <- AllValues
  Setups <- ReviewSetup
  InitialTrust = "trusted"
  MaxDisturbances = 2
PROPERTIES
  EventuallyCompletes
