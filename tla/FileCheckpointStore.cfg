SPECIFICATION Spec
CONSTANTS
  None = None
  w1 = w1
  w2 = w2
  Steps = {1}
  Outputs = {"x"}
  Seals = {"seal"}
  Fingerprints = {"f"}
  Requests = {"ask"}
  Instances <- TwoProcesses
  MaxStrays = 1
SYMMETRY Symmetric
INVARIANTS
  CacheMatchesDisk
PROPERTIES
  Implements
