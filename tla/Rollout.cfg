SPECIFICATION Spec
CHECK_DEADLOCK FALSE
CONSTANTS
  None = None
  Versions = {1, 2, 3, 4, 5}
  Schema <- Schemas
  Deployments = {d1, d2}
  Plans = {p1, p2}
SYMMETRY Interchangeable
PROPERTIES
  EveryStagePassed
  ShadowBeforeBreaking
