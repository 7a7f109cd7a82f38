SPECIFICATION Spec
CHECK_DEADLOCK FALSE
CONSTANTS
  None = None
  Surfaces = {s1, s2, s3}
  Sponsors = {alice, bob}
  Owner = alice
  Pipelines = {p1, p2}
INVARIANTS
  AttestedByOwner
PROPERTIES
  StepsRunAttested
