SPECIFICATION Spec
CHECK_DEADLOCK FALSE
CONSTANTS
  None = None
  Catalog <- Live
  Manifests <- Proposals
  Bundles <- Callers
  Seeds <- SeededFrom
  Jobs = {1, 2}
INVARIANTS
  AuthorityAnchored
  KnownPropertiesKept
  CorpusIsGenuine
