SPECIFICATION Spec
CONSTANTS
  h1 = h1
  h2 = h2
  h3 = h3
  n1 = n1
  n2 = n2
  n3 = n3
  None = None
  Hash = {h1, h2}
  Names = {n1, n2, n3}
  NamesOf <- FixedNames
  Occurs <- PartName
  RenameInto = {}
  Redownload = FALSE
  IngestFrom = {}
  ClassifyAs = {"safe", "unsafe", "unclassified"}
  ExternalRoots = {"downloads"}
  DefaultIngestion = "current"
  SetterFailures <- Outages
  Removable = {"public"}
  Faults = {"restart"}
  MaxFiles = 2
INVARIANTS
  Persisted
  Placement
  TrackedContent
PROPERTIES
  Confinement
  UnmountedSurvive
