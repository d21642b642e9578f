SPECIFICATION CyclerSpec
CONSTANTS
  h1 = h1
  h2 = h2
  h3 = h3
  n1 = n1
  n2 = n2
  n3 = n3
  None = None
  Hash = {h1, h2, h3}
  Names = {n1, n2, n3}
  NamesOf <- FixedNames
  Occurs <- PartName
  RenameInto = {}
  Redownload = FALSE
  IngestFrom = {}
  ClassifyAs = {}
  ExternalRoots = {}
  DefaultIngestion = "safe"
  SetterFailures <- Works
  Removable = {}
  Faults = {"remove", "save", "getter"}
  MaxFiles = 3
PROPERTIES
  HandlersReturn
  Rotation
VIEW
  WithoutDisk
