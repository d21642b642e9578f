SPECIFICATION FairSpec
CONSTANTS
  None = None
  Version <- Versions
  Empty = "first start"
  Encode <- Image
  Decode <- Load
  Faults = {"short"}
PROPERTIES
  ImplementsCell
