SPECIFICATION Spec
CONSTANTS
  Hash = {h1, h2, h3, h4}
  Data <- TwoWallpapers
  Char = {5, 6, 7}
  Current <- NoneOrDigest
  None = None
INVARIANTS
  TypeOK
  IndexConsistent
  FindExact
  CutShortDetected
PROPERTY
  ImplementsIndex
