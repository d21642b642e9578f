SPECIFICATION Spec
CONSTANTS
  h1 = h1
  h2 = h2
  n1 = n1
  n2 = n2
  None = None
  Hash = {h1, h2}
  Names = {n1, n2}
  Visibility = {"safe", "unsafe"}
  Filters <- Texts
  Matches <- Matched
INVARIANTS
  TypeOK
  ViewCurrent
  AppliesInMode
PROPERTIES
  ActsOnAsked
  CursorFollows
