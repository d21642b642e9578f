SPECIFICATION FairSpec
CONSTANTS
  i1 = i1
  i2 = i2
  None = None
  Image = {i1, i2}
  Writer <- Writers
  Obstructed = {i1}
  Faults = {"save", "iterate", "create", "kill"}
INVARIANTS
  TypeOK
  NothingLost
  NoOrphans
  DownloadsHashedWhole
PROPERTIES
  ArrivalsTaken
  Attended
