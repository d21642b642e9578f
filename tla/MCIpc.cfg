SPECIFICATION FairSpec
CONSTANTS
  c1 = c1
  c2 = c2
  d1 = d1
  d2 = d2
  None = None
  Client = {c1, c2}
  Daemon = {d1, d2}
  Requests <- Lines
  Answer <- AnswerTo
  Word <- Words
  ChunkSize = 2
  Backlog = 1
INVARIANTS
  TypeOK
  WholeCommands
  OwnAnswer
PROPERTIES
  StaysUp
  Concluded
