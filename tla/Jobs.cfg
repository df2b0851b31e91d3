CONSTANTS
  j1 = j1
  j2 = j2
  JobIds = {j1, j2}
  Asks <- MCAsks
  Copies = {c1, c2}
  First = c1
  Answers = {"good", "empty", "transient", "rejected", "broken"}
  MaxRetries = 1
  MaxRedirects = 3
  Limit = 1
  NoText = NoText
  MaxEdits = 1
  MaxFaults = 1

SPECIFICATION LiveSpec

INVARIANTS
  TypeOK
  MixedNeedsTwoDeliveries
  RevisionCanBeUndone
  EndlessNeedsFailure

PROPERTIES
  KeepsLife
  JobEnds
  CompletedIsWritten

CHECK_DEADLOCK FALSE
