\* One revision, no failure, and nobody else who writes the description.
CONSTANTS
  j1 = j1
  j2 = j2
  JobIds = {j1}
  Asks <- MCRevision
  Copies = {c1}
  First = c1
  Answers = {"good"}
  MaxRetries = 0
  MaxRedirects = 0
  Limit = 1
  NoText = NoText
  MaxEdits = 0
  MaxFaults = 0

SPECIFICATION Spec

INVARIANT PollPatchesTheTask

CHECK_DEADLOCK FALSE
