\* Two reviewers, one worker, nothing lost.
CONSTANTS
  Gens = {g1}
  Rows = {r1}
  Handlers = {h1, h2}
  Workers = {w1}
  Answers = {"plan"}
  MaxRetries = 0
  MaxComments = 0
  MaxQueued = 1
  MaxLosses = 0
  MaxRedelivered = 0
SPECIFICATION Spec
INVARIANT OneBatch
CHECK_DEADLOCK FALSE
