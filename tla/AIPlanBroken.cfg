\* One reviewer, one worker, and an AI answer that the task raises on.
CONSTANTS
  Gens = {g1}
  Rows = {r1}
  Handlers = {h1}
  Workers = {w1}
  Answers = {"plan", "rejected", "broken"}
  MaxRetries = 1
  MaxComments = 1
  MaxQueued = 1
  MaxLosses = 0
  MaxRedelivered = 0
SPECIFICATION LiveSpec
PROPERTY GenerationEnds
CHECK_DEADLOCK FALSE
