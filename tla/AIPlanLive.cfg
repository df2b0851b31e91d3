\* Two reviewers, one worker, nothing lost and nothing delivered twice.
CONSTANTS
  Gens = {g1}
  Rows = {r1}
  Handlers = {h1, h2}
  Workers = {w1}
  Answers = {"plan", "transient", "rejected"}
  MaxRetries = 3
  MaxComments = 2
  MaxQueued = 1
  MaxLosses = 0
  MaxRedelivered = 0
SPECIFICATION LiveSpec
PROPERTY GenerationEnds
CHECK_DEADLOCK FALSE
