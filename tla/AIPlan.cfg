\* Two reviewers, two workers, one loss and one redelivery.
CONSTANTS
  Gens = {g1}
  Rows = {r1, r2}
  Handlers = {h1, h2}
  Workers = {w1, w2}
  Answers = {"plan", "rejected", "broken"}
  MaxRetries = 0
  MaxComments = 1
  MaxQueued = 1
  MaxLosses = 1
  MaxRedelivered = 1
SPECIFICATION Spec
SYMMETRY Symmetry
INVARIANTS
  TypeOK
  SavedAsReviewed
  CompletedHasPlan
  UnansweredCameLate
  RewritingsArePaid
PROPERTIES
  KeepsReview
CHECK_DEADLOCK FALSE
