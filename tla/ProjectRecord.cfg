CONSTANTS
  Requests = {r1, r2}
  Users = {ada, bob}
  Nobody = Nobody
  Files = {f1, f2}
  NoFile = NoFile
  MaxTasks = 2
  MaxFaults = 1

SPECIFICATION Spec
SYMMETRY Symmetry

INVARIANTS
  TypeOK
  CoverIsThere
  FeedKeepsUp
  CompletedWithinTotal

CHECK_DEADLOCK FALSE
