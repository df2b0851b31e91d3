CONSTANTS
  Emails = {e1,e2}
  Ada = e1
  NoEmail = NoEmail
  Workers = {w1}
  Sweeps = {s1,s2}
  Beat = s1
  MaxInvites = 2
  MaxHandlers = 2
  MaxFaults = 2
SPECIFICATION LiveSpec
CONSTRAINT Bound
INVARIANTS
  TypeOK
  LinkMatchesAddress
  DeadLinkNeedsFailedRetry
PROPERTIES
  KeepsPromise
  UnsentIsServed
CHECK_DEADLOCK FALSE
