CONSTANTS
  Users = {boss, ada}
  Boss = boss
  Depts = {d1}
  NoDept = NoDept
  Nobody = Nobody
  Staff = {ada}
  Requests = {r1, r2, r3}
  Crowd = 1
  Bound = 2

SPECIFICATION Spec

SYMMETRY Symmetry
CONSTRAINT Bounded
INVARIANTS
  TypeOK
  DoorsAgree

PROPERTY
  OnlyOldRequestsChange

CHECK_DEADLOCK FALSE
