CONSTANTS
  Requests = {r1, r2}
  Users = {maker, ada}
  Maker = maker
  Nobody = Nobody
  Copies = {c1, c2}
  First = c1
  MaxRetries = 1
  MaxFaults = 1

SPECIFICATION Spec
SYMMETRY Symmetry

INVARIANTS
  TypeOK
  AssigneeIsTold

PROPERTY
  MarksStay

CHECK_DEADLOCK FALSE
