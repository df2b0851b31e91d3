\* One notification, one fault.
CONSTANTS
  Requests = {r1}
  Users = {maker, ada}
  Maker = maker
  Nobody = Nobody
  Copies = {c1, c2}
  First = c1
  MaxRetries = 1
  MaxFaults = 1

SPECIFICATION Spec

INVARIANT NoEmailTwice

CHECK_DEADLOCK FALSE
