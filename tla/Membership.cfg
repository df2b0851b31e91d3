\* Four requests, two at a time, on a project or task, or three on a
\* department and a team.
CONSTANTS
  Users = {owner, a, b}
  Owner = owner
  Depts = {d}
  Teams = {t}
  Items = {i}
  Requests = {r1, r2}
  MemberLists = {{a}, {b}}
  MaxRequests = 4
  None = None
  Absent = Absent
SPECIFICATION Spec
SYMMETRY Symmetry
CONSTRAINT Bound
INVARIANTS
  TypeOK
  RosterBelongs
  DepartmentsHaveAuthority
PROPERTIES
  ManagersAnswerToOwner
  RoleEndsWithOffice
  WorkStaysInside
CHECK_DEADLOCK FALSE
