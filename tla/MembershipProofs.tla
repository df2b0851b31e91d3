-------------------------- MODULE MembershipProofs --------------------------
(***************************************************************************)
(* Theorems about Membership, for any number of users, departments, teams, *)
(* projects, tasks and requests.                                           *)
(***************************************************************************)
EXTENDS Membership, TLAPS

-----------------------------------------------------------------------------
(* Type correctness *)

\* What a request is, by its operation.
LEMMA Fields ==
  ASSUME NEW q \in Request
  PROVE  /\ q.op \in {"role"} => q \in RoleRequest
         /\ q.op \in {"active"} => q \in ActiveRequest
         /\ q.op \in {"move"} => q \in MoveRequest
         /\ q.op \in {"remove"} => q \in RemoveRequest
         /\ q.op \in {"lead"} => q \in LeadRequest
         /\ q.op \in {"revoke"} => q \in RevokeRequest
         /\ q.op \in {"hand over"} => q \in HandOverRequest
         /\ q.op \in {"create", "save"} => q \in UnitRow
         /\ q.op \in {"members"} => q \in MemberSet
         /\ q.op \in {"new item", "assign"} => q \in HolderRequest
         /\ q.op \in {"save item"} => q \in ItemRow
<1>1. CASE q = Idle
  BY <1>1 DEF Idle
<1>2. CASE q \in RoleRequest
  BY <1>2 DEF RoleRequest
<1>3. CASE q \in ActiveRequest
  BY <1>3 DEF ActiveRequest
<1>4. CASE q \in MoveRequest
  BY <1>4 DEF MoveRequest
<1>5. CASE q \in RemoveRequest
  BY <1>5 DEF RemoveRequest
<1>6. CASE q \in LeadRequest
  BY <1>6 DEF LeadRequest
<1>7. CASE q \in UnitRow
  BY <1>7 DEF UnitRow
<1>8. CASE q \in MemberSet
  BY <1>8 DEF MemberSet
<1>9. CASE q \in HolderRequest
  BY <1>9 DEF HolderRequest
<1>10. CASE q \in ItemRow
  BY <1>10 DEF ItemRow
<1>11. CASE q \in RevokeRequest
  BY <1>11 DEF RevokeRequest
<1>12. CASE q \in HandOverRequest
  BY <1>12 DEF HandOverRequest
<1> QED
  BY <1>1, <1>2, <1>3, <1>4, <1>5, <1>6, <1>7, <1>8, <1>9, <1>10, <1>11, <1>12 DEF Request

LEMMA InitType == Init => TypeOK
  BY MembershipConstants DEF Init, TypeOK, Request, Profiles, HasProfile

LEMMA CheckKeepsType ==
  ASSUME TypeOK, NEW r \in Requests, NEW q \in Request, Check(r, q)
  PROVE  TypeOK'
  BY MembershipConstants DEF TypeOK, Check, people, units, work, HasProfile

LEMMA FinishKeepsType ==
  ASSUME TypeOK, NEW r \in Requests, NEW op, Finish(r, op)
  PROVE  request' \in [Requests -> Request] /\ started' \in 0..MaxRequests
  BY DEF TypeOK, Finish, Request

LEMMA MemberChecksKeepType ==
  ASSUME TypeOK, NEW r \in Requests, NEW by \in Users, NEW u \in Users,
         MemberRequest(r, by, u)
  PROVE  TypeOK'
<1> USE DEF HasProfile
<1>1. ASSUME NEW new \in Profiles, CheckRole(r, by, u, new) PROVE TypeOK'
  <2> DEFINE q == [op |-> "role", as |-> RoleOf(by), user |-> u, old |-> role[u],
                   new |-> new]
  <2>1. q \in RoleRequest
    BY <1>1 DEF CheckRole, MayChangeRole, MayTakeRole, RoleRequest
  <2>2. q \in Request
    BY <2>1 DEF Request
  <2> QED
    BY <1>1, <2>2, CheckKeepsType DEF CheckRole
<1>2. ASSUME NEW on \in BOOLEAN, CheckActive(r, by, u, on) PROVE TypeOK'
  <2>1. [op |-> "active", user |-> u, on |-> on] \in Request
    BY DEF ActiveRequest, Request
  <2> QED
    BY <1>2, <2>1, CheckKeepsType DEF CheckActive
<1>3. ASSUME NEW d \in Depts \cup {None}, CheckMove(r, by, u, d) PROVE TypeOK'
  <2>1. [op |-> "move", user |-> u, dept |-> d] \in Request
    BY DEF MoveRequest, Request
  <2> QED
    BY <1>3, <2>1, CheckKeepsType DEF CheckMove
<1>4. ASSUME NEW to \in Users \cup {None}, CheckRemove(r, by, u, to) PROVE TypeOK'
  <2> DEFINE q == [op |-> "remove", as |-> RoleOf(by), user |-> u, old |-> role[u],
                   held |-> Blockers(u), to |-> to]
  <2>0. u # Owner
    BY <1>4 DEF CheckRemove, TypeOK, Profiles
  <2>1. q \in RemoveRequest
    BY <1>4, <2>0 DEF CheckRemove, MayTakeRole, RemoveRequest, Blockers
  <2>2. q \in Request
    BY <2>1 DEF Request
  <2> QED
    BY <1>4, <2>2, CheckKeepsType DEF CheckRemove
<1> QED
  BY <1>1, <1>2, <1>3, <1>4 DEF MemberRequest

LEMMA UnitRowsAreRequests ==
  ASSUME NEW op \in {"create", "save"}, NEW x \in Units, NEW l \in Users \cup {None},
         NEW given \in BOOLEAN, NEW ms \in SUBSET Users
  PROVE  [op |-> op, unit |-> x, leader |-> l, given |-> given, members |-> ms] \in Request
<1>1. [op |-> op, unit |-> x, leader |-> l, given |-> given, members |-> ms] \in UnitRow
  BY DEF UnitRow
<1> QED
  BY <1>1 DEF Request

LEMMA UnitChecksKeepType ==
  ASSUME TypeOK, NEW r \in Requests, UnitRequest(r)
  PROVE  TypeOK'
<1> USE MembershipConstants DEF Units
<1>1. ASSUME NEW x \in Units, CheckRevoke(r, x) PROVE TypeOK'
  <2>1. [op |-> "revoke", unit |-> x, prev |-> leader[x], to |-> None] \in RevokeRequest
    BY <1>1 DEF CheckRevoke, TypeOK, RevokeRequest
  <2>2. [op |-> "revoke", unit |-> x, prev |-> leader[x], to |-> None] \in Request
    BY <2>1 DEF Request
  <2> QED
    BY <1>1, <2>2, CheckKeepsType DEF CheckRevoke
<1>2. ASSUME NEW x \in Units, NEW u \in Users, CheckLead(r, x, u) PROVE TypeOK'
  <2>1. [op |-> "lead", unit |-> x, prev |-> leader[x], to |-> u] \in LeadRequest
    BY <1>2 DEF CheckLead, TypeOK, LeadRequest
  <2>2. [op |-> "lead", unit |-> x, prev |-> leader[x], to |-> u] \in Request
    BY <2>1 DEF Request
  <2> QED
    BY <1>2, <2>2, CheckKeepsType DEF CheckLead
<1>3. ASSUME NEW d \in Depts, CheckSaveDepartment(r, d) PROVE TypeOK'
  <2>1. leader[d] \in Users \cup {None}
    BY <1>3 DEF CheckSaveDepartment, TypeOK
  <2>2. [op |-> "save", unit |-> d, leader |-> leader[d], given |-> FALSE,
         members |-> {}] \in Request
    BY <2>1, UnitRowsAreRequests
  <2> QED
    BY <1>3, <2>2, CheckKeepsType DEF CheckSaveDepartment
<1>4. ASSUME NEW d \in Depts, NEW l \in Users \cup {None},
             CheckCreateDepartment(r, d, l)
      PROVE  TypeOK'
  <2>1. [op |-> "create", unit |-> d, leader |-> l, given |-> FALSE,
         members |-> {}] \in Request
    BY UnitRowsAreRequests
  <2> QED
    BY <1>4, <2>1, CheckKeepsType DEF CheckCreateDepartment
<1>5. ASSUME NEW t \in Teams, NEW given \in BOOLEAN, NEW ms \in SUBSET Users,
             CheckSaveTeam(r, t, given, ms)
      PROVE  TypeOK'
  <2>1. leader[t] \in Users \cup {None}
    BY <1>5 DEF CheckSaveTeam, TypeOK
  <2>2. [op |-> "save", unit |-> t, leader |-> leader[t], given |-> given,
         members |-> ms] \in Request
    BY <2>1, UnitRowsAreRequests
  <2> QED
    BY <1>5, <2>2, CheckKeepsType DEF CheckSaveTeam
<1>6. ASSUME NEW t \in Teams, NEW l \in Users \cup {None}, NEW ms \in SUBSET Users,
             CheckCreateTeam(r, t, l, ms)
      PROVE  TypeOK'
  <2> DEFINE g == ms # {}
  <2>1. g \in BOOLEAN
    OBVIOUS
  <2>2. [op |-> "create", unit |-> t, leader |-> l, given |-> g, members |-> ms] \in Request
    BY <2>1, UnitRowsAreRequests
  <2> QED
    BY <1>6, <2>2, CheckKeepsType DEF CheckCreateTeam
<1> QED
  BY <1>1, <1>2, <1>3, <1>4, <1>5, <1>6 DEF UnitRequest

LEMMA ItemChecksKeepType ==
  ASSUME TypeOK, NEW r \in Requests, NEW i \in Items, ItemRequest(r, i)
  PROVE  TypeOK'
<1>1. ASSUME NEW u \in Users \cup {None}, CheckNewItem(r, i, u) PROVE TypeOK'
  <2>1. [op |-> "new item", item |-> i, to |-> u] \in Request
    BY DEF HolderRequest, Request
  <2> QED
    BY <1>1, <2>1, CheckKeepsType DEF CheckNewItem
<1>2. ASSUME NEW u \in Users \cup {None}, CheckAssign(r, i, u) PROVE TypeOK'
  <2>1. [op |-> "assign", item |-> i, to |-> u] \in Request
    BY DEF HolderRequest, Request
  <2> QED
    BY <1>2, <2>1, CheckKeepsType DEF CheckAssign
<1>3. ASSUME NEW s \in {"open", "done"}, CheckSaveItem(r, i, s) PROVE TypeOK'
  <2>1. [op |-> "save item", item |-> i, holder |-> holder[i], status |-> s] \in ItemRow
    BY DEF ItemRow, TypeOK
  <2>2. [op |-> "save item", item |-> i, holder |-> holder[i], status |-> s] \in Request
    BY <2>1 DEF Request
  <2> QED
    BY <1>3, <2>2, CheckKeepsType DEF CheckSaveItem
<1> QED
  BY <1>1, <1>2, <1>3 DEF ItemRequest

\* What the promotion and the demotion do to a role.
LEMMA PromotedType ==
  ASSUME TypeOK, NEW u, NEW plain, plain => RowExists(u)
  PROVE  /\ Promoted(u, plain) \in [Users -> Profiles \cup {"Owner", "unregistered", "removed"}]
         /\ \A v \in Users :
              /\ Promoted(u, plain)[v] \in Profiles <=> HasProfile(v)
              /\ Promoted(u, plain)[v] = "Owner" <=> role[v] = "Owner"
  BY DEF Promoted, TypeOK, Profiles, HasProfile, RowExists

LEMMA DemotedType ==
  ASSUME NEW roles \in [Users -> Profiles \cup {"Owner", "unregistered", "removed"}],
         NEW leads, NEW u
  PROVE  /\ Demoted(roles, u, leads)
              \in [Users -> Profiles \cup {"Owner", "unregistered", "removed"}]
         /\ \A v \in Users :
              /\ Demoted(roles, u, leads)[v] \in Profiles <=> roles[v] \in Profiles
              /\ Demoted(roles, u, leads)[v] = "Owner" <=> roles[v] = "Owner"
  BY DEF Demoted, Profiles

\* A handover is refused when the new leader's profile is gone; otherwise it
\* writes the leader and the roles.
LEMMA HandOverWrites ==
  ASSUME TypeOK, NEW r \in Requests, HandOver(r)
  PROVE  /\ request[r] \in HandOverRequest /\ request'[r] = Idle
         /\ \/ UNCHANGED <<leader, role, dept, bare>>
            \/ /\ request[r].plain => RowExists(request[r].to)
               /\ leader' = [leader EXCEPT ![request[r].unit] = request[r].to]
               /\ role' = IF request[r].prev = request[r].to
                            THEN Promoted(request[r].to, request[r].plain)
                            ELSE Demoted(Promoted(request[r].to, request[r].plain),
                                         request[r].prev, request[r].leads)
<1>1. request[r] \in Request /\ request[r].op = "hand over" /\ request'[r] = Idle
  BY DEF HandOver, Finish, TypeOK
<1>2. request[r] \in HandOverRequest
  BY <1>1, Fields
<1> QED
  BY <1>1, <1>2 DEF HandOver

LEMMA WithoutLeaderType ==
  ASSUME TypeOK, NEW u
  PROVE  WithoutLeader(u) \in [Units -> Users \cup {None, Absent}]
  BY DEF WithoutLeader, TypeOK

LEMMA MemberWritesKeepType ==
  ASSUME TypeOK, NEW r \in Requests,
         ChangeRole(r) \/ SetActive(r) \/ Move(r) \/ Remove(r)
  PROVE  TypeOK'
<1> DEFINE u == request[r].user
<1> USE MembershipConstants DEF units, work, people
<1>q. request[r] \in Request
  BY DEF TypeOK
<1>1. CASE ChangeRole(r)
  <2>1. u \in Users /\ request[r].new \in Profiles
    BY <1>1, <1>q, Fields DEF ChangeRole, Finish, RoleRequest
  <2>2. request' \in [Requests -> Request] /\ started' \in 0..MaxRequests
    BY <1>1, FinishKeepsType DEF ChangeRole
  <2>3. CASE RowExists(u)
    <3>1. /\ role' = [role EXCEPT ![u] = request[r].new]
          /\ leader' \in [Units -> Users \cup {None, Absent}]
          /\ bare' \subseteq Depts
      BY <1>1, <2>3, WithoutLeaderType DEF ChangeRole, TypeOK
    <3> QED
      BY <1>1, <2>1, <2>2, <2>3, <3>1 DEF ChangeRole, TypeOK, HasProfile, RowExists, Profiles
  <2>4. CASE ~RowExists(u)
    BY <1>1, <2>2, <2>4 DEF ChangeRole, TypeOK, HasProfile
  <2> QED
    BY <2>3, <2>4
<1>2. CASE SetActive(r)
  <2>1. u \in Users /\ request[r].on \in BOOLEAN
    BY <1>2, <1>q, Fields DEF SetActive, Finish, ActiveRequest
  <2>2. request' \in [Requests -> Request] /\ started' \in 0..MaxRequests
    BY <1>2, FinishKeepsType DEF SetActive
  <2> QED
    BY <1>2, <2>1, <2>2 DEF SetActive, TypeOK, HasProfile, RowExists
<1>3. CASE Move(r)
  <2>1. u \in Users /\ request[r].dept \in Depts \cup {None}
    BY <1>3, <1>q, Fields DEF Move, Finish, MoveRequest
  <2>2. request' \in [Requests -> Request] /\ started' \in 0..MaxRequests
    BY <1>3, FinishKeepsType DEF Move
  <2> QED
    BY <1>3, <2>1, <2>2 DEF Move, TypeOK, HasProfile, RowExists
<1>4. CASE Remove(r)
  <2>1. /\ u \in Users /\ request[r].held \in SUBSET Items
        /\ request[r].to \in Users \cup {None}
    BY <1>4, <1>q, Fields DEF Remove, Finish, RemoveRequest
  <2>2. request' \in [Requests -> Request] /\ started' \in 0..MaxRequests
    BY <1>4, FinishKeepsType DEF Remove
  <2>3. /\ holder' \in [Items -> Users \cup {None}]
        /\ leader' \in [Units -> Users \cup {None, Absent}]
        /\ members' \in [Teams -> SUBSET Users]
        /\ overtaken' \subseteq Users
    BY <1>4, <2>1, WithoutLeaderType DEF Remove, TypeOK
  <2>4. /\ role' = [role EXCEPT ![u] = "removed"]
        /\ active' = [active EXCEPT ![u] = TRUE]
        /\ dept' = [dept EXCEPT ![u] = None]
        /\ UNCHANGED <<status, bare>>
    BY <1>4 DEF Remove
  <2>5. u # Owner
    BY <1>4, <1>q, Fields DEF Remove, Finish, RemoveRequest
  <2> HIDE DEF u
  <2> QED
    BY <2>1, <2>2, <2>3, <2>4, <2>5 DEF TypeOK, HasProfile, Profiles
<1> QED
  BY <1>1, <1>2, <1>3, <1>4

LEMMA StartHandOverKeepsType ==
  ASSUME TypeOK, NEW r \in Requests, StartHandOver(r)
  PROVE  TypeOK'
<1> DEFINE q == [op |-> "hand over", unit |-> request[r].unit, prev |-> request[r].prev,
                 to |-> request[r].to,
                 plain |-> request[r].to \in Users /\ role[request[r].to] = "DM",
                 leads |-> \E x \in Units \ {request[r].unit} : leader[x] = request[r].prev]
<1>1. request[r] \in LeadRequest \/ request[r] \in RevokeRequest
  BY Fields DEF StartHandOver, TypeOK
<1>2. request[r].prev \in Users \cup {None} /\ request[r].to \in Users \cup {None}
  BY <1>1 DEF LeadRequest, RevokeRequest
<1>3. q \in HandOverRequest
  BY <1>2 DEF HandOverRequest, StartHandOver
<1>4. q \in Request
  BY <1>3 DEF Request
<1>5. request' = [request EXCEPT ![r] = q]
      /\ UNCHANGED <<people, units, work, started, overtaken, bare>>
  BY DEF StartHandOver
<1> HIDE DEF q
<1> QED
  BY <1>4, <1>5 DEF TypeOK, HasProfile, people, units, work

LEMMA LeaderWritesKeepType ==
  ASSUME TypeOK, NEW r \in Requests,
         HandOver(r) \/ LeadTeam(r) \/ RevokeTeam(r)
  PROVE  TypeOK'
<1> USE MembershipConstants DEF units, work, people
<1>1. request' \in [Requests -> Request] /\ started' \in 0..MaxRequests
  BY FinishKeepsType DEF HandOver, LeadTeam, RevokeTeam
<1>2. CASE HandOver(r)
  <2>1. /\ request[r].unit \in Depts /\ request[r].unit \in Units
        /\ request[r].to \in Users \cup {None}
    BY <1>2, HandOverWrites DEF HandOverRequest, Units
  <2>2. CASE UNCHANGED <<leader, role, dept, bare>>
    BY <1>1, <1>2, <2>2 DEF HandOver, TypeOK, HasProfile
  <2>3. CASE ~UNCHANGED <<leader, role, dept, bare>>
    <3>1. request[r].plain => RowExists(request[r].to)
      BY <1>2, <2>3, HandOverWrites
    <3>2. /\ role' \in [Users -> Profiles \cup {"Owner", "unregistered", "removed"}]
          /\ \A v \in Users :
               /\ role'[v] \in Profiles <=> HasProfile(v)
               /\ role'[v] = "Owner" <=> role[v] = "Owner"
      BY <1>2, <2>3, <3>1, HandOverWrites, PromotedType, DemotedType
    <3>3. \A v \in Users : HasProfile(v)' <=> HasProfile(v)
      BY <3>2 DEF HasProfile
    <3>4. /\ dept' \in [Users -> Depts \cup {None}]
          /\ \A v \in Users : ~HasProfile(v) => dept'[v] = dept[v]
      <4>1. dept' = IF request[r].plain THEN [dept EXCEPT ![request[r].to] = request[r].unit]
                                        ELSE dept
        BY <1>2, <2>3 DEF HandOver
      <4>2. ASSUME NEW v \in Users, ~HasProfile(v) PROVE dept'[v] = dept[v]
        <5>1. request[r].plain => v # request[r].to
          BY <3>1, <4>2 DEF RowExists
        <5> QED
          BY <4>1, <5>1 DEF TypeOK
      <4>3. dept' \in [Users -> Depts \cup {None}]
        BY <2>1, <4>1 DEF TypeOK
      <4> QED
        BY <4>2, <4>3
    <3>5. bare' \subseteq Depts
      BY <1>2, <2>3 DEF HandOver, TypeOK
    <3>6. leader' \in [Units -> Users \cup {None, Absent}]
      BY <1>2, <2>1, <2>3, HandOverWrites DEF TypeOK
    <3> QED
      BY <1>1, <1>2, <3>2, <3>3, <3>4, <3>5, <3>6 DEF HandOver, TypeOK
  <2> QED
    BY <2>2, <2>3
<1>3. CASE LeadTeam(r) \/ RevokeTeam(r)
  <2>1. request[r] \in LeadRequest \/ request[r] \in RevokeRequest
    BY <1>3, Fields DEF LeadTeam, RevokeTeam, Finish, TypeOK
  <2>2. request[r].unit \in Units /\ request[r].to \in Users \cup {None}
    BY <2>1 DEF LeadRequest, RevokeRequest
  <2> QED
    BY <1>1, <1>3, <2>2 DEF LeadTeam, RevokeTeam, TypeOK, HasProfile
<1> QED
  BY <1>2, <1>3

LEMMA UnitWritesKeepType ==
  ASSUME TypeOK, NEW r \in Requests,
         \/ CreateDepartment(r) \/ CreateTeam(r)
         \/ SaveDepartment(r) \/ SaveTeam(r) \/ SetMembers(r)
  PROVE  TypeOK'
<1> USE MembershipConstants DEF units, work, people
<1>1. request[r] \in Request
  BY DEF TypeOK
<1>2. CASE SetMembers(r)
  <2>1. request[r].unit \in Teams /\ request[r].members \in SUBSET Users
    BY <1>1, <1>2, Fields DEF SetMembers, Finish, MemberSet
  <2>2. request' \in [Requests -> Request] /\ started' \in 0..MaxRequests
    BY <1>2, FinishKeepsType DEF SetMembers
  <2> QED
    BY <1>2, <2>1, <2>2 DEF SetMembers, TypeOK, HasProfile
<1>3. CASE ~SetMembers(r)
  <2>1. request[r] \in UnitRow
    BY <1>1, <1>3, Fields DEF CreateDepartment, CreateTeam, SaveDepartment, SaveTeam, Finish
  <2>2. /\ request[r].unit \in Units /\ request[r].leader \in Users \cup {None}
        /\ request[r].members \in SUBSET Users
    BY <2>1 DEF UnitRow
  <2>3. ASSUME Finish(r, "create") \/ Finish(r, "save")
        PROVE  request' \in [Requests -> Request] /\ started' \in 0..MaxRequests
    BY <2>3, FinishKeepsType
  <2>4. ASSUME WriteTeam(r, request[r].leader), request[r].unit \in Teams
        PROVE  /\ request' \in [Requests -> Request]
               /\ leader' \in [Units -> Users \cup {None, Absent}]
    <3>1. [op |-> "members", unit |-> request[r].unit, members |-> request[r].members]
            \in Request
      BY <2>2, <2>4 DEF MemberSet, Request
    <3>2. Idle \in Request
      BY DEF Request
    <3> QED
      BY <2>2, <2>4, <3>1, <3>2 DEF WriteTeam, TypeOK
  <2>5. CASE CreateDepartment(r)
    BY <2>2, <2>3, <2>5 DEF CreateDepartment, TypeOK, HasProfile
  <2>6. CASE SaveDepartment(r)
    BY <2>2, <2>3, <2>6 DEF SaveDepartment, TypeOK, HasProfile
  <2>7. CASE CreateTeam(r)
    <3>1. Idle \in Request
      BY DEF Request
    <3> QED
      BY <2>2, <2>4, <2>7, <3>1 DEF CreateTeam, TypeOK, HasProfile
  <2>8. CASE SaveTeam(r)
    BY <2>2, <2>4, <2>8 DEF SaveTeam, TypeOK, HasProfile
  <2> QED
    BY <1>3, <2>5, <2>6, <2>7, <2>8
<1> QED
  BY <1>2, <1>3

LEMMA ItemWritesKeepType ==
  ASSUME TypeOK, NEW r \in Requests, NewItem(r) \/ Assign(r) \/ SaveItem(r)
  PROVE  TypeOK'
<1> USE DEF units, work, people
<1>1. request[r] \in Request
  BY DEF TypeOK
<1>2. CASE NewItem(r) \/ Assign(r)
  <2>1. request[r].item \in Items /\ request[r].to \in Users \cup {None}
    BY <1>1, <1>2, Fields DEF NewItem, Assign, Finish, HolderRequest
  <2>2. request' \in [Requests -> Request] /\ started' \in 0..MaxRequests
    BY <1>2, FinishKeepsType DEF NewItem, Assign
  <2> QED
    BY <1>2, <2>1, <2>2 DEF NewItem, Assign, TypeOK, HasProfile
<1>3. CASE SaveItem(r)
  <2>1. /\ request[r].item \in Items /\ request[r].holder \in Users \cup {None}
        /\ request[r].status \in {"open", "done"}
    BY <1>1, <1>3, Fields DEF SaveItem, Finish, ItemRow
  <2>2. request' \in [Requests -> Request] /\ started' \in 0..MaxRequests
    BY <1>3, FinishKeepsType DEF SaveItem
  <2> QED
    BY <1>3, <2>1, <2>2 DEF SaveItem, TypeOK, HasProfile
<1> QED
  BY <1>2, <1>3

LEMMA OtherStepsKeepType ==
  ASSUME TypeOK,
         \/ \E u \in Users, as \in Profiles, d \in Depts \cup {None} : Join(u, as, d)
         \/ \E D \in SUBSET Depts : ApplyDefaults(D)
         \/ \E i \in Items : Archive(i) \/ \E s \in {"open", "done"} : SetStatus(i, s)
  PROVE  TypeOK'
<1> USE MembershipConstants DEF units, work, people, HasProfile
<1>1. ASSUME NEW u \in Users, NEW as \in Profiles, NEW d \in Depts \cup {None}, Join(u, as, d)
      PROVE  TypeOK'
  BY <1>1 DEF Join, TypeOK, Profiles
<1>2. ASSUME NEW D \in SUBSET Depts, ApplyDefaults(D) PROVE TypeOK'
  BY <1>2 DEF ApplyDefaults, TypeOK
<1>3. ASSUME NEW i \in Items, Archive(i) \/ \E s \in {"open", "done"} : SetStatus(i, s)
      PROVE  TypeOK'
  BY <1>3 DEF Archive, SetStatus, TypeOK
<1> QED
  BY <1>1, <1>2, <1>3

LEMMA StepType == TypeOK /\ [Next]_vars => TypeOK'
<1> SUFFICES ASSUME TypeOK, [Next]_vars PROVE TypeOK'
  OBVIOUS
<1>1. CASE UNCHANGED vars
  BY <1>1 DEF vars, people, units, work, TypeOK, HasProfile
<1>2. CASE Next
  BY <1>2, MemberChecksKeepType, UnitChecksKeepType, ItemChecksKeepType,
     MemberWritesKeepType, StartHandOverKeepsType, LeaderWritesKeepType, UnitWritesKeepType,
     ItemWritesKeepType, OtherStepsKeepType DEF Next, Write
<1> QED
  BY <1>1, <1>2

\* Every table, request and history keeps its type: in particular, only the
\* owner has the owner's role, and who has no profile has no department.
THEOREM TypeCorrect == Spec => []TypeOK
  BY InitType, StepType, PTL DEF Spec

-----------------------------------------------------------------------------
(* Leaders and team members belong to the company.  Not inductive by itself: *)
(* a request writes people it found eligible in an earlier state, so whoever *)
(* it names has to belong as well, from its checks until its write.          *)

Naming == {"lead", "hand over", "create", "save", "members", "remove", "new item", "assign"}

Named(u) == \E r \in Requests : request[r].op \in Naming /\ u \in Names(request[r])

Listed(u) == Leads(u) \/ (\E t \in Teams : u \in members[t]) \/ Named(u)

Belongs(u) == HasProfile(u) \/ u = Owner \/ u \in overtaken

Roster == \A u \in Users : Listed(u) => Belongs(u)

LEMMA NamesByOp ==
  ASSUME NEW q
  PROVE  /\ q.op \in {"lead", "hand over", "remove", "new item", "assign"} =>
              Names(q) = {q.to}
         /\ q.op \in {"create", "save"} => Names(q) = {q.leader} \cup q.members
         /\ q.op = "members" => Names(q) = q.members
  BY DEF Names

LEMMA MembersBelong ==
  ASSUME TypeOK, NEW u \in Users, IsMember(u)
  PROVE  Belongs(u)
  BY DEF TypeOK, IsMember, RoleOf, Belongs, HasProfile, Profiles

LEMMA InitRoster == Init => Roster
<1> USE DEF Naming
<1> SUFFICES ASSUME Init, NEW u \in Users PROVE ~Listed(u)
  BY DEF Roster
<1>1. ~Named(u)
  BY DEF Init, Named, Idle
<1>2. ~Leads(u)
  BY MembershipConstants DEF Init, Leads
<1> QED
  BY <1>1, <1>2 DEF Listed, Init

\* A check lists nobody new who does not belong.
LEMMA CheckKeepsRoster ==
  ASSUME TypeOK, Roster, NEW r \in Requests, NEW q, Check(r, q),
         q.op \in Naming =>
           \A u \in Users \cap Names(q) : Belongs(u)
  PROVE  Roster'
<1> SUFFICES ASSUME NEW u \in Users, Listed(u)' PROVE Belongs(u)'
  BY DEF Roster
<1>1. Belongs(u)' <=> Belongs(u)
  BY DEF Check, people, Belongs, HasProfile
<1>2. request' = [request EXCEPT ![r] = q] /\ UNCHANGED <<leader, members>>
  BY DEF Check, units
<1>3. CASE Listed(u)
  BY <1>1, <1>3 DEF Roster
<1>4. CASE ~Listed(u)
  <2>1. Named(u)'
    BY <1>2, <1>4 DEF Listed, Leads
  <2>2. PICK s \in Requests : /\ request'[s].op \in Naming
                              /\ u \in Names(request'[s])
    BY <2>1 DEF Named
  <2>3. s = r
    BY <1>2, <1>4, <2>2 DEF Listed, Named, TypeOK
  <2> QED
    BY <1>1, <1>2, <2>2, <2>3 DEF TypeOK
<1> QED
  BY <1>3, <1>4

LEMMA MemberChecksKeepRoster ==
  ASSUME TypeOK, Roster, NEW r \in Requests, NEW by \in Users, NEW u \in Users,
         MemberRequest(r, by, u)
  PROVE  Roster'
<1> USE DEF Naming
<1>1. ASSUME NEW new, CheckRole(r, by, u, new) PROVE Roster'
  BY <1>1, CheckKeepsRoster DEF CheckRole
<1>2. ASSUME NEW on, CheckActive(r, by, u, on) PROVE Roster'
  BY <1>2, CheckKeepsRoster DEF CheckActive
<1>3. ASSUME NEW d, CheckMove(r, by, u, d) PROVE Roster'
  BY <1>3, CheckKeepsRoster DEF CheckMove
<1>4. ASSUME NEW to \in Users \cup {None}, CheckRemove(r, by, u, to) PROVE Roster'
  <2> DEFINE q == [op |-> "remove", as |-> RoleOf(by), user |-> u, old |-> role[u],
                   held |-> Blockers(u), to |-> to]
  <2>1. Names(q) = {to}
    BY NamesByOp
  <2>2. \A v \in Users \cap Names(q) : Belongs(v)
    BY <1>4, <2>1, MembersBelong, MembershipConstants DEF CheckRemove, MayReceive
  <2>3. Check(r, q)
    BY <1>4 DEF CheckRemove
  <2> HIDE DEF q
  <2> QED
    BY <2>2, <2>3, CheckKeepsRoster
<1> QED
  BY <1>1, <1>2, <1>3, <1>4 DEF MemberRequest

LEMMA ItemChecksKeepRoster ==
  ASSUME TypeOK, Roster, NEW r \in Requests, NEW i \in Items, ItemRequest(r, i)
  PROVE  Roster'
<1> USE DEF Naming
<1>1. ASSUME NEW to \in Users \cup {None}, CheckNewItem(r, i, to) \/ CheckAssign(r, i, to)
      PROVE  Roster'
  <2>1. \A v \in Users \cap {to} : Belongs(v)
    BY <1>1, MembersBelong, MembershipConstants DEF CheckNewItem, CheckAssign, Eligible
  <2>2. ASSUME NEW q, Check(r, q), q.op \in {"new item", "assign"}, q.to = to
        PROVE  Roster'
    BY <2>1, <2>2, NamesByOp, CheckKeepsRoster
  <2> QED
    BY <1>1, <2>2 DEF CheckNewItem, CheckAssign
<1>2. ASSUME NEW s, CheckSaveItem(r, i, s) PROVE Roster'
  BY <1>2, CheckKeepsRoster DEF CheckSaveItem
<1> QED
  BY <1>1, <1>2 DEF ItemRequest

LEMMA UnitChecksKeepRoster ==
  ASSUME TypeOK, Roster, NEW r \in Requests, UnitRequest(r)
  PROVE  Roster'
<1> USE MembershipConstants DEF Units
<1>1. ASSUME NEW q, Check(r, q), q.op \in {"create", "save"},
             \A v \in Users : v = q.leader \/ v \in q.members => Belongs(v)
      PROVE  Roster'
  <2>1. Names(q) = {q.leader} \cup q.members
    BY <1>1, NamesByOp
  <2>2. \A v \in Users \cap Names(q) : Belongs(v)
    BY <1>1, <2>1
  <2> QED
    BY <1>1, <2>2, CheckKeepsRoster
<1>2. ASSUME NEW x \in Units, \/ CheckRevoke(r, x)
                              \/ \E l \in Users : CheckLead(r, x, l)
      PROVE  Roster'
  <2>1. ASSUME NEW q, Check(r, q), q.op = "revoke" PROVE Roster'
    BY <2>1, CheckKeepsRoster DEF Naming
  <2>2. ASSUME NEW q, Check(r, q), q.op = "lead", IsMember(q.to) PROVE Roster'
    <3>1. Names(q) = {q.to}
      BY <2>2, NamesByOp
    <3>2. \A v \in Users \cap Names(q) : Belongs(v)
      BY <2>2, <3>1, MembersBelong
    <3> QED
      BY <2>2, <3>2, CheckKeepsRoster
  <2> QED
    BY <1>2, <2>1, <2>2 DEF CheckRevoke, CheckLead
<1>3. ASSUME NEW d \in Depts, CheckSaveDepartment(r, d) PROVE Roster'
  <2>1. \A v \in Users : v = leader[d] => Belongs(v)
    BY DEF Roster, Listed, Leads
  <2> QED
    BY <1>1, <1>3, <2>1 DEF CheckSaveDepartment
<1>4. ASSUME NEW d \in Depts, NEW l \in Users \cup {None}, CheckCreateDepartment(r, d, l)
      PROVE  Roster'
  <2>1. \A v \in Users : v = l => Belongs(v)
    BY <1>4, MembersBelong DEF CheckCreateDepartment, Eligible
  <2> QED
    BY <1>1, <1>4, <2>1 DEF CheckCreateDepartment
<1>5. ASSUME NEW t \in Teams, NEW given \in BOOLEAN, NEW ms \in SUBSET Users,
             CheckSaveTeam(r, t, given, ms)
      PROVE  Roster'
  <2>1. \A v \in Users : v = leader[t] \/ v \in ms => Belongs(v)
    BY <1>5, MembersBelong DEF CheckSaveTeam, Roster, Listed, Leads
  <2> QED
    BY <1>1, <1>5, <2>1 DEF CheckSaveTeam
<1>6. ASSUME NEW t \in Teams, NEW l \in Users \cup {None}, NEW ms \in SUBSET Users,
             CheckCreateTeam(r, t, l, ms)
      PROVE  Roster'
  <2>1. \A v \in Users : v = l \/ v \in ms => Belongs(v)
    BY <1>6, MembersBelong DEF CheckCreateTeam, Eligible
  <2> QED
    BY <1>1, <1>6, <2>1 DEF CheckCreateTeam
<1> QED
  BY <1>2, <1>3, <1>4, <1>5, <1>6 DEF UnitRequest

\* A write that takes nobody's place in the company and lists only who was
\* listed.
LEMMA WriteKeepsRoster ==
  ASSUME Roster,
         \A u \in Users : Belongs(u) => Belongs(u)',
         \A u \in Users : Leads(u)' => Leads(u) \/ Named(u),
         \A u \in Users : (\E t \in Teams : u \in members'[t]) =>
                            (\E t \in Teams : u \in members[t]) \/ Named(u),
         \A u \in Users : Named(u)' => Named(u)
  PROVE  Roster'
  BY DEF Roster, Listed

LEMMA FinishForgets ==
  ASSUME TypeOK, NEW r \in Requests, request' = [request EXCEPT ![r] = Idle]
  PROVE  \A u \in Users : Named(u)' => Named(u)
<1> USE DEF Naming
<1> SUFFICES ASSUME NEW u \in Users, Named(u)' PROVE Named(u)
  OBVIOUS
<1>1. PICK s \in Requests : /\ request'[s].op \in Naming
                            /\ u \in Names(request'[s])
  BY DEF Named
<1>2. s # r
  BY <1>1 DEF Idle, TypeOK
<1> QED
  BY <1>1, <1>2 DEF Named, TypeOK

LEMMA MemberWritesKeepRoster ==
  ASSUME TypeOK, Roster, NEW r \in Requests, ChangeRole(r) \/ SetActive(r) \/ Move(r)
  PROVE  Roster'
<1>1. request[r] \in Request
  BY DEF TypeOK
<1>2. \A u \in Users : Named(u)' => Named(u)
  BY FinishForgets DEF ChangeRole, SetActive, Move, Finish
<1>3. \A u \in Users : Belongs(u) => Belongs(u)'
  <2>1. CASE ChangeRole(r)
    <3>1. request[r].new \in Profiles
      BY <1>1, <2>1, Fields DEF ChangeRole, Finish, RoleRequest
    <3> QED
      BY <2>1, <3>1 DEF ChangeRole, Belongs, HasProfile, TypeOK
  <2>2. CASE SetActive(r) \/ Move(r)
    BY <2>2 DEF SetActive, Move, Belongs, HasProfile
  <2> QED
    BY <2>1, <2>2
<1>4. members' = members /\ \A u \in Users : Leads(u)' => Leads(u)
  BY MembershipConstants DEF ChangeRole, SetActive, Move, units, Leads, WithoutLeader, TypeOK
<1> QED
  BY <1>2, <1>3, <1>4, WriteKeepsRoster

\* Whoever is removed while named is overtaken.
LEMMA RemoveKeepsRoster ==
  ASSUME TypeOK, Roster, NEW r \in Requests, Remove(r)
  PROVE  Roster'
<1> USE DEF Naming
<1> DEFINE gone == request[r].user
<1> SUFFICES ASSUME NEW u \in Users, Listed(u)' PROVE Belongs(u)'
  BY DEF Roster
<1>1. CASE u = gone
  <2>1. ~Leads(u)' /\ \A t \in Teams : u \notin members'[t]
    BY <1>1, MembershipConstants DEF Remove, Leads, WithoutLeader, TypeOK
  <2>2. PICK s \in Requests : /\ request'[s].op \in Naming
                              /\ u \in Names(request'[s])
    BY <2>1 DEF Listed, Named
  <2>3. s # r /\ request'[s] = request[s]
    BY <2>2 DEF Remove, Finish, Idle, TypeOK
  <2>4. u \in UNION {Names(request[x]) : x \in Requests \ {r}}
    BY <2>2, <2>3
  <2>5. u \in overtaken'
    BY <1>1, <2>4 DEF Remove
  <2> QED
    BY <2>5 DEF Belongs
<1>2. CASE u # gone
  <2>1. Named(u)' => Named(u)
    BY FinishForgets DEF Remove, Finish
  <2>2. (Leads(u)' => Leads(u)) /\ \A t \in Teams : u \in members'[t] => u \in members[t]
    BY MembershipConstants DEF Remove, Leads, WithoutLeader, TypeOK
  <2>3. Belongs(u)
    BY <2>1, <2>2 DEF Listed, Roster
  <2> QED
    BY <1>2, <2>3 DEF Remove, Belongs, HasProfile, TypeOK
<1> QED
  BY <1>1, <1>2

\* A handover names whom the request named before.
LEMMA StartHandOverKeepsRoster ==
  ASSUME TypeOK, Roster, NEW r \in Requests, StartHandOver(r)
  PROVE  Roster'
<1> USE DEF Naming
<1>1. PICK q : /\ request' = [request EXCEPT ![r] = q]
               /\ q.op = "hand over" /\ q.to = request[r].to
  <2> WITNESS [op |-> "hand over", unit |-> request[r].unit, prev |-> request[r].prev,
               to |-> request[r].to,
               plain |-> request[r].to \in Users /\ role[request[r].to] = "DM",
               leads |-> \E x \in Units \ {request[r].unit} : leader[x] = request[r].prev]
  <2> QED
    BY DEF StartHandOver
<1>2. request[r] \in LeadRequest \/ request[r] \in RevokeRequest
  BY Fields DEF StartHandOver, TypeOK
<1>3. \A u \in Users : u = request[r].to => Named(u)
  <2>1. request[r].to \in Users => request[r].op = "lead"
    BY <1>2, MembershipConstants DEF LeadRequest, RevokeRequest
  <2> QED
    BY <2>1, NamesByOp DEF Named
<1>4. ASSUME NEW u \in Users, Named(u)' PROVE Named(u)
  <2>1. PICK s \in Requests : request'[s].op \in Naming /\ u \in Names(request'[s])
    BY <1>4 DEF Named
  <2>2. CASE s = r
    <3>1. Names(q) = {q.to}
      BY <1>1, NamesByOp
    <3> QED
      BY <1>1, <1>3, <2>1, <2>2, <3>1 DEF TypeOK
  <2>3. CASE s # r
    BY <1>1, <2>1, <2>3 DEF Named, TypeOK
  <2> QED
    BY <2>2, <2>3
<1>5. UNCHANGED <<people, units, overtaken>>
  BY DEF StartHandOver
<1> QED
  BY <1>4, <1>5, WriteKeepsRoster DEF people, units, Belongs, HasProfile, Leads

LEMMA LeaderWritesKeepRoster ==
  ASSUME TypeOK, Roster, NEW r \in Requests,
         HandOver(r) \/ LeadTeam(r) \/ RevokeTeam(r)
  PROVE  Roster'
<1> USE DEF Naming
<1>1. \A u \in Users : Named(u)' => Named(u)
  BY FinishForgets DEF HandOver, LeadTeam, RevokeTeam, Finish
<1>2. \A u \in Users : Belongs(u) => Belongs(u)'
  <2>1. CASE HandOver(r)
    <3>1. \A v \in Users : role'[v] \in Profiles <=> HasProfile(v)
      BY <2>1, HandOverWrites, PromotedType, DemotedType DEF HasProfile
    <3> QED
      BY <2>1, <3>1 DEF HandOver, Belongs, HasProfile
  <2>2. CASE LeadTeam(r) \/ RevokeTeam(r)
    BY <2>2 DEF LeadTeam, RevokeTeam, people, Belongs, HasProfile
  <2> QED
    BY <2>1, <2>2
<1>3. members' = members
  BY DEF HandOver, LeadTeam, RevokeTeam
<1>4. \A u \in Users : Leads(u)' => Leads(u) \/ Named(u)
  <2> SUFFICES ASSUME NEW u \in Users, NEW x \in Units, leader'[x] = u, leader[x] # u
               PROVE  Named(u)
    BY DEF Leads
  <2>1. CASE HandOver(r) \/ LeadTeam(r)
    <3>1. request[r].op \in {"lead", "hand over"} /\ u = request[r].to
      BY <2>1, HandOverWrites DEF HandOver, LeadTeam, Finish, TypeOK
    <3> QED
      BY <3>1, NamesByOp DEF Named
  <2>2. CASE RevokeTeam(r)
    BY <2>2, MembershipConstants DEF RevokeTeam, TypeOK
  <2> QED
    BY <2>1, <2>2
<1> QED
  BY <1>1, <1>2, <1>3, <1>4, WriteKeepsRoster

LEMMA UnitWritesKeepRoster ==
  ASSUME TypeOK, Roster, NEW r \in Requests,
         \/ CreateDepartment(r) \/ CreateTeam(r)
         \/ SaveDepartment(r) \/ SaveTeam(r) \/ SetMembers(r)
  PROVE  Roster'
<1> USE DEF Naming
<1>1. \A u \in Users : Belongs(u) => Belongs(u)'
  BY DEF CreateDepartment, CreateTeam, SaveDepartment, SaveTeam, SetMembers, people,
         Belongs, HasProfile
<1>2. CASE SetMembers(r)
  <2>1. \A u \in Users : Named(u)' => Named(u)
    BY <1>2, FinishForgets DEF SetMembers, Finish
  <2>2. \A u \in Users : Leads(u)' => Leads(u)
    BY <1>2 DEF SetMembers, Leads
  <2>3. ASSUME NEW u \in Users, NEW t \in Teams, u \in members'[t], u \notin members[t]
        PROVE  Named(u)
    <3>1. request[r].op = "members" /\ u \in request[r].members
      BY <1>2, <2>3 DEF SetMembers, Finish, TypeOK
    <3> QED
      BY <3>1, NamesByOp DEF Named
  <2> QED
    BY <1>1, <2>1, <2>2, <2>3, WriteKeepsRoster
<1>3. CASE ~SetMembers(r)
  <2>1. request[r].op \in {"create", "save"} /\ members' = members
    BY <1>3 DEF CreateDepartment, CreateTeam, SaveDepartment, SaveTeam, Finish
  <2>2. \A u \in Users : u = request[r].leader \/ u \in request[r].members => Named(u)
    BY <2>1, NamesByOp DEF Named
  <2>3. \/ leader' = leader
        \/ leader' = [leader EXCEPT ![request[r].unit] = request[r].leader]
    BY <1>3 DEF CreateDepartment, CreateTeam, SaveDepartment, SaveTeam, WriteTeam
  <2>4. \A u \in Users : Leads(u)' => Leads(u) \/ Named(u)
    BY <2>2, <2>3 DEF Leads, TypeOK
  <2>5. \A u \in Users : Named(u)' => Named(u)
    <3>1. CASE request' = [request EXCEPT ![r] = Idle]
      BY <3>1, FinishForgets
    <3>2. CASE request' = [request EXCEPT ![r] =
                 [op |-> "members", unit |-> request[r].unit, members |-> request[r].members]]
      <4> SUFFICES ASSUME NEW u \in Users, NEW s \in Requests,
                          request'[s].op \in Naming,
                          u \in Names(request'[s])
                   PROVE  Named(u)
        BY DEF Named
      <4>1. CASE s = r
        <5>1. Names(request'[s]) = request[r].members
          BY <3>2, <4>1, NamesByOp DEF TypeOK
        <5> QED
          BY <2>2, <5>1
      <4>2. CASE s # r
        BY <3>2, <4>2 DEF Named, TypeOK
      <4> QED
        BY <4>1, <4>2
    <3> QED
      BY <1>3, <3>1, <3>2
         DEF CreateDepartment, CreateTeam, SaveDepartment, SaveTeam, WriteTeam, Finish
  <2> QED
    BY <1>1, <2>1, <2>4, <2>5, WriteKeepsRoster
<1> QED
  BY <1>2, <1>3

LEMMA OtherStepsKeepRoster ==
  ASSUME TypeOK, Roster,
         \/ \E r \in Requests : NewItem(r) \/ Assign(r) \/ SaveItem(r)
         \/ \E u \in Users, as \in Profiles, d \in Depts \cup {None} : Join(u, as, d)
         \/ \E D \in SUBSET Depts : ApplyDefaults(D)
         \/ \E i \in Items : Archive(i) \/ \E s \in {"open", "done"} : SetStatus(i, s)
  PROVE  Roster'
<1>1. members' = members /\ \A u \in Users : Leads(u)' => Leads(u)
  <2>1. CASE \E D \in SUBSET Depts : ApplyDefaults(D)
    BY <2>1, MembershipConstants DEF ApplyDefaults, Leads, TypeOK
  <2>2. CASE UNCHANGED units
    BY <2>2 DEF units, Leads
  <2> QED
    BY <2>1, <2>2
       DEF NewItem, Assign, SaveItem, Join, Archive, SetStatus, units
<1>2. \A u \in Users : Belongs(u) => Belongs(u)'
  BY DEF NewItem, Assign, SaveItem, Join, ApplyDefaults, Archive, SetStatus, people,
     Belongs, HasProfile, TypeOK
<1>3. \A u \in Users : Named(u)' => Named(u)
  BY FinishForgets DEF NewItem, Assign, SaveItem, Join, ApplyDefaults, Archive,
     SetStatus, Finish, Named
<1> QED
  BY <1>1, <1>2, <1>3, WriteKeepsRoster

LEMMA StepRoster == TypeOK /\ Roster /\ [Next]_vars => Roster'
<1> SUFFICES ASSUME TypeOK, Roster, [Next]_vars PROVE Roster'
  OBVIOUS
<1>1. CASE UNCHANGED vars
  BY <1>1 DEF vars, people, units, Roster, Listed, Leads, Named, Belongs, HasProfile
<1>2. CASE Next
  BY <1>2, MemberChecksKeepRoster, UnitChecksKeepRoster, ItemChecksKeepRoster,
     MemberWritesKeepRoster, RemoveKeepsRoster, StartHandOverKeepsRoster,
     LeaderWritesKeepRoster,
     UnitWritesKeepRoster, OtherStepsKeepRoster DEF Next, Write
<1> QED
  BY <1>1, <1>2

THEOREM RosterCorrect == Spec => []Roster
<1>1. Init => TypeOK /\ Roster
  BY InitType, InitRoster
<1>2. TypeOK /\ Roster /\ [Next]_vars => (TypeOK /\ Roster)'
  BY StepType, StepRoster
<1> QED
  BY <1>1, <1>2, PTL DEF Spec

\* Whoever leads a department or a team, or is a member of one, belongs to the
\* company, except a member removed while a request was about to name them.
THEOREM RosterSafe == Spec => []RosterBelongs
<1>1. Roster => RosterBelongs
  BY DEF Roster, RosterBelongs, Listed, Belongs
<1> QED
  BY <1>1, RosterCorrect, PTL

-----------------------------------------------------------------------------
(* What a request was allowed to do when it was checked stays on record      *)
(* until it writes, however the roles have changed since.                    *)

Allowed(q) ==
  /\ q.op = "role" => q.new # q.old /\ ("CM" \in {q.old, q.new} => q.as = "Owner")
  /\ q.op = "remove" /\ q.old = "CM" => q.as = "Owner"

Decided == \A r \in Requests : Allowed(request[r])

LEMMA InitDecided == Init => Decided
  BY DEF Init, Decided, Allowed, Idle

LEMMA RequestKeepsDecided ==
  ASSUME TypeOK, Decided, NEW r \in Requests, NEW q, Allowed(q),
         request' = [request EXCEPT ![r] = q]
  PROVE  Decided'
<1> SUFFICES ASSUME NEW s \in Requests PROVE Allowed(request'[s])
  BY DEF Decided, Allowed
<1>1. request'[s] = q \/ request'[s] = request[s]
  BY DEF TypeOK
<1> QED
  BY <1>1 DEF Decided

LEMMA ChecksKeepDecided ==
  ASSUME TypeOK, Decided, NEW r \in Requests,
         \/ UnitRequest(r) \/ \E by, u \in Users : MemberRequest(r, by, u)
         \/ \E i \in Items : ItemRequest(r, i)
  PROVE  Decided'
<1>1. ASSUME NEW q, Check(r, q), q.op \notin {"role", "remove"} PROVE Decided'
  BY <1>1, RequestKeepsDecided DEF Check, Allowed
<1>2. ASSUME UnitRequest(r) PROVE Decided'
  <2>1. ASSUME NEW x, NEW u, CheckRevoke(r, x) \/ CheckLead(r, x, u) PROVE Decided'
    BY <1>1, <2>1 DEF CheckRevoke, CheckLead
  <2>2. ASSUME NEW d, NEW l, CheckSaveDepartment(r, d) \/ CheckCreateDepartment(r, d, l)
        PROVE  Decided'
    BY <1>1, <2>2 DEF CheckSaveDepartment, CheckCreateDepartment
  <2>3. ASSUME NEW t, NEW given, NEW l, NEW ms,
               CheckSaveTeam(r, t, given, ms) \/ CheckCreateTeam(r, t, l, ms)
        PROVE  Decided'
    BY <1>1, <2>3 DEF CheckSaveTeam, CheckCreateTeam
  <2> QED
    BY <1>2, <2>1, <2>2, <2>3 DEF UnitRequest
<1>3. ASSUME NEW by, NEW u, MemberRequest(r, by, u) PROVE Decided'
  <2>1. ASSUME NEW new, CheckRole(r, by, u, new) PROVE Decided'
    <3>1. Allowed([op |-> "role", as |-> RoleOf(by), user |-> u, old |-> role[u],
                   new |-> new])
      BY <2>1 DEF CheckRole, MayChangeRole, MayTakeRole, Allowed
    <3> QED
      BY <2>1, <3>1, RequestKeepsDecided DEF CheckRole, Check
  <2>2. ASSUME NEW to, CheckRemove(r, by, u, to) PROVE Decided'
    <3>1. Allowed([op |-> "remove", as |-> RoleOf(by), user |-> u, old |-> role[u],
                   held |-> Blockers(u), to |-> to])
      BY <2>2 DEF CheckRemove, MayTakeRole, Allowed
    <3> QED
      BY <2>2, <3>1, RequestKeepsDecided DEF CheckRemove, Check
  <2>3. ASSUME NEW x, CheckActive(r, by, u, x) \/ CheckMove(r, by, u, x) PROVE Decided'
    BY <1>1, <2>3 DEF CheckActive, CheckMove
  <2> QED
    BY <1>3, <2>1, <2>2, <2>3 DEF MemberRequest
<1>4. ASSUME NEW i, ItemRequest(r, i) PROVE Decided'
  <2>1. ASSUME NEW x, CheckNewItem(r, i, x) \/ CheckAssign(r, i, x) \/ CheckSaveItem(r, i, x)
        PROVE  Decided'
    BY <1>1, <2>1 DEF CheckNewItem, CheckAssign, CheckSaveItem
  <2> QED
    BY <1>4, <2>1 DEF ItemRequest
<1> QED
  BY <1>2, <1>3, <1>4

LEMMA WritesKeepDecided ==
  ASSUME TypeOK, Decided, NEW r \in Requests, Write(r)
  PROVE  Decided'
<1>1. \/ request' = [request EXCEPT ![r] = Idle]
      \/ request' = [request EXCEPT ![r] =
           [op |-> "members", unit |-> request[r].unit, members |-> request[r].members]]
      \/ \E q : q.op = "hand over" /\ request' = [request EXCEPT ![r] = q]
  <2>1. StartHandOver(r) => \E q : q.op = "hand over" /\ request' = [request EXCEPT ![r] = q]
    BY DEF StartHandOver
  <2> QED
    BY <2>1 DEF Write, ChangeRole, SetActive, Move, Remove, HandOver, LeadTeam,
       RevokeTeam, CreateDepartment, CreateTeam, SaveDepartment,
       SaveTeam, WriteTeam, SetMembers, NewItem, Assign, SaveItem, Finish
<1> QED
  BY <1>1, RequestKeepsDecided DEF Allowed, Idle

LEMMA StepDecided == TypeOK /\ Decided /\ [Next]_vars => Decided'
<1> SUFFICES ASSUME TypeOK, Decided, [Next]_vars PROVE Decided'
  OBVIOUS
<1>1. CASE request' = request
  BY <1>1 DEF Decided, Allowed
<1>2. CASE request' # request
  BY <1>2, ChecksKeepDecided, WritesKeepDecided
     DEF Next, vars, Join, ApplyDefaults, Archive, SetStatus
<1> QED
  BY <1>1, <1>2

LEMMA ChecksOnlyRead ==
  ASSUME NEW r \in Requests,
         \/ UnitRequest(r) \/ \E by, u \in Users : MemberRequest(r, by, u)
         \/ \E i \in Items : ItemRequest(r, i)
  PROVE  UNCHANGED <<people, units, work, overtaken, bare>>
<1> DEFINE Same == UNCHANGED <<people, units, work, overtaken, bare>>
<1>1. ASSUME NEW q, Check(r, q) PROVE Same
  BY <1>1 DEF Check
<1> HIDE DEF Same
<1>2. ASSUME UnitRequest(r) PROVE Same
  <2>1. ASSUME NEW x, NEW u, CheckRevoke(r, x) \/ CheckLead(r, x, u) PROVE Same
    BY <1>1, <2>1 DEF CheckRevoke, CheckLead
  <2>2. ASSUME NEW d, NEW l, CheckSaveDepartment(r, d) \/ CheckCreateDepartment(r, d, l)
        PROVE  Same
    BY <1>1, <2>2 DEF CheckSaveDepartment, CheckCreateDepartment
  <2>3. ASSUME NEW t, NEW given, NEW l, NEW ms,
               CheckSaveTeam(r, t, given, ms) \/ CheckCreateTeam(r, t, l, ms)
        PROVE  Same
    BY <1>1, <2>3 DEF CheckSaveTeam, CheckCreateTeam
  <2> QED
    BY <1>2, <2>1, <2>2, <2>3 DEF UnitRequest
<1>3. ASSUME NEW by, NEW u, MemberRequest(r, by, u) PROVE Same
  <2>1. ASSUME NEW x, \/ CheckRole(r, by, u, x) \/ CheckRemove(r, by, u, x)
                      \/ CheckActive(r, by, u, x) \/ CheckMove(r, by, u, x)
        PROVE  Same
    BY <1>1, <2>1 DEF CheckRole, CheckRemove, CheckActive, CheckMove
  <2> QED
    BY <1>3, <2>1 DEF MemberRequest
<1>4. ASSUME NEW i, ItemRequest(r, i) PROVE Same
  <2>1. ASSUME NEW x, CheckNewItem(r, i, x) \/ CheckAssign(r, i, x) \/ CheckSaveItem(r, i, x)
        PROVE  Same
    BY <1>1, <2>1 DEF CheckNewItem, CheckAssign, CheckSaveItem
  <2> QED
    BY <1>4, <2>1 DEF ItemRequest
<1> QED
  BY <1>2, <1>3, <1>4 DEF Same

\* A handover takes the role of a manager only by a promotion, of somebody it
\* found to be a plain member; it makes nobody a manager.
LEMMA HandOverOnManagers ==
  ASSUME TypeOK, NEW r \in Requests, HandOver(r), NEW u \in Users,
         role[u] = "CM" <=> role'[u] # "CM"
  PROVE  role[u] = "CM" /\ request[r].plain /\ request[r].to = u
<1> DEFINE roles == Promoted(request[r].to, request[r].plain)
<1>1. roles[u] # role[u] => request[r].plain /\ request[r].to = u /\ roles[u] = "DL"
  BY DEF Promoted, TypeOK
<1>2. roles \in [Users -> Profiles \cup {"Owner", "unregistered", "removed"}]
  BY HandOverWrites, PromotedType
<1>3. \/ UNCHANGED role
      \/ role' = roles
      \/ role' = Demoted(roles, request[r].prev, request[r].leads)
  BY HandOverWrites
<1> HIDE DEF roles
<1>4. role'[u] = role[u] \/ role'[u] = roles[u] \/ (roles[u] = "DL" /\ role'[u] = "DM")
  BY <1>2, <1>3 DEF Demoted
<1> QED
  BY <1>1, <1>4

\* Only these three actions touch the role of a manager.
LEMMA ManagerSteps ==
  ASSUME TypeOK, [Next]_vars, NEW u \in Users, HasProfile(u),
         role[u] = "CM" <=> role'[u] # "CM"
  PROVE  \E r \in Requests :
           \/ (ChangeRole(r) \/ Remove(r)) /\ request[r].user = u
           \/ HandOver(r)
<1>1. ASSUME UNCHANGED role PROVE FALSE
  BY <1>1
<1>3. ASSUME NEW v, NEW as, NEW d, Join(v, as, d) PROVE FALSE
  BY <1>3 DEF Join, TypeOK, HasProfile, Profiles
<1>4. PICK r \in Requests : ChangeRole(r) \/ Remove(r) \/ HandOver(r)
  <2>1. ASSUME NEW r \in Requests,
               \/ UnitRequest(r) \/ \E by, v \in Users : MemberRequest(r, by, v)
               \/ \E i \in Items : ItemRequest(r, i)
        PROVE  UNCHANGED role
    BY <2>1, ChecksOnlyRead DEF people
  <2>2. ASSUME NEW r \in Requests, Write(r),
               ~(ChangeRole(r) \/ Remove(r) \/ HandOver(r))
        PROVE  FALSE
    BY <1>1, <2>2 DEF Write, SetActive, Move, StartHandOver, LeadTeam, RevokeTeam,
       CreateDepartment, CreateTeam, SaveDepartment, SaveTeam, SetMembers, NewItem,
       Assign, SaveItem, people
  <2>3. ASSUME \/ \E D \in SUBSET Depts : ApplyDefaults(D)
               \/ \E i \in Items : Archive(i) \/ \E s \in {"open", "done"} : SetStatus(i, s)
        PROVE  FALSE
    BY <1>1, <2>3 DEF ApplyDefaults, Archive, SetStatus, people
  <2> QED
    BY <1>1, <1>3, <2>1, <2>2, <2>3 DEF Next, vars, people
<1>5. ~HandOver(r) => request[r].user = u
  BY <1>1, <1>4 DEF ChangeRole, Remove, TypeOK
<1> QED
  BY <1>4, <1>5

LEMMA ManagerStep ==
  TypeOK /\ Decided /\ [Next]_vars =>
    \A u \in Users : HasProfile(u) /\ (role[u] = "CM" <=> role'[u] # "CM") =>
      \E r \in Requests :
        /\ request[r] # Idle /\ request'[r] = Idle
        /\ \/ /\ request[r].op \in {"role", "remove"}
              /\ request[r].user = u
              /\ request[r].as = "Owner" \/ (role[u] = "CM" /\ request[r].old # "CM")
           \/ /\ request[r].op = "hand over"
              /\ request[r].to = u
              /\ role[u] = "CM" /\ request[r].plain
<1> SUFFICES ASSUME TypeOK, Decided, [Next]_vars, NEW u \in Users, HasProfile(u),
                    role[u] = "CM" <=> role'[u] # "CM"
             PROVE  \E r \in Requests :
                      /\ request[r] # Idle /\ request'[r] = Idle
                      /\ \/ /\ request[r].op \in {"role", "remove"}
                            /\ request[r].user = u
                            /\ \/ request[r].as = "Owner"
                               \/ role[u] = "CM" /\ request[r].old # "CM"
                         \/ /\ request[r].op = "hand over"
                            /\ request[r].to = u
                            /\ role[u] = "CM" /\ request[r].plain
  OBVIOUS
<1>1. PICK r \in Requests :
        \/ (ChangeRole(r) \/ Remove(r)) /\ request[r].user = u
        \/ HandOver(r)
  BY ManagerSteps
<1>2. CASE HandOver(r)
  <2>1. role[u] = "CM" /\ request[r].plain /\ request[r].to = u
    BY <1>2, HandOverOnManagers
  <2>2. request[r].op = "hand over" /\ request'[r] = Idle /\ Idle.op = "idle"
    BY <1>2, HandOverWrites DEF HandOver, Finish, Idle
  <2> QED
    BY <2>1, <2>2
<1>3. CASE (ChangeRole(r) \/ Remove(r)) /\ request[r].user = u
  <2>1. /\ request[r] # Idle /\ request'[r] = Idle
        /\ request[r].op \in {"role", "remove"}
    BY <1>3 DEF ChangeRole, Remove, Finish, Idle, TypeOK
  <2>2. CASE role[u] = "CM"
    BY <1>3, <2>1, <2>2 DEF Decided, Allowed
  <2>3. CASE role[u] # "CM"
    <3>1. ChangeRole(r) /\ request[r].new = "CM"
      BY <1>3, <2>3 DEF ChangeRole, Remove, TypeOK
    <3> QED
      BY <1>3, <2>1, <3>1 DEF ChangeRole, Finish, Decided, Allowed
  <2> QED
    BY <2>2, <2>3
<1> QED
  BY <1>1, <1>2, <1>3

\* Nobody becomes a company manager except by the owner's request, and no
\* manager stops being one except by the owner's request or by one that read
\* an older role: an update or removal checked before, or set_department_leader
\* promoting who has been made a manager since.
THEOREM ManagersSafe == Spec => ManagersAnswerToOwner
<1>1. Init => TypeOK /\ Decided
  BY InitType, InitDecided
<1>2. TypeOK /\ Decided /\ [Next]_vars => (TypeOK /\ Decided)'
  BY StepType, StepDecided
<1> QED
  BY <1>1, <1>2, ManagerStep, PTL DEF Spec, ManagersAnswerToOwner

-----------------------------------------------------------------------------
(* Departments have authority.  A new member is nobody's leader yet: whoever *)
(* leads something and has no profile was overtaken, and so was removed.     *)

Gone == \A u \in overtaken : role[u] = "removed"

LEMMA InitAuthority == Init => Gone /\ DepartmentsHaveAuthority
  BY MembershipConstants DEF Init, Gone, DepartmentsHaveAuthority, Units

\* Roles and leaders that nobody changed.
LEMMA SameRolesAndLeaders ==
  ASSUME Gone, DepartmentsHaveAuthority, UNCHANGED <<role, overtaken>>,
         \A d \in Depts \ bare' :
           (leader'[d] = leader[d] /\ d \notin bare) \/ leader'[d] \notin Users
  PROVE  Gone' /\ DepartmentsHaveAuthority'
  BY DEF Gone, DepartmentsHaveAuthority

LEMMA RoleKeepsAuthority ==
  ASSUME TypeOK, Decided, Gone, DepartmentsHaveAuthority, NEW r \in Requests, ChangeRole(r)
  PROVE  Gone' /\ DepartmentsHaveAuthority'
<1> DEFINE u == request[r].user
           new == request[r].new
           old == request[r].old
<1>1. u \in Users /\ new \in Profiles /\ old \in Profiles /\ new # old
  <2>1. request[r] \in Request /\ request[r].op = "role"
    BY DEF ChangeRole, Finish, TypeOK
  <2>2. request[r] \in RoleRequest
    BY <2>1, Fields
  <2> QED
    BY <2>1, <2>2 DEF RoleRequest, Decided, Allowed
<1>2. CASE ~RowExists(u)
  BY <1>2, SameRolesAndLeaders DEF ChangeRole, DepartmentsHaveAuthority
<1>3. CASE RowExists(u)
  <2>1. /\ role' = [role EXCEPT ![u] = new]
        /\ leader' = IF old = "DL" THEN WithoutLeader(u) ELSE leader
        /\ bare' = IF old = "CM" /\ new = "DM"
                     THEN bare \cup {d \in Depts : leader[d] = u} ELSE bare
        /\ overtaken' = overtaken
    BY <1>3 DEF ChangeRole
  <2> HIDE DEF u, new, old
  <2>2. Gone'
    BY <1>1, <1>3, <2>1 DEF Gone, RowExists, HasProfile, Profiles, TypeOK
  <2>3. ASSUME NEW d \in Depts \ bare', NEW v \in Users, leader'[d] = v
        PROVE  role'[v] # "DM"
    <3>1. leader[d] = v /\ d \notin bare /\ d \in Units
      BY <2>1, <2>3, MembershipConstants DEF WithoutLeader, Units, TypeOK
    <3>2. CASE v = u
      <4>1. old # "DL"
        BY <2>1, <2>3, <3>1, <3>2, MembershipConstants DEF WithoutLeader
      <4>2. new # "DM" \/ old # "CM"
        BY <2>1, <2>3, <3>1, <3>2
      <4> QED
        BY <1>1, <2>1, <3>2, <4>1, <4>2 DEF Profiles, TypeOK
    <3>3. CASE v # u
      BY <2>1, <3>1, <3>3 DEF DepartmentsHaveAuthority, TypeOK
    <3> QED
      BY <3>2, <3>3
  <2> QED
    BY <2>2, <2>3 DEF DepartmentsHaveAuthority
<1> QED
  BY <1>2, <1>3

LEMMA RemoveKeepsAuthority ==
  ASSUME TypeOK, Gone, DepartmentsHaveAuthority, NEW r \in Requests, Remove(r)
  PROVE  Gone' /\ DepartmentsHaveAuthority'
<1> DEFINE u == request[r].user
<1>1. /\ role' = [role EXCEPT ![u] = "removed"]
      /\ leader' = WithoutLeader(u) /\ bare' = bare
      /\ overtaken' \subseteq overtaken \cup {u}
  BY DEF Remove
<1>0. u \in Users
  <2>1. request[r] \in Request /\ request[r].op = "remove"
    BY DEF Remove, Finish, TypeOK
  <2> QED
    BY <2>1, Fields DEF RemoveRequest
<1> HIDE DEF u
<1>2. Gone'
  BY <1>0, <1>1 DEF Gone, TypeOK
<1>3. ASSUME NEW d \in Depts \ bare', NEW v \in Users, leader'[d] = v
      PROVE  role'[v] # "DM"
  BY <1>1, <1>3, MembershipConstants
     DEF WithoutLeader, Units, DepartmentsHaveAuthority, TypeOK
<1> QED
  BY <1>2, <1>3 DEF DepartmentsHaveAuthority

\* What a handover does to the role of one member.
LEMMA HandOverRole ==
  ASSUME TypeOK, NEW r \in Requests, HandOver(r), NEW v \in Users,
         ~UNCHANGED <<leader, role, dept, bare>>
  PROVE  /\ role[v] = "removed" => role'[v] = "removed"
         /\ request[r].plain /\ v = request[r].to => role'[v] = "DL"
         /\ role[v] # "DM" /\ role'[v] = "DM" =>
              /\ v = request[r].prev /\ v # request[r].to /\ ~request[r].leads
              /\ role[v] = "DL"
         /\ /\ role[v] = "DL" /\ v = request[r].prev /\ v # request[r].to
            /\ ~request[r].leads
            => role'[v] = "DM"
<1> DEFINE u == request[r].to
           plain == request[r].plain
           prev == request[r].prev
           leads == request[r].leads
           roles == Promoted(u, plain)
<1>1. plain => RowExists(u)
  BY HandOverWrites
<1>2. /\ roles[v] = IF plain /\ v = u THEN "DL" ELSE role[v]
      /\ roles \in [Users -> Profiles \cup {"Owner", "unregistered", "removed"}]
  BY <1>1, PromotedType DEF Promoted, TypeOK
<1>3. role' = IF prev = u THEN roles ELSE Demoted(roles, prev, leads)
  BY HandOverWrites
<1> HIDE DEF u, plain, prev, leads, roles
<1>4. role'[v] = IF prev # u /\ v = prev /\ roles[v] = "DL" /\ ~leads THEN "DM" ELSE roles[v]
  BY <1>2, <1>3 DEF Demoted
<1>5. role[v] = "removed" => ~(plain /\ v = u)
  BY <1>1 DEF RowExists, HasProfile, Profiles
<1>6. /\ role[v] = "removed" => role'[v] = "removed"
      /\ plain /\ v = u => role'[v] = "DL"
      /\ role[v] # "DM" /\ role'[v] = "DM" => v = prev /\ v # u /\ ~leads /\ role[v] = "DL"
      /\ role[v] = "DL" /\ v = prev /\ v # u /\ ~leads => role'[v] = "DM"
  BY <1>2, <1>4, <1>5
<1> QED
  BY <1>6 DEF u, plain, prev, leads

LEMMA HandOverKeepsAuthority ==
  ASSUME TypeOK, Gone, DepartmentsHaveAuthority, NEW r \in Requests, HandOver(r)
  PROVE  Gone' /\ DepartmentsHaveAuthority'
<1>1. CASE UNCHANGED <<leader, role, dept, bare>>
  BY <1>1, SameRolesAndLeaders DEF HandOver, DepartmentsHaveAuthority
<1>2. CASE ~UNCHANGED <<leader, role, dept, bare>>
  <2> DEFINE x == request[r].unit
             to == request[r].to
             prev == request[r].prev
  <2>1. /\ leader' = [leader EXCEPT ![x] = to]
        /\ overtaken' = overtaken
        /\ x \in Depts
    BY <1>2, HandOverWrites DEF HandOver, HandOverRequest
  <2>2. bare' = (bare \ {x}) \cup
          {d \in Depts :
             \/ d = x /\ to \in Users /\ ~request[r].plain /\ role'[to] = "DM"
             \/ /\ d # x /\ prev \in Users /\ leader[d] = prev
                /\ ~request[r].leads /\ role'[prev] = "DM"}
    BY <1>2 DEF HandOver
  <2>3. Gone'
    BY <1>2, <2>1, HandOverRole DEF Gone, TypeOK
  <2>4. ASSUME NEW d \in Depts \ bare', NEW v \in Users, leader'[d] = v
        PROVE  role'[v] # "DM"
    <3>1. d \in Units
      BY DEF Units
    <3>2. CASE d = x
      <4>1. v = to
        BY <2>1, <2>4, <3>1, <3>2 DEF TypeOK
      <4>2. ~request[r].plain => role'[v] # "DM"
        BY <2>2, <2>4, <3>2, <4>1
      <4> QED
        BY <1>2, <4>1, <4>2, HandOverRole
    <3>3. CASE d # x
      <4>1. leader[d] = v /\ d \notin bare
        BY <2>1, <2>2, <2>4, <3>1, <3>3 DEF TypeOK
      <4>2. role[v] # "DM"
        BY <4>1 DEF DepartmentsHaveAuthority
      <4>3. ~(v = prev /\ ~request[r].leads /\ role'[v] = "DM")
        BY <2>2, <2>4, <3>3, <4>1
      <4> QED
        BY <1>2, <4>2, <4>3, HandOverRole
    <3> QED
      BY <3>2, <3>3
  <2> QED
    BY <2>3, <2>4 DEF DepartmentsHaveAuthority
<1> QED
  BY <1>1, <1>2

LEMMA UnitWritesKeepAuthority ==
  ASSUME TypeOK, Gone, DepartmentsHaveAuthority, NEW r \in Requests,
         \/ CreateDepartment(r) \/ CreateTeam(r) \/ SaveDepartment(r) \/ SaveTeam(r)
         \/ SetMembers(r) \/ LeadTeam(r) \/ RevokeTeam(r)
  PROVE  Gone' /\ DepartmentsHaveAuthority'
<1>1. UNCHANGED <<role, overtaken>>
  BY DEF CreateDepartment, CreateTeam, SaveDepartment, SaveTeam, SetMembers, LeadTeam,
     RevokeTeam, people
<1>2. CASE CreateDepartment(r) \/ SaveDepartment(r)
  <2>1. PICK d, l :
          \/ /\ leader' = [leader EXCEPT ![d] = l]
             /\ bare' = IF l \in Users /\ role[l] = "DM" THEN bare \cup {d} ELSE bare
          \/ UNCHANGED <<leader, bare>>
    BY <1>2 DEF CreateDepartment, SaveDepartment
  <2>2. ASSUME NEW e \in Depts \ bare', NEW v \in Users, leader'[e] = v
        PROVE  role[v] # "DM"
    BY <2>1, <2>2 DEF DepartmentsHaveAuthority, Units, TypeOK
  <2> QED
    BY <1>1, <2>2 DEF Gone, DepartmentsHaveAuthority
<1>3. CASE ~(CreateDepartment(r) \/ SaveDepartment(r))
  <2>1. bare' = bare /\ \A d \in Depts : leader'[d] = leader[d]
    BY <1>3, MembershipConstants
       DEF CreateTeam, SaveTeam, WriteTeam, SetMembers, LeadTeam, RevokeTeam, Units, TypeOK
  <2> QED
    BY <1>1, <2>1, SameRolesAndLeaders
<1> QED
  BY <1>2, <1>3

LEMMA JoinKeepsAuthority ==
  ASSUME TypeOK, Roster, Gone, DepartmentsHaveAuthority,
         NEW u \in Users, NEW as \in Profiles, NEW d \in Depts \cup {None}, Join(u, as, d)
  PROVE  Gone' /\ DepartmentsHaveAuthority'
<1>1. ~Belongs(u)
  BY DEF Join, Gone, Belongs, HasProfile, Profiles, TypeOK
<1>2. \A e \in Depts : leader[e] # u
  BY <1>1 DEF Roster, Listed, Leads, Units
<1> QED
  BY <1>1, <1>2 DEF Join, units, Gone, DepartmentsHaveAuthority, Belongs, TypeOK

LEMMA StepAuthority ==
  /\ TypeOK /\ Roster /\ Decided /\ Gone /\ DepartmentsHaveAuthority
  /\ [Next]_vars
  => (Gone /\ DepartmentsHaveAuthority)'
<1> SUFFICES ASSUME TypeOK, Roster, Decided, Gone, DepartmentsHaveAuthority, [Next]_vars
             PROVE  Gone' /\ DepartmentsHaveAuthority'
  OBVIOUS
<1>1. CASE UNCHANGED <<role, leader, overtaken, bare>>
  BY <1>1, SameRolesAndLeaders
<1>2. ASSUME NEW D \in SUBSET Depts, ApplyDefaults(D) PROVE Gone' /\ DepartmentsHaveAuthority'
  BY <1>2, SameRolesAndLeaders, MembershipConstants
     DEF ApplyDefaults, people, Units, TypeOK
<1>3. ASSUME NEW r \in Requests, Write(r) PROVE Gone' /\ DepartmentsHaveAuthority'
  BY <1>1, <1>3, RoleKeepsAuthority, RemoveKeepsAuthority, HandOverKeepsAuthority,
     UnitWritesKeepAuthority
     DEF Write, SetActive, Move, StartHandOver, NewItem, Assign, SaveItem, people, units
<1>4. CASE UNCHANGED vars
  BY <1>1, <1>4 DEF vars, people, units
<1>5. CASE Next
  BY <1>1, <1>2, <1>3, <1>5, JoinKeepsAuthority, ChecksOnlyRead
     DEF Next, Archive, SetStatus, people, units
<1> QED
  BY <1>4, <1>5

\* Nobody leads a department as a plain member, except where the code writes
\* the leader, or takes a manager's role, without looking at the other, or
\* where a change of leader goes by what it read of the other before.
THEOREM AuthoritySafe == Spec => []DepartmentsHaveAuthority
<1>1. Init => TypeOK /\ Decided /\ Roster /\ Gone /\ DepartmentsHaveAuthority
  BY InitType, InitDecided, InitRoster, InitAuthority
<1>2. TypeOK /\ Decided /\ Roster /\ Gone /\ DepartmentsHaveAuthority /\ [Next]_vars
      => (TypeOK /\ Decided /\ Roster /\ Gone /\ DepartmentsHaveAuthority)'
  BY StepType, StepDecided, StepRoster, StepAuthority
<1> QED
  BY <1>1, <1>2, PTL DEF Spec

-----------------------------------------------------------------------------
(* Work.  A member can be found with open work after the removal only by the *)
(* ways WorkStaysInside names: every other request that gives work to        *)
(* somebody names them, and Roster says that they belong, so that a removed  *)
(* one was overtaken.                                                        *)

\* Somebody without a profile whom a request is about to name was overtaken.
LEMMA NamedAndRemoved ==
  ASSUME TypeOK, Roster, NEW u \in Users, Named(u), role[u] = "removed"
  PROVE  u \in overtaken
  BY DEF Roster, Listed, Belongs, HasProfile, Profiles, TypeOK

\* Only Remove makes a removed member.
LEMMA RemovedByRemove ==
  ASSUME TypeOK, NEW r \in Requests, Write(r), NEW u \in Users,
         role[u] # "removed", role'[u] = "removed"
  PROVE  Remove(r) /\ request[r].user = u
<1>1. ASSUME ChangeRole(r) PROVE FALSE
  <2>1. request[r] \in Request /\ request[r].op = "role"
    BY <1>1 DEF ChangeRole, Finish, TypeOK
  <2>2. request[r].new \in Profiles
    BY <2>1, Fields DEF RoleRequest
  <2> QED
    BY <1>1, <2>2 DEF ChangeRole, Profiles, TypeOK
<1>2. ASSUME HandOver(r) PROVE FALSE
  BY <1>2, HandOverWrites DEF Promoted, Demoted, TypeOK
<1>3. Remove(r)
  BY <1>1, <1>2 DEF Write, SetActive, Move, StartHandOver, LeadTeam, RevokeTeam, CreateDepartment,
     CreateTeam, SaveDepartment, SaveTeam, SetMembers, NewItem, Assign, SaveItem, people
<1> QED
  BY <1>3 DEF Remove, TypeOK

WorkStep(u, i) ==
  \/ status[i] \in {"done", "archived"}
  \/ u \in overtaken'
  \/ \E r \in Requests :
       /\ request'[r] # request[r]
       /\ \/ /\ request[r].op = "remove" /\ request[r].user = u
             /\ i \notin request[r].held \/ request[r].to = u
          \/ /\ request[r].op = "save item" /\ request[r].item = i
             /\ request[r].holder = u

LEMMA RemoveLeavesBehind ==
  ASSUME TypeOK, Roster, NEW r \in Requests, Remove(r), NEW u \in Users, NEW i \in Items,
         ~LeftBehind(u, i), LeftBehind(u, i)'
  PROVE  WorkStep(u, i)
<1>1. /\ request[r].op = "remove" /\ request'[r] # request[r]
      /\ status'[i] = status[i] /\ overtaken \subseteq overtaken'
  BY DEF Remove, Finish, Idle, TypeOK
<1>2. holder'[i] = IF i \in request[r].held THEN request[r].to ELSE holder[i]
  BY DEF Remove
<1>3. CASE request[r].user = u
  BY <1>1, <1>2, <1>3 DEF WorkStep, LeftBehind
<1>4. CASE request[r].user # u
  <2>1. role[u] = "removed"
    BY <1>4 DEF Remove, LeftBehind, TypeOK
  <2>2. request[r].to = u
    BY <1>1, <1>2, <2>1 DEF LeftBehind
  <2>3. Named(u)
    BY <1>1, <2>2, NamesByOp DEF Named, Naming
  <2> QED
    BY <1>1, <2>1, <2>3, NamedAndRemoved DEF WorkStep
<1> QED
  BY <1>3, <1>4

LEMMA ItemWriteLeavesBehind ==
  ASSUME TypeOK, Roster, NEW r \in Requests, NewItem(r) \/ Assign(r) \/ SaveItem(r),
         NEW u \in Users, NEW i \in Items, ~LeftBehind(u, i), LeftBehind(u, i)'
  PROVE  WorkStep(u, i)
<1>1. role[u] = "removed" /\ overtaken' = overtaken
  BY DEF NewItem, Assign, SaveItem, people, LeftBehind
<1>2. CASE NewItem(r) \/ Assign(r)
  <2>1. CASE request[r].item = i /\ request[r].to = u
    <3>1. Named(u)
      BY <1>2, <2>1, NamesByOp DEF NewItem, Assign, Finish, Named, Naming
    <3> QED
      BY <1>1, <3>1, NamedAndRemoved DEF WorkStep
  <2>2. CASE ~(request[r].item = i /\ request[r].to = u)
    BY <1>1, <1>2, <2>2 DEF NewItem, Assign, work, LeftBehind, TypeOK
  <2> QED
    BY <2>1, <2>2
<1>3. CASE SaveItem(r)
  <2>1. request[r].item = i /\ request[r].holder = u
    BY <1>1, <1>3 DEF SaveItem, LeftBehind, TypeOK
  <2>2. request[r].op = "save item" /\ request'[r] # request[r]
    <3>1. request[r].op = "save item" /\ request'[r] = Idle
      BY <1>3 DEF SaveItem, Finish, TypeOK
    <3>2. Idle.op = "idle"
      BY DEF Idle
    <3> QED
      BY <3>1, <3>2
  <2> QED
    BY <2>1, <2>2 DEF WorkStep
<1> QED
  BY <1>2, <1>3

LEMMA WorkStepLemma ==
  TypeOK /\ Roster /\ [Next]_vars =>
    \A u \in Users, i \in Items : ~LeftBehind(u, i) /\ LeftBehind(u, i)' => WorkStep(u, i)
<1> SUFFICES ASSUME TypeOK, Roster, [Next]_vars, NEW u \in Users, NEW i \in Items,
                    ~LeftBehind(u, i), LeftBehind(u, i)'
             PROVE  WorkStep(u, i)
  OBVIOUS
<1>1. ASSUME UNCHANGED <<role, work>> PROVE FALSE
  BY <1>1 DEF work, LeftBehind
<1>2. ASSUME NEW r \in Requests, Write(r) PROVE WorkStep(u, i)
  <2>1. CASE Remove(r)
    BY <2>1, RemoveLeavesBehind
  <2>2. CASE NewItem(r) \/ Assign(r) \/ SaveItem(r)
    BY <2>2, ItemWriteLeavesBehind
  <2>3. CASE ~Remove(r) /\ ~(NewItem(r) \/ Assign(r) \/ SaveItem(r))
    <3>1. UNCHANGED work
      BY <1>2, <2>3 DEF Write, ChangeRole, SetActive, Move, StartHandOver, HandOver,
         LeadTeam, RevokeTeam, CreateDepartment, CreateTeam, SaveDepartment,
         SaveTeam, SetMembers
    <3>2. role[u] # "removed" /\ role'[u] = "removed"
      BY <3>1 DEF work, LeftBehind
    <3> QED
      BY <1>2, <2>3, <3>2, RemovedByRemove
  <2> QED
    BY <2>1, <2>2, <2>3
<1>3. ASSUME NEW v, NEW as \in Profiles, NEW d, Join(v, as, d) PROVE FALSE
  BY <1>3 DEF Join, work, LeftBehind, Profiles, TypeOK
<1>4. ASSUME NEW j \in Items, Archive(j) \/ \E s \in {"open", "done"} : SetStatus(j, s)
      PROVE  WorkStep(u, i)
  <2>1. status[i] # "open" /\ status'[i] = "open"
    BY <1>4 DEF Archive, SetStatus, people, LeftBehind
  <2>2. status[i] = "done"
    BY <1>4, <2>1 DEF Archive, SetStatus, TypeOK
  <2> QED
    BY <2>2 DEF WorkStep
<1> QED
  BY <1>1, <1>2, <1>3, <1>4, ChecksOnlyRead DEF Next, vars, people, ApplyDefaults

\* Open work is left with a removed member only when it was reopened, when a
\* request was about to name them, or through one of the four stale writes.
THEOREM WorkSafe == Spec => WorkStaysInside
<1>1. Init => TypeOK /\ Roster
  BY InitType, InitRoster
<1>2. TypeOK /\ Roster /\ [Next]_vars => (TypeOK /\ Roster)'
  BY StepType, StepRoster
<1>3. TypeOK /\ Roster /\ [Next]_vars =>
        \A u \in Users, i \in Items : ~LeftBehind(u, i) /\ LeftBehind(u, i)' =>
          \/ status[i] \in {"done", "archived"}
          \/ u \in overtaken'
          \/ \E r \in Requests :
               /\ request'[r] # request[r]
               /\ \/ /\ request[r].op = "remove" /\ request[r].user = u
                     /\ i \notin request[r].held \/ request[r].to = u
                  \/ /\ request[r].op = "save item" /\ request[r].item = i
                     /\ request[r].holder = u
  BY WorkStepLemma DEF WorkStep
<1> QED
  BY <1>1, <1>2, <1>3, PTL DEF Spec, WorkStaysInside

-----------------------------------------------------------------------------
(* The role of a department leader ends with the last leadership.            *)

OfficeStep(u) ==
  \E r \in Requests :
    /\ request'[r] # request[r]
    /\ \/ request[r].op = "save"
       \/ request[r].op \in {"lead", "revoke"} /\ request[r].unit \in Teams
       \/ /\ request[r].op = "hand over"
          /\ request[r].prev # u \/ request[r].leads

LEMMA HandOverEndsRole ==
  ASSUME TypeOK, NEW r \in Requests, NEW u \in Users, role[u] = "DL", Leads(u),
         HandOver(r), ~Leads(u)', role'[u] = "DL"
  PROVE  OfficeStep(u)
<1>1. request[r].op = "hand over" /\ request'[r] = Idle /\ Idle.op = "idle"
  BY HandOverWrites DEF HandOver, Finish, Idle
<1>2. request[r].prev # u \/ request[r].leads
  <2> SUFFICES ASSUME request[r].prev = u, ~request[r].leads PROVE FALSE
    OBVIOUS
  <2>1. ~UNCHANGED <<leader, role, dept, bare>>
    BY DEF Leads
  <2>2. request[r].unit \in Units /\ leader' = [leader EXCEPT ![request[r].unit] = request[r].to]
    BY <2>1, HandOverWrites DEF HandOverRequest, Units
  <2>3. request[r].to # u
    BY <2>2 DEF Leads, TypeOK
  <2> QED
    BY <2>1, <2>3, HandOverRole
<1> QED
  BY <1>1, <1>2 DEF OfficeStep

LEMMA WriteEndsRole ==
  ASSUME TypeOK, Decided, NEW r \in Requests, Write(r), NEW u \in Users,
         role[u] = "DL", Leads(u), ~Leads(u)', role'[u] = "DL"
  PROVE  OfficeStep(u)
<1>1. PICK x \in Units : leader[x] = u /\ leader'[x] # u
  BY DEF Leads
<1>2. CASE HandOver(r)
  BY <1>2, HandOverEndsRole
<1>3. CASE LeadTeam(r) \/ RevokeTeam(r)
  <2>1. /\ request[r].op \in {"lead", "revoke"} /\ request[r].unit \in Teams
        /\ request'[r] = Idle /\ Idle.op = "idle"
    BY <1>3 DEF LeadTeam, RevokeTeam, Finish, Idle, TypeOK
  <2> QED
    BY <2>1 DEF OfficeStep
<1>4. CASE SaveDepartment(r) \/ SaveTeam(r)
  <2>1. /\ request[r].op = "save" /\ Idle.op = "idle"
        /\ \/ request'[r] = Idle
           \/ request'[r] = [op |-> "members", unit |-> request[r].unit,
                             members |-> request[r].members]
    BY <1>4 DEF SaveDepartment, SaveTeam, WriteTeam, Finish, Idle, TypeOK
  <2>2. request'[r] # request[r]
    BY <2>1
  <2> QED
    BY <2>1, <2>2 DEF OfficeStep
<1>5. CASE ChangeRole(r)
  <2>1. request[r] \in Request /\ request[r].op = "role"
    BY <1>5 DEF ChangeRole, Finish, TypeOK
  <2>2. request[r].new # request[r].old
    BY <2>1 DEF Decided, Allowed
  <2>3. request[r].old = "DL" /\ request[r].user = u /\ RowExists(u)
    BY <1>1, <1>5 DEF ChangeRole, WithoutLeader
  <2>4. role'[u] = request[r].new
    BY <1>5, <2>3 DEF ChangeRole, TypeOK
  <2> QED
    BY <2>2, <2>3, <2>4
<1>6. CASE Remove(r)
  <2>1. request[r].user = u
    BY <1>1, <1>6 DEF Remove, WithoutLeader
  <2> QED
    BY <1>6, <2>1 DEF Remove, TypeOK
<1>7. CASE CreateDepartment(r) \/ CreateTeam(r)
  BY <1>1, <1>7, MembershipConstants DEF CreateDepartment, CreateTeam, WriteTeam, TypeOK
<1> QED
  BY <1>1, <1>2, <1>3, <1>4, <1>5, <1>6, <1>7
     DEF Write, SetActive, Move, StartHandOver, SetMembers, NewItem, Assign, SaveItem, units

LEMMA OfficeStepLemma ==
  TypeOK /\ Decided /\ [Next]_vars =>
    \A u \in Users : role[u] = "DL" /\ Leads(u) /\ ~Leads(u)' /\ role'[u] = "DL" =>
      OfficeStep(u)
<1> SUFFICES ASSUME TypeOK, Decided, [Next]_vars, NEW u \in Users,
                    role[u] = "DL", Leads(u), ~Leads(u)', role'[u] = "DL"
             PROVE  OfficeStep(u)
  OBVIOUS
<1>1. ASSUME UNCHANGED leader PROVE FALSE
  BY <1>1 DEF Leads
<1>2. ASSUME NEW D \in SUBSET Depts, ApplyDefaults(D) PROVE FALSE
  BY <1>2, MembershipConstants DEF ApplyDefaults, Leads, TypeOK, Units
<1> QED
  BY <1>1, <1>2, WriteEndsRole, ChecksOnlyRead
     DEF Next, vars, units, Join, Archive, SetStatus

\* A department leader who loses the last leadership keeps the role only if it
\* was a team's, or if the request knew another leader, had read of another
\* leadership that has ended since, or wrote an older row back.
THEOREM OfficeSafe == Spec => RoleEndsWithOffice
<1>1. Init => TypeOK /\ Decided
  BY InitType, InitDecided
<1>2. TypeOK /\ Decided /\ [Next]_vars => (TypeOK /\ Decided)'
  BY StepType, StepDecided
<1>3. TypeOK /\ Decided /\ [Next]_vars =>
        \A u \in Users : role[u] = "DL" /\ Leads(u) /\ ~Leads(u)' /\ role'[u] = "DL" =>
          \E r \in Requests :
            /\ request'[r] # request[r]
            /\ \/ request[r].op = "save"
               \/ request[r].op \in {"lead", "revoke"} /\ request[r].unit \in Teams
               \/ /\ request[r].op = "hand over"
                  /\ request[r].prev # u \/ request[r].leads
  BY OfficeStepLemma DEF OfficeStep
<1> QED
  BY <1>1, <1>2, <1>3, PTL DEF Spec, RoleEndsWithOffice

=============================================================================
