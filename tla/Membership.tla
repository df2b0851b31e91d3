---------------------------- MODULE Membership ----------------------------
(***************************************************************************)
(* A company's members: their roles, the departments and teams they lead,  *)
(* the work they hold, and their removal (users/services.py,               *)
(* departments_and_teams/services.py, and the parts of                     *)
(* projects_and_tasks/services.py that say who holds a project or task).   *)
(*                                                                         *)
(* Every operation reads, decides and then writes.  The transactions run   *)
(* at READ COMMITTED and lock nothing they read, so each operation is two  *)
(* actions: Check... (its reads, up to its last early return) and the one  *)
(* that writes, on tables others may have changed since.  A department's   *)
(* leader is written before further reads: three actions.  An operation    *)
(* that is refused changes nothing and is left out.  One company.          *)
(***************************************************************************)
EXTENDS Naturals

CONSTANTS
  Users,        \* everybody with an account, or who will have one
  Owner,        \* Company.owner
  Depts, Teams, \* departments and teams that can be created
  Items,        \* projects and tasks that can be created
  Requests,     \* requests the API serves at the same time
  MemberLists,  \* the lists of members that are sent for a team
  MaxRequests,  \* bound: requests altogether
  None,         \* NULL
  Absent        \* the leader of a unit that does not exist yet

Units == Depts \cup Teams

ASSUME MembershipConstants ==
  /\ Owner \in Users
  /\ Depts \cap Teams = {}
  /\ None \notin Users \cup Units
  /\ Absent \notin Users \cup {None}
  /\ MemberLists \subseteq SUBSET Users
  /\ MaxRequests \in Nat

VARIABLES
  role,       \* CompanyUserProfile.role, or why there is no profile
  active,     \* CompanyUserProfile.is_active
  dept,       \* CompanyUserProfile.department
  leader,     \* Department.leader and Team.leader
  members,    \* Team.members
  holder,     \* Project.current_owner and Task.assigned_to
  status,     \* whether a project or task is open, done or archived
  request,    \* what each request has read and will write
  started,    \* requests so far
  overtaken,  \* history: removed while another request was about to name them
  bare        \* history: departments that got, or left, their leader without the role

people == <<role, active, dept>>
units  == <<leader, members>>
work   == <<holder, status>>
vars   == <<people, units, work, request, started, overtaken, bare>>

Profiles == {"CM", "DL", "DM"}

HasProfile(u) == role[u] \in Profiles

\* get_company_role: a deactivated profile gives none.
RoleOf(u) == IF HasProfile(u) /\ ~active[u] THEN "none" ELSE role[u]

\* is_company_member; get_managed_company, for somebody of this company.
IsMember(u) == RoleOf(u) \in Profiles \cup {"Owner"}
Manages(u)  == RoleOf(u) \in {"Owner", "CM", "DL"}

\* Who may ask for a change of a department or team; nothing depends on which
\* of them does.
Managers == {u \in Users : Manages(u)}

Leads(u) == \E x \in Units : leader[x] = u

Idle == [op |-> "idle"]

RoleRequest == [op : {"role"}, as : {"Owner", "CM"}, user : Users, old : Profiles,
                new : Profiles]
ActiveRequest == [op : {"active"}, user : Users, on : BOOLEAN]
MoveRequest == [op : {"move"}, user : Users, dept : Depts \cup {None}]
RemoveRequest == [op : {"remove"}, as : {"Owner", "CM"}, user : Users \ {Owner},
                  old : Profiles, held : SUBSET Items, to : Users \cup {None}]
LeadRequest == [op : {"lead"}, unit : Units, prev : Users \cup {None}, to : Users]
RevokeRequest == [op : {"revoke"}, unit : Units, prev : Users \cup {None}, to : {None}]
HandOverRequest == [op : {"hand over"}, unit : Depts, prev : Users \cup {None},
                    to : Users \cup {None}, plain : BOOLEAN, leads : BOOLEAN]
UnitRow == [op : {"create", "save"}, unit : Units, leader : Users \cup {None},
            given : BOOLEAN, members : SUBSET Users]
MemberSet == [op : {"members"}, unit : Teams, members : SUBSET Users]
HolderRequest == [op : {"new item", "assign"}, item : Items, to : Users \cup {None}]
ItemRow == [op : {"save item"}, item : Items, holder : Users \cup {None},
            status : {"open", "done"}]

Request ==
  {Idle} \cup RoleRequest \cup ActiveRequest \cup MoveRequest \cup RemoveRequest
         \cup LeadRequest \cup RevokeRequest \cup HandOverRequest \cup UnitRow
         \cup MemberSet \cup HolderRequest \cup ItemRow

TypeOK ==
  /\ role \in [Users -> Profiles \cup {"Owner", "unregistered", "removed"}]
  /\ \A u \in Users : role[u] = "Owner" <=> u = Owner
  /\ active \in [Users -> BOOLEAN]
  /\ dept \in [Users -> Depts \cup {None}]
  /\ \A u \in Users : ~HasProfile(u) => active[u] /\ dept[u] = None
  /\ leader \in [Units -> Users \cup {None, Absent}]
  /\ members \in [Teams -> SUBSET Users]
  /\ holder \in [Items -> Users \cup {None}]
  /\ status \in [Items -> {"absent", "open", "done", "archived"}]
  /\ request \in [Requests -> Request]
  /\ started \in 0..MaxRequests
  /\ overtaken \subseteq Users
  /\ bare \subseteq Depts

\* The company has just been registered.
Init ==
  /\ role = [u \in Users |-> IF u = Owner THEN "Owner" ELSE "unregistered"]
  /\ active = [u \in Users |-> TRUE]
  /\ dept = [u \in Users |-> None]
  /\ leader = [x \in Units |-> Absent]
  /\ members = [t \in Teams |-> {}]
  /\ holder = [i \in Items |-> None]
  /\ status = [i \in Items |-> "absent"]
  /\ request = [r \in Requests |-> Idle]
  /\ started = 0
  /\ overtaken = {}
  /\ bare = {}

\* A request that passed its checks, and one that wrote and returned.
Check(r, q) ==
  /\ request[r] = Idle
  /\ started < MaxRequests
  /\ request' = [request EXCEPT ![r] = q]
  /\ started' = started + 1
  /\ UNCHANGED <<people, units, work, overtaken, bare>>

Finish(r, op) ==
  /\ request[r].op = op
  /\ request' = [request EXCEPT ![r] = Idle]
  /\ UNCHANGED started

(***************************************************************************)
(* The pieces of the actions that a slip would most likely change.  Each   *)
(* follows the slips the properties have to notice; no action uses those.  *)
(***************************************************************************)

\* save(update_fields) raises when the row is gone, and all is rolled back.
RowExistsStill(u) == TRUE
RowExists(u) == HasProfile(u)

\* Only the owner gives, takes or removes the role of a company manager.
MayTakeRoleOf(by, old) == RoleOf(by) \in {"Owner", "CM"}
MayTakeRole(by, old) ==
  /\ RoleOf(by) \in {"Owner", "CM"}
  /\ old = "CM" => RoleOf(by) = "Owner"
MayChangeRole(by, old, new) ==
  MayTakeRole(by, old) /\ (new = "CM" => RoleOf(by) = "Owner")

\* Nobody's leaderships: filter(leader_id=u).update(leader=None), twice.
WithoutLeaderInDepts(u) ==
  [x \in Units |-> IF leader[x] = u /\ x \in Depts THEN None ELSE leader[x]]
WithoutLeader(u) ==
  [x \in Units |-> IF leader[x] = u THEN None ELSE leader[x]]

\* set_department_leader makes who it found to be a plain member a department
\* leader, whatever the role is by now.
PromotedNot(u, plain) == role
Promoted(u, plain) == IF plain THEN [role EXCEPT ![u] = "DL"] ELSE role

\* _demote_leader_if_unneeded(u), given the roles written so far and whether u
\* was found to lead something else.
DemotedNot(roles, u, leads) == roles
Demoted(roles, u, leads) ==
  IF u \in Users /\ roles[u] = "DL" /\ ~leads
    THEN [roles EXCEPT ![u] = "DM"] ELSE roles

\* get_removal_blockers, and who may receive the work.
Blockers(u) == {i \in Items : status[i] = "open" /\ holder[i] = u}
MayReceiveAll(u) == role[u] # "unregistered"
MayReceive(u) == IsMember(u)

\* Who a request is about to make a leader, a team member or a holder.
Names(q) ==
  CASE q.op \in {"lead", "hand over", "remove", "new item", "assign"} -> {q.to}
    [] q.op \in {"create", "save"} -> {q.leader} \cup q.members
    [] q.op = "members" -> q.members
    [] q.op = "save item" -> {q.holder}
    [] OTHER -> {}

\* A transaction has written the leader of d and is not committed: who would
\* write that row, too, waits.
Locked(d) == \E r \in Requests : request[r].op = "hand over" /\ request[r].unit = d

(***************************************************************************)
(* Members.                                                                *)
(***************************************************************************)

\* accept_invite creates the account and the profile; Invitations models it.
Join(u, as, d) ==
  /\ role[u] = "unregistered"
  /\ role' = [role EXCEPT ![u] = as]
  /\ dept' = [dept EXCEPT ![u] = d]
  /\ UNCHANGED <<active, units, work, request, started, overtaken, bare>>

\* update_member_role
CheckRole(r, by, u, new) ==
  /\ u # by
  /\ HasProfile(u)
  /\ new # role[u]
  /\ MayChangeRole(by, role[u], new)
  /\ Check(r, [op |-> "role", as |-> RoleOf(by), user |-> u, old |-> role[u],
               new |-> new])

ChangeRole(r) ==
  /\ Finish(r, "role")
  /\ LET u == request[r].user
         new == request[r].new
         old == request[r].old
     IN IF RowExists(u)
          THEN /\ old = "DL" => \A d \in Depts : leader[d] = u => ~Locked(d)
               /\ role' = [role EXCEPT ![u] = new]
               /\ leader' = IF old = "DL" THEN WithoutLeader(u) ELSE leader
               /\ bare' = IF old = "CM" /\ new = "DM"
                            THEN bare \cup {d \in Depts : leader[d] = u} ELSE bare
          ELSE UNCHANGED <<role, leader, bare>>
  /\ UNCHANGED <<active, dept, members, work, overtaken>>

\* set_member_active_status; a value that is there already is not written.
CheckActive(r, by, u, on) ==
  /\ RoleOf(by) \in {"Owner", "CM"}
  /\ u # by
  /\ HasProfile(u)
  /\ active[u] # on
  /\ Check(r, [op |-> "active", user |-> u, on |-> on])

SetActive(r) ==
  /\ Finish(r, "active")
  /\ LET u == request[r].user
     IN active' = IF RowExists(u) THEN [active EXCEPT ![u] = request[r].on] ELSE active
  /\ UNCHANGED <<role, dept, units, work, overtaken, bare>>

\* update_member_department
CheckMove(r, by, u, d) ==
  /\ RoleOf(by) \in {"Owner", "CM"}
  /\ HasProfile(u)
  /\ d # None => leader[d] # Absent
  /\ Check(r, [op |-> "move", user |-> u, dept |-> d])

Move(r) ==
  /\ Finish(r, "move")
  /\ LET u == request[r].user
     IN dept' = IF RowExists(u) THEN [dept EXCEPT ![u] = request[r].dept] ELSE dept
  /\ UNCHANGED <<role, active, units, work, overtaken, bare>>

\* remove_member; who has no open work needs nobody to receive it.
CheckRemove(r, by, u, to) ==
  /\ u # by
  /\ HasProfile(u)
  /\ MayTakeRole(by, role[u])
  /\ IF Blockers(u) = {} THEN to = None ELSE to # None /\ MayReceive(to)
  /\ Check(r, [op |-> "remove", as |-> RoleOf(by), user |-> u, old |-> role[u],
               held |-> Blockers(u), to |-> to])

Remove(r) ==
  /\ Finish(r, "remove")
  /\ LET u == request[r].user
         named == UNION {Names(request[x]) : x \in Requests \ {r}}
     IN /\ \A d \in Depts : leader[d] = u => ~Locked(d)
        /\ holder' = [i \in Items |-> IF i \in request[r].held THEN request[r].to
                                                             ELSE holder[i]]
        /\ leader' = WithoutLeader(u)
        /\ members' = [t \in Teams |-> members[t] \ {u}]
        /\ role' = [role EXCEPT ![u] = "removed"]
        /\ active' = [active EXCEPT ![u] = TRUE]
        /\ dept' = [dept EXCEPT ![u] = None]
        /\ overtaken' = overtaken \cup ({u} \cap named)
  /\ UNCHANGED <<status, bare>>

(***************************************************************************)
(* Leaders.                                                                *)
(***************************************************************************)

\* set_department_leader and set_team_leader, on a row the router has read.
CheckLead(r, x, u) ==
  /\ Managers # {}
  /\ leader[x] # Absent
  /\ IsMember(u)
  /\ Check(r, [op |-> "lead", unit |-> x, prev |-> leader[x], to |-> u])

LeadTeam(r) ==
  /\ Finish(r, "lead")
  /\ request[r].unit \in Teams
  /\ leader' = [leader EXCEPT ![request[r].unit] = request[r].to]
  /\ UNCHANGED <<people, members, work, overtaken, bare>>

\* revoke_department_leader and revoke_team_leader
CheckRevoke(r, x) ==
  /\ Managers # {}
  /\ leader[x] # Absent
  /\ Check(r, [op |-> "revoke", unit |-> x, prev |-> leader[x], to |-> None])

RevokeTeam(r) ==
  /\ Finish(r, "revoke")
  /\ request[r].unit \in Teams
  /\ leader' = [leader EXCEPT ![request[r].unit] = None]
  /\ UNCHANGED <<people, members, work, overtaken, bare>>

\* The rest of set_department_leader and revoke_department_leader: the new
\* leader is written, not committed, and the new leader's role and the other
\* units of the old leader are read ...
StartHandOver(r) ==
  LET q == request[r]
  IN /\ q.op \in {"lead", "revoke"}
     /\ q.unit \in Depts
     /\ ~Locked(q.unit)
     /\ request' = [request EXCEPT ![r] =
          [op |-> "hand over", unit |-> q.unit, prev |-> q.prev, to |-> q.to,
           plain |-> q.to \in Users /\ role[q.to] = "DM",
           leads |-> \E x \in Units \ {q.unit} : leader[x] = q.prev]]
     /\ UNCHANGED <<people, units, work, started, overtaken, bare>>

\* ... the roles are written by what was read, and all is committed.
HandOver(r) ==
  /\ Finish(r, "hand over")
  /\ LET d == request[r].unit
         u == request[r].to
         prev == request[r].prev
         plain == request[r].plain
     IN IF plain => RowExists(u)
          THEN /\ leader' = [leader EXCEPT ![d] = u]
               /\ role' = IF prev = u THEN Promoted(u, plain)
                            ELSE Demoted(Promoted(u, plain), prev, request[r].leads)
               /\ dept' = IF plain THEN [dept EXCEPT ![u] = d] ELSE dept
               /\ bare' = (bare \ {d}) \cup
                    {x \in Depts :
                       \/ x = d /\ u \in Users /\ ~plain /\ role'[u] = "DM"
                       \/ /\ x # d /\ prev \in Users /\ leader[x] = prev
                          /\ ~request[r].leads /\ role'[prev] = "DM"}
          ELSE UNCHANGED <<leader, role, dept, bare>>
  /\ UNCHANGED <<active, members, work, overtaken>>

(***************************************************************************)
(* Departments and teams.                                                  *)
(***************************************************************************)

\* _resolve_leader and _resolve_members
Eligible == {None} \cup {u \in Users : IsMember(u)}

\* apply_default_departments, on those that are not there yet.
ApplyDefaults(D) ==
  /\ D # {}
  /\ \A d \in D : leader[d] = Absent
  /\ leader' = [x \in Units |-> IF x \in D THEN None ELSE leader[x]]
  /\ UNCHANGED <<people, members, work, request, started, overtaken, bare>>

\* create_department
CheckCreateDepartment(r, d, l) ==
  /\ Managers # {}
  /\ leader[d] = Absent
  /\ l \in Eligible
  /\ Check(r, [op |-> "create", unit |-> d, leader |-> l, given |-> FALSE,
               members |-> {}])

\* A second row of the same name violates the unique constraint.
CreateDepartment(r) ==
  /\ Finish(r, "create")
  /\ LET d == request[r].unit
         l == request[r].leader
     IN /\ d \in Depts
        /\ IF leader[d] = Absent
             THEN /\ leader' = [leader EXCEPT ![d] = l]
                  /\ bare' = IF l \in Users /\ role[l] = "DM" THEN bare \cup {d} ELSE bare
             ELSE UNCHANGED <<leader, bare>>
  /\ UNCHANGED <<people, members, work, overtaken>>

\* create_team
CheckCreateTeam(r, t, l, ms) ==
  /\ Managers # {}
  /\ leader[t] = Absent
  /\ l \in Eligible
  /\ \A u \in ms : IsMember(u)
  /\ Check(r, [op |-> "create", unit |-> t, leader |-> l, given |-> ms # {},
               members |-> ms])

\* The members of a team are written after its row, not in one transaction.
WriteTeam(r, l) ==
  LET q == request[r]
  IN /\ leader' = [leader EXCEPT ![q.unit] = l]
     /\ request' = [request EXCEPT ![r] =
          IF q.given THEN [op |-> "members", unit |-> q.unit, members |-> q.members]
                     ELSE Idle]

CreateTeam(r) ==
  /\ request[r].op = "create"
  /\ request[r].unit \in Teams
  /\ IF leader[request[r].unit] = Absent
       THEN WriteTeam(r, request[r].leader)
       ELSE request' = [request EXCEPT ![r] = Idle] /\ UNCHANGED leader
  /\ UNCHANGED <<people, members, work, started, overtaken, bare>>

\* update_department: asave() writes every column of the row the router read.
CheckSaveDepartment(r, d) ==
  /\ Managers # {}
  /\ leader[d] # Absent
  /\ Check(r, [op |-> "save", unit |-> d, leader |-> leader[d], given |-> FALSE,
               members |-> {}])

SaveDepartment(r) ==
  /\ Finish(r, "save")
  /\ LET d == request[r].unit
         l == request[r].leader
     IN /\ d \in Depts
        /\ ~Locked(d)
        /\ leader' = [leader EXCEPT ![d] = l]
        /\ bare' = IF l \in Users /\ role[l] = "DM" THEN bare \cup {d} ELSE bare
  /\ UNCHANGED <<people, members, work, overtaken>>

\* update_team
CheckSaveTeam(r, t, given, ms) ==
  /\ Managers # {}
  /\ leader[t] # Absent
  /\ \A u \in ms : IsMember(u)
  /\ Check(r, [op |-> "save", unit |-> t, leader |-> leader[t], given |-> given,
               members |-> ms])

SaveTeam(r) ==
  /\ request[r].op = "save"
  /\ request[r].unit \in Teams
  /\ WriteTeam(r, request[r].leader)
  /\ UNCHANGED <<people, members, work, started, overtaken, bare>>

SetMembers(r) ==
  /\ Finish(r, "members")
  /\ members' = [members EXCEPT ![request[r].unit] = request[r].members]
  /\ UNCHANGED <<people, leader, work, overtaken, bare>>

(***************************************************************************)
(* Projects and tasks.  Whoever created one may manage it, also after      *)
(* leaving, so it is left open who asks.                                   *)
(***************************************************************************)

\* create_project (its owner is who asks) and create_task (its assignee).
CheckNewItem(r, i, u) ==
  /\ status[i] = "absent"
  /\ u \in Eligible
  /\ Check(r, [op |-> "new item", item |-> i, to |-> u])

NewItem(r) ==
  /\ Finish(r, "new item")
  /\ LET i == request[r].item
     IN IF status[i] = "absent"
          THEN /\ holder' = [holder EXCEPT ![i] = request[r].to]
               /\ status' = [status EXCEPT ![i] = "open"]
          ELSE UNCHANGED work
  /\ UNCHANGED <<people, units, overtaken, bare>>

\* transfer_project_ownership, assign_task
CheckAssign(r, i, u) ==
  /\ status[i] \in {"open", "done"}
  /\ u \in Eligible
  /\ Check(r, [op |-> "assign", item |-> i, to |-> u])

Assign(r) ==
  /\ Finish(r, "assign")
  /\ holder' = [holder EXCEPT ![request[r].item] = request[r].to]
  /\ UNCHANGED <<people, units, status, overtaken, bare>>

\* update_project and update_task write every column, as update_department.
CheckSaveItem(r, i, s) ==
  /\ status[i] \in {"open", "done"}
  /\ Check(r, [op |-> "save item", item |-> i, holder |-> holder[i], status |-> s])

SaveItem(r) ==
  /\ Finish(r, "save item")
  /\ holder' = [holder EXCEPT ![request[r].item] = request[r].holder]
  /\ status' = [status EXCEPT ![request[r].item] = request[r].status]
  /\ UNCHANGED <<people, units, overtaken, bare>>

\* update_task_status
SetStatus(i, s) ==
  /\ status[i] \in {"open", "done"}
  /\ status' = [status EXCEPT ![i] = s]
  /\ UNCHANGED <<people, units, holder, request, started, overtaken, bare>>

\* archive_project, archive_task
Archive(i) ==
  /\ status[i] \in {"open", "done"}
  /\ status' = [status EXCEPT ![i] = "archived"]
  /\ UNCHANGED <<people, units, holder, request, started, overtaken, bare>>

MemberRequest(r, by, u) ==
  \/ \E new \in Profiles : CheckRole(r, by, u, new)
  \/ \E on \in BOOLEAN : CheckActive(r, by, u, on)
  \/ \E d \in Depts \cup {None} : CheckMove(r, by, u, d)
  \/ \E to \in Users \cup {None} : CheckRemove(r, by, u, to)

UnitRequest(r) ==
  \/ \E x \in Units : CheckRevoke(r, x) \/ \E u \in Users : CheckLead(r, x, u)
  \/ \E d \in Depts : \/ CheckSaveDepartment(r, d)
                      \/ \E l \in Users \cup {None} : CheckCreateDepartment(r, d, l)
  \/ \E t \in Teams : \/ CheckSaveTeam(r, t, FALSE, {})
                      \/ \E ms \in MemberLists :
                           \/ CheckSaveTeam(r, t, TRUE, ms)
                           \/ \E l \in Users \cup {None} : CheckCreateTeam(r, t, l, ms)

ItemRequest(r, i) ==
  \/ \E u \in Users \cup {None} : CheckNewItem(r, i, u) \/ CheckAssign(r, i, u)
  \/ \E s \in {"open", "done"} : CheckSaveItem(r, i, s)

Write(r) ==
  \/ ChangeRole(r) \/ SetActive(r) \/ Move(r) \/ Remove(r)
  \/ StartHandOver(r) \/ HandOver(r) \/ LeadTeam(r) \/ RevokeTeam(r)
  \/ CreateDepartment(r) \/ CreateTeam(r)
  \/ SaveDepartment(r) \/ SaveTeam(r) \/ SetMembers(r)
  \/ NewItem(r) \/ Assign(r) \/ SaveItem(r)

Next ==
  \/ \E r \in Requests :
       \/ UnitRequest(r) \/ \E by, u \in Users : MemberRequest(r, by, u)
       \/ \E i \in Items : ItemRequest(r, i)
       \/ Write(r)
  \/ \E u \in Users, as \in Profiles, d \in Depts \cup {None} :
       (d # None => leader[d] # Absent) /\ Join(u, as, d)
  \/ \E D \in SUBSET Depts : ApplyDefaults(D)
  \/ \E i \in Items : Archive(i) \/ \E s \in {"open", "done"} : SetStatus(i, s)

Spec == Init /\ [][Next]_vars

-----------------------------------------------------------------------------

\* Leaders and team members have a profile (or own the company).  The only
\* ones who can be left without are those removed while another request had
\* already found them eligible, or had read the row it was to write back.
RosterBelongs ==
  \A u \in Users :
    Leads(u) \/ (\E t \in Teams : u \in members[t]) =>
      HasProfile(u) \/ u = Owner \/ u \in overtaken

\* Who leads a department has a role that authorizes it, except where the
\* code writes a leader without looking at the role (create_department and a
\* stale update_department) or takes the role of a manager without looking at
\* what they lead, and where set_department_leader or the demotion after it
\* goes by a role or by leaders that have changed since.
DepartmentsHaveAuthority ==
  \A d \in Depts \ bare : \A u \in Users : leader[d] = u => role[u] # "DM"

\* A manager is made by the owner alone, and unmade by the owner or by
\* somebody who read an older role ("members:manage_cm_role").
ManagersAnswerToOwner ==
  [][\A u \in Users : HasProfile(u) /\ (role[u] = "CM" <=> role'[u] # "CM") =>
       \E r \in Requests :
         /\ request[r] # Idle /\ request'[r] = Idle
         /\ \/ /\ request[r].op \in {"role", "remove"}
               /\ request[r].user = u
               /\ request[r].as = "Owner" \/ (role[u] = "CM" /\ request[r].old # "CM")
            \/ /\ request[r].op = "hand over"
               /\ request[r].to = u
               /\ role[u] = "CM" /\ request[r].plain]_vars

\* u was removed and still holds open work.
LeftBehind(u, i) == role[u] = "removed" /\ status[i] = "open" /\ holder[i] = u

\* Open work is left behind only if it was reopened, if the member was
\* removed while a request named them or was given the work after it had been
\* counted, if the work was reassigned to the member it came from, or if a row
\* read when it was theirs was written back.
WorkStaysInside ==
  [][\A u \in Users, i \in Items : ~LeftBehind(u, i) /\ LeftBehind(u, i)' =>
       \/ status[i] \in {"done", "archived"}
       \/ u \in overtaken'
       \/ \E r \in Requests :
            /\ request'[r] # request[r]
            /\ \/ /\ request[r].op = "remove" /\ request[r].user = u
                  /\ i \notin request[r].held \/ request[r].to = u
               \/ /\ request[r].op = "save item" /\ request[r].item = i
                  /\ request[r].holder = u]_vars

\* A department leader who no longer leads anything loses the role at once,
\* unless the last leadership was a team's, or was lost to a request that
\* knew another leader, had read of another leadership that has ended since,
\* or wrote an older row back.
RoleEndsWithOffice ==
  [][\A u \in Users : role[u] = "DL" /\ Leads(u) /\ ~Leads(u)' /\ role'[u] = "DL" =>
       \E r \in Requests :
         /\ request'[r] # request[r]
         /\ \/ request[r].op = "save"
            \/ request[r].op \in {"lead", "revoke"} /\ request[r].unit \in Teams
            \/ /\ request[r].op = "hand over"
               /\ request[r].prev # u \/ request[r].leads]_vars
=============================================================================
