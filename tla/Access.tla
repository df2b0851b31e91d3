------------------------------- MODULE Access -------------------------------
(***************************************************************************)
(* Who may see and do what with one project of one company and with one    *)
(* document in it: the rules of projects_and_tasks.services and            *)
(* company.services, on a roster that changes under them, and the requests *)
(* that go by these rules.                                                 *)
(*                                                                         *)
(* A request finds the row, checks its rights, resolves the users it names *)
(* and writes, each in a step of its own: what it found and checked may be *)
(* out of date when it writes, and update_project writes the whole row it  *)
(* found.  Changes of the roster, removals too, are made by somebody       *)
(* who may: who that is, is the subject of Membership, as are the places   *)
(* in departments and teams and the work that a removal hands over besides *)
(* the project.  The requests about tasks are in Notices.                  *)
(***************************************************************************)
EXTENDS Naturals, FiniteSets

CONSTANTS
  Users,     \* everybody with an account
  Boss,      \* the owner of the company, who has no profile in it
  Depts,     \* departments of the company
  NoDept,    \* no department
  Nobody,    \* no user
  Staff,     \* who has a profile at first
  Requests,  \* requests
  Crowd,     \* bound: collaborators of the project
  Bound      \* bound: changes of the roster

ASSUME AccessConstants ==
  /\ Boss \in Users
  /\ NoDept \notin Depts
  /\ Nobody \notin Users
  /\ Staff \subseteq Users \ {Boss}
  /\ Crowd \in Nat
  /\ Bound \in Nat

VARIABLES
  profile,        \* the CompanyUserProfile of each user, NoProfile without one
  away,           \* users who own another company
  project,        \* the project's row
  collaborators,  \* and its collaborators
  document,       \* the row of a document in it
  request,        \* what each request does, and what it has read
  moves           \* changes of the roster so far

vars == <<profile, away, project, collaborators, document, request, moves>>
roster == <<profile, away, moves>>
work == <<project, collaborators, document>>
-----------------------------------------------------------------------------
Roles == {"manager", "leader", "member"}
Profile == [role : Roles \cup {"none"}, dept : Depts \cup {NoDept}, active : BOOLEAN]
NoProfile == [role |-> "none", dept |-> NoDept, active |-> FALSE]

Visibility == {"public", "company", "department", "private"}

\* A project's row: not yet there, there, with its work done, or archived.
Project == [stage : {"none", "open", "done", "gone"}, visibility : Visibility,
            dept : Depts \cup {NoDept}, creator : Users \cup {Nobody},
            owner : Users \cup {Nobody}]
NoProject == [stage |-> "none", visibility |-> "company", dept |-> NoDept,
              creator |-> Nobody, owner |-> Nobody]
Live == project.stage \in {"open", "done"}

\* The one document the model follows; maker is uploaded_by.
Document == [stage : {"none", "there", "gone"}, maker : Users \cup {Nobody}]
NoDocument == [stage |-> "none", maker |-> Nobody]

\* A request of a user: row is the project as it was found, with the changes of
\* an update; to is the new owner or the heir, and crowd the new collaborators, which
\* keep says to leave alone.
Request == [pc : {"idle", "check", "resolve", "write", "crowd", "done"},
            what : {"create", "update", "transfer", "archive", "upload", "delete", "remove"},
            user : Users, row : Project, to : Users \cup {Nobody},
            crowd : SUBSET Users, keep : BOOLEAN]
Idle == [pc |-> "idle", what |-> "update", user |-> Boss, row |-> NoProject,
         to |-> Nobody, crowd |-> {}, keep |-> TRUE]

HasProfile(u) == profile[u] # NoProfile

\* get_company_role and is_company_member: an inactive profile is none.
Role(u) ==
  IF u = Boss THEN "owner"
  ELSE IF profile[u].active THEN profile[u].role ELSE "none"

IsMember(u) == u = Boss \/ (HasProfile(u) /\ profile[u].active)
Members == {u \in Users : IsMember(u)}

\* get_member_company: an owned company comes before any profile.
AtHome(u) == u = Boss \/ (IsMember(u) /\ u \notin away)

InDept(u, p) == p.dept # NoDept /\ profile[u].dept = p.dept

(***************************************************************************)
(* The rules, about a project p as it was read.  Each follows the slip its *)
(* property has to notice.                                                 *)
(***************************************************************************)

\* user_can_view_project.
MayView(u, p) ==
  \/ p.visibility = "public"
  \/ p.creator = u
  \/ Role(u) \in {"owner", "manager"}
  \/ /\ Role(u) # "none"
     /\ \/ p.visibility = "company"
        \/ p.visibility = "department" /\ InDept(u, p)
        \/ p.visibility = "private" /\ u \in collaborators

\* user_can_manage_project.
MayManage(u, p) ==
  \/ u \in {p.creator, p.owner}
  \/ Role(u) \in {"owner", "manager"}
  \/ Role(u) = "leader" /\ InDept(u, p)

\* list_projects_for_user: private projects of their creator and collaborators.
ListedUnchecked(u) ==
  /\ AtHome(u) /\ Live
  /\ \/ Role(u) \in {"owner", "manager"}
     \/ project.visibility \in {"public", "company"}
     \/ project.visibility = "private" /\ u \in collaborators \cup {project.creator}
     \/ profile[u].dept # NoDept /\ profile[u].dept = project.dept
Listed(u) ==
  /\ AtHome(u) /\ Live
  /\ \/ Role(u) \in {"owner", "manager"}
     \/ project.visibility \in {"public", "company"}
     \/ project.visibility = "private" /\ u \in collaborators \cup {project.creator}
     \/ project.visibility = "department" /\ InDept(u, project)

\* The query of get_project_for_user: archived projects are not found.
FoundArchived == project.stage # "none"
Found == Live

OpensProject(u) == Found /\ MayView(u, project)

\* Whose open work a removal has to hand over: get_removal_blockers.
OwnsOpenProject(u) == project.stage = "open" /\ project.owner = u

\* remove_member: the profile goes.
WithoutRole(u) == [profile EXCEPT ![u].role = "none"]
Without(u) == [profile EXCEPT ![u] = NoProfile]

TypeOK ==
  /\ profile \in [Users -> Profile]
  /\ profile[Boss] = NoProfile
  /\ \A u \in Users : profile[u].role = "none" => profile[u] = NoProfile
  /\ away \subseteq Users \ {Boss}
  /\ project \in Project /\ collaborators \subseteq Users /\ document \in Document
  /\ request \in [Requests -> Request]
  /\ moves \in 0..Bound

Init ==
  /\ profile \in [Users -> Profile]
  /\ \A u \in Users :
       IF u \in Staff
       THEN profile[u].role = "member" /\ profile[u].active
       ELSE profile[u] = NoProfile
  /\ away = {}
  /\ project = NoProject /\ collaborators = {}
  /\ document = NoDocument
  /\ request = [r \in Requests |-> Idle]
  /\ moves = 0
-----------------------------------------------------------------------------
(* Requests: what they find and check *)

Becomes(r, q) == request' = [request EXCEPT ![r] = q]
Ends(r) == Becomes(r, [Idle EXCEPT !.pc = "done"])

\* get_project_for_user reads the row.
Find(r, u, what) ==
  /\ request[r].pc = "idle" /\ Found
  /\ what = "upload" =>
       document = NoDocument /\ \A s \in Requests : request[s].what # "upload"
  /\ Becomes(r, [Idle EXCEPT !.pc = "check", !.what = what, !.user = u, !.row = project])
  /\ UNCHANGED <<roster, work>>

\* get_document_for_user reads the document with its project, archived or not.
FindDocument(r, u) ==
  /\ request[r].pc = "idle" /\ document.stage = "there"
  /\ Becomes(r, [Idle EXCEPT !.pc = "check", !.what = "delete", !.user = u, !.row = project])
  /\ UNCHANGED <<roster, work>>

\* What the request needs besides seeing the project.
MayDo(q) ==
  \/ q.what = "upload"
  \/ q.what = "delete" /\ document.maker = q.user
  \/ MayManage(q.user, q.row)

Check(r) ==
  LET q == request[r] IN
    /\ q.pc = "check"
    /\ IF MayView(q.user, q.row) /\ MayDo(q)
       THEN Becomes(r, [q EXCEPT !.pc = IF q.what \in {"update", "transfer"}
                                        THEN "resolve" ELSE "write"])
       ELSE Ends(r)
    /\ UNCHANGED <<roster, work>>

\* create_project: the company of the user comes first.
AskProject(r, u) ==
  /\ request[r].pc = "idle" /\ AtHome(u)
  /\ project.stage = "none" /\ \A s \in Requests : request[s].what # "create"
  /\ Becomes(r, [Idle EXCEPT !.pc = "resolve", !.what = "create", !.user = u])
  /\ UNCHANGED <<roster, work>>

\* remove_member reads the blockers; to is the heir, if one was named.
AskRemoval(r, u, heir) ==
  /\ request[r].pc = "idle" /\ HasProfile(u)
  /\ IF OwnsOpenProject(u)
     THEN /\ heir # Nobody
          /\ Becomes(r, [Idle EXCEPT !.pc = "resolve", !.what = "remove", !.user = u, !.to = heir])
     ELSE /\ heir = Nobody
          /\ Becomes(r, [Idle EXCEPT !.pc = "write", !.what = "remove", !.user = u])
  /\ UNCHANGED <<roster, work>>
-----------------------------------------------------------------------------
(* Requests: the users they name *)

\* _resolve_collaborators accepts members only.
Invited == {S \in SUBSET Members : Cardinality(S) <= Crowd}

\* Any fields of the row, and the collaborators or not.
ResolveProject(r) ==
  LET q == request[r] IN
    /\ q.pc = "resolve" /\ q.what \in {"create", "update"}
    /\ \E v \in Visibility, d \in Depts \cup {NoDept}, s \in {"open", "done"},
         c \in Invited, k \in BOOLEAN :
         /\ k => c = {}
         /\ Becomes(r, [q EXCEPT !.pc = "write", !.crowd = c, !.keep = k,
                                 !.row = IF q.what = "create"
                                         THEN [stage |-> "open", visibility |-> v, dept |-> d,
                                               creator |-> q.user, owner |-> q.user]
                                         ELSE [@ EXCEPT !.visibility = v, !.dept = d,
                                                        !.stage = s]])
    /\ UNCHANGED <<roster, work>>

\* transfer_project_ownership: nothing to do for the owner it read, and a new
\* owner must be a member.
ResolveOwner(r, v) ==
  LET q == request[r] IN
    /\ q.pc = "resolve" /\ q.what = "transfer"
    /\ IF v # q.row.owner /\ IsMember(v)
       THEN Becomes(r, [q EXCEPT !.pc = "write", !.to = v])
       ELSE Ends(r)
    /\ UNCHANGED <<roster, work>>

\* remove_member: so must the heir be; the one who goes still is.
ResolveHeir(r) ==
  LET q == request[r] IN
    /\ q.pc = "resolve" /\ q.what = "remove"
    /\ IF IsMember(q.to) THEN Becomes(r, [q EXCEPT !.pc = "write"]) ELSE Ends(r)
    /\ UNCHANGED <<roster, work>>
-----------------------------------------------------------------------------
(* Requests: what they write *)

Writes(r, what) == request[r].pc = "write" /\ request[r].what = what

\* acreate and asave() write the row, and collaborators.set comes after.
SaveProject(r) ==
  LET q == request[r] IN
    /\ Writes(r, "create") \/ Writes(r, "update")
    /\ project' = q.row
    /\ IF q.keep THEN Ends(r) ELSE Becomes(r, [q EXCEPT !.pc = "crowd"])
    /\ UNCHANGED <<roster, collaborators, document>>

ReplaceCollaborators(r) ==
  /\ request[r].pc = "crowd"
  /\ collaborators' = request[r].crowd
  /\ Ends(r)
  /\ UNCHANGED <<roster, project, document>>

\* These two write one column.
Transfer(r) ==
  /\ Writes(r, "transfer")
  /\ project' = [project EXCEPT !.owner = request[r].to]
  /\ Ends(r)
  /\ UNCHANGED <<roster, collaborators, document>>

ArchiveProject(r) ==
  /\ Writes(r, "archive")
  /\ project' = [project EXCEPT !.stage = "gone"]
  /\ Ends(r)
  /\ UNCHANGED <<roster, collaborators, document>>

UploadDocument(r) ==
  /\ Writes(r, "upload")
  /\ document' = [stage |-> "there", maker |-> request[r].user]
  /\ Ends(r)
  /\ UNCHANGED <<roster, project, collaborators>>

DeleteDocument(r) ==
  /\ Writes(r, "delete")
  /\ document' = [document EXCEPT !.stage = "gone"]
  /\ Ends(r)
  /\ UNCHANGED <<roster, project, collaborators>>

\* remove_member commits: the heir gets the project that was counted, whatever
\* has become of it, and the profile goes.
RemoveMember(r) ==
  LET q == request[r] IN
    /\ Writes(r, "remove")
    /\ project' = IF q.to = Nobody THEN project ELSE [project EXCEPT !.owner = q.to]
    /\ profile' = Without(q.user)
    /\ Ends(r)
    /\ UNCHANGED <<away, moves, collaborators, document>>
-----------------------------------------------------------------------------
(* The roster *)

Moves == moves < Bound /\ moves' = moves + 1

\* A role, a department, or activation.
ChangeMember(u) ==
  /\ Moves /\ HasProfile(u)
  /\ \E p \in Profile : /\ p.role # "none"
                        /\ p # profile[u]
                        /\ \/ p = [profile[u] EXCEPT !.role = p.role]
                           \/ p = [profile[u] EXCEPT !.dept = p.dept]
                           \/ p = [profile[u] EXCEPT !.active = p.active]
                        /\ profile' = [profile EXCEPT ![u] = p]
  /\ UNCHANGED <<work, request, away>>

\* register_company: a member may found a company of their own.
FoundCompany(u) ==
  /\ Moves /\ u \notin away \cup {Boss}
  /\ away' = away \cup {u}
  /\ UNCHANGED <<work, request, profile>>
-----------------------------------------------------------------------------
Serve(r) ==
  \/ Check(r) \/ ResolveProject(r) \/ ResolveHeir(r)
  \/ SaveProject(r) \/ ReplaceCollaborators(r) \/ Transfer(r) \/ ArchiveProject(r)
  \/ UploadDocument(r) \/ DeleteDocument(r) \/ RemoveMember(r)
  \/ \E v \in Users : ResolveOwner(r, v)

Ask(r, u) ==
  \/ \E what \in {"update", "transfer", "archive", "upload"} : Find(r, u, what)
  \/ FindDocument(r, u) \/ AskProject(r, u)
  \/ \E heir \in Users \cup {Nobody} : AskRemoval(r, u, heir)

Next ==
  \/ \E r \in Requests : Serve(r) \/ \E u \in Users : Ask(r, u)
  \/ \E u \in Users : ChangeMember(u) \/ FoundCompany(u)

Spec == Init /\ [][Next]_vars
-----------------------------------------------------------------------------
(* Properties *)

\* The list, the door and the keys agree at every moment: what a user finds in
\* the list opens; what opens is in the list, but for who is at home in another
\* company, for public projects, which a link opens to anybody, for a creator
\* from outside the department of a department's project, and for a creator who
\* is deactivated or removed; and who may change the project can open it to do
\* so, but for a current owner it is closed to and the leader of its department
\* when it is private.  The fourth exception is at odds with get_member_company,
\* by which every endpoint of the company is closed to a deactivated member
\* (company/services.py:45-48): user_can_view_project asks for the creator
\* before it asks for a role.
DoorsAgree ==
  Live =>
    \A u \in Users :
      /\ Listed(u) => OpensProject(u)
      /\ OpensProject(u) /\ ~Listed(u) =>
           \/ u \in away
           \/ project.visibility = "public"
           \/ /\ project.creator = u
              /\ project.visibility = "department" \/ ~IsMember(u)
      /\ MayManage(u, project) /\ ~MayView(u, project) =>
           \/ u = project.owner
           \/ Role(u) = "leader" /\ project.visibility = "private"

\* Archived means found by nobody new: while a project is archived, its row, its
\* collaborators and its documents are changed only by a request that found it
\* before, by a removal that counted it before, or by deleting a document.  An
\* update among them brings it back, so the last of them may come much later.
OnlyOldRequestsChange ==
  [][project.stage = "gone" /\ work' # work =>
       \E r \in Requests :
         /\ request[r].pc \notin {"idle", "done"} /\ request'[r] # request[r]
         /\ \/ request[r].row.stage \in {"open", "done"}
            \/ request[r].what = "remove" /\ request[r].to # Nobody
            \/ request[r].what = "delete" /\ project' = project
                  /\ collaborators' = collaborators]_vars
=============================================================================
