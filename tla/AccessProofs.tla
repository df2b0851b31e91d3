---------------------------- MODULE AccessProofs ----------------------------
(***************************************************************************)
(* Theorems about Access, for any number of users, departments and         *)
(* requests.                                                               *)
(***************************************************************************)
EXTENDS Access, TLAPS

-----------------------------------------------------------------------------
(* Type correctness *)

LEMMA IdleType == Idle \in Request
  BY AccessConstants
  DEF Idle, Request, NoProject, Project, Visibility

LEMMA InitType == Init => TypeOK
  BY AccessConstants, IdleType
  DEF Init, TypeOK, Profile, NoProfile, NoProject, Project, Visibility, Document,
      NoDocument, Roles

\* A request that reads, checks or resolves changes nothing but itself.
LEMMA RequestKeepsType ==
  ASSUME TypeOK, NEW r \in Requests, NEW q \in Request, Becomes(r, q),
         UNCHANGED <<roster, work>>
  PROVE  TypeOK'
  BY DEF TypeOK, Becomes, roster, work

LEMMA EndKeepsType ==
  ASSUME TypeOK, NEW r \in Requests, Ends(r)
  PROVE  request' \in [Requests -> Request]
<1>1. [Idle EXCEPT !.pc = "done"] \in Request
  BY IdleType DEF Request
<1> QED
  BY <1>1 DEF Ends, Becomes, TypeOK

LEMMA MovesType ==
  ASSUME TypeOK, Moves
  PROVE  moves' \in 0..Bound
  BY AccessConstants DEF TypeOK, Moves

LEMMA AskKeepsType ==
  ASSUME TypeOK, NEW r \in Requests, NEW u \in Users, Ask(r, u)
  PROVE  TypeOK'
<1>1. CASE \E what \in {"update", "transfer", "archive", "upload"} : Find(r, u, what)
  <2>1. PICK what \in {"update", "transfer", "archive", "upload"} : Find(r, u, what)
    BY <1>1
  <2> DEFINE q == [Idle EXCEPT !.pc = "check", !.what = what, !.user = u, !.row = project]
  <2>2. q \in Request
    BY IdleType DEF Request, TypeOK
  <2> QED
    BY <2>1, <2>2, RequestKeepsType DEF Find
<1>2. CASE FindDocument(r, u)
  <2> DEFINE q == [Idle EXCEPT !.pc = "check", !.what = "delete", !.user = u, !.row = project]
  <2>1. q \in Request
    BY IdleType DEF Request, TypeOK
  <2> QED
    BY <1>2, <2>1, RequestKeepsType DEF FindDocument
<1>3. CASE AskProject(r, u)
  <2> DEFINE q == [Idle EXCEPT !.pc = "resolve", !.what = "create", !.user = u]
  <2>1. q \in Request
    BY IdleType DEF Request
  <2> QED
    BY <1>3, <2>1, RequestKeepsType DEF AskProject
<1>4. ASSUME NEW heir \in Users \cup {Nobody}, AskRemoval(r, u, heir)
      PROVE  TypeOK'
  <2> DEFINE q == [Idle EXCEPT !.pc = "resolve", !.what = "remove", !.user = u, !.to = heir]
      p == [Idle EXCEPT !.pc = "write", !.what = "remove", !.user = u]
  <2>1. q \in Request /\ p \in Request
    BY IdleType DEF Request
  <2>2. Becomes(r, q) \/ Becomes(r, p)
    BY <1>4 DEF AskRemoval
  <2>3. UNCHANGED <<roster, work>>
    BY <1>4 DEF AskRemoval
  <2> HIDE DEF q, p
  <2> QED
    BY <2>1, <2>2, <2>3, RequestKeepsType
<1> QED
  BY <1>1, <1>2, <1>3, <1>4 DEF Ask

LEMMA ChecksKeepType ==
  ASSUME TypeOK, NEW r \in Requests,
         \/ Check(r) \/ ResolveProject(r) \/ ResolveHeir(r)
         \/ \E v \in Users : ResolveOwner(r, v)
  PROVE  TypeOK'
<1> DEFINE q == request[r]
<1>1. q \in Request
  BY DEF TypeOK
<1> HIDE DEF q
<1>2. UNCHANGED <<roster, work>>
  BY DEF Check, ResolveProject, ResolveHeir, ResolveOwner
<1>3. [Idle EXCEPT !.pc = "done"] \in Request
  BY IdleType DEF Request
<1>4. Ends(r) => TypeOK'
  BY <1>2, <1>3, RequestKeepsType DEF Ends
<1>5. ASSUME NEW p \in {"resolve", "write"}, Becomes(r, [q EXCEPT !.pc = p])
      PROVE  TypeOK'
  <2>1. [q EXCEPT !.pc = p] \in Request
    BY <1>1 DEF Request
  <2> QED
    BY <1>2, <1>5, <2>1, RequestKeepsType
<1>6. CASE Check(r)
  BY <1>6, <1>4, <1>5 DEF Check, q
<1>7. CASE ResolveHeir(r)
  BY <1>7, <1>4, <1>5 DEF ResolveHeir, q
<1>8. ASSUME NEW v \in Users, ResolveOwner(r, v)
      PROVE  TypeOK'
  <2>1. [q EXCEPT !.pc = "write", !.to = v] \in Request
    BY <1>1 DEF Request
  <2> QED
    BY <1>8, <1>2, <1>4, <2>1, RequestKeepsType DEF ResolveOwner, q
<1>9. CASE ResolveProject(r)
  <2>1. PICK v \in Visibility, d \in Depts \cup {NoDept}, s \in {"open", "done"},
             c \in Invited, k \in BOOLEAN :
          Becomes(r, [q EXCEPT !.pc = "write", !.crowd = c, !.keep = k,
                               !.row = IF q.what = "create"
                                       THEN [stage |-> "open", visibility |-> v, dept |-> d,
                                             creator |-> q.user, owner |-> q.user]
                                       ELSE [@ EXCEPT !.visibility = v, !.dept = d,
                                                      !.stage = s]])
    BY <1>9 DEF ResolveProject, q
  <2> DEFINE row == IF q.what = "create"
                    THEN [stage |-> "open", visibility |-> v, dept |-> d,
                          creator |-> q.user, owner |-> q.user]
                    ELSE [q.row EXCEPT !.visibility = v, !.dept = d, !.stage = s]
  <2>2. q.user \in Users /\ q.row \in Project
    BY <1>1 DEF Request
  <2>3. row \in Project
    BY <2>2 DEF Project
  <2>4. c \in SUBSET Users
    BY DEF Invited, Members
  <2>5. Becomes(r, [q EXCEPT !.pc = "write", !.crowd = c, !.keep = k, !.row = row])
    BY <2>1
  <2> HIDE DEF row
  <2>6. [q EXCEPT !.pc = "write", !.crowd = c, !.keep = k, !.row = row] \in Request
    BY <1>1, <2>3, <2>4 DEF Request
  <2> QED
    BY <1>2, <2>5, <2>6, RequestKeepsType
<1> QED
  BY <1>6, <1>7, <1>8, <1>9

LEMMA WritesKeepType ==
  ASSUME TypeOK, NEW r \in Requests,
         \/ SaveProject(r) \/ ReplaceCollaborators(r) \/ Transfer(r) \/ ArchiveProject(r)
         \/ UploadDocument(r) \/ DeleteDocument(r) \/ RemoveMember(r)
  PROVE  TypeOK'
<1> DEFINE q == request[r]
<1>1. /\ q \in Request /\ q.row \in Project /\ q.user \in Users
      /\ q.to \in Users \cup {Nobody} /\ q.crowd \in SUBSET Users
  BY DEF TypeOK, Request
<1>2. request' \in [Requests -> Request]
  <2>1. [q EXCEPT !.pc = "crowd"] \in Request
    BY <1>1 DEF Request
  <2>2. Ends(r) \/ Becomes(r, [q EXCEPT !.pc = "crowd"])
    BY DEF SaveProject, ReplaceCollaborators, Transfer, ArchiveProject, UploadDocument,
           DeleteDocument, RemoveMember
  <2> QED
    BY <2>1, <2>2, EndKeepsType DEF Becomes, TypeOK
<1>3. CASE SaveProject(r)
  BY <1>1, <1>2, <1>3 DEF SaveProject, TypeOK, roster
<1>4. CASE ReplaceCollaborators(r)
  BY <1>1, <1>2, <1>4 DEF ReplaceCollaborators, TypeOK, roster
<1>5. CASE Transfer(r)
  <2>1. project' \in Project
    BY <1>1, <1>5 DEF Transfer, TypeOK, Project
  <2> QED
    BY <2>1, <1>2, <1>5 DEF Transfer, TypeOK, roster
<1>6. CASE ArchiveProject(r)
  <2>1. project' \in Project
    BY <1>6 DEF ArchiveProject, TypeOK, Project
  <2> QED
    BY <2>1, <1>2, <1>6 DEF ArchiveProject, TypeOK, roster
<1>7. CASE UploadDocument(r)
  BY <1>1, <1>2, <1>7 DEF UploadDocument, TypeOK, Document, roster
<1>8. CASE DeleteDocument(r)
  <2>1. document' \in Document
    BY <1>8 DEF DeleteDocument, TypeOK, Document
  <2> QED
    BY <2>1, <1>2, <1>8 DEF DeleteDocument, TypeOK, roster
<1>9. CASE RemoveMember(r)
  <2>1. project' \in Project
    BY <1>1, <1>9 DEF RemoveMember, TypeOK, Project
  <2>2. profile' = [profile EXCEPT ![q.user] = NoProfile]
    BY <1>9 DEF RemoveMember, Without
  <2>3. NoProfile \in Profile
    BY DEF NoProfile, Profile
  <2>4. /\ profile' \in [Users -> Profile]
        /\ profile'[Boss] = NoProfile
        /\ \A w \in Users : profile'[w].role = "none" => profile'[w] = NoProfile
    BY <1>1, <2>2, <2>3, AccessConstants DEF TypeOK
  <2> QED
    BY <2>1, <2>4, <1>2, <1>9 DEF RemoveMember, TypeOK
<1> QED
  BY <1>3, <1>4, <1>5, <1>6, <1>7, <1>8, <1>9

LEMMA RosterKeepsType ==
  ASSUME TypeOK, NEW u \in Users, ChangeMember(u) \/ FoundCompany(u)
  PROVE  TypeOK'
<1>1. CASE ChangeMember(u)
  <2>1. PICK p \in Profile : p.role # "none" /\ profile' = [profile EXCEPT ![u] = p]
    BY <1>1 DEF ChangeMember
  <2>2. u # Boss
    BY <1>1 DEF ChangeMember, HasProfile, TypeOK
  <2>3. /\ profile' \in [Users -> Profile]
        /\ profile'[Boss] = NoProfile
        /\ \A w \in Users : profile'[w].role = "none" => profile'[w] = NoProfile
    BY <2>1, <2>2, AccessConstants DEF TypeOK
  <2> QED
    BY <1>1, <2>3, MovesType DEF ChangeMember, TypeOK, work
<1>2. CASE FoundCompany(u)
  BY <1>2, MovesType DEF FoundCompany, TypeOK, work
<1> QED
  BY <1>1, <1>2

LEMMA StepKeepsType == TypeOK /\ [Next]_vars => TypeOK'
<1> SUFFICES ASSUME TypeOK, [Next]_vars
             PROVE  TypeOK'
  OBVIOUS
<1>1. ASSUME NEW r \in Requests, Serve(r) PROVE TypeOK'
  BY <1>1, ChecksKeepType, WritesKeepType DEF Serve
<1>2. CASE UNCHANGED vars
  BY <1>2 DEF vars, TypeOK
<1> QED
  BY <1>1, <1>2, AskKeepsType, RosterKeepsType DEF Next

\* Every row stays of its shape, and who has no role has no profile.
THEOREM TypeCorrect == Spec => []TypeOK
<1>1. Init => TypeOK
  BY InitType
<1>2. TypeOK /\ [Next]_vars => TypeOK'
  BY StepKeepsType
<1> QED
  BY <1>1, <1>2, PTL DEF Spec
-----------------------------------------------------------------------------
(* The list, the door and the keys *)

LEMMA MembersHaveRoles ==
  ASSUME TypeOK, NEW u \in Users, IsMember(u)
  PROVE  Role(u) # "none"
  BY DEF TypeOK, IsMember, Role, HasProfile

LEMMA OthersHaveNone ==
  ASSUME TypeOK, NEW u \in Users, ~IsMember(u)
  PROVE  Role(u) = "none"
  BY DEF TypeOK, IsMember, Role, HasProfile, NoProfile

LEMMA RulesAgree == TypeOK => DoorsAgree
<1> SUFFICES ASSUME TypeOK, Live, NEW u \in Users
             PROVE  /\ Listed(u) => OpensProject(u)
                    /\ OpensProject(u) /\ ~Listed(u) =>
                         \/ u \in away
                         \/ project.visibility = "public"
                         \/ /\ project.creator = u
                            /\ project.visibility = "department" \/ ~IsMember(u)
                    /\ MayManage(u, project) /\ ~MayView(u, project) =>
                         \/ u = project.owner
                         \/ Role(u) = "leader" /\ project.visibility = "private"
  BY DEF DoorsAgree
<1>1. Listed(u) => OpensProject(u)
  BY MembersHaveRoles DEF Listed, OpensProject, Found, MayView, AtHome, IsMember
<1>2. project.visibility \in {"public", "company", "department", "private"}
  BY DEF TypeOK, Project, Visibility
<1>3. ASSUME MayView(u, project), ~Listed(u), AtHome(u)
      PROVE  project.visibility = "department" /\ project.creator = u
  <2>1. Role(u) \notin {"owner", "manager"} /\ project.visibility \notin {"public", "company"}
    BY <1>3 DEF Listed
  <2>2. CASE project.visibility = "private"
    BY <1>3, <2>1, <2>2 DEF Listed, MayView
  <2>3. CASE project.visibility = "department"
    BY <1>3, <2>1, <2>3 DEF Listed, MayView
  <2> QED
    BY <1>2, <2>1, <2>2, <2>3
<1>4. ASSUME MayView(u, project), ~AtHome(u), u \notin away, project.visibility # "public"
      PROVE  project.creator = u /\ ~IsMember(u)
  <2>1. ~IsMember(u)
    BY <1>4 DEF AtHome
  <2> QED
    BY <1>4, <2>1, OthersHaveNone DEF MayView
<1>5. ASSUME MayManage(u, project), ~MayView(u, project), u # project.owner
      PROVE  Role(u) = "leader" /\ project.visibility = "private"
  <2>1. Role(u) = "leader" /\ InDept(u, project)
    BY <1>5 DEF MayManage, MayView
  <2>2. project.visibility \notin {"public", "company", "department"}
    BY <1>5, <2>1 DEF MayView
  <2> QED
    BY <1>2, <2>1, <2>2
<1> QED
  BY <1>1, <1>3, <1>4, <1>5 DEF OpensProject

\* The queries of the list and the checks of one project agree, on every roster
\* and every project, but for the named exceptions.
THEOREM ListAndDoor == Spec => []DoorsAgree
  BY TypeCorrect, RulesAgree, PTL
-----------------------------------------------------------------------------
(* Archived projects.  The invariant says what a request holds: who found a  *)
(* project, found it when it was not archived.                               *)

Finders == {"update", "transfer", "archive", "upload"}
HoldsLive(q) ==
  /\ q.pc \in {"check", "resolve", "write", "crowd"} /\ q.what \in Finders =>
       q.row.stage \in {"open", "done"}
  /\ q.pc \in {"write", "crowd"} /\ q.what = "create" => q.row.stage \in {"open", "done"}
  /\ q.pc = "crowd" => q.what \in {"create", "update"}
  /\ q.pc = "check" => q.what # "create"
FoundLive == \A r \in Requests : HoldsLive(request[r])

LEMMA OneMoves ==
  ASSUME TypeOK, FoundLive, NEW r \in Requests, NEW q, Becomes(r, q), HoldsLive(q)
  PROVE  FoundLive'
  BY DEF TypeOK, FoundLive, Becomes

LEMMA EndedHoldsLive == HoldsLive([Idle EXCEPT !.pc = "done"]) /\ HoldsLive(Idle)
  BY DEF HoldsLive, Idle

LEMMA AskFindsLive ==
  ASSUME TypeOK, FoundLive, NEW r \in Requests, NEW u \in Users, Ask(r, u)
  PROVE  FoundLive'
<1>1. ASSUME NEW what \in Finders, Find(r, u, what) PROVE FoundLive'
  <2>1. HoldsLive([Idle EXCEPT !.pc = "check", !.what = what, !.user = u, !.row = project])
    BY <1>1 DEF Find, Found, Live, HoldsLive, Finders, Idle
  <2> QED
    BY <1>1, <2>1, OneMoves DEF Find
<1>2. CASE FindDocument(r, u)
  <2>1. HoldsLive([Idle EXCEPT !.pc = "check", !.what = "delete", !.user = u, !.row = project])
    BY DEF HoldsLive, Finders, Idle
  <2> QED
    BY <1>2, <2>1, OneMoves DEF FindDocument
<1>3. CASE AskProject(r, u)
  <2>1. HoldsLive([Idle EXCEPT !.pc = "resolve", !.what = "create", !.user = u])
    BY DEF HoldsLive, Finders, Idle
  <2> QED
    BY <1>3, <2>1, OneMoves DEF AskProject
<1>4. ASSUME NEW heir \in Users \cup {Nobody}, AskRemoval(r, u, heir) PROVE FoundLive'
  <2>1. /\ HoldsLive([Idle EXCEPT !.pc = "resolve", !.what = "remove", !.user = u, !.to = heir])
        /\ HoldsLive([Idle EXCEPT !.pc = "write", !.what = "remove", !.user = u])
    BY DEF HoldsLive, Finders, Idle
  <2> QED
    BY <1>4, <2>1, OneMoves DEF AskRemoval
<1> QED
  BY <1>1, <1>2, <1>3, <1>4 DEF Ask, Finders

LEMMA ServeHoldsLive ==
  ASSUME TypeOK, FoundLive, NEW r \in Requests, Serve(r)
  PROVE  FoundLive'
<1> DEFINE q == request[r]
<1>1. q \in Request /\ HoldsLive(q)
  BY DEF TypeOK, FoundLive
<1> HIDE DEF q
<1>2. Ends(r) => FoundLive'
  BY EndedHoldsLive, OneMoves DEF Ends
<1>3. CASE Check(r)
  <2>1. ASSUME q.pc = "check",
               NEW p \in {"resolve", "write"}
        PROVE  HoldsLive([q EXCEPT !.pc = p])
    BY <2>1, <1>1 DEF HoldsLive, Finders, Request
  <2> QED
    BY <1>2, <1>3, <2>1, OneMoves DEF Check, q
<1>4. CASE ResolveHeir(r)
  <2>1. ASSUME q.pc = "resolve", q.what = "remove"
        PROVE  HoldsLive([q EXCEPT !.pc = "write"])
    BY <2>1, <1>1 DEF HoldsLive, Finders, Request
  <2> QED
    BY <1>2, <1>4, <2>1, OneMoves DEF ResolveHeir, q
<1>5. ASSUME NEW v \in Users, ResolveOwner(r, v) PROVE FoundLive'
  <2>1. ASSUME q.pc = "resolve", q.what = "transfer"
        PROVE  HoldsLive([q EXCEPT !.pc = "write", !.to = v])
    BY <2>1, <1>1 DEF HoldsLive, Finders, Request
  <2> QED
    BY <1>2, <1>5, <2>1, OneMoves DEF ResolveOwner, q
<1>6. CASE ResolveProject(r)
  <2>1. PICK v \in Visibility, d \in Depts \cup {NoDept}, s \in {"open", "done"},
             c \in Invited, k \in BOOLEAN :
          Becomes(r, [q EXCEPT !.pc = "write", !.crowd = c, !.keep = k,
                               !.row = IF q.what = "create"
                                       THEN [stage |-> "open", visibility |-> v, dept |-> d,
                                             creator |-> q.user, owner |-> q.user]
                                       ELSE [@ EXCEPT !.visibility = v, !.dept = d,
                                                      !.stage = s]])
    BY <1>6 DEF ResolveProject, q
  <2> DEFINE row == IF q.what = "create"
                    THEN [stage |-> "open", visibility |-> v, dept |-> d,
                          creator |-> q.user, owner |-> q.user]
                    ELSE [q.row EXCEPT !.visibility = v, !.dept = d, !.stage = s]
      p == [q EXCEPT !.pc = "write", !.crowd = c, !.keep = k, !.row = row]
  <2>2. row.stage \in {"open", "done"}
    BY <1>1 DEF Request, Project
  <2>3. Becomes(r, p)
    BY <2>1
  <2> HIDE DEF row
  <2>4. p.pc = "write" /\ p.row = row
    BY <1>1 DEF Request
  <2> HIDE DEF p
  <2>5. HoldsLive(p)
    BY <2>2, <2>4 DEF HoldsLive
  <2> QED
    BY <2>3, <2>5, OneMoves
<1>7. CASE SaveProject(r)
  <2>1. ASSUME q.pc = "write", q.what \in {"create", "update"}
        PROVE  HoldsLive([q EXCEPT !.pc = "crowd"])
    BY <2>1, <1>1 DEF HoldsLive, Finders, Request
  <2>2. q.pc = "write" /\ q.what \in {"create", "update"}
    BY <1>7 DEF SaveProject, Writes, q
  <2>3. Ends(r) \/ Becomes(r, [q EXCEPT !.pc = "crowd"])
    BY <1>7 DEF SaveProject, q
  <2> QED
    BY <1>2, <2>1, <2>2, <2>3, OneMoves
<1>8. CASE \/ ReplaceCollaborators(r) \/ Transfer(r) \/ ArchiveProject(r)
           \/ UploadDocument(r) \/ DeleteDocument(r) \/ RemoveMember(r)
  BY <1>2, <1>8
  DEF ReplaceCollaborators, Transfer, ArchiveProject, UploadDocument, DeleteDocument,
      RemoveMember
<1> QED
  BY <1>3, <1>4, <1>5, <1>6, <1>7, <1>8 DEF Serve

LEMMA StepFindsLive == TypeOK /\ FoundLive /\ [Next]_vars => FoundLive'
<1> SUFFICES ASSUME TypeOK, FoundLive, [Next]_vars
             PROVE  FoundLive'
  OBVIOUS
<1>1. ASSUME NEW u \in Users, ChangeMember(u) \/ FoundCompany(u) PROVE FoundLive'
  <2>1. request' = request
    BY <1>1 DEF ChangeMember, FoundCompany
  <2> QED
    BY <2>1 DEF FoundLive
<1>2. CASE UNCHANGED vars
  BY <1>2 DEF vars, FoundLive
<1> QED
  BY <1>1, <1>2, AskFindsLive, ServeHoldsLive DEF Next

\* What the property asks of the request that takes a step.
Old(r) ==
  /\ request[r].pc \notin {"idle", "done"} /\ request'[r] # request[r]
  /\ \/ request[r].row.stage \in {"open", "done"}
     \/ request[r].what = "remove" /\ request[r].to # Nobody
     \/ request[r].what = "delete" /\ project' = project /\ collaborators' = collaborators

LEMMA WritersAreOld ==
  ASSUME TypeOK, FoundLive, NEW r \in Requests, Serve(r), work' # work
  PROVE  Old(r)
<1>1. HoldsLive(request[r]) /\ request[r] \in Request
  BY DEF TypeOK, FoundLive
<1>2. request[r].pc \in {"write", "crowd"}
  BY DEF Serve, Check, ResolveProject, ResolveHeir, ResolveOwner, SaveProject,
         ReplaceCollaborators, Transfer, ArchiveProject, UploadDocument, DeleteDocument,
         RemoveMember, Writes
<1>3. request'[r].pc = "done" \/ (request'[r].pc = "crowd" /\ request[r].pc = "write")
  <2>1. ~(Check(r) \/ ResolveProject(r) \/ ResolveHeir(r) \/ \E v \in Users : ResolveOwner(r, v))
    BY DEF Check, ResolveProject, ResolveHeir, ResolveOwner
  <2>2. Ends(r) \/ (request[r].pc = "write" /\ Becomes(r, [request[r] EXCEPT !.pc = "crowd"]))
    BY <2>1 DEF Serve, SaveProject, ReplaceCollaborators, Transfer, ArchiveProject,
                UploadDocument, DeleteDocument, RemoveMember, Writes
  <2>3. CASE Ends(r)
    BY <2>3 DEF Ends, Becomes, TypeOK, Idle
  <2>4. CASE request[r].pc = "write" /\ Becomes(r, [request[r] EXCEPT !.pc = "crowd"])
    BY <2>4, <1>1 DEF Becomes, TypeOK, Request
  <2> QED
    BY <2>2, <2>3, <2>4
<1>4. request'[r] # request[r]
  BY <1>2, <1>3
<1>5. CASE request[r].what \in Finders \cup {"create"} \/ request[r].pc = "crowd"
  BY <1>1, <1>2, <1>4, <1>5 DEF Old, HoldsLive, Finders
<1>6. CASE request[r].what = "remove" /\ request[r].pc = "write"
  <2>1. RemoveMember(r)
    BY <1>6 DEF Serve, Check, ResolveProject, ResolveHeir, ResolveOwner, SaveProject,
                ReplaceCollaborators, Transfer, ArchiveProject, UploadDocument,
                DeleteDocument, Writes
  <2>2. request[r].to # Nobody
    BY <2>1 DEF RemoveMember, work
  <2> QED
    BY <1>4, <1>6, <2>2 DEF Old
<1>7. CASE request[r].what = "delete" /\ request[r].pc = "write"
  <2>1. DeleteDocument(r)
    BY <1>7 DEF Serve, Check, ResolveProject, ResolveHeir, ResolveOwner, SaveProject,
                ReplaceCollaborators, Transfer, ArchiveProject, UploadDocument,
                RemoveMember, Writes
  <2> QED
    BY <1>4, <1>7, <2>1 DEF Old, DeleteDocument
<1> QED
  BY <1>1, <1>2, <1>5, <1>6, <1>7 DEF Request, Finders

\* An archived project is changed only by requests that found it, or counted it,
\* before it was archived, for any number of them; and by deleting documents.
THEOREM ArchivedIsClosed == Spec => OnlyOldRequestsChange
<1>1. Init => FoundLive
  BY EndedHoldsLive DEF Init, FoundLive
<1>2. TypeOK /\ FoundLive /\ [Next]_vars => FoundLive'
  BY StepFindsLive
<1>3. TypeOK /\ FoundLive /\ [Next]_vars =>
        [project.stage = "gone" /\ work' # work =>
           \E r \in Requests :
             /\ request[r].pc \notin {"idle", "done"} /\ request'[r] # request[r]
             /\ \/ request[r].row.stage \in {"open", "done"}
                \/ request[r].what = "remove" /\ request[r].to # Nobody
                \/ request[r].what = "delete" /\ project' = project
                      /\ collaborators' = collaborators]_vars
  <2> SUFFICES ASSUME TypeOK, FoundLive, Next, work' # work
               PROVE  \E r \in Requests : Old(r)
    BY DEF Old
  <2>1. \A r \in Requests, u \in Users : ~Ask(r, u)
    BY DEF Ask, Find, FindDocument, AskProject, AskRemoval
  <2>2. \A u \in Users : ~ChangeMember(u) /\ ~FoundCompany(u)
    BY DEF ChangeMember, FoundCompany
  <2>3. PICK r \in Requests : Serve(r)
    BY <2>1, <2>2 DEF Next
  <2> QED
    BY <2>3, WritersAreOld
<1> QED
  BY <1>1, <1>2, <1>3, TypeCorrect, PTL DEF Spec, OnlyOldRequestsChange
=============================================================================
