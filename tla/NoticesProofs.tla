---------------------------- MODULE NoticesProofs ----------------------------
(***************************************************************************)
(* Theorems about Notices, for any number of requests, users, deliveries,  *)
(* retries and faults.                                                     *)
(***************************************************************************)
EXTENDS Notices, TLAPS

(***************************************************************************)
(* Types.  A request is about to tell somebody only if there is somebody,  *)
(* which the type of untold needs when it is lost there.                   *)
(***************************************************************************)
TellsSomebody == \A r \in Requests : At(r, "tell") => Tells(r)

TypeInv == TypeOK /\ TellsSomebody

LEMMA InitType == Init => TypeInv
<1> SUFFICES ASSUME Init PROVE TypeInv
  OBVIOUS
<1> NoRequest \in Request /\ NoNote \in Note /\ NoMail \in Mail
  BY NoticeConstants
  DEF NoRequest, Request, Wants, Row, NoNote, Note, NoMail, Mail
<1>1. row \in Row /\ untold \subseteq Users /\ faults \in 0..MaxFaults
  <2>1. row \in [assignee : Users \cup {Nobody}, done : {FALSE}]
    BY DEF Init
  <2>2. row \in Row
    BY <2>1 DEF Row
  <2>3. untold \subseteq Users
    BY <2>2 DEF Init, Row
  <2>4. faults \in 0..MaxFaults
    BY NoticeConstants DEF Init
  <2> QED
    BY <2>2, <2>3, <2>4
<1>2. TellsSomebody
  BY DEF Init, TellsSomebody, At, NoRequest
<1> QED
  BY <1>1, <1>2 DEF Init, TypeInv, TypeOK

LEMMA GoesType ==
  ASSUME TypeOK, NEW r \in Requests,
         NEW pc \in {"none", "save", "tell", "mail", "done"}, Goes(r, pc)
  PROVE  request' \in [Requests -> Request]
<1> NoRequest \in Request
  BY NoticeConstants DEF NoRequest, Request, Wants, Row
<1> QED
  BY DEF Goes, TypeOK, Request

LEMMA EndsType ==
  ASSUME TypeOK, NEW d \in deliveries, Ends(d)
  PROVE  mail' \in [deliveries -> Mail]
<1> NoMail \in Mail
  BY NoticeConstants DEF NoMail, Mail, NoNote, Note
<1> QED
  BY DEF Ends, TypeOK, Mail

LEMMA ToldIsUser ==
  ASSUME TypeOK, NEW r \in Requests
  PROVE  /\ Told(r) \in Users \cup {Nobody}
         /\ Tells(r) => Told(r) \in Users
<1> request[r] \in Request
  BY DEF TypeOK
<1> request[r].wants \in Wants
  BY DEF Request
<1> QED
  BY NoticeConstants DEF Told, Tells, Assigns, Wants

\* A request that goes on to another place than "tell" leaves nothing to tell.
LEMMA GoesSilently ==
  ASSUME TypeInv, NEW r \in Requests, NEW pc \in {"save", "mail", "done"}, Goes(r, pc)
  PROVE  TellsSomebody'
  BY DEF Goes, TypeInv, TypeOK, TellsSomebody, At, Tells, Request

LEMMA RequestStepsType ==
  ASSUME TypeInv, NEW r \in Requests, Read(r) \/ Serve(r) \/ LoseRequest(r)
  PROVE  TypeInv'
<1> TypeOK /\ TellsSomebody
  BY DEF TypeInv
<1> request[r] \in Request
  BY DEF TypeOK
<1> request[r].wants \in Wants /\ request[r].seen \in Row
  BY DEF Request
<1>1. CASE Read(r)
  <2> PICK w \in Wants :
        request' = [request EXCEPT ![r] = [pc |-> "save", wants |-> w, seen |-> row]]
    BY <1>1 DEF Read
  <2>1. [pc |-> "save", wants |-> w, seen |-> row] \in Request
    BY DEF Request, TypeOK
  <2>2. TellsSomebody'
    BY DEF TellsSomebody, At, Tells, TypeOK
  <2> QED
    BY <1>1, <2>1, <2>2 DEF Read, TypeOK, TypeInv, mailing
<1>2. CASE AssignTask(r) \/ RemoveMember(r) \/ UpdateTaskStatus(r) \/ UpdateTask(r)
  <2>1. request' \in [Requests -> Request]
    BY <1>2, GoesType DEF AssignTask, RemoveMember, UpdateTaskStatus, UpdateTask, Saves
  <2>2. row' \in Row
    BY <1>2 DEF AssignTask, RemoveMember, UpdateTaskStatus, UpdateTask, Assigns, Wants, Row, TypeOK
  <2>3. TellsSomebody'
    <3>1. Goes(r, IF Tells(r) THEN "tell" ELSE "done")
      BY <1>2 DEF AssignTask, RemoveMember, UpdateTaskStatus, UpdateTask, Saves
    <3>2. CASE ~Tells(r)
      BY <3>1, <3>2, GoesSilently
    <3>3. CASE Tells(r)
      <4>1. request' = [request EXCEPT ![r].pc = "tell"]
        BY <3>1, <3>3 DEF Goes, TypeOK, Request
      <4> QED
        BY <4>1, <3>3 DEF TellsSomebody, At, Tells, TypeOK, Request
    <3> QED
      BY <3>2, <3>3
  <2>4. untold' \subseteq Users
    BY <1>2
    DEF AssignTask, RemoveMember, UpdateTaskStatus, UpdateTask, Wants, TypeOK
  <2> QED
    BY <1>2, <2>1, <2>2, <2>3, <2>4
    DEF AssignTask, RemoveMember, UpdateTaskStatus, UpdateTask, Saves, TypeOK, TypeInv, mailing
<1>3. CASE Create(r)
  <2>1. request' \in [Requests -> Request] /\ TellsSomebody'
    BY <1>3, GoesType, GoesSilently DEF Create
  <2>2. [NoNote EXCEPT !.to = Told(r), !.critical = Assigns(r)] \in Note
    BY ToldIsUser DEF NoNote, Note, Assigns
  <2> QED
    BY <1>3, <2>1, <2>2 DEF Create, TypeOK, TypeInv, mailing
<1>4. CASE Enqueue(r)
  <2>1. request' \in [Requests -> Request] /\ TellsSomebody'
    BY <1>4, GoesType, GoesSilently DEF Enqueue
  <2>2. mail' \in [deliveries -> Mail]
    BY <1>4, NoticeConstants DEF Enqueue, TypeOK, Mail, deliveries
  <2> QED
    BY <1>4, <2>1, <2>2 DEF Enqueue, TypeOK, TypeInv
<1>5. CASE LoseRequest(r)
  <2>1. request' \in [Requests -> Request] /\ TellsSomebody'
    BY <1>5, GoesType, GoesSilently DEF LoseRequest
  <2>2. faults' \in 0..MaxFaults
    BY <1>5, NoticeConstants DEF LoseRequest, Fault, TypeOK
  <2>3. At(r, "tell") => Told(r) \in Users
    BY ToldIsUser DEF TellsSomebody
  <2> QED
    BY <1>5, <2>1, <2>2, <2>3 DEF LoseRequest, TypeOK, TypeInv, mailing
<1> QED
  BY <1>1, <1>2, <1>3, <1>4, <1>5 DEF Serve

LEMMA RecipientStepsType ==
  ASSUME TypeInv, (\E r \in Requests : MarkRead(r)) \/ SetPreference
  PROVE  TypeInv'
<1>1. CASE SetPreference
  BY <1>1 DEF SetPreference, TypeInv, TypeOK, TellsSomebody, At, Tells, mailing
<1>2. ASSUME NEW r \in Requests, MarkRead(r) PROVE TypeInv'
  BY <1>2 DEF MarkRead, TypeInv, TypeOK, Note, TellsSomebody, At, Tells, mailing
<1> QED
  BY <1>1, <1>2

LEMMA MailStepsType ==
  ASSUME TypeInv, NEW d \in deliveries,
         Work(d) \/ LoseTask(d) \/ \E c \in Copies : Redeliver(d, c)
  PROVE  TypeInv'
<1> TypeOK /\ TellsSomebody /\ d[1] \in Requests
  BY DEF TypeInv, deliveries
<1> mail[d] \in Mail /\ note[d[1]] \in Note /\ sent[d[1]] \in Nat
  BY DEF TypeOK
<1>1. request' = request /\ row' = row /\ quiet' = quiet /\ untold' = untold
  BY DEF Work, Take, Send, FailToSend, Flag, LoseTask, Redeliver
<1>2. TellsSomebody'
  BY <1>1 DEF TellsSomebody, At, Tells
<1>3. CASE Take(d)
  <2>1. mail' \in [deliveries -> Mail]
    BY <1>3, EndsType DEF Take, TypeOK, Mail
  <2> QED
    BY <1>1, <1>2, <1>3, <2>1 DEF Take, TypeOK, TypeInv
<1>4. CASE Send(d)
  BY <1>1, <1>2, <1>4 DEF Send, TypeOK, TypeInv, Mail
<1>5. CASE FailToSend(d)
  <2>1. MayRetry(mail[d]) => Retried(mail[d]) \in Mail
    <3>1. NoNote \in Note
      BY DEF NoNote, Note
    <3>2. MayRetry(mail[d]) => mail[d].try + 1 \in 0..MaxRetries
      BY NoticeConstants DEF MayRetry, Mail
    <3> QED
      BY <3>1, <3>2 DEF Retried, NoMail, Mail
  <2>2. mail' \in [deliveries -> Mail]
    BY <1>5, <2>1, EndsType DEF FailToSend, TypeOK
  <2>3. faults' \in 0..MaxFaults
    BY <1>5, NoticeConstants DEF FailToSend, Fault, TypeOK
  <2> QED
    BY <1>1, <1>2, <1>5, <2>2, <2>3 DEF FailToSend, TypeOK, TypeInv
<1>6. CASE Flag(d)
  <2>1. mail' \in [deliveries -> Mail]
    BY <1>6, EndsType DEF Flag
  <2> QED
    BY <1>1, <1>2, <1>6, <2>1 DEF Flag, Flagged, TypeOK, TypeInv, Note
<1>7. CASE LoseTask(d)
  <2>1. mail' \in [deliveries -> Mail]
    BY <1>7, EndsType DEF LoseTask
  <2>2. faults' \in 0..MaxFaults
    BY <1>7, NoticeConstants DEF LoseTask, Fault, TypeOK
  <2> QED
    BY <1>1, <1>2, <1>7, <2>1, <2>2 DEF LoseTask, TypeOK, TypeInv
<1>8. ASSUME NEW c \in Copies, Redeliver(d, c) PROVE TypeInv'
  <2>1. faults' \in 0..MaxFaults
    BY <1>8, NoticeConstants DEF Redeliver, Fault, TypeOK
  <2> QED
    BY <1>1, <1>2, <1>8, <2>1 DEF Redeliver, TypeOK, TypeInv
<1> QED
  BY <1>3, <1>4, <1>5, <1>6, <1>7, <1>8 DEF Work

\* Next, by who takes the step.
LEMMA Steps ==
  ASSUME Next
  PROVE  \/ \E r \in Requests : Read(r) \/ Serve(r) \/ LoseRequest(r)
         \/ (\E r \in Requests : MarkRead(r)) \/ SetPreference
         \/ \E d \in deliveries :
              Work(d) \/ LoseTask(d) \/ \E c \in Copies : Redeliver(d, c)
  BY DEF Next

LEMMA StepKeepsType == TypeInv /\ [Next]_vars => TypeInv'
<1>1. CASE UNCHANGED vars
  BY <1>1 DEF vars, mailing, TypeInv, TypeOK, TellsSomebody, At, Tells
<1> QED
  BY <1>1, Steps, RequestStepsType, RecipientStepsType, MailStepsType

LEMMA AlwaysTyped == Spec => []TypeInv
<1> QED
  BY InitType, StepKeepsType, PTL DEF Spec

\* Whatever requests, deliveries and the recipient do, every row and record
\* keeps its type: retries within their bound, notifications to users.
THEOREM TypeCorrect == Spec => []TypeOK
<1>1. TypeInv => TypeOK
  BY DEF TypeInv
<1> QED
  BY <1>1, AlwaysTyped, PTL
-----------------------------------------------------------------------------
(***************************************************************************)
(* A request writes its notification once, and no message about it exists  *)
(* before it is enqueued.                                                  *)
(***************************************************************************)
Unwritten ==
  \A r \in Requests :
    request[r].pc \in {"none", "save", "tell"} => note[r] = NoNote

Unsent ==
  \A r \in Requests :
    request[r].pc \in {"none", "save", "tell", "mail"} =>
      /\ \A c \in Copies : In(<<r, c>>, "none")
      /\ sent[r] = 0 /\ r \notin doubted

Once == Unwritten /\ Unsent

LEMMA InitOnce == Init => Once
  BY DEF Init, Once, Unwritten, Unsent, In, NoMail, deliveries

LEMMA RequestStepsOnce ==
  ASSUME TypeInv, Once, NEW r \in Requests, Read(r) \/ Serve(r) \/ LoseRequest(r)
  PROVE  Once'
<1> TypeOK
  BY DEF TypeInv
<1> NoRequest.pc = "none"
  BY DEF NoRequest
<1>1. CASE Read(r)
  BY <1>1 DEF Read, At, Once, Unwritten, Unsent, In, TypeOK, mailing
<1>2. CASE AssignTask(r) \/ RemoveMember(r) \/ UpdateTaskStatus(r) \/ UpdateTask(r)
  <2>1. Saves(r)
    BY <1>2 DEF AssignTask, RemoveMember, UpdateTaskStatus, UpdateTask
  <2> QED
    BY <2>1 DEF Saves, Goes, At, Once, Unwritten, Unsent, In, TypeOK, Request, mailing
<1>3. CASE Create(r)
  BY <1>3 DEF Create, Goes, At, Once, Unwritten, Unsent, In, TypeOK, Request, mailing
<1>4. CASE Enqueue(r)
  <2>1. \A q \in Requests \ {r} : request'[q] = request[q]
    BY <1>4 DEF Enqueue, Goes, TypeOK
  <2>2. request'[r].pc = "done"
    BY <1>4 DEF Enqueue, Goes, TypeOK, Request, NoRequest
  <2>3. \A q \in Requests \ {r}, c \in Copies : mail'[<<q, c>>] = mail[<<q, c>>]
    BY <1>4, NoticeConstants DEF Enqueue, TypeOK, deliveries
  <2> QED
    BY <1>4, <2>1, <2>2, <2>3 DEF Enqueue, Once, Unwritten, Unsent, In
<1>5. CASE LoseRequest(r)
  <2>1. request'[r].pc = "done" /\ \A q \in Requests \ {r} : request'[q] = request[q]
    BY <1>5 DEF LoseRequest, Goes, TypeOK, Request, NoRequest
  <2> QED
    BY <1>5, <2>1 DEF LoseRequest, Once, Unwritten, Unsent, In, mailing
<1> QED
  BY <1>1, <1>2, <1>3, <1>4, <1>5 DEF Serve

LEMMA RecipientStepsOnce ==
  ASSUME TypeInv, Once, (\E r \in Requests : MarkRead(r)) \/ SetPreference
  PROVE  Once'
<1>1. CASE SetPreference
  BY <1>1 DEF SetPreference, Once, Unwritten, Unsent, In, mailing
<1>2. ASSUME NEW r \in Requests, MarkRead(r) PROVE Once'
  <2>1. note[r] # NoNote
    BY <1>2 DEF MarkRead, Written, NoNote
  <2>2. \A q \in Requests \ {r} : note'[q] = note[q]
    BY <1>2 DEF MarkRead, TypeInv, TypeOK
  <2> QED
    BY <1>2, <2>1, <2>2 DEF MarkRead, Once, Unwritten, Unsent, In, mailing
<1> QED
  BY <1>1, <1>2

\* A step of a delivery whose message is there touches only its notification.
LEMMA MailStepsElsewhere ==
  ASSUME TypeInv, NEW d \in deliveries,
         Work(d) \/ LoseTask(d) \/ \E c \in Copies : Redeliver(d, c)
  PROVE  /\ ~In(d, "none") /\ d[1] \in Requests /\ request' = request
         /\ \A q \in Requests \ {d[1]} :
              /\ note'[q] = note[q] /\ sent'[q] = sent[q]
              /\ q \in doubted' <=> q \in doubted
              /\ \A c \in Copies : mail'[<<q, c>>] = mail[<<q, c>>]
<1> TypeOK /\ d[1] \in Requests
  BY DEF TypeInv, deliveries
<1> DEFINE Same == \A q \in Requests \ {d[1]} :
              /\ note'[q] = note[q] /\ sent'[q] = sent[q]
              /\ q \in doubted' <=> q \in doubted
              /\ \A c \in Copies : mail'[<<q, c>>] = mail[<<q, c>>]
<1>1. CASE Take(d)
  <2>1. \A e \in deliveries : e # d => mail'[e] = mail[e]
    BY <1>1 DEF Take, Ends, TypeOK
  <2>2. \A q \in Requests \ {d[1]}, c \in Copies : <<q, c>> \in deliveries /\ <<q, c>> # d
    BY DEF deliveries
  <2>3. ~In(d, "none") /\ request' = request /\ note' = note /\ sent' = sent
    BY <1>1 DEF Take, In
  <2>4. \A q \in Requests \ {d[1]} : q \in doubted' <=> q \in doubted
    BY <1>1 DEF Take
  <2> QED
    BY <2>1, <2>2, <2>3, <2>4
<1>2. CASE Send(d)
  BY <1>2 DEF Send, In, TypeOK, deliveries
<1>3. CASE FailToSend(d)
  BY <1>3 DEF FailToSend, In, Ends, TypeOK, deliveries
<1>4. CASE Flag(d)
  BY <1>4 DEF Flag, In, Ends, TypeOK, deliveries
<1>5. CASE LoseTask(d)
  BY <1>5 DEF LoseTask, In, Ends, TypeOK, deliveries
<1>6. ASSUME NEW c \in Copies, Redeliver(d, c)
      PROVE  ~In(d, "none") /\ request' = request /\ Same
  BY <1>6 DEF Redeliver, In, TypeOK, deliveries
<1> QED
  BY <1>1, <1>2, <1>3, <1>4, <1>5, <1>6 DEF Work

LEMMA MailStepsOnce ==
  ASSUME TypeInv, Once, NEW d \in deliveries,
         Work(d) \/ LoseTask(d) \/ \E c \in Copies : Redeliver(d, c)
  PROVE  Once'
<1>1. d = <<d[1], d[2]>> /\ d[2] \in Copies
  BY DEF deliveries
<1>2. request[d[1]].pc \notin {"none", "save", "tell", "mail"}
  BY <1>1, MailStepsElsewhere DEF Once, Unsent
<1> QED
  BY <1>2, MailStepsElsewhere DEF Once, Unwritten, Unsent, In

LEMMA StepKeepsOnce == TypeInv /\ Once /\ [Next]_vars => Once'
<1>1. CASE UNCHANGED vars
  BY <1>1 DEF vars, mailing, Once, Unwritten, Unsent, In
<1> QED
  BY <1>1, Steps, RequestStepsOnce, RecipientStepsOnce, MailStepsOnce

LEMMA AlwaysOnce == Spec => [](TypeInv /\ Once)
<1> QED
  BY InitType, StepKeepsType, InitOnce, StepKeepsOnce, PTL DEF Spec
-----------------------------------------------------------------------------
(* Marks. *)

LEMMA StepKeepsMarks ==
  ASSUME TypeInv, Once, [Next]_vars, NEW r \in Requests
  PROVE  /\ note[r].read => note'[r].read
         /\ note[r].mailed => note'[r].mailed
<1> TypeOK
  BY DEF TypeInv
<1> DEFINE Stay == /\ note[r].read => note'[r].read
                   /\ note[r].mailed => note'[r].mailed
<1>1. CASE note' = note
  BY <1>1
<1>2. ASSUME NEW q \in Requests, Create(q) PROVE Stay
  <2>1. note[q] = NoNote
    BY <1>2 DEF Create, At, Once, Unwritten
  <2> QED
    BY <1>2, <2>1 DEF Create, NoNote, TypeOK
<1>3. ASSUME NEW q \in Requests, MarkRead(q) PROVE Stay
  BY <1>3 DEF MarkRead, TypeOK, Note
<1>4. ASSUME NEW d \in deliveries, Flag(d) PROVE Stay
  BY <1>4 DEF Flag, Flagged, TypeOK, Note, deliveries
<1>5. ASSUME NEW q \in Requests,
             Read(q) \/ AssignTask(q) \/ RemoveMember(q) \/ UpdateTaskStatus(q) \/ UpdateTask(q)
               \/ Enqueue(q) \/ LoseRequest(q)
      PROVE  note' = note
  BY <1>5 DEF Read, AssignTask, RemoveMember, UpdateTaskStatus, UpdateTask, Saves, Enqueue, LoseRequest
<1>6. ASSUME NEW d \in deliveries,
             Take(d) \/ Send(d) \/ FailToSend(d) \/ LoseTask(d)
               \/ \E c \in Copies : Redeliver(d, c)
      PROVE  note' = note
  BY <1>6 DEF Take, Send, FailToSend, LoseTask, Redeliver
<1>7. CASE SetPreference \/ UNCHANGED vars
  BY <1>7, <1>1 DEF SetPreference, vars
<1> QED
  BY <1>1, <1>2, <1>3, <1>4, <1>5, <1>6, <1>7, Steps DEF Serve, Work

\* A notification that was read stays read and one that was mailed stays
\* flagged: requests write a notification once, and the mail task and the
\* recipient write one column of the row as it is, not as they read it.
THEOREM MarksAreKept == Spec => MarksStay
<1>1. TypeInv /\ Once /\ [Next]_vars
        => [\A r \in Requests : /\ note[r].read => note'[r].read
                                /\ note[r].mailed => note'[r].mailed]_vars
  BY StepKeepsMarks
<1> QED
  BY <1>1, AlwaysOnce, PTL DEF Spec, MarksStay
-----------------------------------------------------------------------------
(***************************************************************************)
(* Who has the task has been told, and so has whoever an update that is    *)
(* under way would give it back to.                                        *)
(***************************************************************************)
Aware(u) ==
  \/ u = Nobody \/ u \in untold
  \/ \E r \in Requests : At(r, "tell") /\ Assigns(r) /\ Told(r) = u
  \/ \E r \in Requests : note[r].to = u /\ note[r].critical

AllAware ==
  /\ Aware(row.assignee)
  /\ \A r \in Requests : At(r, "save") => Aware(request[r].seen.assignee)

LEMMA InitAware == Init => AllAware
  BY DEF Init, AllAware, Aware, At, NoRequest

LEMMA ReadAware ==
  ASSUME TypeInv, AllAware, NEW r \in Requests, Read(r)
  PROVE  AllAware'
<1> TypeOK
  BY DEF TypeInv
<1>1. PICK w \in Wants :
        request' = [request EXCEPT ![r] = [pc |-> "save", wants |-> w, seen |-> row]]
  BY DEF Read
<1>2. request'[r].seen = row /\ \A q \in Requests \ {r} : request'[q] = request[q]
  BY <1>1 DEF TypeOK
<1>3. ASSUME NEW u, Aware(u) PROVE Aware(u)'
  BY <1>2, <1>3 DEF Read, At, Aware, Assigns, Told
<1> QED
  BY <1>2, <1>3 DEF AllAware, At, Read

LEMMA SavesAware ==
  ASSUME TypeInv, AllAware, NEW r \in Requests,
         AssignTask(r) \/ RemoveMember(r) \/ UpdateTaskStatus(r) \/ UpdateTask(r)
  PROVE  AllAware'
<1> TypeOK
  BY DEF TypeInv
<1> Saves(r) /\ note' = note /\ untold \subseteq untold' /\ At(r, "save")
  BY DEF AssignTask, RemoveMember, UpdateTaskStatus, UpdateTask, Saves
<1> request[r] \in Request /\ request[r].seen \in Row
  BY DEF TypeOK, Request
<1>1. \A q \in Requests \ {r} : request'[q] = request[q]
  BY DEF Saves, Goes, TypeOK
<1>2. request'[r].pc # "save"
  BY DEF Saves, Goes, TypeOK, Request, NoRequest
<1>3. ASSUME NEW u, Aware(u) PROVE Aware(u)'
  BY <1>1, <1>3 DEF At, Aware, Assigns, Told
<1>4. Aware(row.assignee)'
  <2>1. CASE AssignTask(r)
    <3>1. row'.assignee = request[r].wants.to
      BY <2>1 DEF AssignTask, TypeOK, Row
    <3>2. CASE request[r].wants.to = Nobody
      BY <3>1, <3>2 DEF Aware
    <3>3. CASE request[r].wants.to # Nobody
      <4>1. request' = [request EXCEPT ![r].pc = "tell"]
        BY <2>1, <3>3 DEF Saves, Goes, Tells, AssignTask, Assigns, TypeOK, Request
      <4>2. At(r, "tell")' /\ Assigns(r)' /\ Told(r)' = row'.assignee
        BY <2>1, <3>1, <4>1 DEF AssignTask, At, Assigns, Told, TypeOK, Request
      <4> QED
        BY <4>2 DEF Aware
    <3> QED
      BY <3>2, <3>3
  <2>4. CASE RemoveMember(r)
    <3>1. row'.assignee = request[r].wants.to
      BY <2>4 DEF RemoveMember, TypeOK, Row
    <3> QED
      BY <2>4, <3>1 DEF RemoveMember, Aware
  <2>2. CASE UpdateTaskStatus(r)
    <3>1. row'.assignee = row.assignee
      BY <2>2 DEF UpdateTaskStatus, TypeOK, Row
    <3> QED
      BY <1>3, <3>1 DEF AllAware, Aware
  <2>3. CASE UpdateTask(r)
    <3>1. row'.assignee = request[r].seen.assignee
      BY <2>3 DEF UpdateTask
    <3> QED
      BY <1>3, <3>1 DEF AllAware, Aware
  <2> QED
    BY <2>1, <2>2, <2>3, <2>4
<1>5. \A q \in Requests : At(q, "save")' => Aware(request[q].seen.assignee)'
  BY <1>1, <1>2, <1>3 DEF AllAware, At, Aware
<1> QED
  BY <1>4, <1>5 DEF AllAware

LEMMA LaterStepsAware ==
  ASSUME TypeInv, Once, AllAware, NEW r \in Requests,
         Create(r) \/ Enqueue(r) \/ LoseRequest(r)
  PROVE  AllAware'
<1> TypeOK /\ request[r] \in Request
  BY DEF TypeInv, TypeOK
<1> row' = row
  BY DEF Create, Enqueue, LoseRequest
<1>1. \A q \in Requests \ {r} : request'[q] = request[q]
  BY DEF Create, Enqueue, LoseRequest, Goes, TypeOK
<1>2. request'[r].pc \notin {"save", "tell"}
  BY DEF Create, Enqueue, LoseRequest, Goes, TypeOK, Request, NoRequest
<1>3. ASSUME NEW u, Aware(u) PROVE Aware(u)'
  <2>1. CASE Create(r)
    <3>1. note[r] = NoNote
      BY <2>1 DEF Create, At, Once, Unwritten
    <3>2. note'[r].to = Told(r) /\ (note'[r].critical <=> Assigns(r))
      BY <2>1 DEF Create, TypeOK, NoNote, Assigns
    <3>3. \A q \in Requests \ {r} : note'[q] = note[q]
      BY <2>1 DEF Create, TypeOK
    <3> QED
      BY <1>1, <1>3, <2>1, <3>1, <3>2, <3>3
      DEF Create, Aware, At, Assigns, Told, NoNote
  <2>2. CASE Enqueue(r)
    BY <1>1, <1>3, <2>2 DEF Enqueue, Aware, At, Assigns, Told
  <2>3. CASE LoseRequest(r)
    BY <1>1, <1>3, <2>3 DEF LoseRequest, Aware, At, Assigns, Told
  <2> QED
    BY <2>1, <2>2, <2>3
<1> QED
  BY <1>1, <1>2, <1>3 DEF AllAware, At

LEMMA OthersAware ==
  ASSUME TypeInv, AllAware, row' = row, request' = request, untold' = untold,
         \A r \in Requests : note'[r].to = note[r].to /\ note'[r].critical = note[r].critical
  PROVE  AllAware'
  BY DEF AllAware, Aware, At, Assigns, Told

LEMMA RecipientStepsAware ==
  ASSUME TypeInv, AllAware, (\E r \in Requests : MarkRead(r)) \/ SetPreference
  PROVE  AllAware'
<1>1. CASE SetPreference
  BY <1>1, OthersAware DEF SetPreference
<1>2. ASSUME NEW r \in Requests, MarkRead(r) PROVE AllAware'
  <2>1. \A q \in Requests : note'[q].to = note[q].to /\ note'[q].critical = note[q].critical
    BY <1>2 DEF MarkRead, TypeInv, TypeOK, Note
  <2> QED
    BY <1>2, <2>1, OthersAware DEF MarkRead
<1> QED
  BY <1>1, <1>2

LEMMA MailStepsAware ==
  ASSUME TypeInv, AllAware, NEW d \in deliveries,
         Work(d) \/ LoseTask(d) \/ \E c \in Copies : Redeliver(d, c)
  PROVE  AllAware'
<1>1. request' = request /\ row' = row /\ untold' = untold
  BY DEF Work, Take, Send, FailToSend, Flag, LoseTask, Redeliver
<1>2. CASE note' = note
  BY <1>1, <1>2, OthersAware
<1>3. CASE Flag(d)
  <2>1. \A q \in Requests : note'[q].to = note[q].to /\ note'[q].critical = note[q].critical
    BY <1>3 DEF Flag, Flagged, TypeInv, TypeOK, Note, deliveries
  <2> QED
    BY <1>1, <2>1, OthersAware
<1>4. ~Flag(d) => note' = note
  BY DEF Work, Take, Send, FailToSend, LoseTask, Redeliver
<1> QED
  BY <1>2, <1>3, <1>4

LEMMA StepKeepsAware == TypeInv /\ Once /\ AllAware /\ [Next]_vars => AllAware'
<1>1. CASE UNCHANGED vars
  BY <1>1 DEF vars, AllAware, Aware, At, Assigns, Told
<1> QED
  BY <1>1, Steps, ReadAware, SavesAware, LaterStepsAware, RecipientStepsAware,
     MailStepsAware DEF Serve

\* Whoever has the task has been told so, is about to be, or got it with the
\* task's creation, from a member who was removed, or by a request that was
\* lost before it told them.
THEOREM AssigneesAreTold == Spec => []AssigneeIsTold
<1>1. AllAware => AssigneeIsTold
  BY DEF AllAware, Aware, AssigneeIsTold
<1>2. Spec => [](TypeInv /\ Once /\ AllAware)
  BY InitType, StepKeepsType, InitOnce, StepKeepsOnce, InitAware, StepKeepsAware,
     PTL DEF Spec
<1> QED
  BY <1>1, <1>2, PTL
-----------------------------------------------------------------------------
(***************************************************************************)
(* Mails.  Two deliveries of a notification that is not in doubt are never *)
(* at work at once, one that is about to send finds it unsent, and a mail  *)
(* that was sent is flagged, or its delivery is about to flag it.          *)
(***************************************************************************)
Busy(d) == mail[d].pc \in {"send", "flag"}

OneBusy(r) == \A b, c \in Copies : Busy(<<r, b>>) /\ Busy(<<r, c>>) => b = c

SendsFirst(r) ==
  \A c \in Copies : In(<<r, c>>, "send") => sent[r] = 0 /\ ~note[r].mailed

FlagsSent(r) ==
  /\ sent[r] \in {0, 1}
  /\ sent[r] = 1 => note[r].mailed \/ \E c \in Copies : In(<<r, c>>, "flag")

SentOnce(r) == r \notin doubted => OneBusy(r) /\ SendsFirst(r) /\ FlagsSent(r)

AllSentOnce == \A r \in Requests : SentOnce(r)

LEMMA InitMails == Init => AllSentOnce
  BY DEF Init, AllSentOnce, SentOnce, OneBusy, SendsFirst, FlagsSent, Busy, In, NoMail,
         deliveries

\* Requests and recipients touch no delivery but the one that is enqueued.
LEMMA QuietMails ==
  ASSUME AllSentOnce, sent' = sent, doubted' = doubted,
         \A r \in Requests : note'[r].mailed <=> note[r].mailed,
         \A d \in deliveries : mail'[d].pc = mail[d].pc
  PROVE  AllSentOnce'
<1> \A r \in Requests, c \in Copies : <<r, c>> \in deliveries
  BY DEF deliveries
<1> QED
  BY DEF AllSentOnce, SentOnce, OneBusy, SendsFirst, FlagsSent, Busy, In

LEMMA RequestStepsMails ==
  ASSUME TypeInv, Once, AllSentOnce, NEW r \in Requests,
         Read(r) \/ Serve(r) \/ LoseRequest(r)
  PROVE  AllSentOnce'
<1> TypeOK
  BY DEF TypeInv
<1>1. CASE Read(r) \/ AssignTask(r) \/ RemoveMember(r) \/ UpdateTaskStatus(r) \/ UpdateTask(r) \/ LoseRequest(r)
  BY <1>1, QuietMails
  DEF Read, AssignTask, RemoveMember, UpdateTaskStatus, UpdateTask, Saves, LoseRequest, mailing
<1>2. CASE Create(r)
  <2>1. note[r] = NoNote
    BY <1>2 DEF Create, At, Once, Unwritten
  <2>2. \A q \in Requests : note'[q].mailed <=> note[q].mailed
    BY <1>2, <2>1 DEF Create, NoNote, TypeOK
  <2> QED
    BY <1>2, <2>2, QuietMails DEF Create, mailing
<1>3. CASE Enqueue(r)
  <2>1. \A c \in Copies : In(<<r, c>>, "none") /\ sent[r] = 0
    BY <1>3 DEF Enqueue, At, Once, Unsent
  <2>2. \A q \in Requests \ {r}, c \in Copies : mail'[<<q, c>>] = mail[<<q, c>>]
    BY <1>3, NoticeConstants DEF Enqueue, TypeOK, deliveries
  <2>3. \A c \in Copies : mail'[<<r, c>>].pc \in {"none", "queued"}
    BY <1>3, <2>1, NoticeConstants DEF Enqueue, In, TypeOK, Mail, deliveries
  <2>4. ASSUME NEW q \in Requests PROVE SentOnce(q)'
    <3>1. CASE q = r
      <4>1. \A c \in Copies : ~Busy(<<r, c>>)' /\ ~In(<<r, c>>, "send")'
        BY <2>3 DEF Busy, In
      <4>2. sent'[r] = 0
        BY <1>3, <2>1, NoticeConstants DEF Enqueue
      <4> QED
        BY <4>1, <4>2, <3>1 DEF SentOnce, OneBusy, SendsFirst, FlagsSent
    <3>2. CASE q # r
      BY <1>3, <2>2, <3>2
      DEF Enqueue, AllSentOnce, SentOnce, OneBusy, SendsFirst, FlagsSent, Busy, In
    <3> QED
      BY <3>1, <3>2
  <2> QED
    BY <2>4 DEF AllSentOnce
<1> QED
  BY <1>1, <1>2, <1>3 DEF Serve

LEMMA RecipientStepsMails ==
  ASSUME TypeInv, AllSentOnce, (\E r \in Requests : MarkRead(r)) \/ SetPreference
  PROVE  AllSentOnce'
<1>1. CASE SetPreference
  BY <1>1, QuietMails DEF SetPreference, mailing
<1>2. ASSUME NEW r \in Requests, MarkRead(r) PROVE AllSentOnce'
  <2>1. \A q \in Requests : note'[q].mailed <=> note[q].mailed
    BY <1>2 DEF MarkRead, TypeInv, TypeOK, Note
  <2> QED
    BY <1>2, <2>1, QuietMails DEF MarkRead, mailing
<1> QED
  BY <1>1, <1>2

\* What a delivery's step does to its own place.
LEMMA OwnMail ==
  ASSUME TypeInv, NEW d \in deliveries
  PROVE  /\ \A e \in deliveries \ {d} :
              Take(d) \/ Send(d) \/ FailToSend(d) \/ Flag(d) \/ LoseTask(d)
                => mail'[e] = mail[e]
         /\ Take(d) => mail'[d].pc = (IF Mails(note[d[1]]) THEN "send" ELSE "done")
         /\ Send(d) => mail'[d].pc = "flag"
         /\ FailToSend(d) => mail'[d].pc \in {"queued", "done"}
         /\ Flag(d) \/ LoseTask(d) => mail'[d].pc = "done"
<1> mail \in [deliveries -> Mail] /\ mail[d] \in Mail
  BY DEF TypeInv, TypeOK
<1>1. \A e \in deliveries \ {d} :
        Take(d) \/ Send(d) \/ FailToSend(d) \/ Flag(d) \/ LoseTask(d) => mail'[e] = mail[e]
  BY DEF Take, Send, FailToSend, Flag, LoseTask, Ends
<1>2. Take(d) => mail'[d].pc = (IF Mails(note[d[1]]) THEN "send" ELSE "done")
  BY DEF Take, Ends, Mail, NoMail
<1>3. Send(d) => mail'[d].pc = "flag"
  BY DEF Send, Mail
<1>4. FailToSend(d) => mail'[d].pc \in {"queued", "done"}
  BY DEF FailToSend, Ends, Mail, NoMail, Retried
<1>5. Flag(d) \/ LoseTask(d) => mail'[d].pc = "done"
  BY DEF Flag, LoseTask, Ends, Mail, NoMail
<1> QED
  BY <1>1, <1>2, <1>3, <1>4, <1>5

\* The deliveries of one notification, one of which, d, takes a step.
LEMMA MailStepsMails ==
  ASSUME TypeInv, Once, AllSentOnce, NEW d \in deliveries,
         Work(d) \/ LoseTask(d) \/ \E c \in Copies : Redeliver(d, c)
  PROVE  AllSentOnce'
<1> DEFINE r == d[1]
<1> r \in Requests /\ d[2] \in Copies /\ d = <<r, d[2]>> /\ TypeOK
  BY DEF deliveries, TypeInv
<1> \A q \in Requests, c \in Copies : <<q, c>> \in deliveries
  BY DEF deliveries
<1> sent[r] \in Nat /\ note[r] \in Note
  BY DEF TypeOK
<1>1. \A q \in Requests \ {r} : SentOnce(q)'
  BY MailStepsElsewhere
  DEF AllSentOnce, SentOnce, OneBusy, SendsFirst, FlagsSent, Busy, In
<1>2. ASSUME r \notin doubted' PROVE SentOnce(r)'
  <2> SUFFICES OneBusy(r)' /\ SendsFirst(r)' /\ FlagsSent(r)'
    BY DEF SentOnce
  <2>1. r \notin doubted
    BY <1>2 DEF Work, Take, Send, FailToSend, Flag, LoseTask, Redeliver
  <2>2. OneBusy(r) /\ SendsFirst(r) /\ FlagsSent(r)
    BY <2>1 DEF AllSentOnce, SentOnce
  <2>3. CASE Take(d)
    <3>1. \A c \in Copies : ~Busy(<<r, c>>)
      BY <1>2, <2>3 DEF Take, Busy
    <3>2. sent[r] = 0 \/ note[r].mailed
      BY <2>2, <3>1 DEF FlagsSent, Busy, In
    <3>3. \A c \in Copies : <<r, c>> # d => mail'[<<r, c>>] = mail[<<r, c>>]
      BY <2>3, OwnMail
    <3>4. mail'[d].pc = "send" \/ mail'[d].pc = "done"
      BY <2>3, OwnMail
    <3>5. mail'[d].pc = "send" => ~note[r].mailed
      BY <2>3, OwnMail DEF Mails
    <3>6. sent' = sent /\ note' = note
      BY <2>3 DEF Take
    <3> QED
      BY <2>2, <3>1, <3>2, <3>3, <3>4, <3>5, <3>6
      DEF OneBusy, SendsFirst, FlagsSent, Busy, In
  <2>4. CASE Send(d)
    <3>1. In(d, "send")
      BY <2>4 DEF Send
    <3>2. sent[r] = 0
      BY <2>2, <3>1 DEF SendsFirst
    <3>3. \A c \in Copies : <<r, c>> # d => mail'[<<r, c>>] = mail[<<r, c>>]
      BY <2>4, OwnMail
    <3>4. \A c \in Copies : <<r, c>> # d => ~Busy(<<r, c>>)
      BY <2>2, <3>1 DEF OneBusy, Busy, In
    <3>5. mail'[d].pc = "flag" /\ sent'[r] = 1 /\ note' = note
      BY <2>4, <3>2, OwnMail DEF Send, TypeOK
    <3> QED
      BY <3>3, <3>4, <3>5 DEF OneBusy, SendsFirst, FlagsSent, Busy, In
  <2>5. CASE FailToSend(d)
    <3>1. sent' = sent /\ note' = note
      BY <1>2, <2>5 DEF FailToSend
    <3>2. \A c \in Copies : <<r, c>> # d => mail'[<<r, c>>] = mail[<<r, c>>]
      BY <2>5, OwnMail
    <3>3. mail'[d].pc \in {"queued", "done"} /\ ~In(d, "flag")
      BY <2>5, OwnMail DEF FailToSend, In
    <3> QED
      BY <2>2, <3>1, <3>2, <3>3 DEF OneBusy, SendsFirst, FlagsSent, Busy, In
  <2>6. CASE Flag(d)
    <3>1. sent' = sent /\ note'[r].mailed
      BY <2>6 DEF Flag, Flagged, TypeOK, Note
    <3>2. \A c \in Copies : <<r, c>> # d => mail'[<<r, c>>] = mail[<<r, c>>]
      BY <2>6, OwnMail
    <3>3. mail'[d].pc = "done" /\ In(d, "flag")
      BY <2>6, OwnMail DEF Flag
    <3>4. \A c \in Copies : <<r, c>> # d => ~Busy(<<r, c>>)
      BY <2>2, <3>3 DEF OneBusy, Busy, In
    <3> QED
      BY <2>2, <3>1, <3>2, <3>3, <3>4 DEF OneBusy, SendsFirst, FlagsSent, Busy, In
  <2>7. CASE LoseTask(d)
    <3>1. sent' = sent /\ note' = note /\ ~In(d, "flag")
      BY <1>2, <2>7 DEF LoseTask, In
    <3>2. \A c \in Copies : <<r, c>> # d => mail'[<<r, c>>] = mail[<<r, c>>]
      BY <2>7, OwnMail
    <3>3. mail'[d].pc = "done"
      BY <2>7, OwnMail
    <3> QED
      BY <2>2, <3>1, <3>2, <3>3 DEF OneBusy, SendsFirst, FlagsSent, Busy, In
  <2>8. ASSUME NEW c \in Copies, Redeliver(d, c)
        PROVE  OneBusy(r)' /\ SendsFirst(r)' /\ FlagsSent(r)'
    <3>1. sent' = sent /\ note' = note /\ In(d, "queued") /\ In(<<r, c>>, "none")
      BY <2>8 DEF Redeliver
    <3>2. \A b \in Copies : b # c => mail'[<<r, b>>] = mail[<<r, b>>]
      BY <2>8 DEF Redeliver, TypeOK
    <3>3. mail'[<<r, c>>].pc = "queued"
      BY <2>8 DEF Redeliver, TypeOK, In
    <3> QED
      BY <2>2, <3>1, <3>2, <3>3 DEF OneBusy, SendsFirst, FlagsSent, Busy, In
  <2> QED
    BY <2>3, <2>4, <2>5, <2>6, <2>7, <2>8 DEF Work
<1>3. r \in doubted' => SentOnce(r)'
  BY DEF SentOnce
<1> QED
  BY <1>1, <1>2, <1>3 DEF AllSentOnce

LEMMA StepKeepsMails == TypeInv /\ Once /\ AllSentOnce /\ [Next]_vars => AllSentOnce'
<1>1. CASE UNCHANGED vars
  BY <1>1, QuietMails DEF vars, mailing
<1> QED
  BY <1>1, Steps, RequestStepsMails, RecipientStepsMails, MailStepsMails

\* A notification is mailed twice only if two deliveries of its message were at
\* work together or one ended in an error after the server had taken the mail.
THEOREM MailedOnce == Spec => []TwiceOnlyInDoubt
<1>1. TypeInv /\ AllSentOnce => TwiceOnlyInDoubt
  BY DEF TypeInv, TypeOK, AllSentOnce, SentOnce, FlagsSent, TwiceOnlyInDoubt
<1>2. Spec => [](TypeInv /\ Once /\ AllSentOnce)
  BY InitType, StepKeepsType, InitOnce, StepKeepsOnce, InitMails, StepKeepsMails,
     PTL DEF Spec
<1> QED
  BY <1>1, <1>2, PTL
=============================================================================
