------------------------------- MODULE Notices -------------------------------
(***************************************************************************)
(* Work on one task by overlapping requests, the notifications they write, *)
(* and the mails a Celery worker sends for them.                           *)
(*                                                                         *)
(* A request reads the task's row, saves it, or the one column it changes, *)
(* and then writes a notification and sends a message for its mail.  Every *)
(* query and update is an action of its own: between two of them other     *)
(* requests run and the process may be lost.  A request writes at most one *)
(* notification, which has its name.  Who may make it is Access, and which *)
(* member may be removed Membership.                                       *)
(***************************************************************************)
EXTENDS Naturals, FiniteSets

CONSTANTS
  Requests,   \* requests
  Users,      \* members of the company
  Maker,      \* created_by of the task
  Nobody,     \* no user
  Copies,     \* deliveries of one message, the first among them
  First,      \* the first delivery
  MaxRetries, \* max_retries of the mail task
  MaxFaults   \* bound: lost processes, redeliveries and replies lost

ASSUME NoticeConstants ==
  /\ Maker \in Users /\ Nobody \notin Users
  /\ First \in Copies
  /\ MaxRetries \in Nat /\ MaxFaults \in Nat

VARIABLES
  row,      \* the task's row: who has it and whether it is DONE
  request,  \* where each request is, what it wants and the row it read
  note,     \* the notification of each request
  mail,     \* the mail task of each delivery of each notification's message
  sent,     \* mails that reached the mail server, for each notification
  quiet,    \* the maker has turned email notifications off
  untold,   \* history: who was given the task and whom nobody meant to tell, or
            \* whose notification was lost with a process
  doubted,  \* history: notifications two deliveries may have mailed
  faults    \* faults so far

vars == <<row, request, note, mail, sent, quiet, untold, doubted, faults>>
mailing == <<mail, sent, doubted>>
deliveries == Requests \X Copies
-----------------------------------------------------------------------------
Row == [assignee : Users \cup {Nobody}, done : BOOLEAN]

\* An update of other columns saves the row as it was read.  A member who is
\* removed hands the task to another.
Wants == [does : {"assign"}, to : Users \cup {Nobody}]
           \cup [does : {"remove"}, to : Users]
           \cup [does : {"status"}, done : BOOLEAN]
           \cup {[does |-> "update"]}

Request == [pc : {"none", "save", "tell", "mail", "done"}, wants : Wants, seen : Row]
NoRequest == [pc |-> "none", wants |-> [does |-> "update"],
              seen |-> [assignee |-> Nobody, done |-> FALSE]]
Note == [to : Users \cup {Nobody}, critical : BOOLEAN, read : BOOLEAN, mailed : BOOLEAN]
NoNote == [to |-> Nobody, critical |-> FALSE, read |-> FALSE, mailed |-> FALSE]
Written(r) == note[r].to # Nobody

\* A mail task holds the notification as it read it.
Mail == [pc : {"none", "queued", "send", "flag", "done"}, try : 0..MaxRetries, held : Note]
NoMail == [pc |-> "none", try |-> 0, held |-> NoNote]

At(r, pc) == request[r].pc = pc
Assigns(r) == request[r].wants.does = "assign"
In(d, pc) == mail[d].pc = pc
Goes(r, pc) ==
  request' = [request EXCEPT ![r] = [IF pc = "done" THEN NoRequest ELSE @ EXCEPT !.pc = pc]]
Fault == faults < MaxFaults /\ faults' = faults + 1
Ends(d) == mail' = [mail EXCEPT ![d] = [NoMail EXCEPT !.pc = "done"]]

(***************************************************************************)
(* The pieces a slip would most likely change, each after its slip.        *)
(***************************************************************************)

\* notify_task_assigned tells who has the work now, notify_task_completed who
\* made the task, by the row as it was read but for what was saved.
ToldOld(r) == IF Assigns(r) THEN request[r].seen.assignee ELSE Maker
Told(r) == IF Assigns(r) THEN request[r].wants.to ELSE Maker

\* Whether there is somebody to tell.
Tells(r) ==
  LET w == request[r].wants
      s == request[r].seen
  IN  \/ w.does = "assign" /\ w.to # Nobody
      \/ w.does = "status" /\ w.done /\ ~s.done /\ s.assignee # Maker

\* A message is worked on unless the mail has been sent.
Mails(n) == ~n.mailed

\* save(update_fields=['email_sent']).
FlaggedWhole(n, held) == [held EXCEPT !.mailed = TRUE]
Flagged(n, held) == [n EXCEPT !.mailed = TRUE]

\* A failed attempt is counted.
Retried(m) == [NoMail EXCEPT !.pc = "queued", !.try = m.try + 1]
MayRetryOnce(m) == m.try <= MaxRetries
MayRetry(m) == m.try < MaxRetries

TypeOK ==
  /\ row \in Row
  /\ request \in [Requests -> Request]
  /\ note \in [Requests -> Note]
  /\ mail \in [deliveries -> Mail]
  /\ sent \in [Requests -> Nat]
  /\ quiet \in BOOLEAN
  /\ untold \subseteq Users
  /\ doubted \subseteq Requests
  /\ faults \in 0..MaxFaults

\* create_task tells nobody.
Init ==
  /\ row \in [assignee : Users \cup {Nobody}, done : {FALSE}]
  /\ request = [r \in Requests |-> NoRequest]
  /\ note = [r \in Requests |-> NoNote]
  /\ mail = [d \in deliveries |-> NoMail]
  /\ sent = [r \in Requests |-> 0]
  /\ quiet = FALSE
  /\ untold = {row.assignee} \ {Nobody}
  /\ doubted = {} /\ faults = 0
-----------------------------------------------------------------------------
(* Requests *)

\* get_task_for_user; get_removal_blockers finds open tasks that somebody has.
Read(r) ==
  /\ At(r, "none")
  /\ \E w \in Wants :
       /\ w.does = "remove" => row.assignee # Nobody /\ ~row.done
       /\ request' = [request EXCEPT ![r] = [pc |-> "save", wants |-> w, seen |-> row]]
  /\ UNCHANGED <<row, note, mailing, quiet, untold, faults>>

\* assign_task and update_task_status save one column.
Saves(r) ==
  /\ At(r, "save")
  /\ Goes(r, IF Tells(r) THEN "tell" ELSE "done")
  /\ UNCHANGED <<note, mailing, quiet, faults>>

AssignTask(r) ==
  /\ Saves(r) /\ Assigns(r)
  /\ row' = [row EXCEPT !.assignee = request[r].wants.to]
  /\ untold' = untold

\* remove_member updates the column of the tasks it found, and tells nobody.
RemoveMember(r) ==
  /\ Saves(r) /\ request[r].wants.does = "remove"
  /\ row' = [row EXCEPT !.assignee = request[r].wants.to]
  /\ untold' = untold \cup {request[r].wants.to}

UpdateTaskStatus(r) ==
  /\ Saves(r) /\ request[r].wants.does = "status"
  /\ row' = [row EXCEPT !.done = request[r].wants.done]
  /\ untold' = untold

\* update_task saves them all.
UpdateTask(r) ==
  /\ Saves(r) /\ request[r].wants.does = "update"
  /\ row' = request[r].seen
  /\ untold' = untold

\* _create: the row and then, in _maybe_enqueue_email, the message.
Create(r) ==
  /\ At(r, "tell")
  /\ note' = [note EXCEPT ![r] = [NoNote EXCEPT
                !.to = Told(r), !.critical = Assigns(r)]]
  /\ Goes(r, "mail")
  /\ UNCHANGED <<row, mailing, quiet, untold, faults>>

\* Critical ones are always mailed.
Enqueue(r) ==
  /\ At(r, "mail")
  /\ mail' = IF note[r].critical \/ ~quiet
             THEN [mail EXCEPT ![<<r, First>>].pc = "queued"]
             ELSE mail
  /\ Goes(r, "done")
  /\ UNCHANGED <<row, note, sent, doubted, quiet, untold, faults>>

\* The broker is not there, or the process is lost: what was saved stays.
LoseRequest(r) ==
  /\ request[r].pc \in {"save", "tell", "mail"}
  /\ Fault
  /\ Goes(r, "done")
  /\ untold' = IF At(r, "tell") /\ Assigns(r) THEN untold \cup {Told(r)} ELSE untold
  /\ UNCHANGED <<row, note, mailing, quiet>>
-----------------------------------------------------------------------------
(* The recipient *)

\* mark_notification_read and mark_all_notifications_read write is_read alone.
MarkRead(r) ==
  /\ Written(r) /\ ~note[r].read
  /\ note' = [note EXCEPT ![r].read = TRUE]
  /\ UNCHANGED <<row, request, mailing, quiet, untold, faults>>

\* update_notification_preference; others here are told critical things only.
SetPreference ==
  /\ quiet' = ~quiet
  /\ UNCHANGED <<row, request, note, mailing, untold, faults>>
-----------------------------------------------------------------------------
(* send_notification_email_task *)

Take(d) ==
  LET n == note[d[1]]
  IN  /\ In(d, "queued")
      /\ IF Mails(n)
         THEN mail' = [mail EXCEPT ![d].pc = "send", ![d].held = n]
         ELSE Ends(d)
      /\ doubted' = IF \E c \in Copies : mail[<<d[1], c>>].pc \in {"send", "flag"}
                    THEN doubted \cup {d[1]} ELSE doubted
      /\ UNCHANGED <<row, request, note, sent, quiet, untold, faults>>

Send(d) ==
  /\ In(d, "send")
  /\ mail' = [mail EXCEPT ![d].pc = "flag"]
  /\ sent' = [sent EXCEPT ![d[1]] = @ + 1]
  /\ UNCHANGED <<row, request, note, quiet, untold, doubted, faults>>

\* An error, before the server has the mail or after it: the task tries again,
\* and gives up with the last attempt.
FailToSend(d) ==
  /\ In(d, "send")
  /\ IF MayRetry(mail[d]) THEN mail' = [mail EXCEPT ![d] = Retried(mail[d])] ELSE Ends(d)
  /\ \/ UNCHANGED <<sent, doubted, faults>>
     \/ /\ Fault
        /\ sent' = [sent EXCEPT ![d[1]] = @ + 1]
        /\ doubted' = doubted \cup {d[1]}
  /\ UNCHANGED <<row, request, note, quiet, untold>>

Flag(d) ==
  /\ In(d, "flag")
  /\ note' = [note EXCEPT ![d[1]] = Flagged(note[d[1]], mail[d].held)]
  /\ Ends(d)
  /\ UNCHANGED <<row, request, sent, quiet, untold, doubted, faults>>

\* The worker is lost with the task; the message was acknowledged before.
LoseTask(d) ==
  /\ mail[d].pc \in {"send", "flag"}
  /\ Fault
  /\ Ends(d)
  /\ doubted' = IF In(d, "flag") THEN doubted \cup {d[1]} ELSE doubted
  /\ UNCHANGED <<row, request, note, sent, quiet, untold>>

\* The broker delivers a message it holds once more.
Redeliver(d, c) ==
  /\ In(d, "queued") /\ In(<<d[1], c>>, "none")
  /\ Fault
  /\ mail' = [mail EXCEPT ![<<d[1], c>>] = mail[d]]
  /\ UNCHANGED <<row, request, note, sent, quiet, untold, doubted>>
-----------------------------------------------------------------------------
Serve(r) ==
  \/ AssignTask(r) \/ RemoveMember(r) \/ UpdateTaskStatus(r) \/ UpdateTask(r)
  \/ Create(r) \/ Enqueue(r)

Work(d) == Take(d) \/ Send(d) \/ FailToSend(d) \/ Flag(d)

Next ==
  \/ \E r \in Requests : Read(r) \/ Serve(r) \/ LoseRequest(r) \/ MarkRead(r)
  \/ \E d \in deliveries : Work(d) \/ LoseTask(d) \/ \E c \in Copies : Redeliver(d, c)
  \/ SetPreference

Spec == Init /\ [][Next]_vars
-----------------------------------------------------------------------------
(* Properties *)

\* Whoever has the task has been told so, or is about to be, but for who had it
\* from its creation, was handed it when a member was removed, or whose
\* notification was lost with its process.  An update that puts an earlier
\* assignee back tells nobody again.
AssigneeIsTold ==
  row.assignee # Nobody =>
    \/ row.assignee \in untold
    \/ \E r \in Requests : At(r, "tell") /\ Assigns(r) /\ Told(r) = row.assignee
    \/ \E r \in Requests : note[r].to = row.assignee /\ note[r].critical

\* email_sent is "the idempotency flag preventing a retried/duplicate task
\* delivery from sending the same email twice".  It does not: the flag is
\* written after the mail is sent.
NoEmailTwice == \A r \in Requests : sent[r] <= 1

\* In which cases it fails: a notification is mailed twice only if a delivery
\* of its message began while another was at work, or an attempt ended after
\* the server had the mail.
TwiceOnlyInDoubt == \A r \in Requests : sent[r] > 1 => r \in doubted

\* A notification that was read stays read, and one that was mailed stays
\* flagged, whatever the mail task and the recipient's requests read before.
MarksStay ==
  [][\A r \in Requests : /\ note[r].read => note'[r].read
                         /\ note[r].mailed => note'[r].mailed]_vars
=============================================================================
