---------------------------- MODULE Invitations ----------------------------
(***************************************************************************)
(* Inviting a person to the company by e-mail: the HTTP handlers           *)
(* send_invite and accept_invite, the Celery task that mails a fresh       *)
(* invite, and the sweep that mails again what was not sent.               *)
(*                                                                         *)
(* The handlers, the workers and the sweeps share the PendingInvite table  *)
(* and take no lock on it, except accept_invite.  A row is read, the mail  *)
(* server is called, and only then is the row written: the three are       *)
(* separate actions here.  One company; e-mail addresses are compared      *)
(* without regard to case in the code and are atoms here.  A handler that  *)
(* is refused for want of a permission changes nothing and is left out.    *)
(***************************************************************************)
EXTENDS Naturals, FiniteSets

CONSTANTS
  Emails,       \* addresses that can be invited
  NoEmail,      \* the address of a row that does not exist yet
  Workers,      \* slots of the Celery worker that run send_invite_email_task
  Sweeps,       \* runs of the sweep that can overlap: beat's and an operator's
  Beat,         \* the runs that Celery beat starts, one after the other
  MaxInvites,   \* bound: invites created in a behaviour
  MaxHandlers,  \* bound: send_invite handlers in flight for one address
  MaxFaults     \* bound: mail errors, lost processes and repeated deliveries

ASSUME InviteConstants ==
  /\ NoEmail \notin Emails
  /\ Beat \in Sweeps
  /\ MaxInvites \in Nat
  /\ MaxHandlers \in Nat
  /\ MaxFaults \in Nat

VARIABLES
  row,       \* the PendingInvite table
  made,      \* rows 1..made have been created, in this order
  pastDue,   \* rows 1..pastDue have reached expires_at
  users,     \* addresses that have a User
  members,   \* addresses that have a CompanyUserProfile in the company
  checked,   \* send_invite handlers that found no obstacle, by address
  toQueue,   \* rows whose handler has not yet called .delay()
  tasks,     \* rows with a send_invite_email_task in the broker
  worker,    \* what each worker slot is doing
  sweep,     \* what each sweep is doing
  inbox,     \* the links the mail server has taken: [to, tok]
  nextTok,   \* the next token that generate_token() returns
  failed,    \* history: rows whose token a sweep replaced after a failed send
  faults     \* faults so far

vars == <<row, made, pastDue, users, members, checked, toQueue, tasks, worker,
          sweep, inbox, nextTok, failed, faults>>
people == <<users, members>>
queue  == <<toQueue, tasks>>

Ids == 1..MaxInvites

(***************************************************************************)
(* A token and its hash are one number: the code stores only the hash and  *)
(* mails only the token.  "first" is the token send_invite generated; it   *)
(* is not in the table, but travels as the task's raw_token argument.      *)
(* "Deleted" is the row that accept_invite removed: a process that read it *)
(* before can still hold its id and address.                               *)
(***************************************************************************)
Row == [status : {"None", "Pending", "Expired", "Deleted"},
        email  : Emails \cup {NoEmail},
        first  : Nat,
        hash   : Nat,
        sent   : BOOLEAN]

Pending(i) == row[i].status = "Pending"

\* What both mailers look for: pending rows with email_sent = False.
Unsent == {i \in 1..made : Pending(i) /\ ~row[i].sent}

Mail(i, t) == [to |-> row[i].email, tok |-> t]

\* The invite's current link has reached its address.
LinkMailed(i) == Mail(i, row[i].hash) \in inbox

(***************************************************************************)
(* The pieces of the actions that a slip would most likely change.  Each   *)
(* follows the slips the properties have to notice; no action uses those.  *)
(***************************************************************************)

\* The generator never returns a token twice: the counter moves on.
TokenReused == nextTok
TokenDrawn == nextTok + 1

\* The accounts after the holder of invite i joins: create_user comes first.
AccountForgotten(i) == users
AccountAdded(i) == users \cup {row[i].email}

\* accept_invite's last two checks.
MayJoin(i) == i > pastDue /\ row[i].email \notin users

\* save(update_fields=['status']) of a row found past its expires_at.
LapsedUnsaved(i) == row
Lapsed(i) == [row EXCEPT ![i].status = "Expired"]

\* save(update_fields=['token_hash', 'email_sent']), or of the hash alone.
RenewedWhole(i, t, ok) ==
  [row EXCEPT ![i].status = "Pending", ![i].hash = t, ![i].sent = ok]
RenewedFlagOnly(i, t, ok) == [row EXCEPT ![i].sent = @ \/ ok]
Renewed(i, t, ok) == [row EXCEPT ![i].hash = t, ![i].sent = @ \/ ok]

IdleWorker == [pc |-> "idle", inv |-> 0]
IdleSweep  == [pc |-> "idle", todo |-> {}, inv |-> 0, tok |-> 0]

Fault == faults < MaxFaults /\ faults' = faults + 1
NoFault == faults' = faults

TypeOK ==
  /\ row \in [Ids -> Row]
  /\ made \in 0..MaxInvites
  /\ pastDue \in 0..made
  /\ users \in SUBSET Emails
  /\ members \in SUBSET users
  /\ checked \in [Emails -> 0..MaxHandlers]
  /\ toQueue \in SUBSET Ids
  /\ tasks \in SUBSET Ids
  /\ worker \in [Workers -> [pc : {"idle", "send", "mark"}, inv : Ids \cup {0}]]
  /\ sweep \in [Sweeps -> [pc   : {"idle", "each", "send", "save", "keep"},
                           todo : SUBSET Ids,
                           inv  : Ids \cup {0},
                           tok  : Nat]]
  /\ inbox \in SUBSET [to : Emails, tok : Nat]
  /\ nextTok \in Nat \ {0}
  /\ failed \in SUBSET Ids
  /\ faults \in 0..MaxFaults

Init ==
  /\ row = [i \in Ids |-> [status |-> "None", email |-> NoEmail,
                           first |-> 0, hash |-> 0, sent |-> FALSE]]
  /\ made = 0
  /\ pastDue = 0
  /\ users \in SUBSET Emails
  /\ members = {}
  /\ checked = [e \in Emails |-> 0]
  /\ toQueue = {}
  /\ tasks = {}
  /\ worker = [w \in Workers |-> IdleWorker]
  /\ sweep = [s \in Sweeps |-> IdleSweep]
  /\ inbox = {}
  /\ nextTok = 1
  /\ failed = {}
  /\ faults = 0
-----------------------------------------------------------------------------
(***************************************************************************)
(* POST /auth/send_invite/: the checks, the insert and the call of .delay  *)
(* are separate awaits.  The audit entry written at the end and the        *)
(* answer's wording are left out.                                          *)
(***************************************************************************)

\* The code looks only at the newest pending row of the address; rows expire
\* in the order they were created, so that row is past due iff all are.
CheckInvite(e) ==
  /\ checked[e] < MaxHandlers
  /\ e \notin members
  /\ \A i \in 1..made : (Pending(i) /\ row[i].email = e) => i <= pastDue
  /\ checked' = [checked EXCEPT ![e] = @ + 1]
  /\ UNCHANGED <<row, made, pastDue, people, queue, worker, sweep, inbox,
                 nextTok, failed, faults>>

CreateInvite(e) ==
  /\ checked[e] > 0
  /\ made < MaxInvites
  /\ made' = made + 1
  /\ row' = [row EXCEPT ![made + 1] =
               [status |-> "Pending", email |-> e, first |-> nextTok,
                hash |-> nextTok, sent |-> FALSE]]
  /\ nextTok' = TokenDrawn
  /\ checked' = [checked EXCEPT ![e] = @ - 1]
  /\ toQueue' = toQueue \cup {made + 1}
  /\ UNCHANGED <<pastDue, people, tasks, worker, sweep, inbox, failed, faults>>

\* The broker takes the task, or .delay() raises (or the process dies): the
\* row then stays behind without a task.
QueueEmail(i) ==
  /\ i \in toQueue
  /\ toQueue' = toQueue \ {i}
  /\ \/ tasks' = tasks \cup {i} /\ NoFault
     \/ tasks' = tasks /\ Fault
  /\ UNCHANGED <<row, made, pastDue, people, checked, worker, sweep, inbox,
                 nextTok, failed>>
-----------------------------------------------------------------------------
(***************************************************************************)
(* send_invite_email_task: read, send, mark.  The broker may deliver a     *)
(* task again.  A send that raises ends the task, and so does the loss of  *)
(* the worker; a message whose sending raised may still have been taken.   *)
(***************************************************************************)
StartTask(w, i) ==
  /\ worker[w].pc = "idle"
  /\ i \in tasks
  /\ \/ tasks' = tasks \ {i} /\ NoFault
     \/ tasks' = tasks /\ Fault
  /\ worker' = [worker EXCEPT ![w] = IF i \in Unsent
                                       THEN [pc |-> "send", inv |-> i]
                                       ELSE IdleWorker]
  /\ UNCHANGED <<row, made, pastDue, people, checked, toQueue, sweep, inbox,
                 nextTok, failed>>

TaskSend(w) ==
  /\ worker[w].pc = "send"
  /\ \/ /\ inbox' = inbox \cup {Mail(worker[w].inv, row[worker[w].inv].first)}
        /\ worker' = [worker EXCEPT ![w].pc = "mark"]
        /\ NoFault
     \/ /\ inbox' \in {inbox,
                       inbox \cup {Mail(worker[w].inv, row[worker[w].inv].first)}}
        /\ worker' = [worker EXCEPT ![w] = IdleWorker]
        /\ Fault
  /\ UNCHANGED <<row, made, pastDue, people, checked, queue, sweep, nextTok,
                 failed>>

\* save(update_fields=['email_sent']): writes that column and no other, and
\* raises when the row is gone.
TaskMark(w) ==
  /\ worker[w].pc = "mark"
  /\ row' = [row EXCEPT ![worker[w].inv].sent =
               @ \/ row[worker[w].inv].status # "Deleted"]
  /\ worker' = [worker EXCEPT ![w] = IdleWorker]
  /\ UNCHANGED <<made, pastDue, people, checked, queue, sweep, inbox, nextTok,
                 failed, faults>>

LoseWorker(w) ==
  /\ worker[w].pc # "idle"
  /\ worker' = [worker EXCEPT ![w] = IdleWorker]
  /\ Fault
  /\ UNCHANGED <<row, made, pastDue, people, checked, queue, sweep, inbox,
                 nextTok, failed>>
-----------------------------------------------------------------------------
(***************************************************************************)
(* retry_pending_invite_emails: one query, then row by row a new token, a  *)
(* send and a save.  A save of a row that is gone raises, and the sweep    *)
(* with it: the rows still to do wait for the next one.                    *)
(***************************************************************************)
StartSweep(s) ==
  /\ sweep[s].pc = "idle"
  /\ Unsent # {}
  /\ sweep' = [sweep EXCEPT ![s] = [IdleSweep EXCEPT !.pc = "each",
                                                     !.todo = Unsent]]
  /\ UNCHANGED <<row, made, pastDue, people, checked, queue, worker, inbox,
                 nextTok, failed, faults>>

SweepExpire(s, i) ==
  /\ sweep[s].pc = "each"
  /\ i \in sweep[s].todo
  /\ i <= pastDue
  /\ \/ /\ row[i].status # "Deleted"
        /\ row' = Lapsed(i)
        /\ sweep' = [sweep EXCEPT ![s].todo = @ \ {i}]
     \/ /\ row[i].status = "Deleted"
        /\ row' = row
        /\ sweep' = [sweep EXCEPT ![s] = IdleSweep]
  /\ UNCHANGED <<made, pastDue, people, checked, queue, worker, inbox,
                 nextTok, failed, faults>>

SweepRenew(s, i) ==
  /\ sweep[s].pc = "each"
  /\ i \in sweep[s].todo
  /\ i > pastDue
  /\ sweep' = [sweep EXCEPT ![s] = [pc |-> "send", todo |-> sweep[s].todo \ {i},
                                    inv |-> i, tok |-> nextTok]]
  /\ nextTok' = TokenDrawn
  /\ UNCHANGED <<row, made, pastDue, people, checked, queue, worker, inbox,
                 failed, faults>>

SweepSend(s) ==
  /\ sweep[s].pc = "send"
  /\ \/ /\ inbox' = inbox \cup {Mail(sweep[s].inv, sweep[s].tok)}
        /\ sweep' = [sweep EXCEPT ![s].pc = "save"]
        /\ NoFault
     \/ /\ inbox' \in {inbox, inbox \cup {Mail(sweep[s].inv, sweep[s].tok)}}
        /\ sweep' = [sweep EXCEPT ![s].pc = "keep"]
        /\ Fault
  /\ UNCHANGED <<row, made, pastDue, people, checked, queue, worker, nextTok,
                 failed>>

\* "save" follows a send that worked, "keep" one that raised: both store the
\* new hash, only the first sets email_sent.
SweepSave(s) ==
  LET i == sweep[s].inv IN
  /\ sweep[s].pc \in {"save", "keep"}
  /\ \/ /\ row[i].status # "Deleted"
        /\ row' = Renewed(i, sweep[s].tok, sweep[s].pc = "save")
        /\ failed' = IF sweep[s].pc = "keep" THEN failed \cup {i} ELSE failed
        /\ sweep' = [sweep EXCEPT ![s] = [pc |-> "each", todo |-> sweep[s].todo,
                                          inv |-> 0, tok |-> 0]]
     \/ /\ row[i].status = "Deleted"
        /\ sweep' = [sweep EXCEPT ![s] = IdleSweep]
        /\ UNCHANGED <<row, failed>>
  /\ UNCHANGED <<made, pastDue, people, checked, queue, worker, inbox, nextTok,
                 faults>>

SweepDone(s) ==
  /\ sweep[s].pc = "each"
  /\ sweep[s].todo = {}
  /\ sweep' = [sweep EXCEPT ![s] = IdleSweep]
  /\ UNCHANGED <<row, made, pastDue, people, checked, queue, worker, inbox,
                 nextTok, failed, faults>>

LoseSweep(s) ==
  /\ sweep[s].pc # "idle"
  /\ sweep' = [sweep EXCEPT ![s] = IdleSweep]
  /\ Fault
  /\ UNCHANGED <<row, made, pastDue, people, checked, queue, worker, inbox,
                 nextTok, failed>>
-----------------------------------------------------------------------------
(***************************************************************************)
(* POST /emp/accept_invite/ with a link m somebody was mailed.  One        *)
(* transaction that locks the row it finds by the token's hash.            *)
(***************************************************************************)
AcceptLate(m, i) ==
  /\ Pending(i) /\ row[i].hash = m.tok
  /\ i <= pastDue
  /\ row' = Lapsed(i)
  /\ UNCHANGED people

AcceptJoin(m, i) ==
  /\ Pending(i) /\ row[i].hash = m.tok
  /\ MayJoin(i)
  /\ row' = [row EXCEPT ![i].status = "Deleted"]
  /\ users' = AccountAdded(i)
  /\ members' = members \cup {row[i].email}

Accept(m) ==
  /\ \E i \in 1..made : AcceptLate(m, i) \/ AcceptJoin(m, i)
  /\ UNCHANGED <<made, pastDue, checked, queue, worker, sweep, inbox, nextTok,
                 failed, faults>>

\* The address registers an account of its own: POST /auth/signup/.
SignUp(e) ==
  /\ e \notin users
  /\ users' = users \cup {e}
  /\ UNCHANGED <<row, made, pastDue, members, checked, queue, worker, sweep,
                 inbox, nextTok, failed, faults>>

\* Two days after its creation a row is past its expires_at.
PassDeadline ==
  /\ pastDue < made
  /\ pastDue' = pastDue + 1
  /\ UNCHANGED <<row, made, people, checked, queue, worker, sweep, inbox,
                 nextTok, failed, faults>>

SweepStep(s) ==
  \/ StartSweep(s)
  \/ \E i \in Ids : SweepExpire(s, i) \/ SweepRenew(s, i)
  \/ SweepSend(s)
  \/ SweepSave(s)
  \/ SweepDone(s)

Next ==
  \/ \E e \in Emails : CheckInvite(e) \/ CreateInvite(e) \/ SignUp(e)
  \/ \E i \in Ids : QueueEmail(i)
  \/ \E w \in Workers : \/ \E i \in Ids : StartTask(w, i)
                        \/ TaskSend(w) \/ TaskMark(w) \/ LoseWorker(w)
  \/ \E s \in Sweeps : SweepStep(s) \/ LoseSweep(s)
  \/ \E m \in inbox : Accept(m)
  \/ PassDeadline

Spec == Init /\ [][Next]_vars

(***************************************************************************)
(* Beat starts a sweep every fifteen minutes and a worker runs it to its   *)
(* end; users, handlers, operators, deadlines and the first task owe       *)
(* nothing.                                                                *)
(***************************************************************************)
LiveSpec == Spec /\ WF_vars(SweepStep(Beat))

Promise == INSTANCE InvitationPromise
             WITH offer   <- [i \in Ids |-> row[i].status],
                  invitee <- [i \in Ids |-> row[i].email]
-----------------------------------------------------------------------------
(* Properties *)

\* Mail, tasks, sweeps, their faults and their stale reads are invisible in
\* what the invitee is promised: a lapsed or taken invite never comes back,
\* nobody joins after the deadline, and an address joins at most once.
KeepsPromise == Promise!Spec

\* A link opens only the invite of the address it was mailed to, whatever
\* order the two mailers read, sent and saved in.
LinkMatchesAddress ==
  \A m \in inbox, i \in 1..made : row[i].hash = m.tok => row[i].email = m.to

\* An invite marked email_sent (and so never mailed again) whose current link
\* reached nobody has had its token replaced by a sweep whose own send failed:
\* lost processes, repeated deliveries and overlapping successful sends alone
\* never leave a dead link behind.
DeadLinkNeedsFailedRetry ==
  \A i \in 1..made :
    (Pending(i) /\ row[i].sent /\ ~LinkMailed(i)) => i \in failed

\* An invite with no mail sent does not stay so: it is mailed, found expired
\* or accepted, even when sweeps abort, overlap or are lost.
UnsentIsServed ==
  \A i \in Ids : (i \in Unsent) ~> (i \notin Unsent)
-----------------------------------------------------------------------------
(***************************************************************************)
(* The inductive invariant behind LinkMatchesAddress and                   *)
(* DeadLinkNeedsFailedRetry.                                               *)
(***************************************************************************)
Made == 1..made

SendingSweep(s) == sweep[s].pc \in {"send", "save", "keep"}

\* Only rows that exist have an address, and only they are worked on.
OnlyMadeRows ==
  /\ \A i \in Ids : i \in Made <=> row[i].email \in Emails
  /\ toQueue \cup tasks \cup failed \subseteq Made
  /\ \A w \in Workers : worker[w].pc # "idle" => worker[w].inv \in Made
  /\ \A s \in Sweeps : /\ sweep[s].todo \subseteq Made
                       /\ SendingSweep(s) => sweep[s].inv \in Made

\* Rows come into being once, and accepting one only marks it as deleted.
StatusOfMadeRows == \A i \in Ids : i \in Made <=> row[i].status # "None"

\* The tokens that are, were or may become an invite's token.
Tokens(i) ==
  {row[i].first, row[i].hash}
    \cup {sweep[s].tok : s \in {r \in Sweeps : SendingSweep(r) /\ sweep[r].inv = i}}

\* They are the invite's alone, and every mail that carries one went to the
\* invite's address.
TokensAreOwned ==
  /\ \A i \in Made : \A t \in Tokens(i) : t < nextTok
  /\ \A m \in inbox : m.tok < nextTok
  /\ \A i, j \in Made : i # j => Tokens(i) \cap Tokens(j) = {}
  /\ \A m \in inbox, i \in Made : m.tok \in Tokens(i) => m.to = row[i].email

\* A token leaves the state it was created in only by a mail or a failed one.
TokensAreAccounted ==
  /\ \A i \in Made : \/ row[i].hash = row[i].first /\ ~row[i].sent
                     \/ LinkMailed(i)
                     \/ i \in failed
  /\ \A w \in Workers : worker[w].pc = "mark" =>
       Mail(worker[w].inv, row[worker[w].inv].first) \in inbox
  /\ \A s \in Sweeps : sweep[s].pc = "save" =>
       Mail(sweep[s].inv, sweep[s].tok) \in inbox

InviteInv ==
  /\ TypeOK
  /\ OnlyMadeRows
  /\ StatusOfMadeRows
  /\ TokensAreOwned
  /\ TokensAreAccounted
=============================================================================
