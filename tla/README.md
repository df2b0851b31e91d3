# Workroom backend: a TLA+ verification project

Specifications of the Workroom backend (`src/crm_backend`): a Django Ninja API
(asynchronous handlers, three gunicorn processes), Celery workers on Redis and
a PostgreSQL database. The interesting behaviour is almost all of one kind:
a handler or a task reads a row, waits for something slow (a query, a mail
server, an AI service) and then writes, while others do the same without a
lock. The modules keep every such step apart and say what survives.

## Inventory

| Component | State | Operations | What is hard | What makes it correct |
|---|---|---|---|---|
| Invitations (`api/api.py`, `users/tasks.py`, `users/services.py`) | `PendingInvite`, `User`, `CompanyUserProfile`; tokens only as hashes | send an invite, first mail (Celery), retry sweep (beat, every 15 minutes, and a command), accept, sign up | two mailers that read, send and save without a lock; lost workers; mail errors; repeated delivery; deadlines | a link opens only the invite of its address; nobody joins late or twice; an unsent invite is served; a sent one has a link that works |
| AI project plan (`ai_agent/*`, `api/routers/ai.py`, `projects_and_tasks/services.py`) | `AIGeneration.status`, `saved_at`; `AIGeneratedTask` rows with comment and content; the backlog | request, generate, comment, regenerate, save | a long AI call between read and write; retries; redelivery; concurrent reviewers | a plan is never lost by a failed revision, saved once and as reviewed; comments are answered; jobs end |
| Task content regeneration, assistant, health summary (`ai_agent/tasks_*.py`) | job rows with a status; the task's description | request, run, retry | status is committed before the result; overwritten edits | a job that says it is complete has its result |
| Membership and leadership (`users/services.py`, `company/services.py`, `departments_and_teams/services.py`) | profiles (role, department, active), leaders of departments and teams, team members | change role, set or revoke a leader, activate, move, remove with reassignment of work | check then write under READ COMMITTED; stale rows; sequences of role and leadership changes | leaders are members, work belongs to members, only the owner touches company managers |
| Projects (`projects_and_tasks/services.py`) | project rows, owner, collaborators, image file | create, update, transfer, archive, image | full-row saves from stale objects; file against row | no update undoes another; a named file exists |
| Tasks | status, assignee, archived | create, update, assign, archive | eligibility checked before the write | an assignee may work on the project |
| Documents, task types | rows and files | upload, link, delete, defaults | file against row | a row's file exists |
| Notifications, activity | `Notification.email_sent`, log rows | notify, mail task | redelivery, retries | a mail is sent once, or not marked as sent |
| Rate limiter (`utils/rate_limit.py`) | a Redis counter with an expiry | INCR, EXPIRE | two commands, lost processes | at most `limit` calls a window; a window ends |
| Checkout, subscriptions | `Subscription`, Stripe customer | start checkout | external call between read and write | one customer per company |
| Default configuration | departments, task types, status of the setup step | apply, skip | repeated calls | applied once |
| Worker queues (`settings.py`) | queues `simple` and `heavy` | routing | slow jobs on the quick queue | quick jobs are not held up |
| Analytics, link fetching, authentication, plans, seeds, stubs | none, or a library's | reads | - | - |

Components interact through rows only: a handler inserts a row, sends the row's
id to the broker, a task reads the row by its id. The broker may deliver a
message again (`settings.py` says "a task can run twice"), and acknowledges it
when it is taken, so a lost worker loses the task. `PROJECT.json` lists the
hazards at their lines.

## Modules

| Module | Content |
|---|---|
| `Invitations` | the two handlers, the first mailer, the sweep, sign-up and the clock |
| `InvitationPromise` | what an invitee may rely on: offers that are taken or lapse once |
| `MCInvitations` | the bound of the run |
| `InvitationsProofs` | theorems about `Invitations`, machine-checked |
| `AIPlan` | the handlers and the two Celery tasks of a plan, from the request to the backlog |
| `PlanReview` | what reviewing a plan promises, without tasks and handlers |
| `MCAIPlan` | symmetry, for the runs |
| `AIPlanProofs` | theorems about `AIPlan`, machine-checked |
| `Membership` | members, roles, leaders, removal, and who holds a project or task |
| `MCMembership` | symmetry and the bound of the run |
| `MembershipProofs` | theorems about `Membership`, machine-checked |
| `Jobs` | a task description's revision, a question to the assistant, a health summary: limiter, handler, broker, task, link |
| `JobLife` | what such a job promises who asked for it |
| `MCJobs` | which kinds of job meet, for the runs |
| `JobsProofs` | theorems about `Jobs`, machine-checked |
| `Access` | who may list, open and change a project and a document in it: the rules, and overlapping requests that go by them on a roster that changes |
| `MCAccess` | symmetry and the bounds of the run |
| `AccessProofs` | theorems about `Access`, machine-checked |
| `Notices` | overlapping work on one task, its notifications and their mails |
| `MCNotices` | symmetry, for the runs |
| `NoticesProofs` | theorems about `Notices`, machine-checked |
| `ProjectRecord` | one project's row, cover file, feed entries and task counts |
| `MCProjectRecord` | symmetry, for the run |
| `ProjectRecordProofs` | theorems about `ProjectRecord`, machine-checked |

`Access` and the others split one system along what can go wrong in it. `Access`
is about rights: whether the rules agree with each other, and what a request may
still write after what it found and checked has changed. `Membership`, `Notices`
and `ProjectRecord` ask what overlapping requests do to the rows, whoever made
them. `AIPlan` and `Jobs` do the same for the two kinds of AI work.

### Invitations

`row` is the `PendingInvite` table, rows numbered in the order of their
creation; `users` and `members` are the accounts and profiles by address.
`checked` counts `send_invite` handlers between their checks and their insert,
`toQueue` those between the insert and `.delay()`, `tasks` the messages in the
broker. A worker is between read and mail ("send") or mail and mark ("mark"); a
sweep is between two rows ("each"), before its mail ("send") or before the save
that follows a mail that worked ("save") or raised ("keep"). `inbox` holds the
links the mail server took. A mail whose sending raised may have been taken.
Tokens are numbers drawn from a counter: `get_random_string(40)` does not
collide in practice, and `token_hash` is unique. Row `i` is past its deadline
iff `i <= pastDue`, since all rows get the same two days. An accepted row is
kept with the status "Deleted", so that a process that read it earlier still
holds its id and address. `failed` is a history variable: the rows whose token a
sweep replaced although its send raised.

Each query, mail and save is an action of its own. `accept_invite` is one
transaction with `select_for_update`, hence one action. An operation that is
refused changes nothing and is left out.

`Promise` maps the table to `InvitationPromise` by status and address.

### AIPlan

`status`, `saved`, `plan` (which rows exist) and `draft` (each row's comment and
content) are the tables `AIGeneration` and `AIGeneratedTask`; `batches` and
`backlog` say how often and with which content the rows became tasks. `queue` is
the broker: a message carries its number of retries. A handler is between two of
its awaits; a worker before it marks the row ("mark"), before it reads the
commented rows ("rows"), in the call of the AI service ("call"), or before the
last save ("finish", "fail"). A row's content is the number of times it was
rewritten (`revised`) and the number of the comment that content answers
(`basis`).

The answers of the AI service are the constant `Answers`: a plan, a transient
failure (network, 429, 5xx), a refusal or an answer that the validation rejects,
and an answer on which the task raises something it does not catch. A plan is any
non-empty set of temporary ids, so that a second delivery can propose the same
ids (the unique constraint refuses the batch) or others (they are added).
`persist_ai_generated_tasks` is the only transaction of several statements and
one action (`CommitSave`); it uses the generation read by the handler, as the
code does. `.delay()` ends in one of three ways: the broker has the message; the
call raises and it does not; or the call raises and it does, since only the
broker's reply was lost. After the last two the handler says so in the row in a
step of its own (`MarkUnqueued`, `GiveBack`), when a worker may have the message.

Two history variables name what overlapping work leaves behind: `late`, rows
commented while a worker was rewriting them, and `twice`, rows that a second task
added to a plan or rewrote for a comment already answered. Who may do what with a
plan, the assignment of its rows to people, titles, priorities, departments, error
messages and notifications are left out.

### Membership

`role`, `active` and `dept` are the columns of `CompanyUserProfile`; a role also
says why there is no profile: "Owner" (`register_company` makes none for the
owner), "unregistered" (no account yet) or "removed". `leader` and `members` are
`Department.leader`, `Team.leader` and `Team.members`; `holder` and `status` are
`Project.current_owner` or `Task.assigned_to` and whether the row is open, done or
archived. `Items` stands for projects and tasks alike, since the operations that
say who holds one are the same for both. One company.

Every operation reads, decides and writes, in a transaction at READ COMMITTED or
in none, and locks nothing it has read. It is therefore two actions: `Check...`,
up to the last early return, and the one that writes, with `request[r]` holding
what was read in between. Where the code updates what it finds at the time of
the write (`filter(leader_id=...).update`), so does the action;
where it writes a value it read before (`asave()` of a whole row, the ids of the
work to reassign), the action takes it from the request. A write to a profile
that is gone raises and rolls everything back (`RowExists`). The members of a
team are written after its row, outside of a transaction: a third action.

`set_department_leader` and `revoke_department_leader` read again between their
writes, and what they read decides which roles they write: whether the new leader
is a plain member (line 158), and whether the old one still leads something
(`still_leads`, line 119). They are three actions: the check, `StartHandOver`, which
has written the leader without committing and makes these two reads, and
`HandOver`, which writes the roles and commits. Until then nobody else sees the new
leader, and whoever wants to write the same department waits (`Locked`). Two
handovers of one leader's departments, of which each sees the other department
still led, are the write skew that READ COMMITTED allows. The writes of the other
transactions are one action, since they write by what they read before. A request
that is checked and writes between the first write of a removal and its commit
leaves what one leaves that is checked before the removal and writes after it: it
still found the member there, and what it wrote is not cleaned up. `Join` stands
for `accept_invite`, which `Invitations` models: the account must be new, so a
removed member never comes back.

Two history variables name what the code does not prevent: `overtaken`, who was
removed while another request was about to name them, and `bare`, the
departments whose leader was written without the role, or lost it and stayed: a
manager made a plain member, or a leader on either side of a handover that went by
what it had read before.

### Jobs

`row` stands for the three job models at once (`AITaskContentRegeneration`,
`AIAssistantQuery`, `AIProjectHealthSummary`): they share the statuses, and `kept`
is `previous_description` for a revision. A request goes through the limiter's two
Redis commands ("hit", "expire"; revisions have no limiter), the insert of the row
("create"), `.delay()` ("send") and, when that raises, `_mark_failed`
("unqueued"). A delivery of the message goes through its reads (`Take`), the
update to PROCESSING ("mark"), the link of a question ("fetch"), the AI call
("call") and, for a revision, the save of the task ("write"), which comes after
the save of the job. `hits` and `expiring` are the counters in Redis. `text` is
the number of the description's version; `Edit` writes a new one, or an old one
with the rest of a row read long before. `Polled` is what the router answers: the
status, and the task as it is now once the status is COMPLETED.

History variables: `written` (what a revision wrote, and over what), `crossed`
(revisions whose text others wrote after they had read it), `doubted` (jobs the
broker may deliver twice, or was thought not to have), `abandoned` (jobs that
lost their process, or whose task ended by an exception nothing catches) and
`endless` (counters a fault left without a time to live).

`Life` maps the rows to `JobLife`; a "hand" is on a job from the check of its
status to the last write of its row.

### Access

The operators `MayView`, `MayManage`, `Listed` and `Found` are the predicates and
query filters of `projects_and_tasks/services.py` and `company/services.py`, one
operator for one function, over one company, one project and one document in it.
`AtHome` is `get_member_company`. The code states a rule twice: as a predicate,
and as a `Q` filter for the list; a third says who may change what.

A request is taken apart at its awaits. It finds the row (`Find`,
`FindDocument`), checks its rights by that row (`Check`), looks up the users it
names (`ResolveProject`, `ResolveOwner`, `ResolveHeir`) and writes.
`update_project` writes the whole row it found (`SaveProject`) and sets the
collaborators in a write after that (`ReplaceCollaborators`); `Transfer` and
`ArchiveProject` write a column. A removal reads whether the member's project is
open (`AskRemoval`), looks up the heir and commits (`RemoveMember`): the heir gets
the project that was counted, whatever has become of it. `request[r].row` holds
the row as found, with the update's changes. Changes of the roster are one action
each (`ChangeMember`, `FoundCompany`), since `Membership` has them in detail;
`moves` bounds them.

### Notices

`row` is the task's assignee and whether it is done; `request` holds what a
handler wants and the row it read. `assign_task` and `update_task_status` save
one column, `update_task` the whole row; `remove_member` hands the task to the
reassignee and tells nobody. A request tells at most one person, so its
notification has its name. A mail task holds the notification as it read
it; a mail whose sending raised may have reached the server (`FailToSend`). The
recipient may read the notification and change the preference meanwhile.
`untold` are who was given the task silently, by its creation or a removal, or
whose notification was lost with the process, `doubted`
the notifications whose message two deliveries worked on, or whose server had the
mail before an attempt ended in an error.

### ProjectRecord

`row` has the columns that overlapping requests write: the owner, the image, the
link and whether it is done. `files` is the storage: an upload picks a name free
at the time, a replaced file is deleted before the row is saved. `feed` has the
activity entries about the project. `update_project` saves the whole row it
read; the others some columns. `Inherit` is the effect of `remove_member` on the
project. `MoveTask` archives a task for good, but `UpdateTask`, a whole-row save of
a row read before, brings it back. `report` is the pair of counts that `project_data` and
`get_project_stats` make in two queries. `torn` and `missing` are history
variables: a cover changed by a request that had read another, or lost on the way;
feed entries lost with a process or never due.

## Runs

Deadlock is not checked: every behaviour is cut by a bound or ends with
everybody idle.

| Run | Asks | Result |
|---|---|---|
| `invitations` | 2 addresses, a worker; 2 invites under one sweep without faults, or 1 under 2 sweeps and 2 faults: links, dead links, the promise, and that unsent invites are served | holds |
| `membership` | 2 members, 2 requests at once: 3 about a department and a team, or 4 about a project or task: leaders have a profile and a role, managers answer to the owner, a role ends with the last leadership, and how open work can be left with a removed member | holds |
| `plan` | 2 reviewers, 2 workers, 1 loss, 1 redelivery, every answer but a transient one: `PlanReview` is implemented, what is saved is what was reviewed, and how far races can go | holds |
| `plan_ends` | 2 reviewers, 3 retries, nothing lost: a generation under way ends | holds |
| `jobs` | 2 jobs (two revisions, two questions, or a summary and a revision), 2 deliveries, 1 retry, 1 edit, 1 fault, a limit of 1: a job's life, contradictory rows, undoing, counters, that jobs end and that a completed revision is written | holds |
| `access` | the owner and a member, 1 department, 1 collaborator, 3 overlapping requests or changes of the roster: lists, doors and keys agree; an archived project is changed by older requests only | holds |
| `notices` | 2 requests, 2 users, 2 deliveries, 1 retry, 1 fault: assignees are told, marks stay | holds |
| `record` | 2 requests, 2 users, 2 files, 2 tasks, 1 fault: the cover exists, the feed keeps up, the counts agree | holds |
| `plan_broken_answer` | a generation ends whatever the AI answers | violated |
| `plan_saved_twice` | a repeated save creates no second batch of tasks | violated |
| `poll_shows_old_text` | the task that comes with a completed revision has its text | violated |
| `mailed_twice` | no notification is mailed twice | violated |

Bounds. Two invites are enough for two links to meet, since every property
relates at most two rows, and for a row to wait behind one whose save aborts the
sweep; two mailers and one failed send are the least that can leave a dead link.
Two faults let a fault hit the recovery from a fault. `Bound` keeps the two apart:
with two invites there is one sweep and no fault. Since the addresses are
alike, one of them is asked first (`Ada`), and only who was asked signs up.

For plans, two workers and one redelivery put two deliveries of one message at work
together; two reviewers put any two handlers between each other's awaits, a save
around a whole regeneration among them; two rows are needed to tell the rows under
regeneration from the others. One generation is enough, since generations share
nothing but the broker. `MaxQueued` stops a handler from sending a message while
the broker still holds an equal one; two equal messages are still processed at the
same time, since a taken message is no longer in the broker. `plan` has
`MaxRetries = 0`: a retry is a second message, as a redelivery is, and retries are
`plan_ends`' subject. The proofs hold for any number.

For members, a department and a team are needed to tell what only departments
authorize; two requests at once put any write between another's check and its
write, and the further ones prepare the situation (`MaxRequests`). What a third
request in flight could add is left to the proofs, which hold for any number. So is
a role kept because `still_leads` read a leadership that another transaction was
ending: this takes two leaderships of one member and two requests that end them,
four in all, and the run has three about units.
`MemberLists` are the lists sent for a team, each with one member. Everybody joins
before anybody asks for something (`JoinedFirst`): a new member leads nothing and
holds nothing. `Apart` keeps work and units in different behaviours, and so work
and changes of a role, leaders and changes of a department, since no property
relates them.

For jobs, every property relates at most two jobs: two revisions share the
description, two questions the window, and `Asks` lists the pairs that share
something. Two deliveries are a message and its repetition; one edit is enough to
cross a revision; `Limit = 1` makes the second request the one too many. For
`access`, one member next to the owner meets every rule, since a rule
reads the profile of one user; one department can be the user's or not; three
requests are the creation of the project and two that overlap, and a change of the
roster can take the place of one (`Short`). Collaborators are set by updates
only (`Sparing`), since creation sets them the same way. For notices, two requests put any
two between each other's read and save, and one fault is a lost process, a
redelivery or a lost reply. For a project's
record, two requests let one delete and store while the other saves an old row; two
files are the old and the new cover, which may take the freed name; of two tasks
one may be counted while the other moves. What more requests and faults could add
to any of these is left to the proofs.

Fairness. Membership, Access, Notices and ProjectRecord claim nothing that must
happen. Jobs: weak fairness of each request's step between two awaits and of each
delivery's task; that somebody asks, edits, or fails is never owed. Invitations:
weak fairness of the steps of the sweep that beat starts every fifteen minutes;
nothing is assumed of handlers, invitees, the other sweep or the first task.
Plans: weak fairness of each worker, which takes messages and goes on with its
task, and of each handler that is in the middle of its work. Requests, comments and saves are never owed.

### What the runs say about the code

Four runs hold the code to what the repository says of it, and TLC finds that it
does otherwise:

* `plan_broken_answer` checks `GenerationEnds` with an answer of the AI service
  that the task raises on: a plan with one temporary id twice, or a body that is not
  JSON, gets past the `except` clauses of `process_ai_generation`
  (`ai_agent/tasks.py:114`); the generation stays PROCESSING and refuses to be
  saved or regenerated, although "a permanently invalid or rejected plan fails the
  generation outright" (`ai_agent/tasks.py:10-11`).
* `plan_saved_twice` checks `OneBatch`: "a repeated call must not create a second
  batch of tasks" (`projects_and_tasks/services.py:523-525`). `saved_at` is tested
  on an object read before the transaction (line 529), so two overlapping saves both
  create the tasks.
* `poll_shows_old_text` checks `PollPatchesTheTask`: a poll includes the task once
  the revision is COMPLETED "so the frontend can patch its task state straight from
  this poll response" (`api/routers/ai.py:278-279`). The job is saved before the
  task (`ai_agent/tasks_regenerate.py:267`), so a poll in between has the old text.
  `CompletedIsWritten` says what does hold.
* `mailed_twice` checks `NoEmailTwice`: `email_sent` is "the idempotency flag
  preventing a retried/duplicate task delivery from sending the same email twice"
  (`notifications_and_activity/models.py:69-71`). It is read before the mail and
  saved after it. `TwiceOnlyInDoubt`, proved, says which two cases there are.

The other properties hold, and name what they cannot exclude as an exception of
its own, in a history variable or a disjunct. These exceptions are reached, and
each is a line of the code:

* an invite marked as sent whose link is dead: the sweep stores the hash of a
  token whose mail failed (`users/services.py:53`), and the first task, still
  sending the old token, marks the invite afterwards
  (`DeadLinkNeedsFailedRetry`, proved to be the only way);
* a company manager made a department leader without the owner:
  `set_department_leader` promotes whom it read as a plain member before the owner
  made them a manager (`users/services.py:158`; `ManagersAnswerToOwner`, proved);
  `update_member_role` and `remove_member` go by an older role in the same way;
* open work of a removed member: `remove_member` accepts the departing member
  as the heir (`users/services.py:387`), counts before it writes (381, 391), and an
  assignment checked before the removal is written after it (`WorkStaysInside`,
  proved, lists the ways);
* a comment resolved without an answer: it was written during the AI call and
  resolved by the answer to the one before (`ai_agent/tasks_regenerate.py:199`;
  `UnansweredCameLate`, proved to be the only way);
* a saved plan that is not the one the reviewers see: it was saved with a comment
  that a regeneration answered later, or two tasks worked on its rows for one
  request (`SavedAsReviewed`, proved);
* a revision whose text cannot be undone: what is kept is the text read before the
  AI call (`RevisionCanBeUndone`, proved);
* a counter that never expires, when the process or Redis fails between `INCR`
  and `EXPIRE` (`EndlessNeedsFailure`, proved);
* a project its current owner may change but not open, and one that opens but is
  in no list: the predicates disagree there (`DoorsAgree`, proved). One of these is
  at odds with `company/services.py:45-48`, by which a deactivated member is shut
  out of everything of the company: `user_can_view_project` and
  `user_can_manage_project` look for the creator before they look for a role, so
  a deactivated or removed member still opens and changes, by its id, the project
  they made, whatever its visibility;
* an archived project that is written, or brought back with its old columns, by an
  update, transfer or upload that found it before, or handed over by a removal that
  counted it before (`projects_and_tasks/services.py:216`;
  `OnlyOldRequestsChange`, proved to be the only ways, next to deleting a document);
* an assignee nobody told: `remove_member` hands tasks over without a notification
  (`users/services.py:393-396`), and `update_task`'s whole-row save puts an earlier
  one back (`AssigneeIsTold`, proved, is about having been told once);
* a cover whose file is gone, after a request changed it on an older row
  (`CoverIsThere`, proved);
* an archived task back in the counts, by `update_task`'s whole-row save
  (`projects_and_tasks/services.py:382`; `CompletedWithinTotal`, proved).

## Proofs

`InvitationsProofs` proves for any number of addresses, invites, workers,
sweeps and faults, from `InviteConstants` alone:

* `TypeCorrect`: the type invariant;
* `InviteInvariant`: the inductive invariant `InviteInv`;
* `LinksMatch` and `DeadLinks`: the two safety properties of the runs;
* `PromiseKept`: `Invitations` implements `InvitationPromise`.

Neither safety property is inductive. `LinkMatchesAddress` speaks of the hash in
the table, but a sweep carries a token that is in the table only later, and the
first task mails a token that may no longer be there. `TokensAreOwned` therefore
speaks of all tokens of an invite (`Tokens`): the first, the stored and those
under way, which are below the generator's counter, disjoint between invites, and
in mails to the invite's address only. `DeadLinkNeedsFailedRetry` needs
`TokensAreAccounted`: a token leaves the state it was created in only by a mail
that carries it, and a process about to save has mailed what it will save.
`OnlyMadeRows` and `StatusOfMadeRows` say that everybody works on rows that
exist. Each part has one lemma for the initial states and one for the steps with
a step of the proof per action; frame lemmas (`OwnedFrame`, `AccountedFrame`,
`Invisible`) carry the actions that touch none of the part's variables.

`MembershipProofs` proves for any number of users, departments, teams, projects,
tasks and requests, from `MembershipConstants` alone, the type invariant
(`TypeCorrect`) and all properties of the run: `RosterSafe`,
`AuthoritySafe`, `ManagersSafe`, `OfficeSafe` and `WorkSafe`. None of them is
inductive, since a request writes what it decided in an earlier state:

* `Roster` adds to `RosterBelongs` that whoever a request in flight is about to
  name belongs as well, from its check to its write; `Remove` breaks this and
  records the member in `overtaken`. With it, a removed member who is given work
  was overtaken, which is the argument of `WorkSafe`.
* `Decided` says that a request still has the permission it was checked for: a
  change of a manager's role was asked by the owner, and changes the role that
  was read.
* `Gone` says that who was overtaken has been removed, so that nobody who joins
  leads a department already.

`ChecksOnlyRead` disposes of all checks, `RemovedByRemove` and `ManagerSteps` say
which writes can make a removed member or touch a manager, `HandOverRole` says what
a handover does to the role of one member, and each invariant has one lemma for a
group of writes.

`AIPlanProofs` proves for any number of generations, rows, retries, losses and
redeliveries, any number of handlers and finitely many workers (`PlanConstants`),
every invariant of the `plan` run and the refinement. The types are not inductive
as `TypeOK` has them, since a worker's record must fit its place: `TypeInv` adds the
exact form of the records (`Shapes`) and that the rows a worker has read are rows
of its plan (`TasksFit`). No theorem assumes anything about what happens at the
same time:

* `CompleteMeansPlanned` (`CompletedHasPlan`), by `PlansExist`: messages, tasks and
  requests that may make a generation complete again are about one that has a plan;
* `CommentsAreAnswered` (`UnansweredCameLate`), by `ReadsAreLast`: what a rewriting
  under way answers is the last comment, or the comment is late;
* `RewritingsAreBounded` (`RewritingsArePaid`), by `Paid`: each comment pays for one
  rewriting by each worker, and once it is resolved only those who have read it are
  still owed one;
* `ReviewedIsSaved` (`SavedAsReviewed`), by `CopiesAreFaithful`: not only what was
  saved, but also what a request has read to save has every row as the reviewers
  see it, but for the two exceptions. A row that is rewritten afterwards had a
  newer comment than the copy answers, or is one of `twice`;
* `ReviewIsKept` (`KeepsReview`), a step simulation: each action is a step of
  `PlanReview` or none. A hand may fail a generation only if it was to propose
  its plan, also a request whose message was not sent. So a request that may still
  have to say so must have the generation to itself: `AskedOnce` says that a
  generation is nobody's before its row exists, and its request's alone until its
  message is sent. With `PlansExist`, who revises has a plan to give back.

`JobsProofs` proves for any number of jobs, deliveries, retries, edits and
faults, from `JobConstants` alone, all invariants of the `jobs` run and the
refinement:

* `TypeCorrect`; only questions and summaries are ever at the limiter
  (`LimitedKinds`), which the types of `hits` need;
* `OneDeliveryNeverMixes` (`MixedNeedsTwoDeliveries`) from `JobInv`, which says of
  a job that is not in doubt where it is: nothing exists before its row
  (`BeforeTheRow`), no delivery before its message (`BeforeTheMessage`), the row
  as the request's and the task's places require after that (`AfterTheRow`), and
  one delivery at most (`Alone`). `LifeIsKept` (`KeepsLife`) is the simulation of
  `JobLife` by the same invariant: a lemma for each group of actions says which step
  of `JobLife` each is, or that it is none;
* `CountersExpire` (`EndlessNeedsFailure`), inductive with the types;
* `CompletedIsOneWriteAway` and `RevisionsUndo` (`RevisionCanBeUndone`) from
  `RevisionInv`: a revision works alone unless in doubt, writes the text last, keeps
  in the row what its task read, and what it read is the text unless it was crossed.
  A completed revision without its text has that write as the next step of a task,
  or its task was lost (`TextFollows`): the safety part of `CompletedIsWritten`.

`AccessProofs` proves for any number of users, departments and overlapping
requests, from `AccessConstants` alone, `TypeCorrect`, `ListAndDoor`
(`DoorsAgree`) and `ArchivedIsClosed` (`OnlyOldRequestsChange`). `DoorsAgree`
follows from the types: it is about the rules, not about histories. The third is
not: a request writes in the end what it found in an earlier state. Its invariant
`FoundLive` says that a request that found the project through
`get_project_for_user` holds a row that was not archived, and keeps holding it
through its checks; `WritersAreOld` concludes that whoever writes while the project
is archived is one of these or one of the two other kinds.

`NoticesProofs` and `ProjectRecordProofs` prove all properties of their runs for
any number of requests, users, deliveries, files, tasks and faults, the second for
finitely many requests at once. In both, a request saves what it read in an earlier
state, so the invariants speak of what requests have read as well:

* `AllAware` and `FeedInv`: not only the row, but also every row a request is about
  to save back, names somebody who was told, or an owner the feed shows
  (`AssigneesAreTold`, `FeedIsKept`);
* `Once`: a request writes its notification once, before any message about it
  (`MarksAreKept`); `AllSentOnce`: of a notification that is not in doubt one
  delivery is at work at a time, and finds it unsent (`MailedOnce`, which proves
  `TwiceOnlyInDoubt`);
* `CoverInv`: requests that have read one row may delete, store and delete the same
  name in turn, so no single request answers for a missing file. The invariant
  counts: for each name, those who hold it, and the row if it names it, are no more
  than those who deleted it, and one more if it is stored (`CoverIsKept`);
* `CountInv`: between the two counts, the tasks there are were counted, or were
  created or brought back since (`CountsAgree`).

Only model-checked: the four liveness properties `UnsentIsServed`,
`GenerationEnds`, `JobEnds` and `CompletedIsWritten`, since liveness under fairness
is out of the prover's reach. Every invariant, action property and refinement of
the passing runs is proved.

## Not modelled

* Who may open and change a task, who may be assigned one (`Membership` has the
  membership check), who may review a plan, and the assignment of a plan's rows.
* Checkout: one call of an external service and one row written after it; what
  can go wrong is the service's part, which is not in the repository.
* Worker queues: `settings.py` routes tasks by name; this affects when a task
  runs, and no property here depends on that.
* Task types, default departments' contents, titles, document files' contents:
  data without control.
* Analytics other than the counts of `ProjectRecord`: reads that nothing waits on.
* Which addresses a link's host resolves to (`utils/safe_fetch.py`): `Jobs` has the
  outcome, and the chain of redirects, but not the network.
* Authentication is a library's; seeds and catalogue commands are scripts run by
  hand; event management, messaging and connected apps are empty.
