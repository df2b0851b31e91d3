-------------------------------- MODULE Jobs --------------------------------
(***************************************************************************)
(* The AI jobs that are one call each: the revision of a saved task's      *)
(* description, a question to the assistant, and a health summary of a     *)
(* project.  Each request passes the rate limiter (except revisions),      *)
(* writes a job row and sends a message; a Celery task works on it.        *)
(*                                                                         *)
(* A request is named by the job it may create.  Meanwhile others edit the *)
(* task whose description the revisions rewrite.  Every query, update and  *)
(* Redis command is its own action.  One user, one task, one project.      *)
(***************************************************************************)
EXTENDS Naturals, Sequences, FiniteSets

CONSTANTS
  JobIds,      \* requests, each of which may create one job
  Asks,        \* which kinds of job the requests may ask for
  Copies,      \* deliveries of one message, the first among them
  First,       \* the first delivery
  Answers,     \* what the AI service can do, of those below
  MaxRetries,  \* max_retries of the tasks
  MaxRedirects,\* MAX_REDIRECTS of a link that is read
  Limit,       \* requests per window
  NoText,      \* no version of the description
  MaxEdits,    \* bound: saves of the task by others
  MaxFaults    \* bound: lost processes, Redis errors, lost replies, redeliveries

Kinds == {"revision", "question", "summary"}

\* A usable answer; one with an empty text; a network error, 429 or 5xx; a
\* refusal; an answer the task raises on (not JSON, not of the known shape).
AllAnswers == {"good", "empty", "transient", "rejected", "broken"}

ASSUME JobConstants ==
  /\ Asks \subseteq [JobIds -> Kinds]
  /\ First \in Copies
  /\ Answers \subseteq AllAnswers
  /\ MaxRetries \in Nat /\ MaxRedirects \in Nat
  /\ Limit \in Nat \ {0}
  /\ MaxEdits \in Nat
  /\ NoText \notin Nat
  /\ MaxFaults \in Nat

VARIABLES
  request,    \* where each request is, and of which kind it is
  row,        \* the job row of each request
  task,       \* the Celery task of each delivery of each job's message
  hits,       \* the limiter's counters, 0 when the key is absent
  expiring,   \* counters with a time to live
  text,       \* the version of the task's description
  texts,      \* versions written so far
  edits,      \* saves of the task by others
  written,    \* history: the version each revision wrote, and what it replaced
  crossed,    \* history: revisions whose text others wrote since they read it
  doubted,    \* history: jobs whose message may be worked on twice
  abandoned,  \* history: jobs whose request, message or task was lost
  endless,    \* history: counters left without a time to live
  faults      \* faults so far

limiter == <<hits, expiring, endless>>
description == <<text, texts, edits, written, crossed>>
vars == <<request, row, task, limiter, description, doubted, abandoned, faults>>
deliveries == JobIds \X Copies
-----------------------------------------------------------------------------
(***************************************************************************)
(* result is the answer, the summary or, for a revision,                   *)
(* previous_description, as a version of the text; NoText when empty.      *)
(***************************************************************************)
Statuses == {"none", "pending", "processing", "completed", "failed"}
Texts == Nat

Row == [status : Statuses, answered : BOOLEAN, kept : Texts \cup {NoText},
        error : BOOLEAN]
NoRow == [status |-> "none", answered |-> FALSE, kept |-> NoText, error |-> FALSE]

Task == [pc   : {"none", "queued", "mark", "fetch", "call", "write", "done"},
         try  : 0..MaxRetries,
         seen : Texts]
NoTask == [pc |-> "none", try |-> 0, seen |-> 0]

\* @rate_limit decorates these two requests.
Limited == {"question", "summary"}

kind(j) == request[j].kind
At(j, pc) == request[j].pc = pc
Goes(j, pc) == request' = [request EXCEPT ![j].pc = pc]
In(d, pc) == task[d].pc = pc
Turns(d, pc) == task' = [task EXCEPT ![d].pc = pc]
Ends(d) == task' = [task EXCEPT ![d] = [NoTask EXCEPT !.pc = "done"]]

Fault == faults < MaxFaults /\ faults' = faults + 1

(***************************************************************************)
(* The pieces of the actions that a slip would most likely change.  Each   *)
(* follows the slips the properties have to notice; no action uses those.  *)
(***************************************************************************)

\* The first hit of a window sets the time to live.
OpensWindowLate(current) == current = Limit + 1
OpensWindow(current) == current = 1

\* A job in one of these states may be worked on.
AdmitsAll == Statuses
Admits == {"pending", "processing"}

\* update(status=PROCESSING, started_at=...)
MarkedCleared(r) == [r EXCEPT !.status = "processing", !.error = TRUE]
Marked(r) == [r EXCEPT !.status = "processing"]

\* _mark_failed and the failure to queue a job.
Failed(r) == [r EXCEPT !.status = "failed", !.error = TRUE]

\* The save of a usable answer; a revision keeps the text its task read.
CompletedForgets(r, seen) == [r EXCEPT !.status = "completed", !.answered = TRUE]
Completed(r, seen) ==
  [r EXCEPT !.status = "completed", !.answered = TRUE, !.kept = seen]

\* The description is the last thing a revision writes.
AfterAnswerNothing(d) == Ends(d)
AfterAnswer(d) == Turns(d, "write")

\* The message of the next try.
RetriedUncounted(try) == [NoTask EXCEPT !.pc = "queued", !.try = try]
Retried(try) == [NoTask EXCEPT !.pc = "queued", !.try = try + 1]

\* self.retry, until max_retries.
MayRetryAlways(try) == TRUE
MayRetry(try) == try < MaxRetries

\* fetch_text follows a link through `redirects' safe addresses to `last', the
\* response or the address that ends the chain.
FetchText(redirects, last) == IF redirects > MaxRedirects THEN "failed" ELSE last

TypeOK ==
  /\ request \in [JobIds -> [pc : {"idle", "hit", "expire", "create", "send",
                                   "unqueued", "done"},
                             kind : Kinds]]
  /\ row \in [JobIds -> Row]
  /\ task \in [deliveries -> Task]
  /\ hits \in [Limited -> Nat]
  /\ expiring \subseteq Limited
  /\ texts \in Texts /\ text \in 0..texts /\ edits \in 0..MaxEdits
  /\ written \in [JobIds -> [new : Texts \cup {NoText}, over : Texts \cup {NoText}]]
  /\ crossed \subseteq JobIds
  /\ doubted \subseteq JobIds /\ abandoned \subseteq JobIds
  /\ endless \subseteq Limited
  /\ faults \in 0..MaxFaults

Init ==
  /\ \E ask \in Asks : request = [j \in JobIds |-> [pc |-> "idle", kind |-> ask[j]]]
  /\ row = [j \in JobIds |-> NoRow]
  /\ task = [d \in deliveries |-> NoTask]
  /\ hits = [k \in Limited |-> 0]
  /\ expiring = {}
  /\ text = 0 /\ texts = 0 /\ edits = 0
  /\ written = [j \in JobIds |-> [new |-> NoText, over |-> NoText]]
  /\ crossed = {}
  /\ doubted = {} /\ abandoned = {} /\ endless = {}
  /\ faults = 0
-----------------------------------------------------------------------------
(* Requests *)

\* regenerate_task_ai_content: no limiter.
AskRevision(j) ==
  /\ At(j, "idle") /\ kind(j) = "revision"
  /\ Goes(j, "create")
  /\ UNCHANGED <<row, task, limiter, description, doubted, abandoned, faults>>

\* request_ai_assistant and request_ai_health_summary: the decorator first.
AskQuestion(j) ==
  /\ At(j, "idle") /\ kind(j) = "question"
  /\ Goes(j, "hit")
  /\ UNCHANGED <<row, task, limiter, description, doubted, abandoned, faults>>

AskSummary(j) ==
  /\ At(j, "idle") /\ kind(j) = "summary"
  /\ Goes(j, "hit")
  /\ UNCHANGED <<row, task, limiter, description, doubted, abandoned, faults>>

\* INCR: too many requests are answered 429.
Hit(j) ==
  LET current == hits[kind(j)] + 1 IN
  /\ At(j, "hit")
  /\ hits' = [hits EXCEPT ![kind(j)] = current]
  /\ Goes(j, IF OpensWindow(current) THEN "expire"
             ELSE IF current > Limit THEN "done" ELSE "create")
  /\ UNCHANGED <<row, task, expiring, endless, description, doubted, abandoned,
                 faults>>

\* EXPIRE, after the hit that opened the window.
Expire(j) ==
  /\ At(j, "expire")
  /\ expiring' = expiring \cup {kind(j)}
  /\ Goes(j, "create")
  /\ UNCHANGED <<row, task, hits, endless, description, doubted, abandoned,
                 faults>>

\* A Redis error lets the request through.  An INCR whose reply is lost has
\* been counted, and nobody gives a counter it created a time to live.
FailOpen(j) ==
  LET k == kind(j) IN
  /\ Fault
  /\ \/ At(j, "hit") /\ UNCHANGED limiter
     \/ /\ At(j, "hit")
        /\ hits' = [hits EXCEPT ![k] = @ + 1]
        /\ endless' = IF hits[k] = 0 THEN endless \cup {k} ELSE endless
        /\ expiring' = expiring
     \/ At(j, "expire") /\ endless' = endless \cup {k} /\ UNCHANGED <<hits, expiring>>
  /\ Goes(j, "create")
  /\ UNCHANGED <<row, task, description, doubted, abandoned>>

\* Redis drops a counter whose time is up.
EndWindow(k) ==
  /\ k \in expiring
  /\ expiring' = expiring \ {k}
  /\ hits' = [hits EXCEPT ![k] = 0]
  /\ UNCHANGED <<request, row, task, endless, description, doubted, abandoned,
                 faults>>

\* The project or the task is missing or closed to the user, or not one of the
\* AI's: the request ends, counted.
Refuse(j) ==
  /\ At(j, "create")
  /\ Goes(j, "done")
  /\ UNCHANGED <<row, task, limiter, description, doubted, abandoned, faults>>

Create(j) ==
  /\ At(j, "create")
  /\ row' = [row EXCEPT ![j].status = "pending"]
  /\ Goes(j, "send")
  /\ UNCHANGED <<task, limiter, description, doubted, abandoned, faults>>

\* delay(): the broker has the message, or the call raises; when only the
\* broker's reply was lost, both.
Send(j) ==
  /\ At(j, "send")
  /\ \/ /\ task' = [task EXCEPT ![<<j, First>>].pc = "queued"]
        /\ Goes(j, "done")
        /\ UNCHANGED <<doubted, faults>>
     \/ /\ Fault
        /\ Goes(j, "unqueued")
        /\ UNCHANGED <<task, doubted>>
     \/ /\ Fault
        /\ Goes(j, "unqueued")
        /\ task' = [task EXCEPT ![<<j, First>>].pc = "queued"]
        /\ doubted' = doubted \cup {j}
  /\ UNCHANGED <<row, limiter, description, abandoned>>

MarkUnqueued(j) ==
  /\ At(j, "unqueued")
  /\ row' = [row EXCEPT ![j] = Failed(@)]
  /\ Goes(j, "done")
  /\ UNCHANGED <<task, limiter, description, doubted, abandoned, faults>>

\* The process that serves the request is lost at one of its awaits.
LoseRequest(j) ==
  /\ request[j].pc \in {"hit", "expire", "create", "send", "unqueued"}
  /\ Fault
  /\ Goes(j, "done")
  /\ endless' = IF At(j, "expire") THEN endless \cup {kind(j)} ELSE endless
  /\ abandoned' = IF request[j].pc \in {"send", "unqueued"}
                   THEN abandoned \cup {j} ELSE abandoned
  /\ UNCHANGED <<row, task, hits, expiring, description, doubted>>
-----------------------------------------------------------------------------
(* Tasks: d is a delivery, <<j, c>> *)

\* The task reads the row, and with it the description to revise.
Take(d) ==
  /\ In(d, "queued")
  /\ IF row[d[1]].status \in Admits
     THEN task' = [task EXCEPT ![d].pc = "mark",
                               ![d].seen = IF kind(d[1]) = "revision" THEN text ELSE 0]
     ELSE Ends(d)
  /\ crossed' = crossed \ {d[1]}
  /\ UNCHANGED <<request, row, limiter, text, texts, edits, written, doubted,
                 abandoned, faults>>

Mark(d) ==
  /\ In(d, "mark")
  /\ row' = [row EXCEPT ![d[1]] = Marked(@)]
  /\ Turns(d, IF kind(d[1]) = "question" THEN "fetch" ELSE "call")
  /\ UNCHANGED <<request, limiter, description, doubted, abandoned, faults>>

\* A page that cannot be read, or a question without a link, is answered
\* without it; an unsafe address fails the question; a connection lost in the
\* middle of the page is not caught.
FetchLink(d) ==
  /\ In(d, "fetch")
  /\ \E n \in 0..MaxRedirects + 1, last \in {"text", "failed", "unsafe", "broken"} :
       LET end == FetchText(n, last) IN
       \/ end \in {"text", "failed"} /\ Turns(d, "call") /\ UNCHANGED <<row, abandoned>>
       \/ /\ end = "unsafe" /\ Ends(d)
          /\ row' = [row EXCEPT ![d[1]] = Failed(@)]
          /\ abandoned' = abandoned
       \/ /\ end = "broken" /\ Ends(d)
          /\ abandoned' = abandoned \cup {d[1]}
          /\ row' = row
  /\ UNCHANGED <<request, limiter, description, doubted, faults>>

\* The AI service fails for now: another try, later.
RetryLater(d) ==
  /\ In(d, "call") /\ "transient" \in Answers
  /\ MayRetry(task[d].try)
  /\ task' = [task EXCEPT ![d] = Retried(@.try)]
  /\ UNCHANGED <<request, row, limiter, description, doubted, abandoned, faults>>

\* The last try failed, the service refused, or its answer has no text.
GiveUp(d) ==
  /\ In(d, "call")
  /\ \/ Answers \cap {"rejected", "empty"} # {}
     \/ "transient" \in Answers /\ ~MayRetry(task[d].try)
  /\ row' = [row EXCEPT ![d[1]] = Failed(@)]
  /\ Ends(d)
  /\ UNCHANGED <<request, limiter, description, doubted, abandoned, faults>>

\* An exception that nothing catches ends the task.
Raise(d) ==
  /\ In(d, "call") /\ "broken" \in Answers
  /\ Ends(d)
  /\ abandoned' = abandoned \cup {d[1]}
  /\ UNCHANGED <<request, row, limiter, description, doubted, faults>>

FinishRevision(d) ==
  /\ In(d, "call") /\ kind(d[1]) = "revision" /\ "good" \in Answers
  /\ row' = [row EXCEPT ![d[1]] = Completed(@, task[d].seen)]
  /\ AfterAnswer(d)
  /\ UNCHANGED <<request, limiter, description, doubted, abandoned, faults>>

\* Others' revisions at work now have read an older text.
Crosses(writers) ==
  crossed' = crossed \cup
    {j \in JobIds \ writers :
       kind(j) = "revision" /\ \E c \in Copies : task[<<j, c>>].pc \in {"mark", "call", "write"}}

\* save(update_fields=['description', ...]) of the task.
WriteText(d) ==
  /\ In(d, "write")
  /\ text' = texts + 1 /\ texts' = texts + 1
  /\ written' = [written EXCEPT ![d[1]] = [new |-> texts + 1, over |-> text]]
  /\ Crosses({d[1]})
  /\ Ends(d)
  /\ UNCHANGED <<request, row, limiter, edits, doubted, abandoned, faults>>

\* The save of an answer, or of a refusal as out of scope.
FinishQuestion(d) ==
  /\ In(d, "call") /\ kind(d[1]) = "question" /\ "good" \in Answers
  /\ row' = [row EXCEPT ![d[1]] = Completed(@, NoText)]
  /\ Ends(d)
  /\ UNCHANGED <<request, limiter, description, doubted, abandoned, faults>>

\* The save of a summary, with a risk level of the known ones or none.
FinishSummary(d) ==
  /\ In(d, "call") /\ kind(d[1]) = "summary" /\ "good" \in Answers
  /\ row' = [row EXCEPT ![d[1]] = Completed(@, NoText)]
  /\ Ends(d)
  /\ UNCHANGED <<request, limiter, description, doubted, abandoned, faults>>

LoseTask(d) ==
  /\ task[d].pc \in {"mark", "fetch", "call", "write"}
  /\ Fault
  /\ abandoned' = abandoned \cup {d[1]}
  /\ Ends(d)
  /\ UNCHANGED <<request, row, limiter, description, doubted>>

\* The broker delivers a message it holds once more.
Redeliver(d, c) ==
  /\ In(d, "queued") /\ In(<<d[1], c>>, "none")
  /\ Fault
  /\ task' = [task EXCEPT ![<<d[1], c>>] = task[d]]
  /\ doubted' = doubted \cup {d[1]}
  /\ UNCHANGED <<request, row, limiter, description, abandoned>>
-----------------------------------------------------------------------------
(***************************************************************************)
(* Others save the task: update_task with a new description, or the whole  *)
(* row as they read it some time ago, and with it an earlier description.  *)
(***************************************************************************)
Edit ==
  /\ edits < MaxEdits /\ edits' = edits + 1
  /\ \/ text' = texts + 1 /\ texts' = texts + 1
     \/ text' \in 0..texts /\ texts' = texts
  /\ Crosses({})
  /\ UNCHANGED <<request, row, task, limiter, written, doubted, abandoned, faults>>
-----------------------------------------------------------------------------
RequestStep(j) ==
  Hit(j) \/ Expire(j) \/ Create(j) \/ Send(j) \/ MarkUnqueued(j)

TaskStep(d) ==
  \/ Take(d) \/ Mark(d) \/ FetchLink(d) \/ RetryLater(d) \/ GiveUp(d) \/ Raise(d)
  \/ FinishRevision(d) \/ WriteText(d) \/ FinishQuestion(d) \/ FinishSummary(d)

Next ==
  \/ \E j \in JobIds : \/ AskRevision(j) \/ AskQuestion(j) \/ AskSummary(j)
                       \/ RequestStep(j) \/ FailOpen(j) \/ Refuse(j) \/ LoseRequest(j)
  \/ \E d \in deliveries : TaskStep(d) \/ LoseTask(d) \/ \E c \in Copies : Redeliver(d, c)
  \/ \E k \in Limited : EndWindow(k)
  \/ Edit

Spec == Init /\ [][Next]_vars

(***************************************************************************)
(* The event loop resumes a request, and a worker takes a message and goes *)
(* on with its task.  Requests and edits may never come, and nothing has   *)
(* to fail.                                                                *)
(***************************************************************************)
LiveSpec ==
  /\ Spec
  /\ \A j \in JobIds : WF_vars(RequestStep(j))
  /\ \A d \in deliveries : WF_vars(TaskStep(d))

\* A hand is on a job from the check of its status to the last write of the row.
HandsOn(j) ==
  {<<"task", c>> : c \in {c \in Copies : task[<<j, c>>].pc \in {"mark", "fetch", "call"}}}
    \cup (IF At(j, "unqueued") THEN {<<"request", First>>} ELSE {})

Life == INSTANCE JobLife WITH
          Hands <- {"task", "request"} \X Copies,
          phase <- [j \in JobIds |-> row[j].status],
          hands <- [j \in JobIds |-> HandsOn(j)]

\* What a poll answers: the task comes with a revision that is completed.
Polled(j) ==
  [status |-> row[j].status,
   task   |-> IF row[j].status = "completed" THEN text ELSE NoText]
-----------------------------------------------------------------------------
(* Properties *)

\* Whatever the AI service answers, and in whatever order requests, tasks and
\* retries interleave, a job that no message delivers twice is submitted once,
\* worked on, and ends once; and a late message revives no job that has ended.
KeepsLife == Life!Spec

\* A row that contradicts itself was written by two deliveries, or by one and
\* by the request that thought none was sent: completed with an error, failed
\* with an answer, or at work again after its end.
MixedNeedsTwoDeliveries ==
  \A j \in JobIds :
    LET r == row[j] IN
    \/ r.status = "completed" /\ r.error
    \/ r.status = "failed" /\ r.answered
    \/ r.status = "processing" /\ (r.error \/ r.answered)
    => j \in doubted

\* "Included once COMPLETED so the frontend can patch its task state straight
\* from this poll response -- no extra fetch needed": the task a poll includes
\* has the revised description.  It need not: the row is completed first.
PollPatchesTheTask ==
  \A j \in JobIds :
    (kind(j) = "revision" /\ Polled(j).task # NoText) => written[j].new # NoText

\* What the poll promised comes true: the description of a completed revision
\* is written, unless its task was lost before it did so.
CompletedIsWritten ==
  \A j \in JobIds :
    (kind(j) = "revision" /\ row[j].status = "completed")
      ~> (written[j].new # NoText \/ j \in abandoned)

\* previous_description undoes the revision: it is the text the revision wrote
\* over, unless someone wrote that text while the AI was asked.
RevisionCanBeUndone ==
  \A j \in JobIds \ (doubted \cup crossed) :
    written[j].new # NoText => row[j].kept = written[j].over

\* A counter without a time to live blocks its user for good: it takes a lost
\* process or a Redis error between the two commands.
EndlessNeedsFailure ==
  \A k \in Limited \ endless :
    hits[k] > 0 => k \in expiring \/ \E j \in JobIds : At(j, "expire") /\ kind(j) = k

\* A job under way ends, after finitely many retries, unless its process, its
\* message or its task was lost, or an answer ended the task.
JobEnds ==
  \A j \in JobIds :
    row[j].status \in {"pending", "processing"}
      ~> row[j].status \in {"completed", "failed"} \/ j \in abandoned
=============================================================================
