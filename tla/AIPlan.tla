------------------------------ MODULE AIPlan ------------------------------
(***************************************************************************)
(* A project's AI plan, from the request to the backlog: the handlers      *)
(* request_ai_plan, comment_on_generated_task, regenerate_generated_plan   *)
(* and save_generated_plan, and the Celery tasks process_ai_generation and *)
(* process_ai_plan_regeneration.                                           *)
(*                                                                         *)
(* Handlers and tasks share the tables AIGeneration and AIGeneratedTask.   *)
(* Every query and every update is its own transaction except the save of  *)
(* the backlog, so each is its own action.  One project; a caller who is   *)
(* refused for want of a permission changes nothing and is left out.       *)
(***************************************************************************)
EXTENDS Naturals, FiniteSets

CONSTANTS
  Gens,           \* generations that can be requested
  Rows,           \* temporary ids the AI can give to the tasks of a plan
  Handlers,       \* requests the API serves at the same time
  Workers,        \* slots of the Celery workers
  Answers,        \* what the AI service can do, of the four below
  MaxRetries,     \* max_retries of both tasks
  MaxComments,    \* bound: comments on one row
  MaxQueued,      \* bound: equal messages in the broker when one more is sent
  MaxLosses,      \* bound: lost handlers, workers and messages
  MaxRedelivered  \* bound: messages delivered again

\* A valid answer; a network error, 429 or 5xx; a refusal or an invalid
\* answer; an answer the task raises on (not JSON, a temporary id twice).
AllAnswers == {"plan", "transient", "rejected", "broken"}

ASSUME PlanConstants ==
  /\ Handlers \cap Workers = {}
  /\ IsFiniteSet(Workers)
  /\ Answers \subseteq AllAnswers
  /\ MaxRetries \in Nat
  /\ MaxComments \in Nat
  /\ MaxQueued \in Nat
  /\ MaxLosses \in Nat
  /\ MaxRedelivered \in Nat

VARIABLES
  status,       \* AIGeneration.status, "none" before the row exists
  saved,        \* generations with saved_at
  plan,         \* temporary ids of the rows of a generation
  draft,        \* those rows' comments and content
  batches,      \* how many times the rows became tasks of the backlog
  backlog,      \* the content of the rows in the last batch
  queue,        \* messages in the broker
  worker,       \* what each worker slot is doing
  handler,      \* what each request is doing
  late,         \* history: rows commented while their rewriting was under way
  twice,        \* history: rows added to a plan, or rewritten for an old comment
  losses,       \* losses so far
  redelivered   \* redeliveries so far

vars == <<status, saved, plan, draft, batches, backlog, queue, worker, handler,
          late, twice, losses, redelivered>>
past == <<late, twice>>
faults == <<losses, redelivered>>

(***************************************************************************)
(* comment counts the comments on a row; basis is the comment its content  *)
(* answers (0: the plan as proposed); revised counts its rewritings, and   *)
(* stands for its content.                                                 *)
(***************************************************************************)
DraftRow == [comment  : 0..MaxComments,
             resolved : BOOLEAN,
             basis    : 0..MaxComments,
             revised  : Nat]

NewRow == [comment |-> 0, resolved |-> TRUE, basis |-> 0, revised |-> 0]

Message == [kind : {"generate", "revise"}, gen : Gens, try : 0..MaxRetries]

\* What persist_ai_generated_tasks takes of a row.
Contents == [basis : 0..MaxComments, revised : Nat]
Content(row) == [basis |-> row.basis, revised |-> row.revised]

\* What a process read of some rows: their comments, or their content.
IsReading(f, S) == DOMAIN f \subseteq Rows /\ f \in [DOMAIN f -> S]

Nothing == [r \in {} |-> 0]
Idle == [pc |-> "idle"]

Working(w) == worker[w].pc # "idle"
Serving(h) == handler[h].pc # "idle"

Lose == losses < MaxLosses /\ losses' = losses + 1 /\ redelivered' = redelivered

Put(m) == [queue EXCEPT ![m] = @ + 1]
Take(m) == [queue EXCEPT ![m] = @ - 1]
Set(g, s) == [status EXCEPT ![g] = s]

\* generated_tasks.filter(comment_resolved=False)
Commented(g) == {r \in plan[g] : ~draft[g][r].resolved}

(***************************************************************************)
(* The pieces of the actions that a slip would most likely change.  Each   *)
(* follows the slips the properties have to notice; no action uses those.  *)
(***************************************************************************)

\* save_generated_plan's checks.
Savable(g) == status[g] = "completed" /\ g \notin saved

\* persist_ai_generated_tasks sets saved_at in its transaction.
StampedNot(g) == saved
Stamped(g) == saved \cup {g}

\* The rows of g after the AI rewrote those in read for their comments there.
Rewritten(d, c) == [d EXCEPT !.basis = c, !.revised = @ + 1, !.resolved = TRUE]
AppliedUnresolved(g, read) ==
  [r \in Rows |-> IF r \in DOMAIN read
                    THEN [Rewritten(draft[g][r], read[r]) EXCEPT !.resolved = FALSE]
                    ELSE draft[g][r]]
AppliedToAll(g, read) ==
  [r \in Rows |-> IF r \in DOMAIN read THEN Rewritten(draft[g][r], read[r])
                                       ELSE [draft[g][r] EXCEPT !.revised = @ + 1]]
AppliedResolvingAll(g, read) ==
  [r \in Rows |-> IF r \in DOMAIN read THEN Rewritten(draft[g][r], read[r])
                                       ELSE [draft[g][r] EXCEPT !.resolved = TRUE]]
Applied(g, read) ==
  [r \in Rows |-> IF r \in DOMAIN read THEN Rewritten(draft[g][r], read[r])
                                       ELSE draft[g][r]]

\* Plans that _store_generated_tasks_for_review accepts.
AcceptedEvenEmpty == SUBSET Rows
Accepted == (SUBSET Rows) \ {{}}

\* What the end of a task that gave up leaves behind.
AfterFailureAlways(kind) == "failed"
AfterFailure(kind) == IF kind = "generate" THEN "failed" ELSE "completed"

\* self.retry: the same message, with one more retry counted.
RetriedUncounted(m) == m
Retried(m) == [m EXCEPT !.try = @ + 1]

TypeOK ==
  /\ status \in [Gens -> {"none", "pending", "processing", "completed", "failed"}]
  /\ plan \in [Gens -> SUBSET Rows]
  /\ draft \in [Gens -> [Rows -> DraftRow]]
  /\ batches \in [Gens -> Nat]
  /\ saved = {g \in Gens : batches[g] > 0}
  /\ DOMAIN backlog = Gens /\ \A g \in Gens : IsReading(backlog[g], Contents)
  /\ queue \in [Message -> Nat]
  /\ DOMAIN worker = Workers
  /\ \A w \in Workers :
       \/ worker[w] = Idle
       \/ /\ worker[w].pc \in {"mark", "rows", "call", "finish", "fail"}
          /\ worker[w].msg \in Message
          /\ IsReading(worker[w].read, 0..MaxComments)
  /\ DOMAIN handler = Handlers
  /\ \A h \in Handlers :
       \/ handler[h] \in {Idle, [pc |-> "create"]}
       \/ /\ handler[h].pc \in {"enqueue", "unqueued", "due", "revise", "push",
                               "unpushed", "draft", "commit"}
          /\ handler[h].gen \in Gens
          /\ IsReading(handler[h].read, Contents)
  /\ late \in SUBSET (Gens \X Rows) /\ twice \in SUBSET (Gens \X Rows)
  /\ losses \in 0..MaxLosses
  /\ redelivered \in 0..MaxRedelivered

Init ==
  /\ status = [g \in Gens |-> "none"]
  /\ saved = {}
  /\ plan = [g \in Gens |-> {}]
  /\ draft = [g \in Gens |-> [r \in Rows |-> NewRow]]
  /\ batches = [g \in Gens |-> 0]
  /\ backlog = [g \in Gens |-> Nothing]
  /\ queue = [m \in Message |-> 0]
  /\ worker = [w \in Workers |-> Idle]
  /\ handler = [h \in Handlers |-> Idle]
  /\ late = {} /\ twice = {}
  /\ losses = 0
  /\ redelivered = 0
-----------------------------------------------------------------------------
(***************************************************************************)
(* The handlers.  Each await of a query ends a step; what a handler found  *)
(* before it may be stale after it.                                        *)
(***************************************************************************)
Goes(h, to) == handler' = [handler EXCEPT ![h] = to]
At(h, pc) == handler[h].pc = pc
Then(h, pc) == Goes(h, [handler[h] EXCEPT !.pc = pc])

Serve(h, g, pc) ==
  /\ At(h, "idle")
  /\ Goes(h, [pc |-> pc, gen |-> g, read |-> Nothing])

\* POST /projects/{id}/ai-plan/
RequestPlan(h) ==
  /\ At(h, "idle")
  /\ saved = {}
  /\ Goes(h, [pc |-> "create"])
  /\ UNCHANGED <<status, saved, plan, draft, batches, backlog, queue, worker,
                 past, faults>>

CreateGeneration(h, g) ==
  /\ At(h, "create")
  /\ status[g] = "none"
  /\ status' = Set(g, "pending")
  /\ Goes(h, [pc |-> "enqueue", gen |-> g, read |-> Nothing])
  /\ UNCHANGED <<saved, plan, draft, batches, backlog, queue, worker, past,
                 faults>>

\* .delay(): the broker has the message, or the call raises; when only the
\* broker's reply was lost, both.
Enqueue(h, pc, kind, unsent) ==
  LET m == [kind |-> kind, gen |-> handler[h].gen, try |-> 0]
      room == \A t \in 0..MaxRetries : queue[[m EXCEPT !.try = t]] < MaxQueued
  IN
  /\ At(h, pc)
  /\ \/ room /\ queue' = Put(m) /\ Goes(h, Idle) /\ UNCHANGED faults
     \/ Lose /\ Then(h, unsent) /\ UNCHANGED queue
     \/ room /\ queue' = Put(m) /\ Lose /\ Then(h, unsent)
  /\ UNCHANGED <<status, saved, plan, draft, batches, backlog, worker, past>>

\* The handler's except clause says so in the row: no plan will come, or the
\* plan stays as it was.
Unsent(h, pc, kind) ==
  /\ At(h, pc)
  /\ status' = Set(handler[h].gen, AfterFailure(kind))
  /\ Goes(h, Idle)
  /\ UNCHANGED <<saved, plan, draft, batches, backlog, queue, worker, past, faults>>

EnqueueGeneration(h) == Enqueue(h, "enqueue", "generate", "unqueued")
MarkUnqueued(h) == Unsent(h, "unqueued", "generate")

\* POST /ai/generations/{id}/regenerate/
CheckRegenerate(h, g) ==
  /\ Savable(g)
  /\ Serve(h, g, "due")
  /\ UNCHANGED <<status, saved, plan, draft, batches, backlog, queue, worker,
                 past, faults>>

CheckComments(h) ==
  /\ At(h, "due")
  /\ IF Commented(handler[h].gen) # {} THEN Then(h, "revise") ELSE Goes(h, Idle)
  /\ UNCHANGED <<status, saved, plan, draft, batches, backlog, queue, worker,
                 past, faults>>

MarkRegenerating(h) ==
  /\ At(h, "revise")
  /\ status' = Set(handler[h].gen, "processing")
  /\ Then(h, "push")
  /\ UNCHANGED <<saved, plan, draft, batches, backlog, queue, worker, past,
                 faults>>

EnqueueRegeneration(h) == Enqueue(h, "push", "revise", "unpushed")
GiveBack(h) == Unsent(h, "unpushed", "revise")

\* POST /ai/generations/{id}/save/
CheckSave(h, g) ==
  /\ Savable(g)
  /\ Serve(h, g, "draft")
  /\ UNCHANGED <<status, saved, plan, draft, batches, backlog, queue, worker,
                 past, faults>>

\* persist_ai_generated_tasks raises when there is no row to save.
ReadDraft(h) ==
  LET g == handler[h].gen IN
  /\ At(h, "draft")
  /\ plan[g] # {}
  /\ Goes(h, [pc |-> "commit", gen |-> g,
              read |-> [r \in plan[g] |-> Content(draft[g][r])]])
  /\ UNCHANGED <<status, saved, plan, draft, batches, backlog, queue, worker,
                 past, faults>>

\* The one transaction of several statements: tasks, created_task, saved_at.
CommitSave(h) ==
  LET g == handler[h].gen IN
  /\ At(h, "commit")
  /\ saved' = Stamped(g)
  /\ batches' = [batches EXCEPT ![g] = @ + 1]
  /\ backlog' = [backlog EXCEPT ![g] = handler[h].read]
  /\ Goes(h, Idle)
  /\ UNCHANGED <<status, plan, draft, queue, worker, past, faults>>

\* PATCH .../comment/: save(update_fields=[...]) of one row, whatever the state
\* of the plan.
Comment(g, r) ==
  /\ r \in plan[g]
  /\ draft[g][r].comment < MaxComments
  /\ draft' = [draft EXCEPT ![g][r].comment = @ + 1, ![g][r].resolved = FALSE]
  /\ late' = IF \E w \in Workers : /\ worker[w].pc = "call"
                                   /\ worker[w].msg.gen = g
                                   /\ r \in DOMAIN worker[w].read
               THEN late \cup {<<g, r>>}
               ELSE late
  /\ UNCHANGED <<status, saved, plan, batches, backlog, queue, worker, handler,
                 twice, faults>>

LoseHandler(h) ==
  /\ Serving(h)
  /\ Goes(h, Idle)
  /\ Lose
  /\ UNCHANGED <<status, saved, plan, draft, batches, backlog, queue, worker,
                 past>>
-----------------------------------------------------------------------------
(***************************************************************************)
(* The Celery tasks.  A message is acknowledged when it is taken, and the  *)
(* broker may deliver it again.                                            *)
(***************************************************************************)
Does(w, to) == worker' = [worker EXCEPT ![w] = to]
In(w, pc) == worker[w].pc = pc
GoesOn(w, pc) == Does(w, [worker[w] EXCEPT !.pc = pc])

\* The task's first query; a generation whose status is not in statuses has
\* been dealt with.
Start(w, m, statuses, pc) ==
  /\ In(w, "idle")
  /\ queue[m] > 0
  /\ \/ queue' = Take(m) /\ UNCHANGED faults
     \/ /\ queue' = queue
        /\ redelivered < MaxRedelivered
        /\ redelivered' = redelivered + 1
        /\ UNCHANGED losses
  /\ Does(w, IF status[m.gen] \in statuses
               THEN [pc |-> pc, msg |-> m, read |-> Nothing]
               ELSE Idle)
  /\ UNCHANGED <<status, saved, plan, draft, batches, backlog, handler, past>>

StartGeneration(w, m) ==
  m.kind = "generate" /\ Start(w, m, {"pending", "processing"}, "mark")

StartRevision(w, m) ==
  m.kind = "revise" /\ Start(w, m, {"processing"}, "rows")

MarkGenerating(w) ==
  /\ In(w, "mark")
  /\ status' = Set(worker[w].msg.gen, "processing")
  /\ GoesOn(w, "call")
  /\ UNCHANGED <<saved, plan, draft, batches, backlog, queue, handler, past,
                 faults>>

\* Without a commented row the regeneration ends as it does after its work.
ReadComments(w) ==
  LET g == worker[w].msg.gen IN
  /\ In(w, "rows")
  /\ Does(w, [worker[w] EXCEPT
                !.pc = IF Commented(g) = {} THEN "finish" ELSE "call",
                !.read = [r \in Commented(g) |-> draft[g][r].comment]])
  /\ UNCHANGED <<status, saved, plan, draft, batches, backlog, queue, handler,
                 past, faults>>

\* The AI service fails for now: another try, later, or the last was made.
Retry(w) ==
  LET m == worker[w].msg IN
  /\ In(w, "call")
  /\ "transient" \in Answers
  /\ m.try < MaxRetries
  /\ queue' = Put(Retried(m))
  /\ Does(w, Idle)
  /\ UNCHANGED <<status, saved, plan, draft, batches, backlog, handler, past,
                 faults>>

GiveUp(w) ==
  /\ In(w, "call")
  /\ \/ "rejected" \in Answers
     \/ "transient" \in Answers /\ worker[w].msg.try = MaxRetries
  /\ GoesOn(w, "fail")
  /\ UNCHANGED <<status, saved, plan, draft, batches, backlog, queue, handler,
                 past, faults>>

\* An exception that nothing catches ends the task.
Raise(w) ==
  /\ In(w, "call")
  /\ "broken" \in Answers
  /\ Does(w, Idle)
  /\ UNCHANGED <<status, saved, plan, draft, batches, backlog, queue, handler,
                 past, faults>>

\* bulk_create, all rows or none: (generation, temporary_id) is unique, and an
\* IntegrityError is not caught.
StorePlan(w, P) ==
  LET g == worker[w].msg.gen IN
  /\ In(w, "call")
  /\ worker[w].msg.kind = "generate"
  /\ "plan" \in Answers
  /\ P \in Accepted
  /\ \/ /\ P \cap plan[g] = {}
        /\ plan' = [plan EXCEPT ![g] = @ \cup P]
        /\ twice' = IF plan[g] = {} THEN twice ELSE twice \cup ({g} \X P)
        /\ GoesOn(w, "finish")
     \/ /\ P \cap plan[g] # {}
        /\ UNCHANGED <<plan, twice>>
        /\ Does(w, Idle)
  /\ UNCHANGED <<status, saved, draft, batches, backlog, queue, handler, late,
                 faults>>

ApplyRevision(w) ==
  LET g == worker[w].msg.gen
      read == worker[w].read
  IN
  /\ In(w, "call")
  /\ worker[w].msg.kind = "revise"
  /\ "plan" \in Answers
  /\ draft' = [draft EXCEPT ![g] = Applied(g, read)]
  /\ twice' = twice \cup ({g} \X {r \in DOMAIN read : read[r] <= draft[g][r].basis})
  /\ GoesOn(w, "finish")
  /\ UNCHANGED <<status, saved, plan, batches, backlog, queue, handler, late,
                 faults>>

\* save(update_fields=['status', ...]) at the end of either task.
FinishTask(w) ==
  LET m == worker[w].msg IN
  /\ \/ In(w, "finish") /\ status' = Set(m.gen, "completed")
     \/ In(w, "fail") /\ status' = Set(m.gen, AfterFailure(m.kind))
  /\ Does(w, Idle)
  /\ UNCHANGED <<saved, plan, draft, batches, backlog, queue, handler, past,
                 faults>>

LoseWorker(w) ==
  /\ Working(w)
  /\ Does(w, Idle)
  /\ Lose
  /\ UNCHANGED <<status, saved, plan, draft, batches, backlog, queue, handler,
                 past>>
-----------------------------------------------------------------------------
HandlerStep(h) ==
  \/ EnqueueGeneration(h) \/ MarkUnqueued(h) \/ CheckComments(h)
  \/ MarkRegenerating(h) \/ EnqueueRegeneration(h) \/ GiveBack(h)
  \/ ReadDraft(h) \/ CommitSave(h)
  \/ \E g \in Gens : CreateGeneration(h, g)

WorkerStep(w) ==
  \/ \E m \in Message : StartGeneration(w, m) \/ StartRevision(w, m)
  \/ MarkGenerating(w) \/ ReadComments(w) \/ Retry(w) \/ GiveUp(w) \/ Raise(w)
  \/ ApplyRevision(w) \/ FinishTask(w)
  \/ \E P \in SUBSET Rows : StorePlan(w, P)

Next ==
  \/ \E h \in Handlers : \/ HandlerStep(h) \/ LoseHandler(h) \/ RequestPlan(h)
                         \/ \E g \in Gens : CheckRegenerate(h, g) \/ CheckSave(h, g)
  \/ \E g \in Gens, r \in Rows : Comment(g, r)
  \/ \E w \in Workers : WorkerStep(w) \/ LoseWorker(w)

Spec == Init /\ [][Next]_vars

(***************************************************************************)
(* The event loop resumes a handler whose query was answered, and a worker *)
(* takes messages and goes on with its task; reviewers owe nothing.        *)
(***************************************************************************)
LiveSpec ==
  /\ Spec
  /\ \A h \in Handlers : WF_vars(HandlerStep(h))
  /\ \A w \in Workers : WF_vars(WorkerStep(w))

(***************************************************************************)
(* A hand is on a generation from the check of its status to its last      *)
(* write: a task's, or a request's.                                        *)
(***************************************************************************)
Free == [does |-> "nothing"]

TaskHand(t) ==
  IF t = Idle THEN Free
  ELSE [gen  |-> t.msg.gen,
        does |-> IF t.msg.kind = "revise" THEN "revise"
                 ELSE IF t.pc = "finish" THEN "close" ELSE "propose"]

RequestHand(q) ==
  IF q.pc \in {"idle", "create", "enqueue"} THEN Free
  ELSE [gen  |-> q.gen,
        does |-> IF q.pc = "unqueued" THEN "propose"
                 ELSE IF q.pc \in {"draft", "commit"} THEN "save" ELSE "revise"]

Hand == [x \in Workers \cup Handlers |->
           IF x \in Workers THEN TaskHand(worker[x]) ELSE RequestHand(handler[x])]

Review == INSTANCE PlanReview WITH Hands <- Workers \cup Handlers, hand <- Hand
-----------------------------------------------------------------------------
(* Properties *)

\* Whatever the AI service answers, is lost or is delivered again, and however
\* many requests and tasks are at work: no failed regeneration loses a plan,
\* nothing reaches for a plan that was saved, and who works on a generation
\* found it under way.
KeepsReview == Review!Spec

\* What was saved is what the reviewers see, also when saves and regenerations
\* overlap.  A row can only differ if what was saved left a comment on it
\* unanswered, or if two tasks proposed or rewrote it for one request or comment.
SavedAsReviewed ==
  \A g \in saved : \A r \in plan[g] :
    \/ r \in DOMAIN backlog[g] /\ backlog[g][r] = Content(draft[g][r])
    \/ r \in DOMAIN backlog[g] /\ backlog[g][r].basis < draft[g][r].comment
    \/ <<g, r>> \in twice

\* A generation that says it is complete has a plan, even when its task ran
\* twice, failed the second time or was lost half-way.
CompletedHasPlan == \A g \in Gens : status[g] = "completed" => plan[g] # {}

\* A comment is marked as resolved without an answer only if it was written
\* while its row was being rewritten for an older one.
UnansweredCameLate ==
  \A g \in Gens, r \in Rows :
    (draft[g][r].resolved /\ draft[g][r].basis # draft[g][r].comment)
      => <<g, r>> \in late

\* A worker rewrites a row at most once for a comment: neither retries nor
\* redeliveries nor several reviewers make the AI rewrite it over and over.
RewritingsArePaid ==
  \A g \in Gens, r \in Rows :
    draft[g][r].revised <= draft[g][r].comment * Cardinality(Workers)

\* A generation under way ends, if nothing is lost or delivered twice and the
\* task survives the answers: after finitely many retries it is complete or
\* has failed.
GenerationEnds ==
  \A g \in Gens :
    status[g] \in {"pending", "processing"} ~> status[g] \in {"completed", "failed"}

\* "a repeated call must not create a second batch of tasks" (the docstring of
\* persist_ai_generated_tasks).
OneBatch == \A g \in Gens : batches[g] <= 1
=============================================================================
