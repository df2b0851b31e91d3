---------------------------- MODULE AIPlanProofs ----------------------------
(***************************************************************************)
(* Theorems about AIPlan, for any number of generations, rows, requests,   *)
(* workers, retries, losses and redeliveries.                              *)
(***************************************************************************)
EXTENDS AIPlan, FiniteSetTheorems, TLAPS

-----------------------------------------------------------------------------
(* Type correctness *)

\* TypeOK says which values there are; the proofs also need the exact form of
\* the records of workers and requests.
Asked == UNION {[S -> 0..MaxComments] : S \in SUBSET Rows}
Copy == UNION {[S -> Contents] : S \in SUBSET Rows}
Task == [pc : {"mark", "rows", "call", "finish", "fail"}, msg : Message, read : Asked]
Steps == {"enqueue", "unqueued", "due", "revise", "push", "unpushed", "draft", "commit"}
Request == [pc : Steps, gen : Gens, read : Copy]

Shapes ==
  /\ status \in [Gens -> {"none", "pending", "processing", "completed", "failed"}]
  /\ plan \in [Gens -> SUBSET Rows]
  /\ draft \in [Gens -> [Rows -> DraftRow]]
  /\ batches \in [Gens -> Nat]
  /\ saved = {g \in Gens : batches[g] > 0}
  /\ backlog \in [Gens -> Copy]
  /\ queue \in [Message -> Nat]
  /\ worker \in [Workers -> {Idle} \cup Task]
  /\ handler \in [Handlers -> {Idle, [pc |-> "create"]} \cup Request]
  /\ late \in SUBSET (Gens \X Rows) /\ twice \in SUBSET (Gens \X Rows)
  /\ losses \in 0..MaxLosses
  /\ redelivered \in 0..MaxRedelivered

\* A rewriting answers comments that its rows have had.
Fits(w) ==
  Working(w) =>
    LET m == worker[w].msg IN
    /\ worker[w].pc = "mark" => m.kind = "generate" /\ DOMAIN worker[w].read = {}
    /\ worker[w].pc = "rows" => m.kind = "revise"
    /\ worker[w].pc = "call" =>
         \A r \in DOMAIN worker[w].read : worker[w].read[r] <= draft[m.gen][r].comment

TasksFit == \A w \in Workers : Fits(w)

TypeInv == Shapes /\ TasksFit

LEMMA AreReadings ==
  /\ \A f \in Asked : IsReading(f, 0..MaxComments)
  /\ \A f \in Copy : IsReading(f, Contents)
  BY DEF Asked, Copy, IsReading

LEMMA MakesAsked ==
  ASSUME NEW S \in SUBSET Rows, NEW f \in [S -> 0..MaxComments]
  PROVE  f \in Asked
  BY DEF Asked

LEMMA MakesCopy ==
  ASSUME NEW S \in SUBSET Rows, NEW f \in [S -> Contents]
  PROVE  f \in Copy
  BY DEF Copy

LEMMA NothingRead == Nothing \in Asked /\ Nothing \in Copy /\ DOMAIN Nothing = {}
<1>1. Nothing \in [{} -> 0..MaxComments] /\ Nothing \in [{} -> Contents]
  BY DEF Nothing
<1> QED
  BY <1>1, MakesAsked, MakesCopy

\* What a worker, and a request, can be.
LEMMA WorkerForm ==
  ASSUME Shapes, NEW w \in Workers
  PROVE  /\ Working(w) => worker[w] \in Task
         /\ ~Working(w) => worker[w] = Idle
         /\ worker[w].pc \in {"idle", "mark", "rows", "call", "finish", "fail"}
<1>1. worker[w] = Idle \/ worker[w] \in Task
  BY DEF Shapes
<1>2. Idle.pc = "idle"
  BY DEF Idle
<1>3. worker[w] \in Task => worker[w].pc \in {"mark", "rows", "call", "finish", "fail"}
  BY DEF Task
<1> QED
  BY <1>1, <1>2, <1>3 DEF Working

LEMMA TaskForm ==
  ASSUME NEW t \in Task
  PROVE  /\ t.pc \in {"mark", "rows", "call", "finish", "fail"}
         /\ t.msg \in Message /\ t.msg.gen \in Gens
         /\ t.msg.kind \in {"generate", "revise"} /\ t.msg.try \in 0..MaxRetries
         /\ t.read \in Asked
         /\ DOMAIN t.read \subseteq Rows
         /\ \A r \in DOMAIN t.read : t.read[r] \in Nat
<1>1. t.msg \in Message /\ t.read \in Asked
  BY DEF Task
<1>2. t.msg.gen \in Gens /\ t.msg.kind \in {"generate", "revise"} /\ t.msg.try \in 0..MaxRetries
  BY <1>1 DEF Message
<1>3. DOMAIN t.read \subseteq Rows /\ \A r \in DOMAIN t.read : t.read[r] \in Nat
  BY <1>1, PlanConstants DEF Asked
<1> QED
  BY <1>1, <1>2, <1>3 DEF Task

LEMMA TaskGoesOn ==
  ASSUME NEW t \in Task, NEW pc \in {"mark", "rows", "call", "finish", "fail"}
  PROVE  /\ [t EXCEPT !.pc = pc] \in Task
         /\ [t EXCEPT !.pc = pc].pc = pc
         /\ [t EXCEPT !.pc = pc].msg = t.msg
         /\ [t EXCEPT !.pc = pc].read = t.read
  BY DEF Task

LEMMA HandlerForm ==
  ASSUME Shapes, NEW h \in Handlers
  PROVE  /\ handler[h].pc \notin {"idle", "create"} => handler[h] \in Request
         /\ handler[h].pc \in {"idle", "create"} \cup Steps
<1>1. handler[h] = Idle \/ handler[h] = [pc |-> "create"] \/ handler[h] \in Request
  BY DEF Shapes
<1>2. Idle.pc = "idle" /\ [pc |-> "create"].pc = "create"
  BY DEF Idle
<1>3. handler[h] \in Request => handler[h].pc \in Steps
  BY DEF Request
<1> QED
  BY <1>1, <1>2, <1>3

LEMMA RequestForm ==
  ASSUME NEW q \in Request
  PROVE  /\ q.gen \in Gens /\ q.read \in Copy
         /\ \A pc \in Steps :
              /\ [q EXCEPT !.pc = pc] \in Request
              /\ [q EXCEPT !.pc = pc].pc = pc
              /\ [q EXCEPT !.pc = pc].gen = q.gen
              /\ [q EXCEPT !.pc = pc].read = q.read
  BY DEF Request

\* A step of a process changes what that process does, and of no other.
LEMMA WorkerMoves ==
  ASSUME Shapes, NEW w \in Workers, NEW to \in {Idle} \cup Task, Does(w, to)
  PROVE  /\ worker' \in [Workers -> {Idle} \cup Task]
         /\ worker'[w] = to
         /\ \A v \in Workers : v # w => worker'[v] = worker[v]
  BY DEF Shapes, Does

LEMMA HandlerMoves ==
  ASSUME Shapes, NEW h \in Handlers,
         NEW to \in {Idle, [pc |-> "create"]} \cup Request, Goes(h, to)
  PROVE  /\ handler' \in [Handlers -> {Idle, [pc |-> "create"]} \cup Request]
         /\ handler'[h] = to
         /\ \A k \in Handlers : k # h => handler'[k] = handler[k]
  BY DEF Shapes, Goes

LEMMA LoseType ==
  ASSUME Shapes, Lose
  PROVE  losses' \in 0..MaxLosses /\ redelivered' \in 0..MaxRedelivered
  BY PlanConstants DEF Lose, Shapes

LEMMA InitType == Init => TypeInv
<1> SUFFICES ASSUME Init PROVE TypeInv
  OBVIOUS
<1>1. [g \in Gens |-> Nothing] \in [Gens -> Copy]
  BY NothingRead
<1>2. NewRow \in DraftRow
  BY PlanConstants DEF NewRow, DraftRow
<1>3. Shapes
  BY <1>1, <1>2, PlanConstants DEF Init, Shapes
<1>4. \A w \in Workers : ~Working(w)
  BY DEF Init, Working, Idle
<1> QED
  BY <1>3, <1>4 DEF TypeInv, TasksFit, Fits

\* The steps of requests, by what they do to the tables.
RequestStep(h) ==
  \/ HandlerStep(h) \/ LoseHandler(h) \/ RequestPlan(h)
  \/ \E g \in Gens : CheckRegenerate(h, g) \/ CheckSave(h, g)

LEMMA SetType ==
  ASSUME Shapes, NEW g \in Gens,
         NEW s \in {"none", "pending", "processing", "completed", "failed"}
  PROVE  /\ Set(g, s) \in [Gens -> {"none", "pending", "processing", "completed", "failed"}]
         /\ Set(g, s)[g] = s
         /\ \A f \in Gens : f # g => Set(g, s)[f] = status[f]
  BY DEF Shapes, Set

LEMMA PutType ==
  ASSUME Shapes, NEW m \in Message
  PROVE  /\ Put(m) \in [Message -> Nat]
         /\ Put(m)[m] = queue[m] + 1
         /\ \A n \in Message : n # m => Put(m)[n] = queue[n]
  BY DEF Shapes, Put

\* Where a request goes from where it is.
LEMMA ThenGoes ==
  ASSUME Shapes, NEW h \in Handlers, handler[h] \in Request,
         NEW pc \in Steps, Then(h, pc)
  PROVE  /\ handler' \in [Handlers -> {Idle, [pc |-> "create"]} \cup Request]
         /\ handler'[h] \in Request
         /\ handler'[h].pc = pc /\ handler'[h].gen = handler[h].gen
         /\ handler'[h].read = handler[h].read
         /\ \A k \in Handlers : k # h => handler'[k] = handler[k]
<1>1. Goes(h, [handler[h] EXCEPT !.pc = pc])
  BY DEF Then
<1> DEFINE q == [handler[h] EXCEPT !.pc = pc]
<1>2. q \in Request /\ q.pc = pc /\ q.gen = handler[h].gen /\ q.read = handler[h].read
  BY RequestForm
<1>3. /\ handler' \in [Handlers -> {Idle, [pc |-> "create"]} \cup Request]
      /\ handler'[h] = q
      /\ \A k \in Handlers : k # h => handler'[k] = handler[k]
  BY <1>1, <1>2, HandlerMoves
<1> QED
  BY <1>2, <1>3

LEMMA NewRequest ==
  ASSUME NEW pc \in Steps, NEW g \in Gens, NEW f \in Copy
  PROVE  [pc |-> pc, gen |-> g, read |-> f] \in Request
  BY DEF Request

\* What an attempt to send does to the broker and to the request.
LEMMA EnqueueMoves ==
  ASSUME Shapes, NEW h \in Handlers, NEW pc \in Steps, NEW unsent \in Steps,
         NEW kind \in {"generate", "revise"}, Enqueue(h, pc, kind, unsent)
  PROVE  /\ Shapes'
         /\ handler[h] \in Request /\ handler[h].pc = pc /\ handler[h].gen \in Gens
         /\ \A n \in Message :
              n.kind # kind \/ n.gen # handler[h].gen => queue'[n] = queue[n]
         /\ \/ handler'[h] = Idle
            \/ /\ handler'[h] \in Request /\ handler'[h].pc = unsent
               /\ handler'[h].gen = handler[h].gen /\ handler'[h].read = handler[h].read
         /\ \A k \in Handlers : k # h => handler'[k] = handler[k]
         /\ UNCHANGED <<status, saved, plan, draft, batches, backlog, worker, past>>
<1> DEFINE m == [kind |-> kind, gen |-> handler[h].gen, try |-> 0]
<1>1. handler[h].pc = pc /\ handler[h].pc \in Steps
  BY DEF Enqueue, At
<1>2. handler[h] \in Request
  BY <1>1, HandlerForm DEF Steps
<1>3. handler[h].gen \in Gens
  BY <1>2, RequestForm
<1>4. m \in Message /\ m.kind = kind /\ m.gen = handler[h].gen
  BY <1>3, PlanConstants DEF Message
<1>5. UNCHANGED <<status, saved, plan, draft, batches, backlog, worker, past>>
  BY DEF Enqueue
<1>6. queue' = Put(m) \/ queue' = queue
  BY DEF Enqueue
<1> HIDE DEF m
<1>7. queue' \in [Message -> Nat] /\ \A n \in Message : n # m => queue'[n] = queue[n]
  BY <1>4, <1>6, PutType DEF Shapes
<1>8. Goes(h, Idle) \/ Then(h, unsent)
  BY DEF Enqueue
<1>9. /\ handler' \in [Handlers -> {Idle, [pc |-> "create"]} \cup Request]
      /\ \/ handler'[h] = Idle
         \/ /\ handler'[h] \in Request /\ handler'[h].pc = unsent
            /\ handler'[h].gen = handler[h].gen /\ handler'[h].read = handler[h].read
      /\ \A k \in Handlers : k # h => handler'[k] = handler[k]
  BY <1>2, <1>8, ThenGoes, HandlerMoves
<1>10. losses' \in 0..MaxLosses /\ redelivered' \in 0..MaxRedelivered
  BY LoseType DEF Enqueue, Shapes, past, faults
<1>11. Shapes'
  BY <1>5, <1>7, <1>9, <1>10 DEF Shapes, past
<1> QED
  BY <1>1, <1>2, <1>3, <1>4, <1>5, <1>7, <1>9, <1>11 DEF m

\* What giving up an attempt does to the row and to the request.
LEMMA UnsentMoves ==
  ASSUME Shapes, NEW h \in Handlers, NEW pc \in Steps,
         NEW kind \in {"generate", "revise"}, Unsent(h, pc, kind)
  PROVE  /\ Shapes'
         /\ handler[h] \in Request /\ handler[h].pc = pc /\ handler[h].gen \in Gens
         /\ status'[handler[h].gen] = AfterFailure(kind)
         /\ \A f \in Gens : f # handler[h].gen => status'[f] = status[f]
         /\ handler'[h] = Idle /\ \A k \in Handlers : k # h => handler'[k] = handler[k]
         /\ UNCHANGED <<saved, plan, draft, batches, backlog, queue, worker, past, faults>>
<1>1. handler[h].pc = pc /\ handler[h].pc \in Steps
  BY DEF Unsent, At
<1>2. handler[h] \in Request
  BY <1>1, HandlerForm DEF Steps
<1>3. handler[h].gen \in Gens
  BY <1>2, RequestForm
<1>4. AfterFailure(kind) \in {"none", "pending", "processing", "completed", "failed"}
  BY DEF AfterFailure
<1>5. status' = Set(handler[h].gen, AfterFailure(kind)) /\ Goes(h, Idle)
  BY DEF Unsent
<1>6. /\ status' \in [Gens -> {"none", "pending", "processing", "completed", "failed"}]
      /\ status'[handler[h].gen] = AfterFailure(kind)
      /\ \A f \in Gens : f # handler[h].gen => status'[f] = status[f]
  BY <1>3, <1>4, <1>5, SetType
<1>7. /\ handler' \in [Handlers -> {Idle, [pc |-> "create"]} \cup Request]
      /\ handler'[h] = Idle /\ \A k \in Handlers : k # h => handler'[k] = handler[k]
  BY <1>5, HandlerMoves
<1>8. UNCHANGED <<saved, plan, draft, batches, backlog, queue, worker, past, faults>>
  BY DEF Unsent
<1>9. Shapes'
  BY <1>6, <1>7, <1>8 DEF Shapes, past, faults
<1> QED
  BY <1>1, <1>2, <1>3, <1>6, <1>7, <1>8, <1>9

LEMMA CommitType ==
  ASSUME Shapes, NEW h \in Handlers, CommitSave(h)
  PROVE  Shapes'
<1>1. handler[h] \in Request
  BY HandlerForm DEF CommitSave, At
<1>2. handler[h].gen \in Gens /\ handler[h].read \in Copy
  BY <1>1, RequestForm
<1>3. backlog' \in [Gens -> Copy]
  BY <1>2 DEF CommitSave, Shapes
<1>4. batches' \in [Gens -> Nat] /\ saved' = {g \in Gens : batches'[g] > 0}
  BY <1>2 DEF CommitSave, Shapes, Stamped
<1>5. handler' \in [Handlers -> {Idle, [pc |-> "create"]} \cup Request]
  BY HandlerMoves DEF CommitSave
<1> QED
  BY <1>3, <1>4, <1>5 DEF CommitSave, Shapes, past, faults

LEMMA ReadDraftType ==
  ASSUME Shapes, NEW h \in Handlers, ReadDraft(h)
  PROVE  /\ handler[h] \in Request /\ handler[h].gen \in Gens
         /\ [r \in plan[handler[h].gen] |-> Content(draft[handler[h].gen][r])] \in Copy
         /\ handler'[h] = [pc |-> "commit", gen |-> handler[h].gen,
                           read |-> [r \in plan[handler[h].gen] |->
                                       Content(draft[handler[h].gen][r])]]
         /\ \A k \in Handlers : k # h => handler'[k] = handler[k]
         /\ handler'[h] \in Request
         /\ Shapes'
<1>1. handler[h] \in Request
  BY HandlerForm DEF ReadDraft, At
<1> DEFINE g == handler[h].gen
           f == [r \in plan[g] |-> Content(draft[g][r])]
<1>2. g \in Gens
  BY <1>1, RequestForm
<1>3. plan[g] \in SUBSET Rows /\ \A r \in Rows : Content(draft[g][r]) \in Contents
  BY <1>2 DEF Shapes, DraftRow, Content, Contents
<1>4. f \in [plan[g] -> Contents]
  BY <1>3
<1>5. f \in Copy
  BY <1>3, <1>4, MakesCopy
<1>6. [pc |-> "commit", gen |-> g, read |-> f] \in Request
  BY <1>2, <1>5, NewRequest DEF Steps
<1>7. Goes(h, [pc |-> "commit", gen |-> g, read |-> f])
  BY DEF ReadDraft
<1>8. /\ handler' \in [Handlers -> {Idle, [pc |-> "create"]} \cup Request]
      /\ handler'[h] = [pc |-> "commit", gen |-> g, read |-> f]
      /\ \A k \in Handlers : k # h => handler'[k] = handler[k]
  BY <1>6, <1>7, HandlerMoves
<1>9. Shapes'
  BY <1>8 DEF ReadDraft, Shapes, past, faults
<1> QED
  BY <1>1, <1>2, <1>5, <1>6, <1>8, <1>9

LEMMA RequestStepsType ==
  ASSUME Shapes, NEW h \in Handlers, RequestStep(h)
  PROVE  Shapes'
<1>0. ASSUME handler' \in [Handlers -> {Idle, [pc |-> "create"]} \cup Request],
             UNCHANGED <<saved, plan, draft, batches, backlog, queue, worker, past>>,
             status' \in [Gens -> {"none", "pending", "processing", "completed", "failed"}],
             losses' \in 0..MaxLosses /\ redelivered' \in 0..MaxRedelivered
      PROVE  Shapes'
  BY <1>0 DEF Shapes, past
<1>1. CASE EnqueueGeneration(h) \/ EnqueueRegeneration(h)
  BY <1>1, EnqueueMoves DEF EnqueueGeneration, EnqueueRegeneration, Steps
<1>10. CASE MarkUnqueued(h) \/ GiveBack(h)
  BY <1>10, UnsentMoves DEF MarkUnqueued, GiveBack, Steps
<1>2. CASE ReadDraft(h)
  BY <1>2, ReadDraftType
<1>3. CASE CommitSave(h)
  BY <1>3, CommitType
<1>4. CASE LoseHandler(h)
  BY <1>0, <1>4, HandlerMoves, LoseType DEF LoseHandler, Shapes, past
<1>5. CASE RequestPlan(h)
  BY <1>0, <1>5, HandlerMoves DEF RequestPlan, Shapes, past, faults
<1>6. CASE MarkRegenerating(h)
  <2>1. handler[h] \in Request /\ handler[h].gen \in Gens
    BY <1>6, HandlerForm, RequestForm DEF MarkRegenerating, At
  <2>2. handler' \in [Handlers -> {Idle, [pc |-> "create"]} \cup Request]
    BY <1>6, <2>1, ThenGoes DEF MarkRegenerating, Steps
  <2>3. status' \in [Gens -> {"none", "pending", "processing", "completed", "failed"}]
    BY <1>6, <2>1, SetType DEF MarkRegenerating
  <2> QED
    BY <1>0, <1>6, <2>2, <2>3 DEF MarkRegenerating, Shapes, past, faults
<1>7. CASE CheckComments(h)
  <2>1. handler[h] \in Request
    BY <1>7, HandlerForm DEF CheckComments, At
  <2>2. handler' \in [Handlers -> {Idle, [pc |-> "create"]} \cup Request]
    BY <1>7, <2>1, ThenGoes, HandlerMoves DEF CheckComments, Steps
  <2> QED
    BY <1>0, <1>7, <2>2 DEF CheckComments, Shapes, past, faults
<1>8. ASSUME NEW g \in Gens, CreateGeneration(h, g)
      PROVE  Shapes'
  <2>1. handler' \in [Handlers -> {Idle, [pc |-> "create"]} \cup Request]
    BY <1>8, NewRequest, NothingRead, HandlerMoves DEF CreateGeneration, Steps
  <2>2. status' \in [Gens -> {"none", "pending", "processing", "completed", "failed"}]
    BY <1>8, SetType DEF CreateGeneration
  <2> QED
    BY <1>0, <1>8, <2>1, <2>2 DEF CreateGeneration, Shapes, past, faults
<1>9. ASSUME NEW g \in Gens, CheckRegenerate(h, g) \/ CheckSave(h, g)
      PROVE  Shapes'
  <2>1. \E pc \in {"due", "draft"} : Goes(h, [pc |-> pc, gen |-> g, read |-> Nothing])
    BY <1>9 DEF CheckRegenerate, CheckSave, Serve
  <2>2. handler' \in [Handlers -> {Idle, [pc |-> "create"]} \cup Request]
    BY <2>1, NewRequest, NothingRead, HandlerMoves DEF Steps
  <2> QED
    BY <1>0, <1>9, <2>2 DEF CheckRegenerate, CheckSave, Shapes, past, faults
<1> QED
  BY <1>1, <1>2, <1>3, <1>4, <1>5, <1>6, <1>7, <1>8, <1>9, <1>10
  DEF RequestStep, HandlerStep

LEMMA GoesOnMoves ==
  ASSUME Shapes, NEW w \in Workers, worker[w] \in Task,
         NEW pc \in {"mark", "rows", "call", "finish", "fail"}, GoesOn(w, pc)
  PROVE  /\ worker' \in [Workers -> {Idle} \cup Task]
         /\ worker'[w] \in Task
         /\ worker'[w].pc = pc /\ worker'[w].msg = worker[w].msg
         /\ worker'[w].read = worker[w].read
         /\ \A v \in Workers : v # w => worker'[v] = worker[v]
<1> DEFINE t == [worker[w] EXCEPT !.pc = pc]
<1>1. Does(w, t)
  BY DEF GoesOn
<1>2. t \in Task /\ t.pc = pc /\ t.msg = worker[w].msg /\ t.read = worker[w].read
  BY TaskGoesOn
<1>3. /\ worker' \in [Workers -> {Idle} \cup Task]
      /\ worker'[w] = t
      /\ \A v \in Workers : v # w => worker'[v] = worker[v]
  BY <1>1, <1>2, WorkerMoves
<1> QED
  BY <1>2, <1>3

LEMMA RestMoves ==
  ASSUME Shapes, NEW w \in Workers, Does(w, Idle)
  PROVE  /\ worker' \in [Workers -> {Idle} \cup Task]
         /\ worker'[w] = Idle /\ worker'[w].pc = "idle"
         /\ \A v \in Workers : v # w => worker'[v] = worker[v]
  BY WorkerMoves DEF Idle

LEMMA NewTask ==
  ASSUME NEW pc \in {"mark", "rows", "call", "finish", "fail"},
         NEW m \in Message, NEW f \in Asked
  PROVE  [pc |-> pc, msg |-> m, read |-> f] \in Task
  BY DEF Task

LEMMA RetriedType ==
  ASSUME NEW m \in Message, m.try < MaxRetries
  PROVE  /\ Retried(m) \in Message
         /\ Retried(m).kind = m.kind /\ Retried(m).gen = m.gen
<1>1. m.try + 1 \in 0..MaxRetries
  BY PlanConstants DEF Message
<1> QED
  BY <1>1 DEF Retried, Message

\* A worker takes a message, which may be delivered again.
LEMMA StartMoves ==
  ASSUME Shapes, NEW w \in Workers, NEW m \in Message,
         NEW statuses, NEW pc \in {"mark", "rows"}, Start(w, m, statuses, pc)
  PROVE  /\ Shapes'
         /\ \A n \in Message : queue'[n] <= queue[n]
         /\ \/ worker'[w] = Idle
            \/ /\ worker'[w] \in Task
               /\ worker'[w].pc = pc /\ worker'[w].msg = m
               /\ DOMAIN worker'[w].read = {}
               /\ status[m.gen] \in statuses
         /\ \A v \in Workers : v # w => worker'[v] = worker[v]
         /\ worker[w].pc = "idle" /\ queue[m] > 0
         /\ UNCHANGED <<status, saved, plan, draft, batches, backlog, handler, past>>
<1> DEFINE t == [pc |-> pc, msg |-> m, read |-> Nothing]
           to == IF status[m.gen] \in statuses THEN t ELSE Idle
<1>1. t \in Task /\ t.pc = pc /\ t.msg = m /\ DOMAIN t.read = {}
  BY NewTask, NothingRead
<1>2. Does(w, to)
  BY DEF Start
<1>3. /\ worker' \in [Workers -> {Idle} \cup Task]
      /\ worker'[w] = to
      /\ \A v \in Workers : v # w => worker'[v] = worker[v]
  BY <1>1, <1>2, WorkerMoves
<1>4. queue' \in [Message -> Nat] /\ \A n \in Message : queue'[n] <= queue[n]
  <2>1. queue[m] \in Nat /\ queue[m] > 0
    BY DEF Start, Shapes
  <2>2. CASE queue' = queue
    BY <2>2 DEF Shapes
  <2>3. CASE queue' = Take(m)
    <3>1. queue[m] - 1 \in Nat
      BY <2>1
    <3>2. queue' \in [Message -> Nat]
      BY <2>3, <3>1 DEF Take, Shapes
    <3>3. queue'[m] = queue[m] - 1 /\ \A n \in Message : n # m => queue'[n] = queue[n]
      BY <2>3 DEF Take, Shapes
    <3>4. \A n \in Message : queue[n] \in Nat
      BY DEF Shapes
    <3> QED
      BY <2>1, <3>2, <3>3, <3>4
  <2> QED
    BY <2>2, <2>3 DEF Start
<1>5. losses' \in 0..MaxLosses /\ redelivered' \in 0..MaxRedelivered
  BY PlanConstants DEF Start, Shapes, past, faults
<1>6. Shapes'
  BY <1>3, <1>4, <1>5 DEF Start, Shapes, past
<1> QED
  BY <1>1, <1>3, <1>4, <1>6 DEF Start, In

\* What ReadComments finds.
LEMMA ReadCommentsMoves ==
  ASSUME Shapes, NEW w \in Workers, ReadComments(w)
  PROVE  /\ Shapes'
         /\ worker[w] \in Task /\ worker'[w] \in Task
         /\ worker'[w].msg = worker[w].msg
         /\ worker'[w].read = [r \in Commented(worker[w].msg.gen) |->
                                 draft[worker[w].msg.gen][r].comment]
         /\ worker'[w].pc = (IF Commented(worker[w].msg.gen) = {} THEN "finish" ELSE "call")
         /\ \A v \in Workers : v # w => worker'[v] = worker[v]
<1>1. worker[w] \in Task
  BY WorkerForm DEF ReadComments, In, Working
<1> DEFINE g == worker[w].msg.gen
           f == [r \in Commented(g) |-> draft[g][r].comment]
           pc == IF Commented(g) = {} THEN "finish" ELSE "call"
           t == [worker[w] EXCEPT !.pc = pc, !.read = f]
<1>2. g \in Gens
  BY <1>1, TaskForm
<1>3. Commented(g) \in SUBSET Rows
  BY <1>2 DEF Commented, Shapes
<1>4. \A r \in Rows : draft[g][r].comment \in 0..MaxComments
  BY <1>2 DEF Shapes, DraftRow
<1>5. f \in [Commented(g) -> 0..MaxComments]
  BY <1>3, <1>4
<1>6. f \in Asked
  BY <1>3, <1>5, MakesAsked
<1>7. pc \in {"mark", "rows", "call", "finish", "fail"}
  OBVIOUS
<1> HIDE DEF f, pc
<1>8. t \in Task /\ t.pc = pc /\ t.msg = worker[w].msg /\ t.read = f
  BY <1>1, <1>6, <1>7 DEF Task
<1>9. Does(w, t)
  BY DEF ReadComments, f, pc
<1> HIDE DEF t
<1>10. /\ worker' \in [Workers -> {Idle} \cup Task]
       /\ worker'[w] = t
       /\ \A v \in Workers : v # w => worker'[v] = worker[v]
  BY <1>8, <1>9, WorkerMoves
<1>11. Shapes'
  BY <1>10 DEF ReadComments, Shapes, past, faults
<1> QED
  BY <1>1, <1>8, <1>10, <1>11 DEF f, pc

\* What rewriting makes of the rows: only those that were read change.
LEMMA AppliedRows ==
  ASSUME Shapes, NEW t \in Task,
         \A r \in DOMAIN t.read : t.read[r] <= draft[t.msg.gen][r].comment
  PROVE  /\ Applied(t.msg.gen, t.read) \in [Rows -> DraftRow]
         /\ \A r \in Rows \ DOMAIN t.read :
              Applied(t.msg.gen, t.read)[r] = draft[t.msg.gen][r]
         /\ \A r \in DOMAIN t.read :
              LET d == draft[t.msg.gen][r]
                  e == Applied(t.msg.gen, t.read)[r] IN
              /\ e.comment = d.comment /\ e.resolved = TRUE
              /\ e.basis = t.read[r] /\ e.revised = d.revised + 1
<1> DEFINE g == t.msg.gen
<1>1. g \in Gens /\ DOMAIN t.read \subseteq Rows /\ \A r \in DOMAIN t.read : t.read[r] \in Nat
  BY TaskForm
<1>2. ASSUME NEW r \in DOMAIN t.read
      PROVE  LET d == draft[g][r]
                 e == Rewritten(d, t.read[r]) IN
             /\ e \in DraftRow
             /\ e.comment = d.comment /\ e.resolved = TRUE
             /\ e.basis = t.read[r] /\ e.revised = d.revised + 1
  <2>1. draft[g][r] \in DraftRow
    BY <1>1 DEF Shapes
  <2>2. t.read[r] \in 0..MaxComments
    <3>1. draft[g][r].comment \in 0..MaxComments
      BY <2>1 DEF DraftRow
    <3> QED
      BY <1>1, <3>1, PlanConstants
  <2>3. draft[g][r].revised + 1 \in Nat
    BY <2>1 DEF DraftRow
  <2> QED
    BY <2>1, <2>2, <2>3 DEF Rewritten, DraftRow
<1>3. \A r \in DOMAIN t.read : Applied(g, t.read)[r] = Rewritten(draft[g][r], t.read[r])
  BY <1>1 DEF Applied
<1>4. \A r \in Rows \ DOMAIN t.read : Applied(g, t.read)[r] = draft[g][r]
  BY DEF Applied
<1>5. ASSUME NEW r \in Rows PROVE Applied(g, t.read)[r] \in DraftRow
  <2>1. CASE r \in DOMAIN t.read
    BY <1>2, <1>3, <2>1
  <2>2. CASE r \notin DOMAIN t.read
    <3>1. draft[g][r] \in DraftRow
      BY <1>1 DEF Shapes
    <3> QED
      BY <1>4, <2>2, <3>1
  <2> QED
    BY <2>1, <2>2
<1>6. Applied(g, t.read) \in [Rows -> DraftRow]
  BY <1>5 DEF Applied
<1> QED
  BY <1>2, <1>3, <1>4, <1>6

\* A step of a task that goes on, or ends, and touches nothing but its status
\* and its message.
LEMMA TaskTurnsType ==
  ASSUME TypeInv, NEW w \in Workers,
         MarkGenerating(w) \/ Retry(w) \/ GiveUp(w) \/ Raise(w) \/ FinishTask(w)
           \/ LoseWorker(w)
  PROVE  Shapes'
<1> DEFINE m == worker[w].msg
<1>1. worker[w] \in Task /\ Working(w)
  BY WorkerForm DEF MarkGenerating, Retry, GiveUp, Raise, FinishTask, LoseWorker, In,
                    Working, TypeInv
<1>2. m \in Message /\ m.gen \in Gens /\ m.kind \in {"generate", "revise"}
  BY <1>1, TaskForm
<1> USE DEF TypeInv
<1>3. ASSUME worker' \in [Workers -> {Idle} \cup Task],
             UNCHANGED <<saved, plan, draft, batches, backlog, handler, past>>,
             status' \in [Gens -> {"none", "pending", "processing", "completed", "failed"}],
             queue' \in [Message -> Nat],
             losses' \in 0..MaxLosses /\ redelivered' \in 0..MaxRedelivered
      PROVE  Shapes'
  BY <1>3 DEF Shapes, past
<1>4. CASE MarkGenerating(w)
  <2>1. status' \in [Gens -> {"none", "pending", "processing", "completed", "failed"}]
    BY <1>2, <1>4, SetType DEF MarkGenerating
  <2>2. worker' \in [Workers -> {Idle} \cup Task]
    BY <1>1, <1>4, GoesOnMoves DEF MarkGenerating
  <2> QED
    BY <1>3, <1>4, <2>1, <2>2 DEF MarkGenerating, Shapes, past, faults
<1>5. CASE Retry(w)
  <2>1. Retried(m) \in Message
    BY <1>2, <1>5, RetriedType DEF Retry
  <2>2. queue' \in [Message -> Nat]
    BY <1>5, <2>1, PutType DEF Retry
  <2>3. worker' \in [Workers -> {Idle} \cup Task]
    BY <1>5, RestMoves DEF Retry
  <2> QED
    BY <1>3, <1>5, <2>2, <2>3 DEF Retry, Shapes, past, faults
<1>6. CASE GiveUp(w)
  BY <1>1, <1>3, <1>6, GoesOnMoves DEF GiveUp, Shapes, past, faults
<1>7. CASE Raise(w)
  BY <1>3, <1>7, RestMoves DEF Raise, Shapes, past, faults
<1>8. CASE FinishTask(w)
  <2>1. AfterFailure(m.kind) \in {"none", "pending", "processing", "completed", "failed"}
    BY DEF AfterFailure
  <2>2. status' \in [Gens -> {"none", "pending", "processing", "completed", "failed"}]
    BY <1>2, <1>8, <2>1, SetType DEF FinishTask
  <2>3. worker' \in [Workers -> {Idle} \cup Task]
    BY <1>8, RestMoves DEF FinishTask
  <2> QED
    BY <1>3, <1>8, <2>2, <2>3 DEF FinishTask, Shapes, past, faults
<1>9. CASE LoseWorker(w)
  BY <1>3, <1>9, RestMoves, LoseType DEF LoseWorker, Shapes, past
<1> QED
  BY <1>4, <1>5, <1>6, <1>7, <1>8, <1>9

LEMMA StorePlanType ==
  ASSUME Shapes, NEW w \in Workers, NEW P \in SUBSET Rows, StorePlan(w, P)
  PROVE  /\ Shapes'
         /\ worker[w] \in Task
         /\ worker'[w] = Idle \/ (worker'[w] \in Task /\ worker'[w].pc = "finish"
                                   /\ worker'[w].msg = worker[w].msg)
         /\ \A v \in Workers : v # w => worker'[v] = worker[v]
         /\ \A g \in Gens : plan[g] \subseteq plan'[g]
<1>1. worker[w] \in Task
  BY WorkerForm DEF StorePlan, In, Working
<1> DEFINE g == worker[w].msg.gen
<1>2. g \in Gens
  BY <1>1, TaskForm
<1>3. /\ worker' \in [Workers -> {Idle} \cup Task]
      /\ worker'[w] = Idle \/ (worker'[w] \in Task /\ worker'[w].pc = "finish"
                                /\ worker'[w].msg = worker[w].msg)
      /\ \A v \in Workers : v # w => worker'[v] = worker[v]
  BY <1>1, GoesOnMoves, RestMoves DEF StorePlan
<1>4. plan' \in [Gens -> SUBSET Rows] /\ \A f \in Gens : plan[f] \subseteq plan'[f]
  BY <1>2 DEF StorePlan, Shapes
<1>6. twice' \in SUBSET (Gens \X Rows)
  <2>1. twice' = twice \/ twice' = twice \cup ({g} \X P)
    BY DEF StorePlan
  <2>2. {g} \X P \subseteq Gens \X Rows
    BY <1>2
  <2> QED
    BY <2>1, <2>2 DEF Shapes
<1>5. Shapes'
  BY <1>3, <1>4, <1>6 DEF StorePlan, Shapes, faults
<1> QED
  BY <1>1, <1>3, <1>4, <1>5

\* What a rewriting leaves of the other generations, and of the other rows.
LEMMA ApplyRevisionMoves ==
  ASSUME TypeInv, NEW w \in Workers, ApplyRevision(w)
  PROVE  /\ Shapes'
         /\ worker[w] \in Task /\ worker'[w] \in Task /\ worker'[w].pc = "finish"
         /\ worker'[w].msg = worker[w].msg
         /\ \A v \in Workers : v # w => worker'[v] = worker[v]
         /\ \A g \in Gens, r \in Rows :
              LET d == draft[g][r]
                  e == draft'[g][r] IN
              IF g = worker[w].msg.gen /\ r \in DOMAIN worker[w].read
                THEN /\ e.comment = d.comment /\ e.resolved = TRUE
                     /\ e.basis = worker[w].read[r] /\ e.revised = d.revised + 1
                ELSE e = d
<1> USE DEF TypeInv
<1>1. worker[w] \in Task
  BY WorkerForm DEF ApplyRevision, In, Working
<1> DEFINE f == worker[w].msg.gen
           read == worker[w].read
<1>2. f \in Gens /\ DOMAIN read \subseteq Rows
  BY <1>1, TaskForm
<1>3. \A r \in DOMAIN read : read[r] <= draft[f][r].comment
  BY DEF TasksFit, Fits, ApplyRevision, In, Working
<1>4. draft' = [draft EXCEPT ![f] = Applied(f, read)]
  BY DEF ApplyRevision
<1>5. /\ Applied(f, read) \in [Rows -> DraftRow]
      /\ \A r \in Rows \ DOMAIN read : Applied(f, read)[r] = draft[f][r]
      /\ \A r \in DOMAIN read :
           LET d == draft[f][r]
               e == Applied(f, read)[r] IN
           /\ e.comment = d.comment /\ e.resolved = TRUE
           /\ e.basis = read[r] /\ e.revised = d.revised + 1
  BY <1>1, <1>3, AppliedRows
<1>6. draft' \in [Gens -> [Rows -> DraftRow]]
  BY <1>2, <1>4, <1>5 DEF Shapes
<1>7. draft'[f] = Applied(f, read) /\ \A g \in Gens : g # f => draft'[g] = draft[g]
  BY <1>2, <1>4 DEF Shapes
<1>8. /\ worker' \in [Workers -> {Idle} \cup Task]
      /\ worker'[w] \in Task /\ worker'[w].pc = "finish" /\ worker'[w].msg = worker[w].msg
      /\ \A v \in Workers : v # w => worker'[v] = worker[v]
  BY <1>1, GoesOnMoves DEF ApplyRevision
<1>11. twice' \in SUBSET (Gens \X Rows)
  <2> DEFINE Q == {r \in DOMAIN read : read[r] <= draft[f][r].basis}
  <2>1. twice' = twice \cup ({f} \X Q)
    BY DEF ApplyRevision
  <2>2. Q \subseteq Rows
    BY <1>2
  <2> HIDE DEF Q
  <2> QED
    BY <1>2, <2>1, <2>2 DEF Shapes
<1>9. Shapes'
  BY <1>6, <1>8, <1>11 DEF ApplyRevision, Shapes, faults
<1>10. ASSUME NEW g \in Gens, NEW r \in Rows
       PROVE  LET d == draft[g][r]
                  e == draft'[g][r] IN
              IF g = f /\ r \in DOMAIN read
                THEN /\ e.comment = d.comment /\ e.resolved = TRUE
                     /\ e.basis = read[r] /\ e.revised = d.revised + 1
                ELSE e = d
  <2>1. CASE g = f /\ r \in DOMAIN read
    BY <1>5, <1>7, <2>1
  <2>2. CASE g = f /\ r \notin DOMAIN read
    BY <1>5, <1>7, <2>2
  <2>3. CASE g # f
    BY <1>7, <2>3
  <2> QED
    BY <2>1, <2>2, <2>3
<1> QED
  BY <1>1, <1>8, <1>9, <1>10

LEMMA CommentMoves ==
  ASSUME Shapes, NEW g \in Gens, NEW r \in Rows, Comment(g, r)
  PROVE  /\ Shapes'
         /\ draft'[g][r].comment = draft[g][r].comment + 1
         /\ draft'[g][r].resolved = FALSE
         /\ draft'[g][r].revised = draft[g][r].revised
         /\ draft'[g][r].basis = draft[g][r].basis
         /\ \A f \in Gens, q \in Rows : f # g \/ q # r => draft'[f][q] = draft[f][q]
<1>1. draft[g][r] \in DraftRow
  BY DEF Shapes
<1> DEFINE e == [draft[g][r] EXCEPT !.comment = @ + 1, !.resolved = FALSE]
<1>2. draft[g][r].comment + 1 \in 0..MaxComments
  BY <1>1, PlanConstants DEF DraftRow, Comment
<1>3. /\ e \in DraftRow /\ e.comment = draft[g][r].comment + 1 /\ e.resolved = FALSE
      /\ e.revised = draft[g][r].revised /\ e.basis = draft[g][r].basis
  BY <1>1, <1>2 DEF DraftRow
<1>4. draft' = [draft EXCEPT ![g] = [draft[g] EXCEPT ![r] = e]]
  BY DEF Comment, Shapes
<1> HIDE DEF e
<1>5. /\ draft' \in [Gens -> [Rows -> DraftRow]]
      /\ draft'[g][r] = e
      /\ \A f \in Gens, q \in Rows : f # g \/ q # r => draft'[f][q] = draft[f][q]
  BY <1>3, <1>4 DEF Shapes
<1>6. late' \in SUBSET (Gens \X Rows)
  BY DEF Comment, Shapes
<1>7. Shapes'
  BY <1>5, <1>6 DEF Comment, Shapes, past, faults
<1> QED
  BY <1>3, <1>5, <1>7

LEMMA WorkerStepsType ==
  ASSUME TypeInv, NEW w \in Workers, WorkerStep(w) \/ LoseWorker(w)
  PROVE  Shapes'
<1> USE DEF TypeInv
<1>1. ASSUME NEW m \in Message, StartGeneration(w, m) \/ StartRevision(w, m)
      PROVE  Shapes'
  BY <1>1, StartMoves DEF StartGeneration, StartRevision
<1>2. CASE MarkGenerating(w) \/ Retry(w) \/ GiveUp(w) \/ Raise(w) \/ FinishTask(w)
             \/ LoseWorker(w)
  BY <1>2, TaskTurnsType
<1>3. CASE ReadComments(w)
  BY <1>3, ReadCommentsMoves
<1>4. CASE ApplyRevision(w)
  BY <1>4, ApplyRevisionMoves
<1>5. ASSUME NEW P \in SUBSET Rows, StorePlan(w, P)
      PROVE  Shapes'
  BY <1>5, StorePlanType
<1> QED
  BY <1>1, <1>2, <1>3, <1>4, <1>5 DEF WorkerStep

LEMMA NextCases ==
  ASSUME Next
  PROVE  \/ \E h \in Handlers : RequestStep(h)
         \/ \E g \in Gens, r \in Rows : Comment(g, r)
         \/ \E w \in Workers : WorkerStep(w) \/ LoseWorker(w)
  BY DEF Next, RequestStep

\* Requests touch neither the rows of a plan nor the workers.
LEMMA RequestsLeave ==
  ASSUME NEW h \in Handlers, RequestStep(h)
  PROVE  UNCHANGED <<plan, draft, worker, late, twice>>
  BY DEF RequestStep, HandlerStep, EnqueueGeneration, EnqueueRegeneration, Enqueue,
         MarkUnqueued, GiveBack, Unsent, past, CheckComments, MarkRegenerating, ReadDraft, CommitSave, CreateGeneration,
         LoseHandler, RequestPlan, CheckRegenerate, CheckSave

\* Workers touch neither the requests nor the backlog.
LEMMA WorkersLeave ==
  ASSUME NEW w \in Workers, WorkerStep(w) \/ LoseWorker(w)
  PROVE  UNCHANGED <<saved, batches, backlog, handler, late>>
  BY DEF WorkerStep, LoseWorker, StartGeneration, StartRevision, Start, MarkGenerating,
         ReadComments, Retry, GiveUp, Raise, ApplyRevision, FinishTask, StorePlan, past

\* A worker that was working and turns to another step, or stops; the rows
\* stay.
LEMMA TaskTurns ==
  ASSUME TypeInv, NEW w \in Workers,
         MarkGenerating(w) \/ Retry(w) \/ GiveUp(w) \/ Raise(w) \/ FinishTask(w)
           \/ LoseWorker(w)
  PROVE  /\ worker[w] \in Task
         /\ \/ worker'[w] = Idle /\ worker'[w].pc = "idle"
            \/ /\ worker'[w] \in Task /\ worker'[w].msg = worker[w].msg
               /\ worker'[w].read = worker[w].read
               /\ \/ worker[w].pc = "mark" /\ worker'[w].pc = "call"
                  \/ worker[w].pc = "call" /\ worker'[w].pc = "fail"
         /\ \A v \in Workers : v # w => worker'[v] = worker[v]
         /\ UNCHANGED <<plan, draft>>
<1>1. worker[w] \in Task
  BY WorkerForm DEF MarkGenerating, Retry, GiveUp, Raise, FinishTask, LoseWorker, In,
                    Working, TypeInv
<1>2. CASE MarkGenerating(w)
  BY <1>1, <1>2, GoesOnMoves DEF MarkGenerating, In, TypeInv
<1>3. CASE GiveUp(w)
  BY <1>1, <1>3, GoesOnMoves DEF GiveUp, In, TypeInv
<1>4. CASE Retry(w) \/ Raise(w) \/ FinishTask(w) \/ LoseWorker(w)
  BY <1>1, <1>4, RestMoves DEF Retry, Raise, FinishTask, LoseWorker, TypeInv
<1> QED
  BY <1>2, <1>3, <1>4

LEMMA WorkerStepsFit ==
  ASSUME TypeInv, NEW w \in Workers, WorkerStep(w) \/ LoseWorker(w)
  PROVE  TasksFit'
<1> USE DEF TypeInv
<1>0. Fits(w)
  BY DEF TasksFit
<1>a. ASSUME draft' = draft, \A v \in Workers : v # w => worker'[v] = worker[v], Fits(w)'
      PROVE  TasksFit'
  BY <1>a DEF TasksFit, Fits, Working
<1>1. ASSUME NEW m \in Message, StartGeneration(w, m) \/ StartRevision(w, m)
      PROVE  TasksFit'
  <2>1. CASE StartGeneration(w, m)
    <3>1. m.kind = "generate" /\ Start(w, m, {"pending", "processing"}, "mark")
      BY <2>1 DEF StartGeneration
    <3>2. Fits(w)'
      BY <3>1, StartMoves DEF Fits, Working, Idle
    <3> QED
      BY <1>a, <3>1, <3>2, StartMoves
  <2>2. CASE StartRevision(w, m)
    <3>1. m.kind = "revise" /\ Start(w, m, {"processing"}, "rows")
      BY <2>2 DEF StartRevision
    <3>2. Fits(w)'
      BY <3>1, StartMoves DEF Fits, Working, Idle
    <3> QED
      BY <1>a, <3>1, <3>2, StartMoves
  <2> QED
    BY <1>1, <2>1, <2>2
<1>2. CASE MarkGenerating(w) \/ Retry(w) \/ GiveUp(w) \/ Raise(w) \/ FinishTask(w)
             \/ LoseWorker(w)
  <2>1. Fits(w)'
    BY <1>0, <1>2, TaskTurns, TaskForm DEF Fits, Working
  <2> QED
    BY <1>2, <1>a, <2>1, TaskTurns
<1>3. CASE ReadComments(w)
  <2>1. draft' = draft
    BY <1>3 DEF ReadComments
  <2>2. worker[w].msg.gen \in Gens /\ Commented(worker[w].msg.gen) \subseteq Rows
    BY <1>3, ReadCommentsMoves, TaskForm DEF Commented, Shapes
  <2>3. \A r \in Rows : draft[worker[w].msg.gen][r].comment \in Nat
    BY <2>2, PlanConstants DEF Shapes, DraftRow
  <2>4. /\ worker'[w].pc \in {"call", "finish"}
        /\ worker'[w].msg = worker[w].msg
        /\ \A r \in DOMAIN worker'[w].read :
             r \in Rows /\ worker'[w].read[r] = draft[worker[w].msg.gen][r].comment
    BY <1>3, <2>2, ReadCommentsMoves
  <2>5. Fits(w)'
    BY <2>1, <2>3, <2>4 DEF Fits
  <2> QED
    BY <1>3, <1>a, <2>1, <2>5, ReadCommentsMoves
<1>4. CASE ApplyRevision(w)
  <2>1. \A g \in Gens, r \in Rows : draft'[g][r].comment = draft[g][r].comment
    BY <1>4, ApplyRevisionMoves
  <2>2. ASSUME NEW v \in Workers PROVE Fits(v)'
    <3>1. CASE v = w
      BY <1>4, <3>1, ApplyRevisionMoves DEF Fits
    <3>2. CASE v # w /\ Working(v)
      <4>1. worker[v] \in Task /\ worker'[v] = worker[v]
        BY <1>4, <3>2, WorkerForm, ApplyRevisionMoves
      <4>2. worker[v].msg.gen \in Gens /\ DOMAIN worker[v].read \subseteq Rows
        BY <4>1, TaskForm
      <4>3. Fits(v)
        BY DEF TasksFit
      <4> QED
        BY <2>1, <4>1, <4>2, <4>3 DEF Fits, Working
    <3>3. CASE v # w /\ ~Working(v)
      BY <1>4, <3>3, ApplyRevisionMoves DEF Fits, Working
    <3> QED
      BY <3>1, <3>2, <3>3
  <2> QED
    BY <2>2 DEF TasksFit
<1>5. ASSUME NEW P \in SUBSET Rows, StorePlan(w, P)
      PROVE  TasksFit'
  <2>1. draft' = draft
    BY <1>5 DEF StorePlan
  <2>2. Fits(w)'
    BY <1>5, StorePlanType DEF Fits, Working, Idle
  <2> QED
    BY <1>5, <1>a, <2>1, <2>2, StorePlanType
<1> QED
  BY <1>1, <1>2, <1>3, <1>4, <1>5 DEF WorkerStep

LEMMA CommentFits ==
  ASSUME TypeInv, NEW g \in Gens, NEW r \in Rows, Comment(g, r)
  PROVE  TasksFit'
<1> USE DEF TypeInv
<1>1. worker' = worker
  BY DEF Comment
<1>2. ASSUME NEW v \in Workers PROVE Fits(v)'
  <2>1. CASE ~Working(v)
    BY <1>1, <2>1 DEF Fits, Working
  <2>2. CASE Working(v)
    <3>1. worker[v] \in Task
      BY <2>2, WorkerForm
    <3>2. worker[v].msg.gen \in Gens /\ DOMAIN worker[v].read \subseteq Rows
      BY <3>1, TaskForm
    <3>3. \A q \in DOMAIN worker[v].read : worker[v].read[q] \in Nat
      BY <3>1, TaskForm
    <3>4. \A f \in Gens, q \in Rows :
            draft[f][q].comment \in Nat /\ draft'[f][q].comment \in Nat
              /\ draft[f][q].comment <= draft'[f][q].comment
      <4>1. \A f \in Gens, q \in Rows : draft[f][q].comment \in Nat
        BY PlanConstants DEF Shapes, DraftRow
      <4>2. draft'[g][r].comment = draft[g][r].comment + 1
        BY CommentMoves
      <4>3. \A f \in Gens, q \in Rows : f # g \/ q # r => draft'[f][q] = draft[f][q]
        BY CommentMoves
      <4>4. ASSUME NEW f \in Gens, NEW q \in Rows
            PROVE  draft'[f][q].comment \in Nat /\ draft[f][q].comment <= draft'[f][q].comment
        <5>1. CASE f = g /\ q = r
          BY <4>1, <4>2, <5>1
        <5>2. CASE f # g \/ q # r
          BY <4>1, <4>3, <5>2
        <5> QED
          BY <5>1, <5>2
      <4> QED
        BY <4>1, <4>4
    <3>5. Fits(v)
      BY DEF TasksFit
    <3> QED
      BY <1>1, <2>2, <3>2, <3>3, <3>4, <3>5 DEF Fits, Working
  <2> QED
    BY <2>1, <2>2
<1> QED
  BY <1>2 DEF TasksFit

LEMMA NextType == TypeInv /\ [Next]_vars => TypeInv'
<1> SUFFICES ASSUME TypeInv, [Next]_vars PROVE TypeInv'
  OBVIOUS
<1>1. ASSUME NEW h \in Handlers, RequestStep(h)
      PROVE  TypeInv'
  <2>1. Shapes'
    BY <1>1, RequestStepsType DEF TypeInv
  <2>2. TasksFit'
    BY <1>1, RequestsLeave DEF TypeInv, TasksFit, Fits, Working
  <2> QED
    BY <2>1, <2>2 DEF TypeInv
<1>2. ASSUME NEW g \in Gens, NEW r \in Rows, Comment(g, r)
      PROVE  TypeInv'
  BY <1>2, CommentMoves, CommentFits DEF TypeInv
<1>3. ASSUME NEW w \in Workers, WorkerStep(w) \/ LoseWorker(w)
      PROVE  TypeInv'
  BY <1>3, WorkerStepsType, WorkerStepsFit DEF TypeInv
<1>4. CASE UNCHANGED vars
  BY <1>4 DEF TypeInv, Shapes, TasksFit, Fits, Working, vars
<1> QED
  BY <1>1, <1>2, <1>3, <1>4, NextCases

LEMMA TypeInvariant == Spec => []TypeInv
  BY InitType, NextType, PTL DEF Spec

LEMMA ShapesGiveTypes == Shapes => TypeOK
<1> SUFFICES ASSUME Shapes PROVE TypeOK
  OBVIOUS
<1>1. DOMAIN backlog = Gens /\ \A g \in Gens : IsReading(backlog[g], Contents)
  BY AreReadings DEF Shapes
<1>2. ASSUME NEW w \in Workers
      PROVE  \/ worker[w] = Idle
             \/ /\ worker[w].pc \in {"mark", "rows", "call", "finish", "fail"}
                /\ worker[w].msg \in Message
                /\ IsReading(worker[w].read, 0..MaxComments)
  BY WorkerForm, TaskForm, AreReadings
<1>3. ASSUME NEW h \in Handlers
      PROVE  \/ handler[h] \in {Idle, [pc |-> "create"]}
             \/ /\ handler[h].pc \in Steps
                /\ handler[h].gen \in Gens
                /\ IsReading(handler[h].read, Contents)
  <2>1. handler[h] \in {Idle, [pc |-> "create"]} \/ handler[h] \in Request
    BY DEF Shapes
  <2>2. handler[h] \in Request
          => handler[h].pc \in Steps
    BY DEF Request
  <2> QED
    BY <2>1, <2>2, RequestForm, AreReadings
<1>4. DOMAIN worker = Workers /\ DOMAIN handler = Handlers
  BY DEF Shapes
<1> QED
  BY <1>1, <1>2, <1>3, <1>4 DEF Shapes, TypeOK, Steps

\* The tables, the broker and the processes always have the form TypeOK says.
THEOREM TypeCorrect == Spec => []TypeOK
  BY TypeInvariant, ShapesGiveTypes, PTL DEF TypeInv

-----------------------------------------------------------------------------
(* A complete generation has a plan *)

\* A revision is asked for, queued and worked on only where there is a plan, and
\* a task that is about to report its work done has stored one.
MessagesHavePlan ==
  \A m \in Message : m.kind = "revise" /\ queue[m] > 0 => plan[m.gen] # {}

TasksHavePlan ==
  \A w \in Workers :
    Working(w) /\ (worker[w].pc = "finish" \/ worker[w].msg.kind = "revise")
      => plan[worker[w].msg.gen] # {}

RequestsHavePlan ==
  \A h \in Handlers :
    handler[h].pc \in {"due", "revise", "push", "unpushed", "draft", "commit"}
      => plan[handler[h].gen] # {}

PlansExist == CompletedHasPlan /\ MessagesHavePlan /\ TasksHavePlan /\ RequestsHavePlan

LEMMA InitPlans == Init => PlansExist
  BY DEF Init, PlansExist, CompletedHasPlan, MessagesHavePlan, TasksHavePlan,
         RequestsHavePlan, Working, Idle

LEMMA EnqueuePlans ==
  ASSUME Shapes, PlansExist, NEW h \in Handlers,
         EnqueueGeneration(h) \/ EnqueueRegeneration(h)
  PROVE  PlansExist'
<1>1. PICK pc \in Steps, unsent \in Steps, kind \in {"generate", "revise"} :
        /\ Enqueue(h, pc, kind, unsent)
        /\ (kind = "revise" \/ unsent = "unpushed") => pc = "push"
        /\ unsent \in {"unqueued", "unpushed"}
  <2>1. CASE EnqueueGeneration(h)
    BY <2>1 DEF EnqueueGeneration, Steps
  <2>2. CASE EnqueueRegeneration(h)
    BY <2>2 DEF EnqueueRegeneration, Steps
  <2> QED
    BY <2>1, <2>2
<1> DEFINE g == handler[h].gen
<1> USE <1>1
<1>2. /\ handler[h].pc = pc /\ g \in Gens
      /\ \A n \in Message : n.kind # kind \/ n.gen # g => queue'[n] = queue[n]
      /\ handler'[h] = Idle \/ (handler'[h].pc = unsent /\ handler'[h].gen = g)
      /\ \A k \in Handlers : k # h => handler'[k] = handler[k]
      /\ UNCHANGED <<status, plan, worker>>
  <2>1. handler[h].pc = pc /\ g \in Gens
    BY EnqueueMoves
  <2>2. \A n \in Message : n.kind # kind \/ n.gen # g => queue'[n] = queue[n]
    BY EnqueueMoves
  <2>3. handler'[h] = Idle \/ (handler'[h].pc = unsent /\ handler'[h].gen = g)
    BY EnqueueMoves
  <2>4. \A k \in Handlers : k # h => handler'[k] = handler[k]
    BY EnqueueMoves
  <2>5. UNCHANGED <<status, plan, worker>>
    BY DEF Enqueue
  <2> QED
    BY <2>1, <2>2, <2>3, <2>4, <2>5
<1>3. pc = "push" => plan[g] # {}
  BY <1>2 DEF PlansExist, RequestsHavePlan
<1>4. CompletedHasPlan' /\ TasksHavePlan'
  BY <1>2 DEF PlansExist, CompletedHasPlan, TasksHavePlan, Working
<1>5. MessagesHavePlan'
  BY <1>1, <1>2, <1>3 DEF PlansExist, MessagesHavePlan
<1>6. RequestsHavePlan'
  <2>1. handler'[h].pc = "unpushed" => plan[g] # {} /\ handler'[h].gen = g
    BY <1>1, <1>2, <1>3 DEF Idle
  <2>2. handler'[h].pc \in {"idle", "unqueued", "unpushed"}
    BY <1>1, <1>2 DEF Idle
  <2> QED
    BY <1>2, <2>1, <2>2 DEF PlansExist, RequestsHavePlan
<1> QED
  BY <1>4, <1>5, <1>6 DEF PlansExist

LEMMA UnsentPlans ==
  ASSUME Shapes, PlansExist, NEW h \in Handlers, MarkUnqueued(h) \/ GiveBack(h)
  PROVE  PlansExist'
<1>1. PICK pc \in Steps, kind \in {"generate", "revise"} :
        Unsent(h, pc, kind) /\ (kind = "revise" => pc = "unpushed")
  BY DEF MarkUnqueued, GiveBack, Steps
<1> DEFINE g == handler[h].gen
<1>2. /\ handler[h].pc = pc /\ g \in Gens
      /\ status'[g] = AfterFailure(kind)
      /\ \A f \in Gens : f # g => status'[f] = status[f]
      /\ handler'[h] = Idle /\ \A k \in Handlers : k # h => handler'[k] = handler[k]
      /\ UNCHANGED <<plan, queue, worker>>
  BY <1>1, UnsentMoves
<1>3. kind = "revise" => plan[g] # {}
  BY <1>1, <1>2 DEF PlansExist, RequestsHavePlan
<1>4. CompletedHasPlan'
  BY <1>1, <1>2, <1>3 DEF PlansExist, CompletedHasPlan, AfterFailure
<1>5. MessagesHavePlan' /\ TasksHavePlan'
  BY <1>2 DEF PlansExist, MessagesHavePlan, TasksHavePlan, Working
<1>6. RequestsHavePlan'
  BY <1>2 DEF PlansExist, RequestsHavePlan, Idle
<1> QED
  BY <1>4, <1>5, <1>6 DEF PlansExist

LEMMA RequestStepsPlans ==
  ASSUME Shapes, PlansExist, NEW h \in Handlers, RequestStep(h)
  PROVE  PlansExist'
<1>0. UNCHANGED <<plan, worker>>
  BY RequestsLeave
<1>a. ASSUME \A k \in Handlers : k # h => handler'[k] = handler[k],
             handler'[h].pc \in {"due", "revise", "push", "unpushed", "draft", "commit"}
               => handler'[h].gen \in Gens /\ plan[handler'[h].gen] # {},
             \A g \in Gens : status'[g] = "completed" => status[g] = "completed",
             queue' = queue
      PROVE  PlansExist'
  <2>1. RequestsHavePlan'
    BY <1>0, <1>a DEF PlansExist, RequestsHavePlan
  <2> QED
    BY <1>0, <1>a, <2>1
    DEF PlansExist, CompletedHasPlan, MessagesHavePlan, TasksHavePlan, Working
<1>1. CASE EnqueueGeneration(h) \/ EnqueueRegeneration(h)
  BY <1>1, EnqueuePlans
<1>9. CASE MarkUnqueued(h) \/ GiveBack(h)
  BY <1>9, UnsentPlans
<1>2. CASE CheckComments(h)
  <2>1. handler[h] \in Request /\ handler[h].gen \in Gens /\ plan[handler[h].gen] # {}
    BY <1>2, HandlerForm, RequestForm DEF CheckComments, At, PlansExist, RequestsHavePlan
  <2>2. CASE Then(h, "revise")
    BY <1>2, <1>a, <2>1, <2>2, ThenGoes DEF CheckComments, Steps
  <2>3. CASE Goes(h, Idle)
    BY <1>2, <1>a, <2>3, HandlerMoves DEF CheckComments, Idle
  <2> QED
    BY <1>2, <2>2, <2>3 DEF CheckComments
<1>3. CASE MarkRegenerating(h)
  <2>1. handler[h] \in Request /\ handler[h].gen \in Gens /\ plan[handler[h].gen] # {}
    BY <1>3, HandlerForm, RequestForm DEF MarkRegenerating, At, PlansExist, RequestsHavePlan
  <2>2. \A g \in Gens : status'[g] = "completed" => status[g] = "completed"
    <3>1. status' = Set(handler[h].gen, "processing")
      BY <1>3 DEF MarkRegenerating
    <3> QED
      BY <2>1, <3>1 DEF Set, Shapes
  <2> QED
    BY <1>3, <1>a, <2>1, <2>2, ThenGoes DEF MarkRegenerating, Steps
<1>4. CASE ReadDraft(h)
  <2>1. handler[h] \in Request /\ handler[h].gen \in Gens
    BY <1>4, HandlerForm, RequestForm DEF ReadDraft, At
  <2>2. PICK f \in Copy :
          /\ handler'[h] = [pc |-> "commit", gen |-> handler[h].gen, read |-> f]
          /\ \A k \in Handlers : k # h => handler'[k] = handler[k]
    BY <1>4, ReadDraftType
  <2>4. handler'[h].gen = handler[h].gen
    BY <2>2
  <2> QED
    BY <1>4, <1>a, <2>1, <2>2, <2>4 DEF ReadDraft
<1>5. CASE CommitSave(h) \/ LoseHandler(h)
  BY <1>5, <1>a, HandlerMoves DEF CommitSave, LoseHandler, Idle
<1>6. CASE RequestPlan(h)
  BY <1>6, <1>a, HandlerMoves DEF RequestPlan
<1>7. ASSUME NEW g \in Gens, CreateGeneration(h, g)
      PROVE  PlansExist'
  <2>1. handler'[h].pc = "enqueue" /\ \A k \in Handlers : k # h => handler'[k] = handler[k]
    BY <1>7, NewRequest, NothingRead, HandlerMoves DEF CreateGeneration, Steps
  <2>2. \A f \in Gens : status'[f] = "completed" => status[f] = "completed"
    BY <1>7, SetType DEF CreateGeneration
  <2> QED
    BY <1>7, <1>a, <2>1, <2>2 DEF CreateGeneration
<1>8. ASSUME NEW g \in Gens, CheckRegenerate(h, g) \/ CheckSave(h, g)
      PROVE  PlansExist'
  <2>1. plan[g] # {}
    BY <1>8 DEF CheckRegenerate, CheckSave, Savable, PlansExist, CompletedHasPlan
  <2>2. PICK pc \in {"due", "draft"} : Goes(h, [pc |-> pc, gen |-> g, read |-> Nothing])
    BY <1>8 DEF CheckRegenerate, CheckSave, Serve
  <2>3. handler'[h].gen = g /\ \A k \in Handlers : k # h => handler'[k] = handler[k]
    BY <2>2, NewRequest, NothingRead, HandlerMoves DEF Steps
  <2> QED
    BY <1>8, <1>a, <2>1, <2>3 DEF CheckRegenerate, CheckSave
<1> QED
  BY <1>1, <1>2, <1>3, <1>4, <1>5, <1>6, <1>7, <1>8, <1>9 DEF RequestStep, HandlerStep

LEMMA WorkerStepsPlans ==
  ASSUME TypeInv, PlansExist, NEW w \in Workers, WorkerStep(w) \/ LoseWorker(w)
  PROVE  PlansExist'
<1> USE DEF TypeInv
<1>0. handler' = handler
  BY WorkersLeave
<1>a. ASSUME \A v \in Workers : v # w => worker'[v] = worker[v],
             Working(w)' /\ (worker'[w].pc = "finish" \/ worker'[w].msg.kind = "revise")
               => worker'[w].msg.gen \in Gens /\ plan'[worker'[w].msg.gen] # {},
             \A g \in Gens : plan[g] # {} => plan'[g] # {}
      PROVE  TasksHavePlan' /\ RequestsHavePlan'
  <2>1. ASSUME NEW v \in Workers, Working(v)',
               worker'[v].pc = "finish" \/ worker'[v].msg.kind = "revise"
        PROVE  plan'[worker'[v].msg.gen] # {}
    <3>1. CASE v = w
      BY <1>a, <2>1, <3>1
    <3>2. CASE v # w
      <4>1. worker'[v] = worker[v] /\ Working(v)
        BY <1>a, <2>1, <3>2 DEF Working
      <4>2. worker[v].msg.gen \in Gens
        BY <4>1, WorkerForm, TaskForm
      <4> QED
        BY <1>a, <2>1, <4>1, <4>2 DEF PlansExist, TasksHavePlan
    <3> QED
      BY <3>1, <3>2
  <2>2. ASSUME NEW h \in Handlers,
               handler[h].pc \in {"due", "revise", "push", "unpushed", "draft", "commit"}
        PROVE  plan'[handler[h].gen] # {}
    <3>1. handler[h].gen \in Gens
      BY <2>2, HandlerForm, RequestForm
    <3> QED
      BY <1>a, <2>2, <3>1 DEF PlansExist, RequestsHavePlan
  <2> QED
    BY <1>0, <2>1, <2>2 DEF TasksHavePlan, RequestsHavePlan
<1>b. ASSUME \A g \in Gens : plan[g] # {} => plan'[g] # {},
             \A g \in Gens : status'[g] = "completed"
                               => status[g] = "completed" \/ plan[g] # {}
      PROVE  CompletedHasPlan'
  BY <1>b DEF PlansExist, CompletedHasPlan
<1>c. ASSUME \A g \in Gens : plan[g] # {} => plan'[g] # {},
             \A m \in Message : queue'[m] > 0
               => queue[m] > 0 \/ (m.kind = "revise" => plan[m.gen] # {})
      PROVE  MessagesHavePlan'
  <2>1. \A m \in Message : m.gen \in Gens
    BY DEF Message
  <2> QED
    BY <1>c, <2>1 DEF PlansExist, MessagesHavePlan
<1>1. ASSUME NEW m \in Message, StartGeneration(w, m) \/ StartRevision(w, m)
      PROVE  PlansExist'
  <2>1. \/ Start(w, m, {"pending", "processing"}, "mark")
        \/ Start(w, m, {"processing"}, "rows")
    BY <1>1 DEF StartGeneration, StartRevision
  <2>2. /\ worker'[w] = Idle \/ (worker'[w].pc \in {"mark", "rows"} /\ worker'[w].msg = m)
        /\ \A v \in Workers : v # w => worker'[v] = worker[v]
        /\ queue[m] > 0
        /\ \A n \in Message : queue'[n] <= queue[n]
        /\ UNCHANGED <<status, plan>>
    <3>1. CASE Start(w, m, {"pending", "processing"}, "mark")
      BY <3>1, StartMoves
    <3>2. CASE Start(w, m, {"processing"}, "rows")
      BY <3>2, StartMoves
    <3> QED
      BY <2>1, <3>1, <3>2
  <2>3. m.gen \in Gens /\ (m.kind = "revise" => plan[m.gen] # {})
    BY <2>2 DEF PlansExist, MessagesHavePlan, Message
  <2>4. TasksHavePlan' /\ RequestsHavePlan'
    BY <1>a, <2>2, <2>3 DEF Working, Idle
  <2>5. \A n \in Message : queue[n] \in Nat /\ queue'[n] \in Nat
    BY <1>1, WorkerStepsType DEF Shapes, WorkerStep
  <2>6. MessagesHavePlan'
    BY <1>c, <2>2, <2>5
  <2> QED
    BY <1>b, <2>2, <2>4, <2>6 DEF PlansExist
<1>2. CASE MarkGenerating(w) \/ Retry(w) \/ GiveUp(w) \/ Raise(w) \/ FinishTask(w)
             \/ LoseWorker(w)
  <2> DEFINE m == worker[w].msg
  <2>1. worker[w] \in Task /\ Working(w) /\ plan' = plan
    BY <1>2, TaskTurns, TaskForm DEF Working
  <2>2. m \in Message /\ m.gen \in Gens /\ m.kind \in {"generate", "revise"}
    BY <2>1, TaskForm
  <2>3. m.kind = "revise" \/ worker[w].pc = "finish" => plan[m.gen] # {}
    BY <2>1 DEF PlansExist, TasksHavePlan
  <2>4. TasksHavePlan' /\ RequestsHavePlan'
    BY <1>2, <1>a, <2>1, <2>2, <2>3, TaskTurns DEF Working
  <2>5. CompletedHasPlan'
    <3>1. CASE MarkGenerating(w)
      <4>1. status' = Set(m.gen, "processing")
        BY <3>1 DEF MarkGenerating
      <4>2. \A g \in Gens : status'[g] = "completed" => status[g] = "completed"
        BY <2>2, <4>1 DEF Set, Shapes
      <4> QED
        BY <1>b, <2>1, <4>2
    <3>2. CASE FinishTask(w)
      <4>1. \E s \in {"completed", AfterFailure(m.kind)} :
              /\ status' = Set(m.gen, s)
              /\ s = "completed" => worker[w].pc = "finish" \/ m.kind = "revise"
        BY <2>2, <3>2 DEF FinishTask, AfterFailure, In
      <4>2. \A g \in Gens : status'[g] = "completed" => status[g] = "completed" \/ plan[g] # {}
        BY <2>2, <2>3, <4>1 DEF Set, Shapes
      <4> QED
        BY <1>b, <2>1, <4>2
    <3>3. CASE Retry(w) \/ GiveUp(w) \/ Raise(w) \/ LoseWorker(w)
      BY <1>b, <2>1, <3>3 DEF Retry, GiveUp, Raise, LoseWorker
    <3> QED
      BY <1>2, <3>1, <3>2, <3>3
  <2>6. MessagesHavePlan'
    <3>1. CASE Retry(w)
      <4>1. /\ Retried(m) \in Message /\ Retried(m).kind = m.kind /\ Retried(m).gen = m.gen
        BY <2>2, <3>1, RetriedType DEF Retry
      <4>2. \A n \in Message : n # Retried(m) => queue'[n] = queue[n]
        BY <3>1, <4>1, PutType DEF Retry
      <4> QED
        BY <1>c, <2>1, <2>3, <4>1, <4>2
    <3>2. CASE ~Retry(w)
      BY <1>2, <1>c, <2>1, <3>2 DEF MarkGenerating, GiveUp, Raise, FinishTask, LoseWorker
    <3> QED
      BY <3>1, <3>2
  <2> QED
    BY <2>4, <2>5, <2>6 DEF PlansExist
<1>3. CASE ReadComments(w)
  <2>1. UNCHANGED <<status, plan, queue>>
    BY <1>3 DEF ReadComments
  <2>2. worker[w] \in Task /\ Working(w) /\ worker[w].msg.kind = "revise"
    BY <1>3, ReadCommentsMoves DEF ReadComments, In, Working, TasksFit, Fits
  <2>3. worker[w].msg.gen \in Gens /\ plan[worker[w].msg.gen] # {}
    BY <2>2, TaskForm DEF PlansExist, TasksHavePlan
  <2>4. TasksHavePlan' /\ RequestsHavePlan'
    BY <1>3, <1>a, <2>1, <2>3, ReadCommentsMoves
  <2> QED
    BY <1>b, <1>c, <2>1, <2>4 DEF PlansExist
<1>4. CASE ApplyRevision(w)
  <2>1. UNCHANGED <<status, plan, queue>>
    BY <1>4 DEF ApplyRevision
  <2>2. worker[w] \in Task /\ Working(w) /\ worker[w].msg.kind = "revise"
    BY <1>4, ApplyRevisionMoves DEF ApplyRevision, In, Working
  <2>3. worker[w].msg.gen \in Gens /\ plan[worker[w].msg.gen] # {}
    BY <2>2, TaskForm DEF PlansExist, TasksHavePlan
  <2>4. TasksHavePlan' /\ RequestsHavePlan'
    BY <1>4, <1>a, <2>1, <2>3, ApplyRevisionMoves
  <2> QED
    BY <1>b, <1>c, <2>1, <2>4 DEF PlansExist
<1>5. ASSUME NEW P \in SUBSET Rows, StorePlan(w, P)
      PROVE  PlansExist'
  <2> DEFINE g == worker[w].msg.gen
  <2>1. worker[w] \in Task /\ g \in Gens
    BY <1>5, StorePlanType, TaskForm
  <2>2. UNCHANGED <<status, queue>> /\ \A f \in Gens : plan[f] # {} => plan'[f] # {}
    BY <1>5, StorePlanType DEF StorePlan
  <2>3. P # {}
    <3>1. P \in Accepted
      BY <1>5 DEF StorePlan
    <3> QED
      BY <3>1 DEF Accepted
  <2>4. worker'[w] = Idle \/ (plan'[g] # {} /\ worker'[w].msg = worker[w].msg)
    <3>1. CASE plan' = [plan EXCEPT ![g] = @ \cup P]
      BY <1>5, <2>1, <2>3, <3>1, StorePlanType DEF Shapes
    <3>2. CASE Does(w, Idle)
      BY <3>2, RestMoves
    <3> QED
      BY <1>5, <3>1, <3>2 DEF StorePlan
  <2>5. TasksHavePlan' /\ RequestsHavePlan'
    BY <1>5, <1>a, <2>1, <2>2, <2>4, StorePlanType DEF Working, Idle
  <2> QED
    BY <1>b, <1>c, <2>2, <2>5 DEF PlansExist
<1> QED
  BY <1>1, <1>2, <1>3, <1>4, <1>5 DEF WorkerStep

LEMMA PlansInvariant == Spec => []PlansExist
<1>1. TypeInv /\ PlansExist /\ [Next]_vars => PlansExist'
  <2> SUFFICES ASSUME TypeInv, PlansExist, [Next]_vars PROVE PlansExist'
    OBVIOUS
  <2>1. ASSUME NEW h \in Handlers, RequestStep(h)
        PROVE  PlansExist'
    BY <2>1, RequestStepsPlans DEF TypeInv
  <2>2. ASSUME NEW g \in Gens, NEW r \in Rows, Comment(g, r)
        PROVE  PlansExist'
    BY <2>2 DEF Comment, PlansExist, CompletedHasPlan, MessagesHavePlan, TasksHavePlan,
                RequestsHavePlan, Working
  <2>3. ASSUME NEW w \in Workers, WorkerStep(w) \/ LoseWorker(w)
        PROVE  PlansExist'
    BY <2>3, WorkerStepsPlans
  <2>4. CASE UNCHANGED vars
    BY <2>4 DEF vars, PlansExist, CompletedHasPlan, MessagesHavePlan, TasksHavePlan,
                RequestsHavePlan, Working
  <2> QED
    BY <2>1, <2>2, <2>3, <2>4, NextCases
<1> QED
  BY <1>1, InitPlans, TypeInvariant, PTL DEF Spec

\* A reviewer who opens a complete generation finds rows in it:
\* process_ai_generation stores them before it reports, and whatever goes wrong
\* in a regeneration restores a status that had a plan.
THEOREM CompleteMeansPlanned == Spec => []CompletedHasPlan
  BY PlansInvariant, PTL DEF PlansExist

-----------------------------------------------------------------------------
(* Comments are answered, or came late *)

\* What a rewriting under way answers is the last comment, unless the comment
\* came after it began.
ReadsAreLast ==
  \A w \in Workers : worker[w].pc = "call" =>
    \A r \in DOMAIN worker[w].read :
      \/ worker[w].read[r] = draft[worker[w].msg.gen][r].comment
      \/ <<worker[w].msg.gen, r>> \in late

LateKnown == UnansweredCameLate /\ ReadsAreLast

LEMMA InitLate == Init => LateKnown
  BY DEF Init, LateKnown, UnansweredCameLate, ReadsAreLast, NewRow, Idle

\* Workers who went nowhere near the AI service have nothing new to answer.
LEMMA WorkersReadNothing ==
  ASSUME TypeInv, LateKnown, NEW w \in Workers,
         \A v \in Workers : v # w => worker'[v] = worker[v],
         worker'[w].pc = "call" => DOMAIN worker'[w].read = {},
         draft' = draft, late' = late
  PROVE  LateKnown'
<1>1. ReadsAreLast'
  BY DEF LateKnown, ReadsAreLast
<1> QED
  BY <1>1 DEF LateKnown, UnansweredCameLate

LEMMA WorkerStepsLate ==
  ASSUME TypeInv, LateKnown, NEW w \in Workers, WorkerStep(w) \/ LoseWorker(w)
  PROVE  LateKnown'
<1> USE DEF TypeInv
<1>0. late' = late
  BY WorkersLeave
<1>1. ASSUME NEW m \in Message, StartGeneration(w, m) \/ StartRevision(w, m)
      PROVE  LateKnown'
  <2>1. \/ Start(w, m, {"pending", "processing"}, "mark")
        \/ Start(w, m, {"processing"}, "rows")
    BY <1>1 DEF StartGeneration, StartRevision
  <2>2. /\ worker'[w].pc # "call"
        /\ \A v \in Workers : v # w => worker'[v] = worker[v]
        /\ draft' = draft
    <3>1. CASE Start(w, m, {"pending", "processing"}, "mark")
      BY <3>1, StartMoves DEF Idle
    <3>2. CASE Start(w, m, {"processing"}, "rows")
      BY <3>2, StartMoves DEF Idle
    <3> QED
      BY <2>1, <3>1, <3>2
  <2> QED
    BY <1>0, <2>2, WorkersReadNothing
<1>2. CASE MarkGenerating(w) \/ Retry(w) \/ GiveUp(w) \/ Raise(w) \/ FinishTask(w)
             \/ LoseWorker(w)
  <2>1. worker'[w].pc = "call" => worker[w].pc = "mark" /\ worker'[w].read = worker[w].read
    BY <1>2, TaskTurns
  <2>2. worker[w].pc = "mark" => DOMAIN worker[w].read = {}
    BY DEF TasksFit, Fits, Working
  <2> QED
    BY <1>0, <1>2, <2>1, <2>2, TaskTurns, WorkersReadNothing
<1>3. CASE ReadComments(w)
  <2>1. draft' = draft
    BY <1>3 DEF ReadComments
  <2>2. /\ worker'[w].msg = worker[w].msg
        /\ \A r \in DOMAIN worker'[w].read :
             worker'[w].read[r] = draft[worker[w].msg.gen][r].comment
        /\ \A v \in Workers : v # w => worker'[v] = worker[v]
    BY <1>3, ReadCommentsMoves
  <2>3. ReadsAreLast'
    BY <1>0, <2>1, <2>2 DEF LateKnown, ReadsAreLast
  <2> QED
    BY <1>0, <2>1, <2>3 DEF LateKnown, UnansweredCameLate
<1>4. CASE ApplyRevision(w)
  <2>1. /\ \A g \in Gens, r \in Rows :
             LET d == draft[g][r]
                 e == draft'[g][r] IN
             IF g = worker[w].msg.gen /\ r \in DOMAIN worker[w].read
               THEN /\ e.comment = d.comment /\ e.resolved = TRUE
                    /\ e.basis = worker[w].read[r] /\ e.revised = d.revised + 1
               ELSE e = d
        /\ \A v \in Workers : v # w => worker'[v] = worker[v]
        /\ worker'[w].pc = "finish" /\ worker[w].pc = "call"
    BY <1>4, ApplyRevisionMoves DEF ApplyRevision, In
  <2>2. ASSUME NEW g \in Gens, NEW r \in Rows,
               draft'[g][r].resolved, draft'[g][r].basis # draft'[g][r].comment
        PROVE  <<g, r>> \in late
    <3>1. CASE g = worker[w].msg.gen /\ r \in DOMAIN worker[w].read
      BY <2>1, <2>2, <3>1 DEF LateKnown, ReadsAreLast
    <3>2. CASE ~(g = worker[w].msg.gen /\ r \in DOMAIN worker[w].read)
      BY <2>1, <2>2, <3>2 DEF LateKnown, UnansweredCameLate
    <3> QED
      BY <3>1, <3>2
  <2>3. ReadsAreLast'
    <3>1. \A g \in Gens, r \in Rows : draft'[g][r].comment = draft[g][r].comment
      BY <2>1
    <3>2. ASSUME NEW v \in Workers, worker'[v].pc = "call", NEW r \in DOMAIN worker'[v].read
          PROVE  \/ worker'[v].read[r] = draft'[worker'[v].msg.gen][r].comment
                 \/ <<worker'[v].msg.gen, r>> \in late
      <4>1. worker'[v] = worker[v] /\ worker[v].pc = "call"
        BY <2>1, <3>2
      <4>2. worker[v].msg.gen \in Gens /\ r \in Rows
        BY <3>2, <4>1, WorkerForm, TaskForm DEF Working
      <4> QED
        BY <3>1, <3>2, <4>1, <4>2 DEF LateKnown, ReadsAreLast
    <3> QED
      BY <1>0, <3>2 DEF ReadsAreLast
  <2> QED
    BY <1>0, <2>2, <2>3 DEF LateKnown, UnansweredCameLate
<1>5. ASSUME NEW P \in SUBSET Rows, StorePlan(w, P)
      PROVE  LateKnown'
  <2>1. draft' = draft /\ worker'[w].pc # "call"
    BY <1>5, StorePlanType DEF StorePlan, Idle
  <2> QED
    BY <1>0, <1>5, <2>1, StorePlanType, WorkersReadNothing
<1> QED
  BY <1>1, <1>2, <1>3, <1>4, <1>5 DEF WorkerStep

LEMMA CommentLate ==
  ASSUME TypeInv, LateKnown, NEW g \in Gens, NEW r \in Rows, Comment(g, r)
  PROVE  LateKnown'
<1>1. /\ draft'[g][r].resolved = FALSE
      /\ \A f \in Gens, q \in Rows : f # g \/ q # r => draft'[f][q] = draft[f][q]
  BY CommentMoves DEF TypeInv
<1>2. late \subseteq late' /\ worker' = worker
  BY DEF Comment
<1>3. ASSUME NEW f \in Gens, NEW q \in Rows,
             draft'[f][q].resolved, draft'[f][q].basis # draft'[f][q].comment
      PROVE  <<f, q>> \in late'
  <2>1. draft'[f][q] = draft[f][q]
    BY <1>1, <1>3
  <2> QED
    BY <1>2, <1>3, <2>1 DEF LateKnown, UnansweredCameLate
<1>4. ASSUME NEW w \in Workers, worker[w].pc = "call", NEW q \in DOMAIN worker[w].read
      PROVE  \/ worker[w].read[q] = draft'[worker[w].msg.gen][q].comment
             \/ <<worker[w].msg.gen, q>> \in late'
  <2>1. worker[w].msg.gen \in Gens /\ q \in Rows
    BY <1>4, WorkerForm, TaskForm DEF Working, TypeInv
  <2>2. CASE worker[w].msg.gen = g /\ q = r
    BY <1>4, <2>2 DEF Comment
  <2>3. CASE worker[w].msg.gen # g \/ q # r
    BY <1>1, <1>2, <1>4, <2>1, <2>3 DEF LateKnown, ReadsAreLast
  <2> QED
    BY <2>2, <2>3
<1> QED
  BY <1>2, <1>3, <1>4 DEF LateKnown, UnansweredCameLate, ReadsAreLast

\* process_ai_plan_regeneration resolves every row it read before the call, and
\* no other: a comment goes unanswered only if it was written during the call.
THEOREM CommentsAreAnswered == Spec => []UnansweredCameLate
<1>1. TypeInv /\ LateKnown /\ [Next]_vars => LateKnown'
  <2> SUFFICES ASSUME TypeInv, LateKnown, [Next]_vars PROVE LateKnown'
    OBVIOUS
  <2>1. ASSUME NEW h \in Handlers, RequestStep(h)
        PROVE  LateKnown'
    BY <2>1, RequestsLeave DEF LateKnown, UnansweredCameLate, ReadsAreLast
  <2>2. ASSUME NEW g \in Gens, NEW r \in Rows, Comment(g, r)
        PROVE  LateKnown'
    BY <2>2, CommentLate
  <2>3. ASSUME NEW w \in Workers, WorkerStep(w) \/ LoseWorker(w)
        PROVE  LateKnown'
    BY <2>3, WorkerStepsLate
  <2>4. CASE UNCHANGED vars
    BY <2>4 DEF vars, LateKnown, UnansweredCameLate, ReadsAreLast
  <2> QED
    BY <2>1, <2>2, <2>3, <2>4, NextCases
<1> QED
  BY <1>1, InitLate, TypeInvariant, PTL DEF Spec, LateKnown

-----------------------------------------------------------------------------
(* Rewritings are paid for *)

\* The workers about to rewrite a row.
Rewriting(g, r) ==
  {w \in Workers : /\ worker[w].pc = "call" /\ worker[w].msg.gen = g
                   /\ r \in DOMAIN worker[w].read}

\* A comment pays for one rewriting by each worker.  Until it is resolved any
\* worker may read it; after that only those who have read it will still rewrite.
PaidFor(g, r) ==
  LET d == draft[g][r] IN
  /\ ~d.resolved => d.revised + Cardinality(Workers) <= d.comment * Cardinality(Workers)
  /\ d.resolved =>
       d.revised + Cardinality(Rewriting(g, r)) <= d.comment * Cardinality(Workers)

Paid == \A g \in Gens, r \in Rows : PaidFor(g, r)

LEMMA WorkersFinite ==
  ASSUME NEW S \in SUBSET Workers
  PROVE  /\ IsFiniteSet(S) /\ Cardinality(S) \in Nat
         /\ Cardinality(S) <= Cardinality(Workers) /\ Cardinality(Workers) \in Nat
  BY FS_Subset, FS_CardinalityType, PlanConstants

LEMMA Products ==
  ASSUME NEW n \in Nat, NEW k \in Nat
  PROVE  n * k \in Nat /\ (n + 1) * k = n * k + k /\ 0 * k = 0
  OBVIOUS

LEMMA RowForm ==
  ASSUME Shapes, NEW g \in Gens, NEW r \in Rows
  PROVE  /\ draft[g][r].comment \in Nat /\ draft[g][r].revised \in Nat
         /\ draft[g][r].resolved \in BOOLEAN
  BY PlanConstants DEF Shapes, DraftRow

LEMMA InitPaid == Init => Paid
<1> SUFFICES ASSUME Init, NEW g \in Gens, NEW r \in Rows PROVE PaidFor(g, r)
  BY DEF Paid
<1>1. draft[g][r].revised = 0 /\ draft[g][r].comment = 0 /\ draft[g][r].resolved = TRUE
  BY DEF Init, NewRow
<1>2. Rewriting(g, r) = {}
  BY DEF Init, Rewriting, Idle
<1>3. Cardinality({}) = 0
  BY FS_EmptySet
<1>4. Cardinality(Workers) \in Nat
  BY WorkersFinite
<1> QED
  BY <1>1, <1>2, <1>3, <1>4, Products DEF PaidFor

\* A row stays paid for when it stays and nobody else is about to rewrite it.
LEMMA RowStays ==
  ASSUME Shapes, NEW g \in Gens, NEW r \in Rows, PaidFor(g, r), draft'[g][r] = draft[g][r],
         draft[g][r].resolved => Rewriting(g, r)' \subseteq Rewriting(g, r)
  PROVE  PaidFor(g, r)'
<1>1. CASE ~draft[g][r].resolved
  BY <1>1 DEF PaidFor
<1>2. CASE draft[g][r].resolved
  <2>1. IsFiniteSet(Rewriting(g, r)) /\ Cardinality(Rewriting(g, r)) \in Nat
    BY WorkersFinite DEF Rewriting
  <2>2. /\ Cardinality(Rewriting(g, r)') \in Nat
        /\ Cardinality(Rewriting(g, r)') <= Cardinality(Rewriting(g, r))
    BY <1>2, <2>1, FS_Subset, FS_CardinalityType
  <2>3. draft[g][r].revised + Cardinality(Rewriting(g, r))
          <= draft[g][r].comment * Cardinality(Workers)
    BY <1>2 DEF PaidFor
  <2>4. draft[g][r].comment * Cardinality(Workers) \in Nat /\ draft[g][r].revised \in Nat
    BY RowForm, WorkersFinite, Products
  <2>5. draft[g][r].revised + Cardinality(Rewriting(g, r)')
          <= draft[g][r].comment * Cardinality(Workers)
    BY <2>1, <2>2, <2>3, <2>4
  <2> QED
    BY <1>2, <2>5 DEF PaidFor
<1> QED
  BY <1>1, <1>2

\* A row is rewritten by a worker that was about to.
LEMMA RowRewritten ==
  ASSUME Shapes, NEW g \in Gens, NEW r \in Rows, PaidFor(g, r), NEW w \in Rewriting(g, r),
         draft'[g][r].comment = draft[g][r].comment, draft'[g][r].resolved = TRUE,
         draft'[g][r].revised = draft[g][r].revised + 1,
         Rewriting(g, r)' \subseteq Rewriting(g, r) \ {w}
  PROVE  PaidFor(g, r)'
<1> DEFINE n == Cardinality(Rewriting(g, r))
           p == draft[g][r].comment * Cardinality(Workers)
<1>1. IsFiniteSet(Rewriting(g, r)) /\ n \in Nat /\ n <= Cardinality(Workers)
  BY WorkersFinite DEF Rewriting
<1>2. IsFiniteSet(Rewriting(g, r) \ {w}) /\ Cardinality(Rewriting(g, r) \ {w}) = n - 1
  BY <1>1, FS_RemoveElement
<1>3. Cardinality(Rewriting(g, r)') \in Nat /\ Cardinality(Rewriting(g, r)') <= n - 1
  BY <1>2, FS_Subset, FS_CardinalityType
<1>4. p \in Nat /\ draft[g][r].revised \in Nat /\ Cardinality(Workers) \in Nat
  BY RowForm, WorkersFinite, Products
<1>5. draft[g][r].revised + n <= p
  <2>1. CASE draft[g][r].resolved
    BY <2>1 DEF PaidFor
  <2>2. CASE ~draft[g][r].resolved
    <3>1. draft[g][r].revised + Cardinality(Workers) <= p
      BY <2>2 DEF PaidFor
    <3> QED
      BY <1>1, <1>4, <3>1
  <2> QED
    BY <2>1, <2>2
<1>6. draft[g][r].revised + 1 + Cardinality(Rewriting(g, r)') <= p
  BY <1>1, <1>3, <1>4, <1>5
<1> QED
  BY <1>6 DEF PaidFor

LEMMA CommentPays ==
  ASSUME Shapes, Paid, NEW g \in Gens, NEW r \in Rows, Comment(g, r)
  PROVE  Paid'
<1>1. /\ draft'[g][r].comment = draft[g][r].comment + 1
      /\ draft'[g][r].resolved = FALSE
      /\ draft'[g][r].revised = draft[g][r].revised
      /\ \A f \in Gens, q \in Rows : f # g \/ q # r => draft'[f][q] = draft[f][q]
  BY CommentMoves
<1>2. \A f \in Gens, q \in Rows : Rewriting(f, q)' = Rewriting(f, q)
  BY DEF Comment, Rewriting
<1>3. PaidFor(g, r)'
  <2> DEFINE c == draft[g][r].comment
             k == Cardinality(Workers)
  <2>1. c \in Nat /\ k \in Nat /\ draft[g][r].revised \in Nat
    BY RowForm, WorkersFinite
  <2>2. c * k \in Nat /\ (c + 1) * k = c * k + k
    BY <2>1, Products
  <2>3. draft[g][r].revised <= c * k
    <3>1. PaidFor(g, r) /\ Cardinality(Rewriting(g, r)) \in Nat
      BY WorkersFinite DEF Paid, Rewriting
    <3>2. \/ draft[g][r].revised + k <= c * k
          \/ draft[g][r].revised + Cardinality(Rewriting(g, r)) <= c * k
      BY <3>1 DEF PaidFor
    <3> QED
      BY <2>1, <2>2, <3>1, <3>2
  <2>4. draft[g][r].revised + k <= (c + 1) * k
    BY <2>1, <2>2, <2>3
  <2> QED
    BY <1>1, <2>4 DEF PaidFor
<1>4. \A f \in Gens, q \in Rows : f # g \/ q # r => PaidFor(f, q)'
  BY <1>1, <1>2, RowStays DEF Paid
<1> QED
  BY <1>3, <1>4 DEF Paid

LEMMA WorkerStepsPaid ==
  ASSUME TypeInv, Paid, NEW w \in Workers, WorkerStep(w) \/ LoseWorker(w)
  PROVE  Paid'
<1> USE DEF TypeInv
<1>a. ASSUME draft' = draft, \A v \in Workers : v # w => worker'[v] = worker[v],
             worker'[w].pc = "call" => DOMAIN worker'[w].read = {}
      PROVE  Paid'
  <2>1. \A g \in Gens, r \in Rows : Rewriting(g, r)' \subseteq Rewriting(g, r)
    BY <1>a DEF Rewriting
  <2> QED
    BY <1>a, <2>1, RowStays DEF Paid
<1>1. ASSUME NEW m \in Message, StartGeneration(w, m) \/ StartRevision(w, m)
      PROVE  Paid'
  <2>1. CASE Start(w, m, {"pending", "processing"}, "mark")
    BY <1>a, <2>1, StartMoves DEF Idle
  <2>2. CASE Start(w, m, {"processing"}, "rows")
    BY <1>a, <2>2, StartMoves DEF Idle
  <2> QED
    BY <1>1, <2>1, <2>2 DEF StartGeneration, StartRevision
<1>2. CASE MarkGenerating(w) \/ Retry(w) \/ GiveUp(w) \/ Raise(w) \/ FinishTask(w)
             \/ LoseWorker(w)
  <2>1. worker'[w].pc = "call" => worker[w].pc = "mark" /\ worker'[w].read = worker[w].read
    BY <1>2, TaskTurns
  <2>2. worker[w].pc = "mark" => DOMAIN worker[w].read = {}
    BY DEF TasksFit, Fits, Working
  <2> QED
    BY <1>2, <1>a, <2>1, <2>2, TaskTurns
<1>3. CASE ReadComments(w)
  <2>1. draft' = draft
    BY <1>3 DEF ReadComments
  <2>2. /\ worker'[w].msg = worker[w].msg
        /\ DOMAIN worker'[w].read = Commented(worker[w].msg.gen)
        /\ \A v \in Workers : v # w => worker'[v] = worker[v]
    BY <1>3, ReadCommentsMoves
  <2>3. \A g \in Gens, r \in Rows :
          draft[g][r].resolved => Rewriting(g, r)' \subseteq Rewriting(g, r)
    BY <2>2 DEF Rewriting, Commented
  <2> QED
    BY <2>1, <2>3, RowStays DEF Paid
<1>4. CASE ApplyRevision(w)
  <2>1. /\ \A g \in Gens, r \in Rows :
             LET d == draft[g][r]
                 e == draft'[g][r] IN
             IF g = worker[w].msg.gen /\ r \in DOMAIN worker[w].read
               THEN /\ e.comment = d.comment /\ e.resolved = TRUE
                    /\ e.basis = worker[w].read[r] /\ e.revised = d.revised + 1
               ELSE e = d
        /\ \A v \in Workers : v # w => worker'[v] = worker[v]
        /\ worker'[w].pc = "finish" /\ worker[w].pc = "call"
    BY <1>4, ApplyRevisionMoves DEF ApplyRevision, In
  <2>2. \A g \in Gens, r \in Rows : Rewriting(g, r)' \subseteq Rewriting(g, r) \ {w}
    BY <2>1 DEF Rewriting
  <2>3. ASSUME NEW g \in Gens, NEW r \in Rows
        PROVE  PaidFor(g, r)'
    <3>1. CASE g = worker[w].msg.gen /\ r \in DOMAIN worker[w].read
      <4>1. w \in Rewriting(g, r)
        BY <2>1, <3>1 DEF Rewriting
      <4>2. /\ draft'[g][r].comment = draft[g][r].comment
            /\ draft'[g][r].resolved = TRUE
            /\ draft'[g][r].revised = draft[g][r].revised + 1
        BY <2>1, <3>1
      <4> QED
        BY <2>2, <4>1, <4>2, RowRewritten DEF Paid
    <3>2. CASE ~(g = worker[w].msg.gen /\ r \in DOMAIN worker[w].read)
      <4>1. draft'[g][r] = draft[g][r]
        BY <2>1, <3>2
      <4>2. Rewriting(g, r)' \subseteq Rewriting(g, r)
        BY <2>2
      <4> QED
        BY <4>1, <4>2, RowStays DEF Paid
    <3> QED
      BY <3>1, <3>2
  <2> QED
    BY <2>3 DEF Paid
<1>5. ASSUME NEW P \in SUBSET Rows, StorePlan(w, P)
      PROVE  Paid'
  <2>1. draft' = draft /\ worker'[w].pc # "call"
    BY <1>5, StorePlanType DEF StorePlan, Idle
  <2> QED
    BY <1>5, <1>a, <2>1, StorePlanType
<1> QED
  BY <1>1, <1>2, <1>3, <1>4, <1>5 DEF WorkerStep

\* A regeneration reads only the rows whose comment is not resolved and resolves
\* them with the new content: for one comment, the AI rewrites a row at most once
\* for each worker, however often messages are retried or delivered.
THEOREM RewritingsAreBounded == Spec => []RewritingsArePaid
<1>1. Shapes /\ Paid => RewritingsArePaid
  <2> SUFFICES ASSUME Shapes, Paid, NEW g \in Gens, NEW r \in Rows
               PROVE  draft[g][r].revised <= draft[g][r].comment * Cardinality(Workers)
    BY DEF RewritingsArePaid
  <2>1. PaidFor(g, r) /\ Cardinality(Rewriting(g, r)) \in Nat /\ Cardinality(Workers) \in Nat
    BY WorkersFinite DEF Paid, Rewriting
  <2>2. draft[g][r].revised \in Nat /\ draft[g][r].comment * Cardinality(Workers) \in Nat
    BY <2>1, RowForm, Products
  <2>3. \/ draft[g][r].revised + Cardinality(Workers)
             <= draft[g][r].comment * Cardinality(Workers)
        \/ draft[g][r].revised + Cardinality(Rewriting(g, r))
             <= draft[g][r].comment * Cardinality(Workers)
    BY <2>1 DEF PaidFor
  <2> QED
    BY <2>1, <2>2, <2>3
<1>2. TypeInv /\ Paid /\ [Next]_vars => Paid'
  <2> SUFFICES ASSUME TypeInv, Paid, [Next]_vars PROVE Paid'
    OBVIOUS
  <2>1. ASSUME NEW h \in Handlers, RequestStep(h)
        PROVE  Paid'
    BY <2>1, RequestsLeave DEF Paid, PaidFor, Rewriting
  <2>2. ASSUME NEW g \in Gens, NEW r \in Rows, Comment(g, r)
        PROVE  Paid'
    BY <2>2, CommentPays DEF TypeInv
  <2>3. ASSUME NEW w \in Workers, WorkerStep(w) \/ LoseWorker(w)
        PROVE  Paid'
    BY <2>3, WorkerStepsPaid
  <2>4. CASE UNCHANGED vars
    BY <2>4 DEF vars, Paid, PaidFor, Rewriting
  <2> QED
    BY <2>1, <2>2, <2>3, <2>4, NextCases
<1> QED
  BY <1>1, <1>2, InitPaid, TypeInvariant, PTL DEF Spec, TypeInv

-----------------------------------------------------------------------------
(* What is saved was reviewed *)

\* A copy of a plan has every row of it as the reviewers see it, but for the
\* rows whose comments it does not answer and those that were worked on twice.
Faithful(c, g) ==
  \A r \in plan[g] :
    \/ r \in DOMAIN c /\ c[r] = Content(draft[g][r])
    \/ r \in DOMAIN c /\ c[r].basis < draft[g][r].comment
    \/ <<g, r>> \in twice

Copied(c, g) == plan[g] # {} /\ Faithful(c, g)

CopiesAreFaithful ==
  /\ \A h \in Handlers : handler[h].pc = "commit" => Copied(handler[h].read, handler[h].gen)
  /\ \A g \in saved : Copied(backlog[g], g)

LEMMA InitFaithful == Init => CopiesAreFaithful
  BY DEF Init, CopiesAreFaithful, Idle

LEMMA CopyForm ==
  ASSUME Shapes
  PROVE  /\ saved \subseteq Gens /\ \A g \in saved : backlog[g] \in Copy
         /\ \A h \in Handlers : handler[h].pc = "commit"
              => handler[h].gen \in Gens /\ handler[h].read \in Copy
<1>1. \A h \in Handlers : handler[h].pc = "commit" => handler[h] \in Request
  BY HandlerForm
<1> QED
  BY <1>1, RequestForm DEF Shapes

\* What a step may do to a row of a plan that was copied.
RowKept(g, r) ==
  \/ /\ r \in plan[g]
     /\ draft[g][r].comment <= draft'[g][r].comment
     /\ \/ Content(draft'[g][r]) = Content(draft[g][r])
        \/ draft[g][r].basis < draft'[g][r].comment
  \/ <<g, r>> \in twice'

RowsKept ==
  /\ twice \subseteq twice'
  /\ \A g \in Gens : plan[g] # {} => plan'[g] # {} /\ \A r \in plan'[g] : RowKept(g, r)

LEMMA CopyKept ==
  ASSUME Shapes, RowsKept, draft' \in [Gens -> [Rows -> DraftRow]], NEW g \in Gens,
         plan' \in [Gens -> SUBSET Rows], NEW c \in Copy, Copied(c, g)
  PROVE  /\ plan'[g] # {}
         /\ \A r \in plan'[g] :
              \/ r \in DOMAIN c /\ c[r] = Content(draft'[g][r])
              \/ r \in DOMAIN c /\ c[r].basis < draft'[g][r].comment
              \/ <<g, r>> \in twice'
<1>1. plan[g] # {} /\ plan'[g] # {}
  BY DEF Copied, RowsKept
<1>2. ASSUME NEW r \in plan'[g], <<g, r>> \notin twice'
      PROVE  \/ r \in DOMAIN c /\ c[r] = Content(draft'[g][r])
             \/ r \in DOMAIN c /\ c[r].basis < draft'[g][r].comment
  <2>1. /\ r \in plan[g] /\ <<g, r>> \notin twice
        /\ draft[g][r].comment <= draft'[g][r].comment
        /\ \/ Content(draft'[g][r]) = Content(draft[g][r])
           \/ draft[g][r].basis < draft'[g][r].comment
    BY <1>1, <1>2 DEF RowsKept, RowKept
  <2>2. r \in Rows
    BY <1>2
  <2>3. /\ draft[g][r].comment \in Nat /\ draft'[g][r].comment \in Nat
        /\ draft[g][r].basis \in Nat
    BY <2>2, PlanConstants DEF Shapes, DraftRow
  <2>4. CASE r \in DOMAIN c /\ c[r] = Content(draft[g][r])
    BY <2>1, <2>4 DEF Content
  <2>5. CASE r \in DOMAIN c /\ c[r].basis < draft[g][r].comment
    <3>1. c[r] \in Contents
      BY <2>5 DEF Copy
    <3>2. c[r].basis \in Nat
      BY <3>1, PlanConstants DEF Contents
    <3> QED
      BY <2>1, <2>3, <2>5, <3>2
  <2> QED
    BY <2>1, <2>4, <2>5 DEF Copied, Faithful
<1> QED
  BY <1>1, <1>2

\* What keeps the rows keeps every copy faithful, when no request takes one.
LEMMA CopiesKept ==
  ASSUME Shapes, Shapes', CopiesAreFaithful, RowsKept, UNCHANGED <<saved, backlog>>,
         \A h \in Handlers : handler'[h].pc = "commit" => handler'[h] = handler[h]
  PROVE  CopiesAreFaithful'
<1>1. draft' \in [Gens -> [Rows -> DraftRow]] /\ plan' \in [Gens -> SUBSET Rows]
  BY DEF Shapes
<1>2. ASSUME NEW h \in Handlers, handler'[h].pc = "commit"
      PROVE  Copied(handler[h].read, handler[h].gen)'
  <2>1. handler'[h] = handler[h]
    BY <1>2
  <2>2. handler[h].gen \in Gens /\ handler[h].read \in Copy
    BY <1>2, <2>1, CopyForm
  <2>3. Copied(handler[h].read, handler[h].gen)
    BY <1>2, <2>1 DEF CopiesAreFaithful
  <2>4. PICK c \in Copy, g \in Gens : c = handler[h].read /\ g = handler[h].gen
    BY <2>2
  <2>5. Copied(c, g)
    BY <2>3, <2>4
  <2> QED
    BY <1>1, <2>1, <2>4, <2>5, CopyKept DEF Copied, Faithful
<1>3. ASSUME NEW g \in saved
      PROVE  Copied(backlog[g], g)'
  <2>1. g \in Gens /\ backlog[g] \in Copy
    BY CopyForm
  <2>2. Copied(backlog[g], g) /\ backlog' = backlog
    BY DEF CopiesAreFaithful
  <2> QED
    BY <1>1, <2>1, <2>2, CopyKept DEF Copied, Faithful
<1> QED
  BY <1>2, <1>3 DEF CopiesAreFaithful

LEMMA RowsStay ==
  ASSUME Shapes, UNCHANGED <<plan, draft, twice>>
  PROVE  RowsKept
<1>1. \A g \in Gens : \A r \in plan[g] : draft[g][r].comment \in Nat
  BY PlanConstants DEF Shapes, DraftRow
<1> QED
  BY <1>1 DEF RowsKept, RowKept

LEMMA RequestStepsFaithful ==
  ASSUME Shapes, PlansExist, CopiesAreFaithful, NEW h \in Handlers, RequestStep(h)
  PROVE  CopiesAreFaithful'
<1>1. UNCHANGED <<plan, draft, twice>> /\ RowsKept
  BY RequestsLeave, RowsStay DEF past
<1>2. Shapes'
  BY RequestStepsType
<1>3. CASE ReadDraft(h)
  <2> DEFINE g == handler[h].gen
             c == [r \in plan[g] |-> Content(draft[g][r])]
  <2>1. /\ handler'[h] = [pc |-> "commit", gen |-> g, read |-> c]
        /\ \A k \in Handlers : k # h => handler'[k] = handler[k]
    BY <1>3, ReadDraftType
  <2>2. handler'[h].read = c /\ handler'[h].gen = g
    BY <2>1
  <2>3. plan[g] # {} /\ UNCHANGED <<saved, backlog>>
    BY <1>3 DEF ReadDraft
  <2>4. Copied(handler[h].read, handler[h].gen)'
    <3>1. \A r \in plan[g] : r \in DOMAIN c /\ c[r] = Content(draft[g][r])
      OBVIOUS
    <3> HIDE DEF c
    <3> QED
      BY <1>1, <2>2, <2>3, <3>1 DEF Copied, Faithful
  <2>5. \A k \in Handlers : k # h => (handler'[k].pc = "commit"
                                        => Copied(handler[k].read, handler[k].gen)')
    BY <1>1, <2>1 DEF CopiesAreFaithful, Copied, Faithful
  <2>6. \A f \in saved : Copied(backlog[f], f)'
    BY <1>1, <2>3 DEF CopiesAreFaithful, Copied, Faithful
  <2> QED
    BY <2>3, <2>4, <2>5, <2>6 DEF CopiesAreFaithful
<1>4. CASE CommitSave(h)
  <2>0. handler[h].pc = "commit"
    BY <1>4 DEF CommitSave, At
  <2>1. PICK g \in Gens, c \in Copy : g = handler[h].gen /\ c = handler[h].read
    BY <2>0, CopyForm
  <2>2. Copied(c, g)
    BY <2>0, <2>1 DEF CopiesAreFaithful
  <2>3. handler'[h].pc = "idle" /\ \A k \in Handlers : k # h => handler'[k] = handler[k]
    BY <1>4, HandlerMoves DEF CommitSave, Idle
  <2>4. /\ saved' = saved \cup {g} /\ backlog'[g] = c
        /\ \A f \in Gens : f # g => backlog'[f] = backlog[f]
    BY <1>4, <2>1 DEF CommitSave, Stamped, Shapes
  <2>5. \A f \in saved' : Copied(backlog[f], f)'
    <3>1. Copied(backlog[g], g)'
      BY <1>1, <2>2, <2>4 DEF Copied, Faithful
    <3>2. ASSUME NEW f \in saved, f # g
          PROVE  Copied(backlog[f], f)'
      <4>1. backlog'[f] = backlog[f] /\ Copied(backlog[f], f)
        BY <2>4, <3>2, CopyForm DEF CopiesAreFaithful
      <4> QED
        BY <1>1, <4>1 DEF Copied, Faithful
    <3> QED
      BY <2>4, <3>1, <3>2
  <2>6. ASSUME NEW k \in Handlers, handler'[k].pc = "commit"
        PROVE  Copied(handler[k].read, handler[k].gen)'
    <3>1. handler'[k] = handler[k] /\ Copied(handler[k].read, handler[k].gen)
      BY <2>3, <2>6 DEF CopiesAreFaithful
    <3> QED
      BY <1>1, <3>1 DEF Copied, Faithful
  <2> QED
    BY <2>5, <2>6 DEF CopiesAreFaithful
<1>5. CASE ~ReadDraft(h) /\ ~CommitSave(h)
  <2>1. UNCHANGED <<saved, backlog>>
    BY <1>5 DEF RequestStep, HandlerStep, EnqueueGeneration, EnqueueRegeneration, Enqueue,
                MarkUnqueued, GiveBack, Unsent, CheckComments, MarkRegenerating,
                CreateGeneration, LoseHandler, RequestPlan, CheckRegenerate, CheckSave
  <2>2. handler'[h].pc # "commit" /\ \A k \in Handlers : k # h => handler'[k] = handler[k]
    <3>1. CASE EnqueueGeneration(h) \/ EnqueueRegeneration(h)
      BY <3>1, EnqueueMoves DEF EnqueueGeneration, EnqueueRegeneration, Steps, Idle
    <3>2. CASE MarkUnqueued(h) \/ GiveBack(h)
      BY <3>2, UnsentMoves DEF MarkUnqueued, GiveBack, Steps, Idle
    <3>3. CASE CheckComments(h) \/ MarkRegenerating(h)
      <4>1. handler[h] \in Request
        BY <3>3, HandlerForm DEF CheckComments, MarkRegenerating, At
      <4> QED
        BY <3>3, <4>1, ThenGoes, HandlerMoves DEF CheckComments, MarkRegenerating, Steps, Idle
    <3>4. CASE LoseHandler(h) \/ RequestPlan(h)
      BY <3>4, HandlerMoves DEF LoseHandler, RequestPlan, Idle
    <3>5. ASSUME NEW g \in Gens, CreateGeneration(h, g) \/ CheckRegenerate(h, g) \/ CheckSave(h, g)
          PROVE  handler'[h].pc # "commit" /\ \A k \in Handlers : k # h => handler'[k] = handler[k]
      <4>1. PICK pc \in Steps : /\ Goes(h, [pc |-> pc, gen |-> g, read |-> Nothing])
                                 /\ pc # "commit"
        BY <3>5 DEF CreateGeneration, CheckRegenerate, CheckSave, Serve, Steps
      <4> QED
        BY <4>1, NewRequest, NothingRead, HandlerMoves
    <3> QED
      BY <1>5, <3>1, <3>2, <3>3, <3>4, <3>5 DEF RequestStep, HandlerStep
  <2> QED
    BY <1>1, <1>2, <2>1, <2>2, CopiesKept
<1> QED
  BY <1>3, <1>4, <1>5

LEMMA WorkerStepsFaithful ==
  ASSUME TypeInv, PlansExist, CopiesAreFaithful, NEW w \in Workers,
         WorkerStep(w) \/ LoseWorker(w)
  PROVE  CopiesAreFaithful'
<1> USE DEF TypeInv
<1>1. UNCHANGED <<saved, backlog, handler>> /\ Shapes'
  BY WorkersLeave, WorkerStepsType
<1>2. RowsKept
  <2>1. CASE ApplyRevision(w)
    <3> DEFINE f == worker[w].msg.gen
               read == worker[w].read
    <3>1. /\ \A g \in Gens, r \in Rows :
               LET d == draft[g][r]
                   e == draft'[g][r] IN
               IF g = f /\ r \in DOMAIN read
                 THEN /\ e.comment = d.comment /\ e.resolved = TRUE
                      /\ e.basis = read[r] /\ e.revised = d.revised + 1
                 ELSE e = d
      BY <2>1, ApplyRevisionMoves
    <3>2. plan' = plan /\ worker[w].pc = "call"
      BY <2>1 DEF ApplyRevision, In
    <3>3. twice' = twice \cup ({f} \X {r \in DOMAIN read : read[r] <= draft[f][r].basis})
      BY <2>1 DEF ApplyRevision
    <3>4. worker[w] \in Task /\ f \in Gens /\ DOMAIN read \subseteq Rows
          /\ \A r \in DOMAIN read : read[r] \in Nat
      BY <2>1, ApplyRevisionMoves, TaskForm
    <3>5. \A r \in DOMAIN read : read[r] <= draft[f][r].comment
      BY <3>2 DEF TasksFit, Fits, Working
    <3>6. \A g \in Gens, r \in Rows : draft[g][r].comment \in Nat /\ draft[g][r].basis \in Nat
      BY PlanConstants DEF Shapes, DraftRow
    <3>7. ASSUME NEW g \in Gens, NEW r \in plan[g]
          PROVE  RowKept(g, r)
      <4>0. r \in Rows
        BY DEF Shapes
      <4>1. CASE ~(g = f /\ r \in DOMAIN read)
        BY <3>1, <3>6, <4>0, <4>1 DEF RowKept
      <4>2. CASE g = f /\ r \in DOMAIN read /\ read[r] <= draft[f][r].basis
        BY <3>3, <4>2 DEF RowKept
      <4>3. CASE g = f /\ r \in DOMAIN read /\ ~(read[r] <= draft[f][r].basis)
        <5>1. draft[f][r].basis < read[r] /\ read[r] <= draft[f][r].comment
          BY <3>4, <3>5, <3>6, <4>0, <4>3
        <5>2. draft'[f][r].comment = draft[f][r].comment
          BY <3>1, <3>4, <4>0, <4>3
        <5>3. draft[f][r].basis < draft'[f][r].comment /\ draft[f][r].comment <= draft'[f][r].comment
          BY <3>4, <3>6, <4>0, <4>3, <5>1, <5>2
        <5> QED
          BY <4>3, <5>3 DEF RowKept
      <4> QED
        BY <4>1, <4>2, <4>3
    <3> QED
      BY <3>2, <3>3, <3>7 DEF RowsKept
  <2>2. ASSUME NEW P \in SUBSET Rows, StorePlan(w, P)
        PROVE  RowsKept
    <3> DEFINE f == worker[w].msg.gen
    <3>1. f \in Gens /\ draft' = draft
      BY <2>2, StorePlanType, TaskForm DEF StorePlan
    <3>2. \/ UNCHANGED <<plan, twice>>
          \/ /\ plan'[f] = plan[f] \cup P /\ \A g \in Gens : g # f => plan'[g] = plan[g]
             /\ twice' = IF plan[f] = {} THEN twice ELSE twice \cup ({f} \X P)
      BY <2>2, <3>1 DEF StorePlan, Shapes
    <3>3. \A g \in Gens : \A r \in plan[g] : draft[g][r].comment \in Nat
      BY PlanConstants DEF Shapes, DraftRow
    <3>4. CASE UNCHANGED <<plan, twice>>
      BY <3>1, <3>4, RowsStay
    <3>5. CASE /\ plan'[f] = plan[f] \cup P /\ \A g \in Gens : g # f => plan'[g] = plan[g]
               /\ twice' = IF plan[f] = {} THEN twice ELSE twice \cup ({f} \X P)
      <4>1. twice \subseteq twice'
        BY <3>5
      <4>2. ASSUME NEW g \in Gens, plan[g] # {}
            PROVE  plan'[g] # {} /\ \A r \in plan'[g] : RowKept(g, r)
        BY <3>1, <3>3, <3>5, <4>2 DEF RowKept
      <4> QED
        BY <4>1, <4>2 DEF RowsKept
    <3> QED
      BY <3>2, <3>4, <3>5
  <2>3. ASSUME NEW m \in Message, StartGeneration(w, m) \/ StartRevision(w, m)
        PROVE  RowsKept
    BY <2>3, RowsStay DEF StartGeneration, StartRevision, Start, past
  <2>4. CASE \/ MarkGenerating(w) \/ ReadComments(w) \/ Retry(w) \/ GiveUp(w) \/ Raise(w)
             \/ FinishTask(w) \/ LoseWorker(w)
    BY <2>4, RowsStay DEF MarkGenerating, ReadComments, Retry, GiveUp, Raise, FinishTask,
                          LoseWorker, past
  <2> QED
    BY <2>1, <2>2, <2>3, <2>4 DEF WorkerStep
<1> QED
  BY <1>1, <1>2, CopiesKept

LEMMA CommentFaithful ==
  ASSUME Shapes, CopiesAreFaithful, NEW g \in Gens, NEW r \in Rows, Comment(g, r)
  PROVE  CopiesAreFaithful'
<1>1. UNCHANGED <<saved, plan, backlog, handler, twice>> /\ Shapes'
  BY CommentMoves DEF Comment
<1>2. \A f \in Gens, q \in Rows : draft[f][q].comment \in Nat
  BY PlanConstants DEF Shapes, DraftRow
<1>4. /\ draft'[g][r].comment = draft[g][r].comment + 1
      /\ draft'[g][r].revised = draft[g][r].revised
      /\ draft'[g][r].basis = draft[g][r].basis
      /\ \A f \in Gens, q \in Rows : f # g \/ q # r => draft'[f][q] = draft[f][q]
  BY CommentMoves
<1>3. ASSUME NEW f \in Gens, NEW q \in plan[f]
      PROVE  RowKept(f, q)
  <2>0. q \in Rows
    BY DEF Shapes
  <2>1. CASE f = g /\ q = r
    <3>1. Content(draft'[g][r]) = Content(draft[g][r])
      BY <1>4 DEF Content
    <3>2. draft[g][r].comment <= draft'[g][r].comment
      BY <1>2, <1>4
    <3> QED
      BY <2>1, <3>1, <3>2 DEF RowKept
  <2>2. CASE f # g \/ q # r
    <3>1. draft'[f][q] = draft[f][q] /\ draft[f][q].comment \in Nat
      BY <1>2, <1>4, <2>0, <2>2
    <3>2. q \in plan[f] /\ draft[f][q].comment <= draft'[f][q].comment
      BY <3>1
    <3>3. Content(draft'[f][q]) = Content(draft[f][q])
      BY <3>1
    <3> QED
      BY <3>2, <3>3 DEF RowKept
  <2> QED
    BY <2>1, <2>2
<1> QED
  BY <1>1, <1>3, CopiesKept DEF RowsKept

\* persist_ai_generated_tasks copies the rows in one query and saves them in a
\* later transaction: what reached the backlog is what the reviewers see, unless
\* it left a comment unanswered or two tasks worked for one request or comment.
THEOREM ReviewedIsSaved == Spec => []SavedAsReviewed
<1>1. CopiesAreFaithful => SavedAsReviewed
  <2> SUFFICES ASSUME CopiesAreFaithful, NEW g \in saved, NEW r \in plan[g]
               PROVE  \/ r \in DOMAIN backlog[g] /\ backlog[g][r] = Content(draft[g][r])
                      \/ r \in DOMAIN backlog[g] /\ backlog[g][r].basis < draft[g][r].comment
                      \/ <<g, r>> \in twice
    BY DEF SavedAsReviewed
  <2>1. Faithful(backlog[g], g)
    BY DEF CopiesAreFaithful, Copied
  <2> QED
    BY <2>1 DEF Faithful
<1>2. TypeInv /\ PlansExist /\ CopiesAreFaithful /\ [Next]_vars => CopiesAreFaithful'
  <2> SUFFICES ASSUME TypeInv, PlansExist, CopiesAreFaithful, [Next]_vars
               PROVE  CopiesAreFaithful'
    OBVIOUS
  <2>1. ASSUME NEW h \in Handlers, RequestStep(h)
        PROVE  CopiesAreFaithful'
    BY <2>1, RequestStepsFaithful DEF TypeInv
  <2>2. ASSUME NEW g \in Gens, NEW r \in Rows, Comment(g, r)
        PROVE  CopiesAreFaithful'
    BY <2>2, CommentFaithful DEF TypeInv
  <2>3. ASSUME NEW w \in Workers, WorkerStep(w) \/ LoseWorker(w)
        PROVE  CopiesAreFaithful'
    BY <2>3, WorkerStepsFaithful
  <2>4. CASE UNCHANGED vars
    BY <2>4 DEF vars, CopiesAreFaithful, Copied, Faithful
  <2> QED
    BY <2>1, <2>2, <2>3, <2>4, NextCases
<1> QED
  BY <1>1, <1>2, InitFaithful, TypeInvariant, PlansInvariant, PTL DEF Spec

-----------------------------------------------------------------------------
(* AIPlan implements PlanReview *)

\* A generation is nobody's before its row exists, and its request's alone until
\* the message about it is sent.
NotSent(g) ==
  /\ \A m \in Message : m.gen = g => queue[m] = 0
  /\ \A w \in Workers : Working(w) => worker[w].msg.gen # g

Asks(h, g) == handler[h].pc \in Steps /\ handler[h].gen = g

Unasked(g) == NotSent(g) /\ \A h \in Handlers : ~Asks(h, g)

OnlyAsked(h, g) ==
  /\ status[g] = "pending" /\ NotSent(g)
  /\ \A k \in Handlers : k # h => ~Asks(k, g)

AskedOnce ==
  /\ \A g \in Gens : status[g] = "none" => Unasked(g)
  /\ \A h \in Handlers : handler[h].pc = "enqueue" => OnlyAsked(h, handler[h].gen)

LEMMA InitAsked == Init => AskedOnce
  BY DEF Init, AskedOnce, Unasked, NotSent, Asks, Working, Idle, Steps, Message

\* The status of a generation does not go back to "none".
LEMMA NeverNone ==
  ASSUME TypeInv, Next
  PROVE  \A g \in Gens : status'[g] = "none" => status[g] = "none"
<1> USE DEF TypeInv
<1>1. ASSUME NEW h \in Handlers, RequestStep(h)
      PROVE  \A g \in Gens : status'[g] = "none" => status[g] = "none"
  <2>1. CASE MarkUnqueued(h) \/ GiveBack(h)
    BY <2>1, UnsentMoves DEF MarkUnqueued, GiveBack, Steps, AfterFailure
  <2>2. CASE MarkRegenerating(h) \/ \E g \in Gens : CreateGeneration(h, g)
    BY <2>2 DEF MarkRegenerating, CreateGeneration, Set, Shapes
  <2>3. CASE status' = status
    BY <2>3
  <2> QED
    BY <1>1, <2>1, <2>2, <2>3
    DEF RequestStep, HandlerStep, EnqueueGeneration, EnqueueRegeneration, Enqueue,
        CheckComments, ReadDraft, CommitSave, LoseHandler, RequestPlan, CheckRegenerate,
        CheckSave
<1>2. ASSUME NEW w \in Workers, WorkerStep(w) \/ LoseWorker(w)
      PROVE  \A g \in Gens : status'[g] = "none" => status[g] = "none"
  <2>1. CASE MarkGenerating(w) \/ FinishTask(w)
    BY <2>1 DEF MarkGenerating, FinishTask, Set, Shapes, AfterFailure
  <2>2. CASE status' = status
    BY <2>2
  <2> QED
    BY <1>2, <2>1, <2>2
    DEF WorkerStep, LoseWorker, StartGeneration, StartRevision, Start, ReadComments, Retry,
        GiveUp, Raise, ApplyRevision, StorePlan
<1> QED
  BY <1>1, <1>2, NextCases DEF Comment

\* What requests must not do to the other generations.
LEMMA RequestAsks ==
  ASSUME TypeInv, AskedOnce, Next, NEW h \in Handlers, UNCHANGED worker,
         \A k \in Handlers : k # h => handler'[k] = handler[k],
         handler[h].pc \in Steps => handler[h].gen \in Gens,
         handler'[h].pc # "enqueue",
         handler'[h].pc \in Steps => handler[h].pc \in Steps /\ handler'[h].gen = handler[h].gen,
         \A n \in Message : (handler[h].pc \in Steps /\ n.gen = handler[h].gen)
                              \/ queue'[n] = queue[n],
         \A g \in Gens : ~Asks(h, g) => status'[g] = status[g]
  PROVE  AskedOnce'
<1>1. ASSUME NEW g \in Gens, ~Asks(h, g), NotSent(g)
      PROVE  NotSent(g)'
  BY <1>1 DEF NotSent, Asks, Working
<1>2. \A k \in Handlers, g \in Gens : Asks(k, g)' => Asks(k, g)
  BY DEF Asks
<1>3. ASSUME NEW g \in Gens, status'[g] = "none" PROVE Unasked(g)'
  BY <1>1, <1>2, <1>3, NeverNone DEF AskedOnce, Unasked
<1>4. ASSUME NEW k \in Handlers, handler'[k].pc = "enqueue"
      PROVE  OnlyAsked(k, handler[k].gen)'
  <2>1. k # h /\ handler'[k] = handler[k] /\ handler[k].pc = "enqueue"
    BY <1>4
  <2>2. PICK g \in Gens : g = handler[k].gen
    BY <2>1, HandlerForm, RequestForm DEF TypeInv
  <2>3. OnlyAsked(k, g)
    BY <2>1, <2>2 DEF AskedOnce
  <2>4. ~Asks(h, g)
    BY <2>1, <2>3 DEF OnlyAsked
  <2>5. status'[g] = "pending" /\ NotSent(g)'
    BY <1>1, <2>3, <2>4 DEF OnlyAsked
  <2>6. \A j \in Handlers : j # k => ~Asks(j, g)'
    BY <1>2, <2>3 DEF OnlyAsked
  <2> QED
    BY <2>1, <2>2, <2>5, <2>6 DEF OnlyAsked
<1> QED
  BY <1>3, <1>4 DEF AskedOnce

LEMMA RequestStepsAsked ==
  ASSUME TypeInv, AskedOnce, NEW h \in Handlers, RequestStep(h)
  PROVE  AskedOnce'
<1> USE DEF TypeInv
<1>0. Next /\ UNCHANGED worker
  BY RequestsLeave DEF Next, RequestStep
<1>1. handler[h].pc \in Steps => handler[h] \in Request /\ handler[h].gen \in Gens
  BY HandlerForm, RequestForm DEF Steps
<1>2. CASE EnqueueGeneration(h) \/ EnqueueRegeneration(h)
  <2>1. PICK pc \in Steps, unsent \in Steps, kind \in {"generate", "revise"} :
          Enqueue(h, pc, kind, unsent) /\ unsent # "enqueue"
    BY <1>2 DEF EnqueueGeneration, EnqueueRegeneration, Steps
  <2>2. /\ handler[h].pc = pc /\ status' = status
        /\ \A n \in Message : n.gen # handler[h].gen => queue'[n] = queue[n]
        /\ \/ handler'[h].pc = "idle"
           \/ handler'[h].pc = unsent /\ handler'[h].gen = handler[h].gen
        /\ \A k \in Handlers : k # h => handler'[k] = handler[k]
    BY <2>1, EnqueueMoves DEF Idle
  <2>3. handler'[h].pc # "enqueue"
    BY <2>1, <2>2
  <2>4. handler'[h].pc \in Steps => handler'[h].gen = handler[h].gen
    BY <2>2 DEF Steps
  <2> QED
    BY <1>0, <1>1, <2>2, <2>3, <2>4, RequestAsks
<1>3. CASE MarkUnqueued(h) \/ GiveBack(h)
  <2>1. PICK pc \in Steps, kind \in {"generate", "revise"} : Unsent(h, pc, kind)
    BY <1>3 DEF MarkUnqueued, GiveBack, Steps
  <2>2. /\ handler[h].pc = pc /\ queue' = queue /\ handler'[h].pc = "idle"
        /\ \A f \in Gens : f # handler[h].gen => status'[f] = status[f]
        /\ \A k \in Handlers : k # h => handler'[k] = handler[k]
    BY <2>1, UnsentMoves DEF Idle
  <2>3. handler'[h].pc \notin Steps /\ handler'[h].pc # "enqueue"
    BY <2>2 DEF Steps
  <2>4. \A g \in Gens : ~Asks(h, g) => status'[g] = status[g]
    BY <2>2 DEF Asks
  <2> QED
    BY <1>0, <1>1, <2>2, <2>3, <2>4, RequestAsks
<1>4. CASE CheckComments(h) \/ MarkRegenerating(h)
  <2>1. handler[h] \in Request /\ handler[h].pc \in Steps
    BY <1>4, HandlerForm DEF CheckComments, MarkRegenerating, At, Steps
  <2>2. /\ \/ handler'[h].pc = "idle"
           \/ handler'[h].pc \in {"revise", "push"} /\ handler'[h].gen = handler[h].gen
        /\ \A k \in Handlers : k # h => handler'[k] = handler[k]
    BY <1>4, <2>1, ThenGoes, HandlerMoves DEF CheckComments, MarkRegenerating, Steps, Idle
  <2>3. queue' = queue
    BY <1>4 DEF CheckComments, MarkRegenerating
  <2>4. \A g \in Gens : ~Asks(h, g) => status'[g] = status[g]
    BY <1>1, <1>4, <2>1 DEF CheckComments, MarkRegenerating, Set, Shapes, Asks
  <2>5. handler'[h].pc # "enqueue"
        /\ (handler'[h].pc \in Steps => handler'[h].gen = handler[h].gen)
    BY <2>2 DEF Steps
  <2> QED
    BY <1>0, <1>1, <2>1, <2>2, <2>3, <2>4, <2>5, RequestAsks
<1>5. CASE ReadDraft(h)
  <2>1. handler[h].pc \in Steps /\ UNCHANGED <<status, queue>>
    BY <1>5 DEF ReadDraft, At, Steps
  <2>2. PICK c \in Copy :
          /\ handler'[h] = [pc |-> "commit", gen |-> handler[h].gen, read |-> c]
          /\ \A k \in Handlers : k # h => handler'[k] = handler[k]
    BY <1>5, ReadDraftType
  <2>3. handler'[h].gen = handler[h].gen /\ handler'[h].pc # "enqueue"
    BY <2>2
  <2> QED
    BY <1>0, <1>1, <2>1, <2>2, <2>3, RequestAsks
<1>6. CASE CommitSave(h) \/ LoseHandler(h) \/ RequestPlan(h)
  <2>1. UNCHANGED <<status, queue>>
    BY <1>6 DEF CommitSave, LoseHandler, RequestPlan
  <2>2. /\ handler'[h].pc \in {"idle", "create"}
        /\ \A k \in Handlers : k # h => handler'[k] = handler[k]
    BY <1>6, HandlerMoves DEF CommitSave, LoseHandler, RequestPlan, Idle
  <2>3. handler'[h].pc \notin Steps /\ handler'[h].pc # "enqueue"
    BY <2>2 DEF Steps
  <2> QED
    BY <1>0, <1>1, <2>1, <2>2, <2>3, RequestAsks
<1>7. ASSUME NEW g \in Gens, CreateGeneration(h, g) \/ CheckRegenerate(h, g) \/ CheckSave(h, g)
      PROVE  AskedOnce'
  <2>1. PICK pc \in Steps : /\ Goes(h, [pc |-> pc, gen |-> g, read |-> Nothing])
                             /\ (pc = "enqueue" => CreateGeneration(h, g))
    BY <1>7 DEF CreateGeneration, CheckRegenerate, CheckSave, Serve, Steps, At
  <2>2. /\ handler'[h].pc = pc /\ handler'[h].gen = g
        /\ \A k \in Handlers : k # h => handler'[k] = handler[k]
    <3> DEFINE q == [pc |-> pc, gen |-> g, read |-> Nothing]
    <3>1. q \in Request /\ q.pc = pc /\ q.gen = g
      BY NewRequest, NothingRead
    <3>2. Goes(h, q)
      BY <2>1
    <3> HIDE DEF q
    <3> QED
      BY <3>1, <3>2, HandlerMoves
  <2>3. UNCHANGED <<queue, worker>> /\ handler[h].pc \notin Steps
    BY <1>7 DEF CreateGeneration, CheckRegenerate, CheckSave, Serve, Steps, At
  <2>4. \A f \in Gens : NotSent(f) => NotSent(f)'
    BY <2>3 DEF NotSent, Working
  <2>5. \A k \in Handlers, f \in Gens : (k # h \/ f # g) /\ Asks(k, f)' => Asks(k, f)
    BY <2>2 DEF Asks
  <2>6. status'[g] # "none" /\ \A f \in Gens : f # g => status'[f] = status[f]
    <3>1. CASE CreateGeneration(h, g)
      BY <3>1, SetType DEF CreateGeneration
    <3>2. CASE CheckRegenerate(h, g) \/ CheckSave(h, g)
      BY <3>2 DEF CheckRegenerate, CheckSave, Savable
    <3> QED
      BY <1>7, <3>1, <3>2
  <2>7. ASSUME NEW f \in Gens, status'[f] = "none" PROVE Unasked(f)'
    BY <2>4, <2>5, <2>6, <2>7 DEF AskedOnce, Unasked
  <2>8. ASSUME NEW k \in Handlers, k # h, handler'[k].pc = "enqueue"
        PROVE  OnlyAsked(k, handler[k].gen)'
    <3>1. handler'[k] = handler[k] /\ handler[k].pc = "enqueue"
      BY <2>2, <2>8
    <3>2. PICK f \in Gens : f = handler[k].gen
      BY <3>1, HandlerForm, RequestForm
    <3>3. OnlyAsked(k, f)
      BY <3>1, <3>2 DEF AskedOnce
    <3>4. f # g
      <4>1. CASE CreateGeneration(h, g)
        BY <3>3, <4>1 DEF OnlyAsked, CreateGeneration
      <4>2. CASE CheckRegenerate(h, g) \/ CheckSave(h, g)
        BY <3>3, <4>2 DEF OnlyAsked, CheckRegenerate, CheckSave, Savable
      <4> QED
        BY <1>7, <4>1, <4>2
    <3> QED
      BY <2>4, <2>5, <2>6, <3>1, <3>2, <3>3, <3>4 DEF OnlyAsked
  <2>9. ASSUME handler'[h].pc = "enqueue"
        PROVE  OnlyAsked(h, handler[h].gen)'
    <3>1. CreateGeneration(h, g)
      BY <2>1, <2>2, <2>9
    <3>2. status[g] = "none" /\ status'[g] = "pending"
      BY <3>1, SetType DEF CreateGeneration
    <3>3. Unasked(g)
      BY <3>2 DEF AskedOnce
    <3> QED
      BY <2>2, <2>4, <2>5, <3>2, <3>3 DEF OnlyAsked, Unasked
  <2> QED
    BY <2>7, <2>8, <2>9 DEF AskedOnce
<1> QED
  BY <1>2, <1>3, <1>4, <1>5, <1>6, <1>7 DEF RequestStep, HandlerStep

\* Workers only touch generations that were sent.
LEMMA WorkerStepsAsked ==
  ASSUME TypeInv, AskedOnce, NEW w \in Workers, WorkerStep(w) \/ LoseWorker(w)
  PROVE  AskedOnce'
<1> USE DEF TypeInv
<1>1. Next /\ handler' = handler
  BY WorkersLeave DEF Next
<1>2. \A v \in Workers : v # w => worker'[v] = worker[v]
  BY StartMoves, TaskTurns, ReadCommentsMoves, ApplyRevisionMoves, StorePlanType
  DEF WorkerStep, StartGeneration, StartRevision
<1>3. ASSUME NEW g \in Gens, NotSent(g)
      PROVE  NotSent(g)' /\ status'[g] = status[g]
  <2>1. ASSUME NEW m \in Message, StartGeneration(w, m) \/ StartRevision(w, m)
        PROVE  NotSent(g)' /\ status'[g] = status[g]
    <3>1. \/ Start(w, m, {"pending", "processing"}, "mark")
          \/ Start(w, m, {"processing"}, "rows")
      BY <2>1 DEF StartGeneration, StartRevision
    <3>2. /\ \A n \in Message : queue'[n] <= queue[n]
          /\ worker'[w] = Idle \/ worker'[w].msg = m
          /\ queue[m] > 0 /\ status' = status
      BY <3>1, StartMoves
    <3>3. \A n \in Message : queue[n] \in Nat /\ queue'[n] \in Nat
      BY <2>1, WorkerStepsType DEF Shapes, WorkerStep
    <3>4. m.gen # g
      BY <1>3, <3>2 DEF NotSent
    <3>5. \A n \in Message : n.gen = g => queue'[n] = 0
      BY <1>3, <3>2, <3>3 DEF NotSent
    <3>6. Working(w)' => worker'[w].msg.gen # g
      BY <3>2, <3>4 DEF Working, Idle
    <3> QED
      BY <1>2, <1>3, <3>2, <3>5, <3>6 DEF NotSent, Working
  <2>2. CASE \/ MarkGenerating(w) \/ ReadComments(w) \/ Retry(w) \/ GiveUp(w) \/ Raise(w)
             \/ FinishTask(w) \/ LoseWorker(w) \/ ApplyRevision(w)
             \/ \E P \in SUBSET Rows : StorePlan(w, P)
    <3>1. worker[w] \in Task /\ Working(w) /\ worker[w].msg.gen \in Gens
      BY <2>2, WorkerForm, TaskForm
      DEF MarkGenerating, ReadComments, Retry, GiveUp, Raise, FinishTask, LoseWorker,
          ApplyRevision, StorePlan, In, Working
    <3>2. worker[w].msg.gen # g
      BY <1>3, <3>1 DEF NotSent
    <3>3. Working(w)' => worker'[w].msg = worker[w].msg
      <4>1. CASE \E P \in SUBSET Rows : StorePlan(w, P)
        BY <4>1, StorePlanType DEF Working, Idle
      <4>2. CASE ReadComments(w)
        BY <4>2, ReadCommentsMoves
      <4>3. CASE ApplyRevision(w)
        BY <4>3, ApplyRevisionMoves
      <4>4. CASE \/ MarkGenerating(w) \/ Retry(w) \/ GiveUp(w) \/ Raise(w) \/ FinishTask(w)
                 \/ LoseWorker(w)
        BY <4>4, TaskTurns DEF Working
      <4> QED
        BY <2>2, <4>1, <4>2, <4>3, <4>4
    <3>4. status'[g] = status[g]
      BY <2>2, <3>1, <3>2
      DEF MarkGenerating, ReadComments, Retry, GiveUp, Raise, FinishTask, LoseWorker,
          ApplyRevision, StorePlan, Set, Shapes
    <3>5. \A n \in Message : n.gen = g => queue'[n] = queue[n]
      <4>1. CASE Retry(w)
        <5>1. /\ Retried(worker[w].msg) \in Message
              /\ Retried(worker[w].msg).gen = worker[w].msg.gen
          BY <3>1, <4>1, TaskForm, RetriedType DEF Retry
        <5> QED
          BY <3>2, <4>1, <5>1, PutType DEF Retry
      <4>2. CASE ~Retry(w)
        BY <2>2, <4>2 DEF MarkGenerating, ReadComments, GiveUp, Raise, FinishTask, LoseWorker,
                          ApplyRevision, StorePlan
      <4> QED
        BY <4>1, <4>2
    <3> QED
      BY <1>2, <1>3, <3>2, <3>3, <3>4, <3>5 DEF NotSent, Working
  <2> QED
    BY <2>1, <2>2 DEF WorkerStep
<1>4. \A k \in Handlers, g \in Gens : Asks(k, g)' <=> Asks(k, g)
  BY <1>1 DEF Asks
<1>5. ASSUME NEW g \in Gens, status'[g] = "none" PROVE Unasked(g)'
  BY <1>1, <1>3, <1>4, <1>5, NeverNone DEF AskedOnce, Unasked
<1>6. ASSUME NEW k \in Handlers, handler[k].pc = "enqueue"
      PROVE  OnlyAsked(k, handler[k].gen)'
  <2>1. PICK g \in Gens : g = handler[k].gen
    BY <1>6, HandlerForm, RequestForm
  <2>2. OnlyAsked(k, g)
    BY <1>6, <2>1 DEF AskedOnce
  <2> QED
    BY <1>1, <1>3, <1>4, <2>1, <2>2 DEF OnlyAsked
<1> QED
  BY <1>1, <1>5, <1>6 DEF AskedOnce

LEMMA AskedInvariant == Spec => []AskedOnce
<1>1. TypeInv /\ AskedOnce /\ [Next]_vars => AskedOnce'
  <2> SUFFICES ASSUME TypeInv, AskedOnce, [Next]_vars PROVE AskedOnce'
    OBVIOUS
  <2>1. ASSUME NEW h \in Handlers, RequestStep(h)
        PROVE  AskedOnce'
    BY <2>1, RequestStepsAsked
  <2>2. ASSUME NEW g \in Gens, NEW r \in Rows, Comment(g, r)
        PROVE  AskedOnce'
    BY <2>2 DEF Comment, AskedOnce, Unasked, OnlyAsked, NotSent, Asks, Working
  <2>3. ASSUME NEW w \in Workers, WorkerStep(w) \/ LoseWorker(w)
        PROVE  AskedOnce'
    BY <2>3, WorkerStepsAsked
  <2>4. CASE UNCHANGED vars
    BY <2>4 DEF vars, AskedOnce, Unasked, OnlyAsked, NotSent, Asks, Working
  <2> QED
    BY <2>1, <2>2, <2>3, <2>4, NextCases
<1> QED
  BY <1>1, InitAsked, TypeInvariant, PTL DEF Spec

\* One step of a request or of a task moves its hand, and no other.
LEMMA HandOfRequest ==
  ASSUME NEW h \in Handlers, worker' = worker,
         \A k \in Handlers : k # h => handler'[k] = handler[k]
  PROVE  /\ Hand[h] = RequestHand(handler[h]) /\ h \in Workers \cup Handlers
         /\ Hand' = [Hand EXCEPT ![h] = RequestHand(handler[h])']
<1>1. h \notin Workers
  BY PlanConstants
<1>2. \A x \in Handlers : x # h => RequestHand(handler[x])' = RequestHand(handler[x])
  BY DEF RequestHand
<1> QED
  BY <1>1, <1>2 DEF Hand

LEMMA HandOfTask ==
  ASSUME NEW w \in Workers, handler' = handler,
         \A v \in Workers : v # w => worker'[v] = worker[v]
  PROVE  /\ Hand[w] = TaskHand(worker[w]) /\ w \in Workers \cup Handlers
         /\ Hand' = [Hand EXCEPT ![w] = TaskHand(worker[w])']
<1>1. \A x \in Workers : x # w => TaskHand(worker[x])' = TaskHand(worker[x])
  BY DEF TaskHand
<1>2. \A x \in Handlers : RequestHand(handler[x])' = RequestHand(handler[x])
  BY DEF RequestHand
<1> QED
  BY <1>1, <1>2 DEF Hand

ReviewStep == [Review!Next]_(Review!vars)
Hands == Workers \cup Handlers
Doing(does, g) == [gen |-> g, does |-> does]

\* The steps of PlanReview, by what they do to the hand that makes them.
LEMMA ReviewSteps ==
  ASSUME NEW g \in Gens, NEW x \in Hands
  PROVE  /\ \A does \in {"propose", "revise", "save"} :
              (/\ Hand[x] = Free /\ Hand' = [Hand EXCEPT ![x] = Doing(does, g)]
               /\ \/ does = "propose" /\ status[g] \in {"pending", "processing"}
                  \/ does = "revise" /\ plan[g] # {} /\ status[g] = "processing"
                  \/ (/\ does \in {"revise", "save"} /\ plan[g] # {}
                      /\ status[g] = "completed" /\ batches[g] = 0)
               /\ UNCHANGED <<status, plan, batches>>)
                => ReviewStep
         /\ (/\ Hand[x] \in {Doing("propose", g), Doing("revise", g)}
             /\ status' = [status EXCEPT ![g] = "processing"]
             /\ UNCHANGED <<plan, batches>> /\ Hand' = Hand)
              => ReviewStep
         /\ (/\ Hand[x] = Doing("propose", g)
             /\ status' = [status EXCEPT ![g] = "failed"]
             /\ UNCHANGED <<plan, batches>> /\ Hand' = [Hand EXCEPT ![x] = Free])
              => ReviewStep
         /\ (/\ Hand[x] \in {Doing("close", g), Doing("revise", g)} /\ plan[g] # {}
             /\ status' = [status EXCEPT ![g] = "completed"]
             /\ UNCHANGED <<plan, batches>> /\ Hand' = [Hand EXCEPT ![x] = Free])
              => ReviewStep
         /\ (/\ Hand[x] = Doing("save", g)
             /\ batches' = [batches EXCEPT ![g] = @ + 1]
             /\ UNCHANGED <<status, plan>> /\ Hand' = [Hand EXCEPT ![x] = Free])
              => ReviewStep
         /\ (Hand' = [Hand EXCEPT ![x] = Free] /\ UNCHANGED <<status, plan, batches>>)
              => ReviewStep
<1>1. /\ \A does \in {"propose", "revise", "save"} : Review!Lay(g, x, does) => ReviewStep
      /\ (\/ Review!Work(g, x) \/ Review!Fail(g, x) \/ Review!Complete(g, x)
          \/ Review!Save(g, x) \/ Review!GiveUp(x)) => ReviewStep
  BY DEF Review!Next, ReviewStep, Hands
<1> QED
  BY <1>1 DEF Review!Lay, Review!Work, Review!Fail, Review!Complete, Review!Save, Review!GiveUp,
              Review!Free, Free, Review!On, Review!Turns, Review!Leaves, Review!Becomes,
              Review!Unsaved, Doing

LEMMA NothingNew == UNCHANGED <<status, plan, batches, Hand>> => ReviewStep
  BY DEF ReviewStep, Review!vars

LEMMA HandStays ==
  ASSUME NEW x \in Hands, NEW f, Hand' = [Hand EXCEPT ![x] = f], Hand[x] = f
  PROVE  Hand' = Hand
  BY DEF Hand, Hands

\* What a request's hand does, by where the request is.
LEMMA RequestDoes ==
  ASSUME NEW q
  PROVE  /\ q.pc \in {"idle", "create", "enqueue"} => RequestHand(q) = Free
         /\ q.pc = "unqueued" => RequestHand(q) = Doing("propose", q.gen)
         /\ q.pc \in {"draft", "commit"} => RequestHand(q) = Doing("save", q.gen)
         /\ q.pc \in {"due", "revise", "push", "unpushed"}
              => RequestHand(q) = Doing("revise", q.gen)
  BY DEF RequestHand, Doing

LEMMA BatchesCount ==
  ASSUME Shapes, NEW g \in Gens, g \notin saved
  PROVE  batches[g] = 0
<1>1. batches[g] \in Nat /\ ~(batches[g] > 0)
  BY DEF Shapes
<1> QED
  BY <1>1

LEMMA RequestStepsReview ==
  ASSUME TypeInv, PlansExist, AskedOnce, NEW h \in Handlers, RequestStep(h)
  PROVE  ReviewStep
<1> USE DEF TypeInv
<1>1. worker' = worker /\ plan' = plan /\ h \in Hands
  BY RequestsLeave DEF Hands
<1>2. Hand[h] = RequestHand(handler[h])
  BY <1>1, PlanConstants DEF Hand
<1>3. ASSUME \A k \in Handlers : k # h => handler'[k] = handler[k]
      PROVE  Hand' = [Hand EXCEPT ![h] = RequestHand(handler'[h])]
  <2>1. Hand' = [Hand EXCEPT ![h] = RequestHand(handler[h])']
    BY <1>1, <1>3, HandOfRequest
  <2>2. RequestHand(handler[h])' = RequestHand(handler'[h])
    BY DEF RequestHand
  <2> QED
    BY <2>1, <2>2
<1>4. ASSUME \A k \in Handlers : k # h => handler'[k] = handler[k], handler'[h].pc = "idle",
             UNCHANGED <<status, batches>>
      PROVE  ReviewStep
  <2>1. Hand' = [Hand EXCEPT ![h] = Free]
    BY <1>3, <1>4, RequestDoes
  <2>2. Review!GiveUp(h)
    BY <1>1, <1>4, <2>1 DEF Review!GiveUp, Review!Leaves, Review!Free, Free
  <2> QED
    BY <1>1, <2>2 DEF Review!Next, ReviewStep, Hands
<1>5. ASSUME \A k \in Handlers : k # h => handler'[k] = handler[k],
             RequestHand(handler'[h]) = RequestHand(handler[h])
      PROVE  Hand' = Hand
  BY <1>1, <1>2, <1>3, <1>5, HandStays
<1>6. handler[h].pc \in Steps => handler[h] \in Request /\ handler[h].gen \in Gens
  BY HandlerForm, RequestForm DEF Steps
<1>7. CASE EnqueueGeneration(h)
  <2>1. PICK pc \in Steps : Enqueue(h, pc, "generate", "unqueued") /\ pc = "enqueue"
    BY <1>7 DEF EnqueueGeneration, Steps
  <2>2. "unqueued" \in Steps /\ "generate" \in {"generate", "revise"}
    BY DEF Steps
  <2>3. /\ handler[h].pc = "enqueue" /\ handler[h].gen \in Gens
        /\ \/ handler'[h] = Idle
           \/ handler'[h].pc = "unqueued" /\ handler'[h].gen = handler[h].gen
        /\ \A k \in Handlers : k # h => handler'[k] = handler[k]
        /\ UNCHANGED <<status, batches>>
    BY <2>1, <2>2, EnqueueMoves
  <2>4. CASE handler'[h] = Idle
    BY <1>4, <2>3, <2>4 DEF Idle
  <2>5. CASE handler'[h].pc = "unqueued" /\ handler'[h].gen = handler[h].gen
    <3>1. PICK g \in Gens : g = handler[h].gen
      BY <2>3
    <3>2. Hand[h] = Free /\ Hand' = [Hand EXCEPT ![h] = Doing("propose", g)]
      BY <1>2, <1>3, <2>3, <2>5, <3>1, RequestDoes
    <3>3. status[g] = "pending"
      BY <2>3, <3>1 DEF AskedOnce, OnlyAsked
    <3> QED
      BY <1>1, <2>3, <3>2, <3>3, ReviewSteps
  <2> QED
    BY <2>3, <2>4, <2>5
<1>8. CASE EnqueueRegeneration(h)
  <2>1. PICK pc \in Steps : Enqueue(h, pc, "revise", "unpushed") /\ pc = "push"
    BY <1>8 DEF EnqueueRegeneration, Steps
  <2>2. "unpushed" \in Steps /\ "revise" \in {"generate", "revise"}
    BY DEF Steps
  <2>3. /\ handler[h].pc = "push" /\ handler[h].gen \in Gens
        /\ \/ handler'[h] = Idle
           \/ handler'[h].pc = "unpushed" /\ handler'[h].gen = handler[h].gen
        /\ \A k \in Handlers : k # h => handler'[k] = handler[k]
        /\ UNCHANGED <<status, batches>>
    BY <2>1, <2>2, EnqueueMoves
  <2>4. CASE handler'[h] = Idle
    BY <1>4, <2>3, <2>4 DEF Idle
  <2>5. CASE handler'[h].pc = "unpushed" /\ handler'[h].gen = handler[h].gen
    BY <1>1, <1>5, <2>3, <2>5, RequestDoes, NothingNew
  <2> QED
    BY <2>3, <2>4, <2>5
<1>9. CASE MarkUnqueued(h) \/ GiveBack(h)
  <2>1. PICK pc \in Steps, kind \in {"generate", "revise"} :
          /\ Unsent(h, pc, kind)
          /\ \/ pc = "unqueued" /\ kind = "generate"
             \/ pc = "unpushed" /\ kind = "revise"
    BY <1>9 DEF MarkUnqueued, GiveBack, Steps
  <2>2. /\ handler[h].pc = pc /\ handler[h].gen \in Gens /\ handler'[h] = Idle
        /\ \A k \in Handlers : k # h => handler'[k] = handler[k]
        /\ batches' = batches
    BY <2>1, UnsentMoves
  <2>3. PICK g \in Gens : g = handler[h].gen
    BY <2>2
  <2>4. status' = [status EXCEPT ![g] = AfterFailure(kind)]
    BY <2>1, <2>3 DEF Unsent, Set
  <2>5. Hand' = [Hand EXCEPT ![h] = Free]
    BY <1>3, <2>2, RequestDoes DEF Idle
  <2>6. CASE pc = "unqueued" /\ kind = "generate"
    <3>1. Hand[h] = Doing("propose", g) /\ status' = [status EXCEPT ![g] = "failed"]
      BY <1>2, <2>2, <2>3, <2>4, <2>6, RequestDoes DEF AfterFailure
    <3> QED
      BY <1>1, <2>2, <2>5, <3>1, ReviewSteps
  <2>7. CASE pc = "unpushed" /\ kind = "revise"
    <3>1. Hand[h] = Doing("revise", g) /\ status' = [status EXCEPT ![g] = "completed"]
      BY <1>2, <2>2, <2>3, <2>4, <2>7, RequestDoes DEF AfterFailure
    <3>2. plan[g] # {}
      BY <2>2, <2>3, <2>7 DEF PlansExist, RequestsHavePlan
    <3> QED
      BY <1>1, <2>2, <2>5, <3>1, <3>2, ReviewSteps
  <2> QED
    BY <2>1, <2>6, <2>7
<1>10. CASE CheckComments(h)
  <2>1. handler[h].pc = "due" /\ handler[h] \in Request /\ UNCHANGED <<status, batches>>
    BY <1>10, HandlerForm DEF CheckComments, At
  <2>2. CASE Goes(h, Idle)
    BY <1>4, <2>1, <2>2, HandlerMoves DEF Idle
  <2>3. CASE Then(h, "revise")
    <3>1. /\ handler'[h].pc = "revise" /\ handler'[h].gen = handler[h].gen
          /\ \A k \in Handlers : k # h => handler'[k] = handler[k]
      BY <2>1, <2>3, ThenGoes DEF Steps
    <3> QED
      BY <1>1, <1>5, <2>1, <3>1, RequestDoes, NothingNew
  <2> QED
    BY <1>10, <2>2, <2>3 DEF CheckComments
<1>11. CASE MarkRegenerating(h)
  <2>1. handler[h].pc = "revise" /\ handler[h] \in Request /\ batches' = batches
    BY <1>11, HandlerForm DEF MarkRegenerating, At
  <2>2. /\ handler'[h].pc = "push" /\ handler'[h].gen = handler[h].gen
        /\ \A k \in Handlers : k # h => handler'[k] = handler[k]
    BY <1>11, <2>1, ThenGoes DEF MarkRegenerating, Steps
  <2>3. PICK g \in Gens : g = handler[h].gen
    BY <2>1, RequestForm
  <2>4. Hand' = Hand /\ Hand[h] = Doing("revise", g)
    BY <1>2, <1>5, <2>1, <2>2, <2>3, RequestDoes
  <2>5. status' = [status EXCEPT ![g] = "processing"]
    BY <1>11, <2>3 DEF MarkRegenerating, Set
  <2> QED
    BY <1>1, <2>1, <2>4, <2>5, ReviewSteps
<1>12. CASE ReadDraft(h)
  <2>1. handler[h].pc = "draft" /\ UNCHANGED <<status, batches>>
    BY <1>12 DEF ReadDraft, At
  <2>2. PICK c \in Copy :
          /\ handler'[h] = [pc |-> "commit", gen |-> handler[h].gen, read |-> c]
          /\ \A k \in Handlers : k # h => handler'[k] = handler[k]
    BY <1>12, ReadDraftType
  <2>3. handler'[h].pc = "commit" /\ handler'[h].gen = handler[h].gen
    BY <2>2
  <2> QED
    BY <1>1, <1>5, <2>1, <2>2, <2>3, RequestDoes, NothingNew
<1>13. CASE CommitSave(h)
  <2>1. handler[h].pc = "commit"
    BY <1>13 DEF CommitSave, At
  <2>2. PICK g \in Gens : g = handler[h].gen
    BY <2>1, CopyForm
  <2>3. /\ handler'[h].pc = "idle" /\ \A k \in Handlers : k # h => handler'[k] = handler[k]
        /\ batches' = [batches EXCEPT ![g] = @ + 1] /\ status' = status
    BY <1>13, <2>2, HandlerMoves DEF CommitSave, Idle
  <2>4. Hand' = [Hand EXCEPT ![h] = Free] /\ Hand[h] = Doing("save", g)
    BY <1>2, <1>3, <2>1, <2>2, <2>3, RequestDoes
  <2> QED
    BY <1>1, <2>3, <2>4, ReviewSteps
<1>14. CASE LoseHandler(h)
  BY <1>4, <1>14, HandlerMoves DEF LoseHandler, Idle
<1>15. CASE RequestPlan(h)
  <2>1. /\ handler[h].pc = "idle" /\ handler'[h].pc = "create"
        /\ \A k \in Handlers : k # h => handler'[k] = handler[k]
        /\ UNCHANGED <<status, batches>>
    BY <1>15, HandlerMoves DEF RequestPlan, At
  <2> QED
    BY <1>1, <1>5, <2>1, RequestDoes, NothingNew
<1>16. ASSUME NEW g \in Gens, NEW pc \in Steps,
              Goes(h, [pc |-> pc, gen |-> g, read |-> Nothing])
       PROVE  /\ handler'[h].pc = pc /\ handler'[h].gen = g
              /\ \A k \in Handlers : k # h => handler'[k] = handler[k]
  <2> DEFINE q == [pc |-> pc, gen |-> g, read |-> Nothing]
  <2>1. q \in Request /\ q.pc = pc /\ q.gen = g
    BY NewRequest, NothingRead
  <2>2. Goes(h, q)
    BY <1>16
  <2> HIDE DEF q
  <2> QED
    BY <2>1, <2>2, HandlerMoves
<1>17. ASSUME NEW g \in Gens, CreateGeneration(h, g)
       PROVE  ReviewStep
  <2>1. /\ handler[h].pc = "create" /\ status[g] = "none" /\ batches' = batches
        /\ status' = [status EXCEPT ![g] = "pending"]
        /\ Goes(h, [pc |-> "enqueue", gen |-> g, read |-> Nothing])
    BY <1>17 DEF CreateGeneration, At, Set
  <2>2. /\ handler'[h].pc = "enqueue"
        /\ \A k \in Handlers : k # h => handler'[k] = handler[k]
    BY <1>16, <2>1 DEF Steps
  <2>3. Hand' = Hand
    BY <1>5, <2>1, <2>2, RequestDoes
  <2>4. Review!Ask(g)
    BY <1>1, <2>1, <2>3 DEF Review!Ask, Review!Becomes
  <2> QED
    BY <2>4 DEF Review!Next, ReviewStep
<1>18. ASSUME NEW g \in Gens, CheckRegenerate(h, g) \/ CheckSave(h, g)
       PROVE  ReviewStep
  <2>1. PICK does \in {"revise", "save"}, pc \in {"due", "draft"} :
          /\ Goes(h, [pc |-> pc, gen |-> g, read |-> Nothing])
          /\ (does = "revise" /\ pc = "due") \/ (does = "save" /\ pc = "draft")
    BY <1>18 DEF CheckRegenerate, CheckSave, Serve
  <2>2. handler[h].pc = "idle" /\ status[g] = "completed" /\ g \notin saved
        /\ UNCHANGED <<status, batches>>
    BY <1>18 DEF CheckRegenerate, CheckSave, Serve, Savable, At
  <2>3. /\ handler'[h].pc = pc /\ handler'[h].gen = g
        /\ \A k \in Handlers : k # h => handler'[k] = handler[k]
    BY <1>16, <2>1 DEF Steps
  <2>4. plan[g] # {} /\ batches[g] = 0
    BY <2>2, BatchesCount DEF PlansExist, CompletedHasPlan
  <2>5. RequestHand(handler'[h]) = Doing(does, g)
    BY <2>1, <2>3, RequestDoes
  <2>6. Hand[h] = Free /\ Hand' = [Hand EXCEPT ![h] = Doing(does, g)]
    BY <1>2, <1>3, <2>2, <2>3, <2>5, RequestDoes
  <2> QED
    BY <1>1, <2>2, <2>4, <2>6, ReviewSteps
<1> QED
  BY <1>7, <1>8, <1>9, <1>10, <1>11, <1>12, <1>13, <1>14, <1>15, <1>17, <1>18
  DEF RequestStep, HandlerStep

\* What a task's hand does, by where the task is.
LEMMA TaskDoes ==
  ASSUME NEW t \in Task
  PROVE  /\ t.msg.kind = "revise" => TaskHand(t) = Doing("revise", t.msg.gen)
         /\ (t.msg.kind = "generate" /\ t.pc = "finish")
              => TaskHand(t) = Doing("close", t.msg.gen)
         /\ (t.msg.kind = "generate" /\ t.pc # "finish")
              => TaskHand(t) = Doing("propose", t.msg.gen)
<1>1. t # Idle
  BY DEF Task, Idle
<1> QED
  BY <1>1 DEF TaskHand, Doing

LEMMA WorkerStepsReview ==
  ASSUME TypeInv, PlansExist, NEW w \in Workers, WorkerStep(w) \/ LoseWorker(w)
  PROVE  ReviewStep
<1> USE DEF TypeInv
<1>1. UNCHANGED <<batches, handler>> /\ w \in Hands
  BY WorkersLeave DEF Hands
<1>2. Hand[w] = TaskHand(worker[w]) /\ TaskHand(Idle) = Free
  BY DEF Hand, TaskHand
<1>3. ASSUME \A v \in Workers : v # w => worker'[v] = worker[v]
      PROVE  Hand' = [Hand EXCEPT ![w] = TaskHand(worker'[w])]
  <2>1. Hand' = [Hand EXCEPT ![w] = TaskHand(worker[w])']
    BY <1>1, <1>3, HandOfTask
  <2>2. TaskHand(worker[w])' = TaskHand(worker'[w])
    BY DEF TaskHand
  <2> QED
    BY <2>1, <2>2
<1>4. ASSUME \A v \in Workers : v # w => worker'[v] = worker[v], worker'[w] = Idle,
             UNCHANGED <<status, plan>>
      PROVE  ReviewStep
  <2>1. Hand' = [Hand EXCEPT ![w] = Free]
    BY <1>2, <1>3, <1>4
  <2>2. Review!GiveUp(w)
    BY <1>1, <1>4, <2>1 DEF Review!GiveUp, Review!Leaves, Review!Free, Free
  <2> QED
    BY <1>1, <2>2 DEF Review!Next, ReviewStep, Hands
<1>5. ASSUME \A v \in Workers : v # w => worker'[v] = worker[v],
             TaskHand(worker'[w]) = TaskHand(worker[w])
      PROVE  Hand' = Hand
  BY <1>1, <1>2, <1>3, <1>5, HandStays
<1>6. ASSUME NEW m \in Message, StartGeneration(w, m) \/ StartRevision(w, m)
      PROVE  ReviewStep
  <2>1. PICK pc \in {"mark", "rows"}, statuses \in {{"processing"}, {"pending", "processing"}} :
          /\ Start(w, m, statuses, pc)
          /\ \/ m.kind = "generate" /\ pc = "mark"
             \/ m.kind = "revise" /\ statuses = {"processing"}
    BY <1>6 DEF StartGeneration, StartRevision
  <2>2. /\ \/ worker'[w] = Idle
           \/ /\ worker'[w] \in Task /\ worker'[w].pc = pc /\ worker'[w].msg = m
              /\ status[m.gen] \in statuses
        /\ \A v \in Workers : v # w => worker'[v] = worker[v]
        /\ worker[w].pc = "idle" /\ queue[m] > 0
        /\ UNCHANGED <<status, plan>>
    BY <2>1, StartMoves
  <2>3. CASE worker'[w] = Idle
    BY <1>4, <2>2, <2>3
  <2>4. CASE worker'[w] \in Task /\ worker'[w].pc = pc /\ worker'[w].msg = m
               /\ status[m.gen] \in statuses
    <3>1. PICK g \in Gens : g = m.gen
      BY DEF Message
    <3>2. Hand[w] = Free
      BY <1>2, <2>2, WorkerForm DEF Working
    <3>3. CASE m.kind = "generate" /\ pc = "mark"
      <4>1. TaskHand(worker'[w]) = Doing("propose", g)
        BY <2>4, <3>1, <3>3, TaskDoes
      <4>2. status[g] \in {"pending", "processing"}
        BY <2>1, <2>4, <3>1
      <4> QED
        BY <1>1, <1>3, <2>2, <3>2, <4>1, <4>2, ReviewSteps
    <3>4. CASE m.kind = "revise" /\ statuses = {"processing"}
      <4>1. TaskHand(worker'[w]) = Doing("revise", g)
        BY <2>4, <3>1, <3>4, TaskDoes
      <4>2. status[g] = "processing" /\ plan[g] # {}
        BY <2>2, <2>4, <3>1, <3>4 DEF PlansExist, MessagesHavePlan
      <4> QED
        BY <1>1, <1>3, <2>2, <3>2, <4>1, <4>2, ReviewSteps
    <3> QED
      BY <2>1, <3>3, <3>4
  <2> QED
    BY <2>2, <2>3, <2>4
<1>7. CASE MarkGenerating(w) \/ GiveUp(w)
  <2>1. /\ worker[w] \in Task /\ worker'[w] \in Task
        /\ worker'[w].msg = worker[w].msg /\ worker'[w].pc \in {"call", "fail"}
        /\ \A v \in Workers : v # w => worker'[v] = worker[v]
        /\ worker[w].pc \in {"mark", "call"} /\ plan' = plan
    <3>1. worker[w] \in Task
      BY <1>7, TaskTurns
    <3>2. CASE MarkGenerating(w)
      BY <3>1, <3>2, GoesOnMoves DEF MarkGenerating, In
    <3>3. CASE GiveUp(w)
      BY <3>1, <3>3, GoesOnMoves DEF GiveUp, In
    <3> QED
      BY <1>7, <3>2, <3>3
  <2>2. worker[w].msg.gen \in Gens /\ worker[w].msg.kind \in {"generate", "revise"}
    BY <2>1, TaskForm
  <2>3. TaskHand(worker'[w]) = TaskHand(worker[w])
    BY <2>1, <2>2, TaskDoes
  <2>4. Hand' = Hand
    BY <1>5, <2>1, <2>3
  <2>5. CASE GiveUp(w)
    BY <1>1, <2>1, <2>4, <2>5, NothingNew DEF GiveUp
  <2>6. CASE MarkGenerating(w)
    <3>1. PICK g \in Gens : g = worker[w].msg.gen
      BY <2>2
    <3>2. status' = [status EXCEPT ![g] = "processing"]
      BY <2>6, <3>1 DEF MarkGenerating, Set
    <3>3. Hand[w] \in {Doing("propose", g), Doing("revise", g)}
      BY <1>2, <2>1, <2>2, <3>1, TaskDoes
    <3> QED
      BY <1>1, <2>1, <2>4, <3>2, <3>3, ReviewSteps
  <2> QED
    BY <1>7, <2>5, <2>6
<1>8. CASE ReadComments(w) \/ ApplyRevision(w)
  <2>1. /\ worker[w] \in Task /\ worker'[w] \in Task
        /\ worker'[w].msg = worker[w].msg
        /\ \A v \in Workers : v # w => worker'[v] = worker[v]
        /\ UNCHANGED <<status, plan>>
    BY <1>8, ReadCommentsMoves, ApplyRevisionMoves DEF ReadComments, ApplyRevision
  <2>2. worker[w].msg.kind = "revise"
    <3>1. CASE ReadComments(w)
      BY <3>1 DEF ReadComments, In, TasksFit, Fits, Working
    <3>2. CASE ApplyRevision(w)
      BY <3>2 DEF ApplyRevision
    <3> QED
      BY <1>8, <3>1, <3>2
  <2>3. TaskHand(worker'[w]) = TaskHand(worker[w])
    BY <2>1, <2>2, TaskDoes
  <2> QED
    BY <1>1, <1>5, <2>1, <2>3, NothingNew
<1>9. CASE Retry(w) \/ Raise(w) \/ LoseWorker(w)
  <2>1. worker'[w] = Idle /\ \A v \in Workers : v # w => worker'[v] = worker[v]
    BY <1>9, RestMoves DEF Retry, Raise, LoseWorker
  <2>2. UNCHANGED <<status, plan>>
    BY <1>9 DEF Retry, Raise, LoseWorker
  <2> QED
    BY <1>4, <2>1, <2>2
<1>10. CASE FinishTask(w)
  <2> DEFINE m == worker[w].msg
  <2>1. worker[w] \in Task /\ plan' = plan
    BY <1>10, TaskTurns
  <2>2. worker'[w] = Idle /\ \A v \in Workers : v # w => worker'[v] = worker[v]
    BY <1>10, RestMoves DEF FinishTask
  <2>3. PICK g \in Gens : g = m.gen
    BY <2>1, TaskForm
  <2>4. Hand' = [Hand EXCEPT ![w] = Free]
    BY <1>2, <1>3, <2>2
  <2>5. m.kind \in {"generate", "revise"} /\ worker[w].pc \in {"finish", "fail"}
    BY <1>10, <2>1, TaskForm DEF FinishTask, In
  <2>6. CASE m.kind = "generate" /\ worker[w].pc = "fail"
    <3>1. status' = [status EXCEPT ![g] = "failed"]
      BY <1>10, <2>3, <2>6 DEF FinishTask, In, Set, AfterFailure
    <3>2. Hand[w] = Doing("propose", g)
      BY <1>2, <2>1, <2>3, <2>6, TaskDoes
    <3> QED
      BY <1>1, <2>1, <2>4, <3>1, <3>2, ReviewSteps
  <2>7. CASE m.kind = "revise" \/ worker[w].pc = "finish"
    <3>1. status' = [status EXCEPT ![g] = "completed"]
      BY <1>10, <2>3, <2>7 DEF FinishTask, In, Set, AfterFailure
    <3>2. Hand[w] \in {Doing("close", g), Doing("revise", g)}
      BY <1>2, <2>1, <2>3, <2>5, <2>7, TaskDoes
    <3>3. plan[g] # {}
      BY <2>3, <2>5, <2>7 DEF PlansExist, TasksHavePlan, Working
    <3> QED
      BY <1>1, <2>1, <2>4, <3>1, <3>2, <3>3, ReviewSteps
  <2> QED
    BY <2>5, <2>6, <2>7
<1>11. ASSUME NEW P \in SUBSET Rows, StorePlan(w, P)
       PROVE  ReviewStep
  <2>1. worker[w] \in Task /\ \A v \in Workers : v # w => worker'[v] = worker[v]
    BY <1>11, StorePlanType
  <2>2. PICK g \in Gens : g = worker[w].msg.gen
    BY <2>1, TaskForm
  <2>3. /\ status' = status /\ worker[w].msg.kind = "generate" /\ worker[w].pc = "call"
        /\ P \in Accepted
    BY <1>11 DEF StorePlan, In
  <2>4. CASE UNCHANGED <<plan, twice>> /\ Does(w, Idle)
    BY <1>4, <2>3, <2>4, RestMoves
  <2>5. CASE /\ P \cap plan[g] = {} /\ plan' = [plan EXCEPT ![g] = @ \cup P]
             /\ GoesOn(w, "finish")
    <3>1. worker'[w] \in Task /\ worker'[w].pc = "finish" /\ worker'[w].msg = worker[w].msg
      BY <2>1, <2>5, GoesOnMoves
    <3>2. TaskHand(worker'[w]) = Doing("close", g) /\ Hand[w] = Doing("propose", g)
      BY <1>2, <2>1, <2>2, <2>3, <3>1, TaskDoes
    <3>3. Hand' = [Hand EXCEPT ![w] = Doing("close", g)]
      BY <1>3, <2>1, <3>2
    <3>4. Review!Propose(g, w, P)
      BY <1>1, <2>3, <2>5, <3>2, <3>3 DEF Review!Propose, Review!On, Review!Turns, Doing
    <3>5. P \in (SUBSET Rows) \ {{}}
      BY <2>3 DEF Accepted
    <3> QED
      BY <1>1, <3>4, <3>5 DEF Review!Next, ReviewStep, Hands
  <2> QED
    BY <1>11, <2>2, <2>4, <2>5 DEF StorePlan
<1> QED
  BY <1>6, <1>7, <1>8, <1>9, <1>10, <1>11 DEF WorkerStep

\* Handlers, tasks, retries, losses and redeliveries together are a review: who
\* works on a generation found it under way, or complete and not saved; no failed
\* regeneration loses a plan, and a plan only grows.
THEOREM ReviewIsKept == Spec => KeepsReview
<1>1. Init => Review!Init
  <2> SUFFICES ASSUME Init PROVE Review!Init
    OBVIOUS
  <2>1. \A w \in Workers : TaskHand(worker[w]) = Free
    BY DEF Init, TaskHand
  <2>2. \A h \in Handlers : RequestHand(handler[h]) = Free
    BY DEF Init, RequestHand, Idle
  <2>3. Hand = [x \in Workers \cup Handlers |-> Free]
    BY <2>1, <2>2 DEF Hand
  <2> QED
    BY <2>3 DEF Init, Review!Init, Review!Free, Free
<1>2. TypeInv /\ PlansExist /\ AskedOnce /\ [Next]_vars => [Review!Next]_(Review!vars)
  <2> SUFFICES ASSUME TypeInv, PlansExist, AskedOnce, [Next]_vars PROVE ReviewStep
    BY DEF ReviewStep
  <2>1. ASSUME NEW h \in Handlers, RequestStep(h)
        PROVE  ReviewStep
    BY <2>1, RequestStepsReview
  <2>2. ASSUME NEW g \in Gens, NEW r \in Rows, Comment(g, r)
        PROVE  ReviewStep
    BY <2>2, NothingNew DEF Comment, Hand, TaskHand, RequestHand
  <2>3. ASSUME NEW w \in Workers, WorkerStep(w) \/ LoseWorker(w)
        PROVE  ReviewStep
    BY <2>3, WorkerStepsReview
  <2>4. CASE UNCHANGED vars
    BY <2>4, NothingNew DEF vars, Hand, TaskHand, RequestHand
  <2> QED
    BY <2>1, <2>2, <2>3, <2>4, NextCases
<1> QED
  BY <1>1, <1>2, TypeInvariant, PlansInvariant, AskedInvariant, PTL
  DEF Spec, KeepsReview, Review!Spec
=============================================================================
