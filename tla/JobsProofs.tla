----------------------------- MODULE JobsProofs -----------------------------
(***************************************************************************)
(* Theorems about Jobs, for any number of requests, deliveries, retries,   *)
(* edits and faults.                                                       *)
(***************************************************************************)
EXTENDS Jobs, TLAPS

-----------------------------------------------------------------------------
(* Type correctness *)

\* Only requests the limiter counts reach it.
LimitedKinds ==
  \A j \in JobIds : request[j].pc \in {"hit", "expire"} => kind(j) \in Limited

TypeInv == TypeOK /\ LimitedKinds

LEMMA InitType == Init => TypeInv
  BY JobConstants
  DEF Init, TypeOK, Row, NoRow, Statuses, Texts, Task, NoTask, Kinds, deliveries,
      TypeInv, LimitedKinds

LEMMA RowUpdates ==
  ASSUME NEW r \in Row, NEW seen \in Texts
  PROVE  /\ Marked(r) \in Row
         /\ Failed(r) \in Row
         /\ Completed(r, seen) \in Row
         /\ Completed(r, NoText) \in Row
         /\ [r EXCEPT !.status = "pending"] \in Row
  BY DEF Marked, Failed, Completed, Row, Statuses

LEMMA FaultType == ASSUME TypeOK, Fault PROVE faults' \in 0..MaxFaults
  BY JobConstants DEF Fault, TypeOK

LEMMA GoesType ==
  ASSUME TypeOK, NEW j \in JobIds,
         NEW pc \in {"idle", "hit", "expire", "create", "send", "unqueued", "done"},
         Goes(j, pc)
  PROVE  request' \in [JobIds -> [pc : {"idle", "hit", "expire", "create", "send",
                                        "unqueued", "done"},
                                  kind : Kinds]]
  BY DEF Goes, TypeOK

LEMMA RequestStepsType ==
  ASSUME TypeInv, NEW j \in JobIds,
         RequestStep(j) \/ AskRevision(j) \/ AskQuestion(j) \/ AskSummary(j)
           \/ FailOpen(j) \/ Refuse(j) \/ LoseRequest(j)
  PROVE  TypeOK'
<1> USE DEF TypeInv, TypeOK, limiter, description
<1>0. request[j].pc \in {"hit", "expire"} => kind(j) \in Limited
  BY DEF LimitedKinds
<1>1. CASE AskRevision(j) \/ AskQuestion(j) \/ AskSummary(j) \/ Refuse(j)
  BY <1>1, GoesType DEF AskRevision, AskQuestion, AskSummary, Refuse
<1>2. CASE Hit(j)
  <2>1. hits' \in [Limited -> Nat]
    BY <1>0, <1>2 DEF Hit, At
  <2>2. PICK pc \in {"expire", "done", "create"} : Goes(j, pc)
    BY <1>2 DEF Hit
  <2> QED
    BY <1>2, <2>1, <2>2, GoesType DEF Hit
<1>3. CASE Expire(j)
  <2>1. expiring' \subseteq Limited /\ Goes(j, "create")
    BY <1>0, <1>3 DEF Expire, At
  <2> QED
    BY <1>3, <2>1, GoesType DEF Expire
<1>4. CASE Create(j)
  <2>1. row' \in [JobIds -> Row]
    <3>1. [row[j] EXCEPT !.status = "pending"] \in Row
      BY RowUpdates DEF Texts
    <3> QED
      BY <1>4, <3>1 DEF Create
  <2> QED
    BY <1>4, <2>1, GoesType DEF Create
<1>5. CASE Send(j)
  <2>1. task' \in [deliveries -> Task]
    <3>1. task' = task \/ task' = [task EXCEPT ![<<j, First>>].pc = "queued"]
      BY <1>5 DEF Send
    <3>2. <<j, First>> \in deliveries /\ task[<<j, First>>] \in Task
      BY JobConstants DEF deliveries
    <3>3. [task[<<j, First>>] EXCEPT !.pc = "queued"] \in Task
      BY <3>2 DEF Task
    <3> QED
      BY <3>1, <3>2, <3>3
  <2>2. faults' \in 0..MaxFaults
    BY <1>5, FaultType DEF Send
  <2>3. \E pc \in {"done", "unqueued"} : Goes(j, pc)
    BY <1>5 DEF Send
  <2>4. doubted' \subseteq JobIds
    BY <1>5 DEF Send
  <2> QED
    BY <1>5, <2>1, <2>2, <2>3, <2>4, GoesType DEF Send
<1>6. CASE MarkUnqueued(j)
  <2>1. row' \in [JobIds -> Row]
    BY <1>6, RowUpdates DEF MarkUnqueued, Texts
  <2> QED
    BY <1>6, <2>1, GoesType DEF MarkUnqueued
<1>7. CASE FailOpen(j)
  <2>1. faults' \in 0..MaxFaults /\ Goes(j, "create")
    BY <1>7, FaultType DEF FailOpen
  <2>2. hits' \in [Limited -> Nat] /\ endless' \subseteq Limited /\ expiring' = expiring
    BY <1>0, <1>7 DEF FailOpen, At
  <2> QED
    BY <1>7, <2>1, <2>2, GoesType DEF FailOpen
<1>8. CASE LoseRequest(j)
  <2>1. faults' \in 0..MaxFaults /\ Goes(j, "done")
    BY <1>8, FaultType DEF LoseRequest
  <2>2. endless' \subseteq Limited /\ abandoned' \subseteq JobIds
    BY <1>0, <1>8 DEF LoseRequest, At
  <2> QED
    BY <1>8, <2>1, <2>2, GoesType DEF LoseRequest
<1> QED
  BY <1>1, <1>2, <1>3, <1>4, <1>5, <1>6, <1>7, <1>8 DEF RequestStep

LEMMA RequestStepsKinds ==
  ASSUME TypeInv, NEW j \in JobIds,
         RequestStep(j) \/ AskRevision(j) \/ AskQuestion(j) \/ AskSummary(j)
           \/ FailOpen(j) \/ Refuse(j) \/ LoseRequest(j)
  PROVE  LimitedKinds'
<1>0. ASSUME NEW pc, Goes(j, pc), pc \in {"hit", "expire"} => kind(j) \in Limited
      PROVE  LimitedKinds'
  BY <1>0 DEF TypeInv, TypeOK, LimitedKinds, Goes, kind
<1>1. CASE AskRevision(j) \/ Refuse(j)
  <2>1. \E pc \in {"create", "done"} : Goes(j, pc)
    BY <1>1 DEF AskRevision, Refuse
  <2> QED
    BY <1>0, <2>1
<1>2. CASE AskQuestion(j) \/ AskSummary(j)
  <2>1. Goes(j, "hit") /\ kind(j) \in Limited
    BY <1>2 DEF AskQuestion, AskSummary, Limited
  <2> QED
    BY <1>0, <2>1
<1>3. CASE Hit(j)
  <2>1. kind(j) \in Limited /\ \E pc \in {"expire", "done", "create"} : Goes(j, pc)
    BY <1>3 DEF Hit, At, TypeInv, LimitedKinds
  <2> QED
    BY <1>0, <2>1
<1>4. CASE Expire(j) \/ FailOpen(j) \/ Create(j) \/ Send(j) \/ MarkUnqueued(j) \/ LoseRequest(j)
  <2>1. \E pc \in {"create", "send", "unqueued", "done"} : Goes(j, pc)
    BY <1>4 DEF Expire, FailOpen, Create, Send, MarkUnqueued, LoseRequest
  <2> QED
    BY <1>0, <2>1
<1> QED
  BY <1>1, <1>2, <1>3, <1>4 DEF RequestStep

\* What Turns, Ends and a retry make of a task.
LEMMA TaskUpdates ==
  ASSUME TypeOK, NEW d \in deliveries
  PROVE  /\ \A pc \in {"queued", "mark", "fetch", "call", "write", "done"} :
              Turns(d, pc) => task' \in [deliveries -> Task]
         /\ Ends(d) => task' \in [deliveries -> Task]
         /\ [task EXCEPT ![d].pc = "mark", ![d].seen = text] \in [deliveries -> Task]
         /\ [task EXCEPT ![d].pc = "mark", ![d].seen = 0] \in [deliveries -> Task]
         /\ MayRetry(task[d].try)
              => [task EXCEPT ![d] = Retried(@.try)] \in [deliveries -> Task]
<1> USE DEF TypeOK
<1>1. \A pc \in {"queued", "mark", "fetch", "call", "write", "done"} :
        Turns(d, pc) => task' \in [deliveries -> Task]
  BY DEF Turns, Task
<1>2. Ends(d) => task' \in [deliveries -> Task]
  BY JobConstants DEF Ends, Task, NoTask, Texts
<1>3. text \in Texts
  BY DEF Texts
<1>4. /\ [task EXCEPT ![d].pc = "mark", ![d].seen = text] \in [deliveries -> Task]
      /\ [task EXCEPT ![d].pc = "mark", ![d].seen = 0] \in [deliveries -> Task]
  <2>1. ASSUME NEW seen \in Texts
        PROVE  [task EXCEPT ![d].pc = "mark", ![d].seen = seen] \in [deliveries -> Task]
    <3>1. [task EXCEPT ![d].pc = "mark"] \in [deliveries -> Task]
      BY DEF Task
    <3> QED
      BY <3>1, <2>1 DEF Task
  <2> QED
    BY <1>3, <2>1 DEF Texts
<1>5. ASSUME MayRetry(task[d].try)
      PROVE  [task EXCEPT ![d] = Retried(@.try)] \in [deliveries -> Task]
  <2>1. task[d].try + 1 \in 0..MaxRetries
    BY <1>5, JobConstants DEF MayRetry, Task
  <2>2. Retried(task[d].try) \in Task
    BY <2>1 DEF Retried, NoTask, Task, Texts
  <2> QED
    BY <2>2
<1> QED
  BY <1>1, <1>2, <1>4, <1>5

LEMMA TaskStepsType ==
  ASSUME TypeOK, NEW d \in deliveries,
         TaskStep(d) \/ LoseTask(d) \/ \E c \in Copies : Redeliver(d, c)
  PROVE  TypeOK'
<1> USE DEF TypeOK, limiter, description
<1>0. d[1] \in JobIds /\ row[d[1]] \in Row /\ task[d] \in Task /\ task[d].seen \in Texts
  BY DEF deliveries, Task
<1>1. CASE Take(d)
  BY <1>0, <1>1, TaskUpdates DEF Take
<1>2. CASE Mark(d)
  BY <1>0, <1>2, TaskUpdates, RowUpdates DEF Mark
<1>3. CASE FetchLink(d)
  BY <1>0, <1>3, TaskUpdates, RowUpdates DEF FetchLink
<1>4. CASE RetryLater(d)
  BY <1>0, <1>4, TaskUpdates DEF RetryLater
<1>5. CASE GiveUp(d)
  BY <1>0, <1>5, TaskUpdates, RowUpdates DEF GiveUp
<1>6. CASE Raise(d)
  BY <1>0, <1>6, TaskUpdates DEF Raise
<1>7. CASE FinishRevision(d)
  BY <1>0, <1>7, TaskUpdates, RowUpdates DEF FinishRevision, AfterAnswer
<1>8. CASE FinishQuestion(d) \/ FinishSummary(d)
  BY <1>0, <1>8, TaskUpdates, RowUpdates DEF FinishQuestion, FinishSummary
<1>9. CASE WriteText(d)
  <2>1. written' \in [JobIds -> [new : Texts \cup {NoText}, over : Texts \cup {NoText}]]
    BY <1>0, <1>9 DEF WriteText, Texts
  <2>2. texts' \in Texts /\ text' \in 0..texts' /\ crossed' \subseteq JobIds
    BY <1>9 DEF WriteText, Crosses, Texts
  <2> QED
    BY <1>9, <2>1, <2>2, TaskUpdates DEF WriteText
<1>10. CASE LoseTask(d)
  BY <1>0, <1>10, TaskUpdates, FaultType DEF LoseTask
<1>11. CASE \E c \in Copies : Redeliver(d, c)
  <2>1. PICK c \in Copies : Redeliver(d, c)
    BY <1>11
  <2>2. <<d[1], c>> \in deliveries
    BY <1>0 DEF deliveries
  <2> QED
    BY <1>0, <2>1, <2>2, FaultType DEF Redeliver
<1> QED
  BY <1>1, <1>2, <1>3, <1>4, <1>5, <1>6, <1>7, <1>8, <1>9, <1>10, <1>11 DEF TaskStep

LEMMA OthersType ==
  ASSUME TypeOK, Edit \/ \E k \in Limited : EndWindow(k)
  PROVE  TypeOK'
<1> USE DEF TypeOK, limiter, description
<1>1. CASE Edit
  BY <1>1, JobConstants DEF Edit, Crosses, Texts
<1>2. CASE \E k \in Limited : EndWindow(k)
  BY <1>2 DEF EndWindow
<1> QED
  BY <1>1, <1>2

LEMMA StepType == TypeInv /\ [Next]_vars => TypeInv'
<1> SUFFICES ASSUME TypeInv, [Next]_vars PROVE TypeInv'
  OBVIOUS
<1>1. CASE UNCHANGED vars
  BY <1>1 DEF TypeInv, TypeOK, LimitedKinds, kind, vars, limiter, description
<1>2. ASSUME NEW j \in JobIds,
             RequestStep(j) \/ AskRevision(j) \/ AskQuestion(j) \/ AskSummary(j)
               \/ FailOpen(j) \/ Refuse(j) \/ LoseRequest(j)
      PROVE  TypeInv'
  BY <1>2, RequestStepsType, RequestStepsKinds DEF TypeInv
<1>3. ASSUME NEW d \in deliveries,
             TaskStep(d) \/ LoseTask(d) \/ \E c \in Copies : Redeliver(d, c)
      PROVE  TypeInv'
  <2>1. UNCHANGED request
    BY <1>3
    DEF TaskStep, Take, Mark, FetchLink, RetryLater, GiveUp, Raise, FinishRevision,
        WriteText, FinishQuestion, FinishSummary, LoseTask, Redeliver
  <2> QED
    BY <1>3, <2>1, TaskStepsType DEF TypeInv, LimitedKinds, kind
<1>4. CASE Edit \/ \E k \in Limited : EndWindow(k)
  BY <1>4, OthersType DEF TypeInv, LimitedKinds, kind, Edit, EndWindow
<1> QED
  BY <1>1, <1>2, <1>3, <1>4 DEF Next

\* The program's variables keep their types, and a retry count its bound.
THEOREM TypeCorrect == Spec => []TypeOK
<1>1. TypeInv => TypeOK
  BY DEF TypeInv
<1> QED
  BY <1>1, InitType, StepType, PTL DEF Spec

-----------------------------------------------------------------------------
(***************************************************************************)
(* One job.  Before its message is sent it has no task and no doubt; and   *)
(* as long as it is not in doubt, its request is done with it before its   *)
(* only task is at work, which finds the row under way and untouched.      *)
(***************************************************************************)
Clean(r) == ~r.error /\ ~r.answered

BeforeTheMessage ==
  \A j \in JobIds :
    request[j].pc \in {"idle", "hit", "expire", "create", "send"} \/ row[j].status = "none"
      => j \notin doubted /\ \A c \in Copies : task[<<j, c>>].pc = "none"

BeforeTheRow ==
  \A j \in JobIds :
    request[j].pc \in {"idle", "hit", "expire", "create"} \/ row[j].status = "none"
      => row[j] = NoRow

Alone ==
  \A j \in JobIds \ doubted :
    /\ \A c \in Copies \ {First} : task[<<j, c>>].pc = "none"
    /\ At(j, "unqueued") => task[<<j, First>>].pc = "none"
    /\ (At(j, "unqueued") \/ At(j, "send")
          \/ task[<<j, First>>].pc \in {"queued", "mark", "fetch", "call"})
         => row[j].status \in Admits /\ Clean(row[j])

\* After the request has written the row, it stays written.
AfterTheRow ==
  \A j \in JobIds :
    request[j].pc \in {"send", "unqueued"} => row[j].status # "none"

JobInv ==
  /\ TypeInv
  /\ BeforeTheMessage /\ BeforeTheRow /\ AfterTheRow
  /\ Alone /\ MixedNeedsTwoDeliveries

LEMMA InitJob == Init => JobInv
  BY InitType, JobConstants
  DEF Init, JobInv, BeforeTheMessage, BeforeTheRow, AfterTheRow, Alone,
      MixedNeedsTwoDeliveries, NoRow, NoTask, deliveries, At, Clean

\* A request's step moves only its own request.
LEMMA GoesElsewhere ==
  ASSUME TypeOK, NEW i \in JobIds, NEW pc, Goes(i, pc)
  PROVE  /\ request'[i].pc = pc
         /\ \A j \in JobIds \ {i} : request'[j] = request[j]
         /\ \A j \in JobIds : request'[j].kind = request[j].kind
  BY DEF Goes, TypeOK

LEMMA RequestStepsJob ==
  ASSUME JobInv, TypeInv', NEW i \in JobIds,
         RequestStep(i) \/ AskRevision(i) \/ AskQuestion(i) \/ AskSummary(i)
           \/ FailOpen(i) \/ Refuse(i) \/ LoseRequest(i)
  PROVE  JobInv'
<1> USE DEF JobInv, TypeInv, BeforeTheMessage, BeforeTheRow, AfterTheRow, Alone,
            MixedNeedsTwoDeliveries, At
<1>1. ASSUME UNCHANGED <<row, task, doubted>>,
             NEW pc \in {"hit", "expire", "create", "done"}, Goes(i, pc),
             pc # "done" => request[i].pc \in {"idle", "hit", "expire", "create"}
      PROVE  JobInv'
  BY <1>1, GoesElsewhere
<1>2. CASE AskRevision(i) \/ AskQuestion(i) \/ AskSummary(i) \/ Refuse(i) \/ LoseRequest(i)
  <2>1. UNCHANGED <<row, task, doubted>>
    BY <1>2 DEF AskRevision, AskQuestion, AskSummary, Refuse, LoseRequest
  <2>2. \E pc \in {"hit", "create", "done"} :
          Goes(i, pc) /\ (pc # "done" => request[i].pc = "idle")
    BY <1>2 DEF AskRevision, AskQuestion, AskSummary, Refuse, LoseRequest
  <2> QED
    BY <1>1, <2>1, <2>2
<1>3. CASE Hit(i) \/ Expire(i) \/ FailOpen(i)
  <2>1. UNCHANGED <<row, task, doubted>>
    BY <1>3 DEF Hit, Expire, FailOpen
  <2>2. \E pc \in {"expire", "create", "done"} :
          Goes(i, pc) /\ request[i].pc \in {"hit", "expire"}
    BY <1>3 DEF Hit, Expire, FailOpen
  <2> QED
    BY <1>1, <2>1, <2>2
<1>4. CASE Create(i)
  <2>1. row[i] = NoRow /\ Goes(i, "send") /\ UNCHANGED <<task, doubted>>
    BY <1>4 DEF Create
  <2>2. \A j \in JobIds : row'[j] = IF j = i THEN [NoRow EXCEPT !.status = "pending"] ELSE row[j]
    BY <1>4, <2>1 DEF Create, TypeOK
  <2>3. \A c \in Copies : task[<<i, c>>].pc = "none"
    BY <2>1, <1>4 DEF Create
  <2> QED
    BY <2>1, <2>2, <2>3, GoesElsewhere DEF NoRow, Clean, Admits
<1>5. CASE Send(i)
  <2>1. row' = row /\ request[i].pc = "send"
    BY <1>5 DEF Send
  <2>2. \A j \in JobIds \ {i} : request'[j] = request[j]
    BY <1>5, GoesElsewhere DEF Send
  <2>3. /\ \A j \in JobIds, c \in Copies :
             (j # i \/ c # First) => task'[<<j, c>>] = task[<<j, c>>]
        /\ doubted \subseteq doubted' /\ doubted' \subseteq doubted \cup {i}
    BY <1>5, JobConstants DEF Send, TypeOK, deliveries
  <2>4. \/ request'[i].pc = "done" /\ doubted' = doubted /\ task'[<<i, First>>].pc = "queued"
        \/ request'[i].pc = "unqueued" /\ doubted' = doubted /\ task' = task
        \/ request'[i].pc = "unqueued" /\ doubted' = doubted \cup {i}
    BY <1>5, GoesElsewhere, JobConstants DEF Send, TypeOK, deliveries, Task
  <2>5. row[i].status # "none" /\ row[i].status \in Admits /\ Clean(row[i])
    BY <2>1, <1>5
  <2> QED
    BY <2>1, <2>2, <2>3, <2>4, <2>5, JobConstants
<1>6. CASE MarkUnqueued(i)
  <2>1. UNCHANGED <<task, doubted>> /\ Goes(i, "done") /\ request[i].pc = "unqueued"
    BY <1>6 DEF MarkUnqueued
  <2>2. \A j \in JobIds : row'[j] = IF j = i THEN Failed(row[i]) ELSE row[j]
    BY <1>6 DEF MarkUnqueued, TypeOK
  <2>3. Failed(row[i]).status = "failed" /\ Failed(row[i]).answered = row[i].answered
    BY DEF Failed, TypeOK, Row
  <2>4. \A j \in JobIds : request'[j].pc = request[j].pc \/ (j = i /\ request'[j].pc = "done")
    BY <2>1, GoesElsewhere
  <2>5. row[i].status # "none"
    BY <2>1
  <2>6. BeforeTheMessage' /\ BeforeTheRow' /\ AfterTheRow'
    BY <2>1, <2>2, <2>3, <2>4, <2>5
  <2>7. i \notin doubted => Clean(row[i]) /\ \A c \in Copies : task[<<i, c>>].pc = "none"
    BY <2>1
  <2>8. Alone'
    <3>1. \A j \in JobIds \ {i} : row'[j] = row[j] /\ request'[j].pc = request[j].pc
      BY <2>2, <2>4
    <3>2. request'[i].pc = "done"
      BY <2>1, GoesElsewhere
    <3> QED
      BY <2>1, <2>7, <3>1, <3>2, JobConstants
  <2>9. MixedNeedsTwoDeliveries'
    BY <2>1, <2>2, <2>3, <2>7 DEF Clean
  <2> QED
    BY <2>6, <2>8, <2>9
<1> QED
  BY <1>2, <1>3, <1>4, <1>5, <1>6 DEF RequestStep

Mixed(r) ==
  \/ r.status = "completed" /\ r.error
  \/ r.status = "failed" /\ r.answered
  \/ r.status = "processing" /\ (r.error \/ r.answered)

\* What a step of delivery c of job i leaves alone.
Elsewhere(i, c) ==
  /\ \A j \in JobIds, e \in Copies :
       <<j, e>> # <<i, c>> => task'[<<j, e>>] = task[<<j, e>>]
  /\ \A j \in JobIds \ {i} : row'[j] = row[j]
  /\ UNCHANGED <<request, doubted>>

\* A delivery at work leaves the task and the row of its job so that, without
\* doubt, a task that goes on finds the row under way, and no row is mixed.
LEMMA DeliveryKeepsJob ==
  ASSUME JobInv, TypeInv', NEW i \in JobIds, NEW c \in Copies, Elsewhere(i, c),
         task[<<i, c>>].pc # "none", task'[<<i, c>>].pc # "none",
         row'[i].status # "none",
         i \notin doubted =>
           /\ task'[<<i, c>>].pc \in {"queued", "mark", "fetch", "call"} =>
                row'[i].status \in Admits /\ Clean(row'[i])
           /\ ~Mixed(row'[i])
  PROVE  JobInv'
<1> USE DEF JobInv
<1>1. UNCHANGED <<request, doubted>>
  BY DEF Elsewhere
<1>2. \A j \in JobIds \ {i} : row'[j] = row[j] /\ \A e \in Copies : task'[<<j, e>>] = task[<<j, e>>]
  BY DEF Elsewhere
<1>3. \A e \in Copies \ {c} : task'[<<i, e>>] = task[<<i, e>>]
  BY DEF Elsewhere
<1>4. /\ request[i].pc \notin {"idle", "hit", "expire", "create", "send"}
      /\ row[i].status # "none"
  BY DEF BeforeTheMessage
<1>5. i \notin doubted => c = First /\ request[i].pc # "unqueued"
  BY DEF Alone, At
<1>6. BeforeTheMessage'
  BY <1>1, <1>2, <1>3, <1>4 DEF BeforeTheMessage
<1>7. BeforeTheRow'
  BY <1>1, <1>2, <1>4 DEF BeforeTheRow
<1>8. AfterTheRow'
  BY <1>1, <1>2 DEF AfterTheRow
<1>9. Alone'
  <2>1. \A j \in JobIds : At(j, "unqueued")' = At(j, "unqueued") /\ At(j, "send")' = At(j, "send")
    BY <1>1 DEF At
  <2>2. CASE i \in doubted
    BY <1>1, <1>2, <2>1, <2>2, JobConstants DEF Alone
  <2>3. CASE i \notin doubted
    <3>1. ~At(i, "unqueued") /\ ~At(i, "send") /\ c = First
      BY <1>4, <1>5, <2>3 DEF At
    <3> QED
      BY <1>1, <1>2, <1>3, <2>1, <2>3, <3>1, JobConstants DEF Alone
  <2> QED
    BY <2>2, <2>3
<1>10. MixedNeedsTwoDeliveries'
  BY <1>1, <1>2 DEF MixedNeedsTwoDeliveries, Mixed
<1> QED
  BY <1>6, <1>7, <1>8, <1>9, <1>10

LEMMA TaskStepsElsewhere ==
  ASSUME TypeOK, NEW i \in JobIds, NEW c \in Copies,
         TaskStep(<<i, c>>) \/ LoseTask(<<i, c>>)
  PROVE  Elsewhere(i, c)
<1> DEFINE d == <<i, c>>
<1> USE DEF TypeOK, deliveries, Elsewhere, Turns, Ends
<1>1. CASE Take(d) \/ RetryLater(d) \/ Raise(d) \/ WriteText(d) \/ LoseTask(d)
  BY <1>1 DEF Take, RetryLater, Raise, WriteText, LoseTask
<1>2. CASE Mark(d) \/ FetchLink(d) \/ GiveUp(d)
  BY <1>2 DEF Mark, FetchLink, GiveUp
<1>3. CASE FinishRevision(d) \/ FinishQuestion(d) \/ FinishSummary(d)
  BY <1>3 DEF FinishRevision, AfterAnswer, FinishQuestion, FinishSummary
<1> QED
  BY <1>1, <1>2, <1>3 DEF TaskStep

LEMMA TaskStepsJob ==
  ASSUME JobInv, TypeInv', NEW i \in JobIds, NEW c \in Copies,
         TaskStep(<<i, c>>) \/ LoseTask(<<i, c>>)
  PROVE  JobInv'
<1> DEFINE d == <<i, c>>
<1>a. TypeOK /\ d \in deliveries /\ row[i] \in Row /\ Elsewhere(i, c)
  BY TaskStepsElsewhere DEF JobInv, TypeInv, TypeOK, deliveries
<1>b. /\ task[d].pc # "none" => row[i].status # "none"
      /\ i \notin doubted => ~Mixed(row[i])
      /\ i \notin doubted /\ task[d].pc \in {"queued", "mark", "fetch", "call"} =>
           row[i].status \in Admits /\ Clean(row[i])
  BY DEF JobInv, BeforeTheMessage, MixedNeedsTwoDeliveries, Mixed, Alone
<1>c. \A pc : Turns(d, pc) => task'[d].pc = pc
  BY <1>a DEF Turns, Task, TypeOK
<1>d. Ends(d) => task'[d].pc = "done"
  BY <1>a DEF Ends, NoTask, TypeOK
<1>1. CASE Take(d)
  <2>1. UNCHANGED row /\ task[d].pc = "queued"
    BY <1>1 DEF Take, In
  <2>2. task'[d].pc \in {"mark", "done"}
    BY <1>1, <1>a, <1>d DEF Take, Task, TypeOK
  <2> QED
    BY <2>1, <2>2, <1>a, <1>b, DeliveryKeepsJob
<1>2. CASE Mark(d)
  <2>1. task[d].pc = "mark" /\ task'[d].pc \in {"fetch", "call"}
    BY <1>2, <1>c DEF Mark, In
  <2>2. row'[i] = Marked(row[i])
    BY <1>2, <1>a DEF Mark, TypeOK
  <2>3. /\ Marked(row[i]).status \in Admits /\ Marked(row[i]).status # "none"
        /\ Clean(row[i]) => Clean(Marked(row[i])) /\ ~Mixed(Marked(row[i]))
    BY <1>a DEF Admits, Clean, Mixed, Marked, Row
  <2> QED
    BY <2>1, <2>2, <2>3, <1>a, <1>b, DeliveryKeepsJob
<1>3. CASE row' = row /\ task[d].pc \in {"fetch", "call", "write", "mark"}
             /\ task'[d].pc \in {"queued", "call", "done"}
             /\ (task[d].pc = "write" => task'[d].pc = "done")
  BY <1>3, <1>a, <1>b, DeliveryKeepsJob
<1>4. CASE row'[i] = Failed(row[i]) /\ task[d].pc \in {"fetch", "call"} /\ task'[d].pc = "done"
  <2>1. Failed(row[i]).status # "none" /\ (Clean(row[i]) => ~Mixed(Failed(row[i])))
    BY <1>a DEF Failed, Clean, Mixed, Row
  <2> QED
    BY <1>4, <2>1, <1>a, <1>b, DeliveryKeepsJob
<1>5. CASE FetchLink(d)
  <2>1. task[d].pc = "fetch"
    BY <1>5 DEF FetchLink, In
  <2>2. \/ Turns(d, "call") /\ row' = row
        \/ Ends(d) /\ row' = row
        \/ Ends(d) /\ row'[i] = Failed(row[i])
    BY <1>5, <1>a DEF FetchLink, TypeOK
  <2> QED
    BY <2>1, <2>2, <1>c, <1>d, <1>3, <1>4
<1>6. CASE RetryLater(d)
  <2>1. row' = row /\ task[d].pc = "call" /\ task'[d].pc = "queued"
    BY <1>6, <1>a DEF RetryLater, In, Retried, NoTask, TypeOK
  <2> QED
    BY <2>1, <1>3
<1>7. CASE GiveUp(d)
  <2>1. task[d].pc = "call" /\ Ends(d) /\ row'[i] = Failed(row[i])
    BY <1>7, <1>a DEF GiveUp, In, TypeOK
  <2> QED
    BY <2>1, <1>d, <1>4
<1>8. CASE Raise(d) \/ WriteText(d) \/ LoseTask(d)
  <2>1. row' = row /\ task[d].pc \in {"mark", "fetch", "call", "write"} /\ Ends(d)
    BY <1>8 DEF Raise, WriteText, LoseTask, In
  <2> QED
    BY <2>1, <1>d, <1>3
<1>9. CASE FinishRevision(d) \/ FinishQuestion(d) \/ FinishSummary(d)
  <2>1. PICK seen : row'[i] = Completed(row[i], seen)
    BY <1>9, <1>a DEF FinishRevision, FinishQuestion, FinishSummary, TypeOK
  <2>2. task[d].pc = "call" /\ task'[d].pc \in {"write", "done"}
    BY <1>9, <1>c, <1>d DEF FinishRevision, AfterAnswer, FinishQuestion, FinishSummary, In
  <2>3. /\ Completed(row[i], seen).status = "completed"
        /\ Clean(row[i]) => ~Mixed(Completed(row[i], seen))
    BY <1>a DEF Completed, Clean, Mixed, Row
  <2> QED
    BY <2>1, <2>2, <2>3, <1>a, <1>b, DeliveryKeepsJob
<1> QED
  BY <1>1, <1>2, <1>5, <1>6, <1>7, <1>8, <1>9 DEF TaskStep

LEMMA RedeliverJob ==
  ASSUME JobInv, TypeInv', NEW i \in JobIds, NEW c \in Copies, NEW e \in Copies,
         Redeliver(<<i, c>>, e)
  PROVE  JobInv'
<1> USE DEF JobInv, TypeInv
<1>1. /\ \A j \in JobIds \ {i}, f \in Copies : task'[<<j, f>>] = task[<<j, f>>]
      /\ doubted' = doubted \cup {i} /\ UNCHANGED <<request, row>>
      /\ task[<<i, c>>].pc = "queued"
  BY DEF Redeliver, TypeOK, deliveries, In
<1>2. /\ request[i].pc \notin {"idle", "hit", "expire", "create", "send"}
      /\ row[i].status # "none"
  BY <1>1 DEF BeforeTheMessage
<1>3. BeforeTheMessage' /\ BeforeTheRow' /\ AfterTheRow'
  BY <1>1, <1>2 DEF BeforeTheMessage, BeforeTheRow, AfterTheRow
<1>4. Alone' /\ MixedNeedsTwoDeliveries'
  <2>1. \A j \in JobIds \ doubted' :
          /\ j \in JobIds \ doubted /\ row'[j] = row[j] /\ request'[j] = request[j]
          /\ \A f \in Copies : task'[<<j, f>>] = task[<<j, f>>]
    BY <1>1
  <2> QED
    BY <1>1, <2>1, JobConstants DEF Alone, At, MixedNeedsTwoDeliveries
<1> QED
  BY <1>3, <1>4

LEMMA StepJob == JobInv /\ [Next]_vars => JobInv'
<1> SUFFICES ASSUME JobInv, [Next]_vars PROVE JobInv'
  OBVIOUS
<1>0. TypeInv'
  BY StepType DEF JobInv
<1>1. CASE UNCHANGED <<request, row, task, doubted>>
  BY <1>0, <1>1
  DEF JobInv, BeforeTheMessage, BeforeTheRow, AfterTheRow, Alone, At,
      MixedNeedsTwoDeliveries
<1>2. ASSUME NEW i \in JobIds,
             RequestStep(i) \/ AskRevision(i) \/ AskQuestion(i) \/ AskSummary(i)
               \/ FailOpen(i) \/ Refuse(i) \/ LoseRequest(i)
      PROVE  JobInv'
  BY <1>0, <1>2, RequestStepsJob
<1>3. ASSUME NEW d \in deliveries,
             TaskStep(d) \/ LoseTask(d) \/ \E c \in Copies : Redeliver(d, c)
      PROVE  JobInv'
  <2>1. PICK i \in JobIds, c \in Copies : d = <<i, c>>
    BY DEF deliveries
  <2> QED
    BY <1>0, <1>3, <2>1, TaskStepsJob, RedeliverJob
<1>4. (UNCHANGED vars \/ Edit \/ \E k \in Limited : EndWindow(k))
        => UNCHANGED <<request, row, task, doubted>>
  BY DEF vars, Edit, EndWindow
<1> QED
  BY <1>1, <1>2, <1>3, <1>4 DEF Next

LEMMA JobInvariant == Spec => []JobInv
  BY InitJob, StepJob, PTL DEF Spec

\* Only a job whose message two deliveries worked on ends twice, or with an
\* answer beside an error.
THEOREM OneDeliveryNeverMixes == Spec => []MixedNeedsTwoDeliveries
<1>1. JobInv => MixedNeedsTwoDeliveries
  BY DEF JobInv
<1> QED
  BY <1>1, JobInvariant, PTL

-----------------------------------------------------------------------------
(* The limiter *)

CountedInv == TypeInv /\ EndlessNeedsFailure

LEMMA RequestStepsCount ==
  ASSUME CountedInv, NEW i \in JobIds,
         RequestStep(i) \/ AskRevision(i) \/ AskQuestion(i) \/ AskSummary(i)
           \/ FailOpen(i) \/ Refuse(i) \/ LoseRequest(i)
  PROVE  EndlessNeedsFailure'
<1> USE DEF CountedInv, TypeInv
<1>a. \A k \in Limited : hits[k] \in Nat
  BY DEF TypeOK
\* A request that is not at the limiter may move, where the counters stay.
<1>b. ASSUME UNCHANGED <<hits, expiring>>, endless \subseteq endless',
             NEW pc, Goes(i, pc), At(i, "expire") => kind(i) \in endless'
      PROVE  EndlessNeedsFailure'
  BY <1>b, GoesElsewhere DEF EndlessNeedsFailure, At, kind
<1>1. CASE AskRevision(i) \/ AskQuestion(i) \/ AskSummary(i) \/ Refuse(i)
           \/ Create(i) \/ Send(i) \/ MarkUnqueued(i) \/ LoseRequest(i)
  <2>1. UNCHANGED <<hits, expiring>> /\ endless \subseteq endless'
    BY <1>1
    DEF AskRevision, AskQuestion, AskSummary, Refuse, Create, Send, MarkUnqueued,
        LoseRequest, limiter
  <2>2. /\ \E pc \in {"hit", "create", "done", "send", "unqueued"} : Goes(i, pc)
        /\ At(i, "expire") => kind(i) \in endless'
    BY <1>1
    DEF AskRevision, AskQuestion, AskSummary, Refuse, Create, Send, MarkUnqueued,
        LoseRequest, At
  <2> QED
    BY <1>b, <2>1, <2>2
<1>2. CASE Hit(i)
  <2> DEFINE k == kind(i)
  <2>1. At(i, "hit") /\ k \in Limited /\ UNCHANGED <<expiring, endless>>
    BY <1>2 DEF Hit, At, LimitedKinds
  <2>2. \A l \in Limited : hits'[l] = IF l = k THEN hits[k] + 1 ELSE hits[l]
    BY <1>2, <2>1 DEF Hit, TypeOK
  <2>3. PICK pc \in {"expire", "done", "create"} :
          Goes(i, pc) /\ (hits[k] = 0 => pc = "expire")
    BY <1>2, <1>a, <2>1 DEF Hit, OpensWindow
  <2>4. /\ \A j \in JobIds : kind(j)' = kind(j)
        /\ \A j \in JobIds : At(j, "expire") => At(j, "expire")'
        /\ hits[k] = 0 => At(i, "expire")'
    BY <2>1, <2>3, GoesElsewhere DEF At, kind
  <2> HIDE DEF k
  <2>5. ASSUME NEW l \in Limited, l \notin endless, hits'[l] > 0, l \notin expiring
        PROVE  \E j \in JobIds : At(j, "expire")' /\ kind(j)' = l
    <3>1. CASE hits[l] > 0
      BY <2>4, <2>5, <3>1 DEF EndlessNeedsFailure
    <3>2. CASE hits[l] = 0
      BY <2>2, <2>4, <2>5, <3>2 DEF k
    <3> QED
      BY <1>a, <3>1, <3>2
  <2> QED
    BY <2>1, <2>5 DEF EndlessNeedsFailure
<1>3. CASE Expire(i)
  <2>1. /\ expiring' = expiring \cup {kind(i)} /\ UNCHANGED <<hits, endless>>
        /\ Goes(i, "create")
    BY <1>3 DEF Expire
  <2> QED
    BY <2>1, GoesElsewhere DEF EndlessNeedsFailure, At, kind
<1>4. CASE FailOpen(i)
  <2>1. CASE At(i, "expire") /\ endless' = endless \cup {kind(i)} /\ UNCHANGED <<hits, expiring>>
    BY <1>4, <1>b, <2>1 DEF FailOpen
  <2>2. CASE At(i, "hit") /\ UNCHANGED limiter
    BY <1>4, <1>b, <2>2 DEF FailOpen, limiter, At
  <2>3. CASE /\ At(i, "hit") /\ hits' = [hits EXCEPT ![kind(i)] = @ + 1]
             /\ endless' = IF hits[kind(i)] = 0 THEN endless \cup {kind(i)} ELSE endless
             /\ expiring' = expiring
    <3>1. kind(i) \in Limited
      BY <2>3 DEF At, LimitedKinds
    <3>2. \A l \in Limited \ endless' : hits'[l] > 0 => hits[l] > 0 /\ l \notin endless
      BY <1>a, <2>3, <3>1 DEF TypeOK
    <3>3. /\ \A j \in JobIds : kind(j)' = kind(j)
          /\ \A j \in JobIds : At(j, "expire") => At(j, "expire")'
      BY <1>4, <2>3, GoesElsewhere DEF FailOpen, At, kind
    <3> QED
      BY <2>3, <3>2, <3>3 DEF EndlessNeedsFailure
  <2> QED
    BY <1>4, <2>1, <2>2, <2>3 DEF FailOpen
<1> QED
  BY <1>1, <1>2, <1>3, <1>4 DEF RequestStep

\* A counter that never expires was left by a lost process or a Redis error.
THEOREM CountersExpire == Spec => []EndlessNeedsFailure
<1>1. Init => CountedInv
  BY InitType DEF Init, CountedInv, EndlessNeedsFailure, Limited
<1>2. CountedInv /\ [Next]_vars => CountedInv'
  <2> SUFFICES ASSUME CountedInv, [Next]_vars PROVE CountedInv'
    OBVIOUS
  <2>1. TypeInv'
    BY StepType DEF CountedInv
  <2>2. CASE UNCHANGED <<request, limiter>>
    BY <2>1, <2>2 DEF CountedInv, EndlessNeedsFailure, limiter, At, kind
  <2>3. UNCHANGED vars \/ Edit
          \/ (\E d \in deliveries : TaskStep(d) \/ LoseTask(d) \/ \E c \in Copies : Redeliver(d, c))
          => UNCHANGED <<request, limiter>>
    BY DEF vars, Edit, TaskStep, Take, Mark, FetchLink, RetryLater, GiveUp, Raise,
           FinishRevision, WriteText, FinishQuestion, FinishSummary, LoseTask, Redeliver
  <2>4. ASSUME NEW k \in Limited, EndWindow(k) PROVE CountedInv'
    BY <2>1, <2>4 DEF EndWindow, CountedInv, TypeInv, TypeOK, EndlessNeedsFailure, At, kind
  <2>5. ASSUME NEW i \in JobIds,
               RequestStep(i) \/ AskRevision(i) \/ AskQuestion(i) \/ AskSummary(i)
                 \/ FailOpen(i) \/ Refuse(i) \/ LoseRequest(i)
        PROVE  CountedInv'
    BY <2>1, <2>5, RequestStepsCount DEF CountedInv
  <2> QED
    BY <2>2, <2>3, <2>4, <2>5 DEF Next
<1>3. CountedInv => EndlessNeedsFailure
  BY DEF CountedInv
<1> QED
  BY <1>1, <1>2, <1>3, PTL DEF Spec

-----------------------------------------------------------------------------
(***************************************************************************)
(* Revisions.  While no other text crosses it, a revision at work has read *)
(* the text that is there, and what it keeps is what it read.              *)
(***************************************************************************)
Working == {"mark", "call", "write"}

ReadsTheText ==
  \A j \in JobIds \ (doubted \cup crossed) :
    kind(j) = "revision" /\ task[<<j, First>>].pc \in Working
      => task[<<j, First>>].seen = text

KeepsWhatItRead ==
  \A j \in JobIds \ doubted :
    task[<<j, First>>].pc = "write" => row[j].kept = task[<<j, First>>].seen

WritesLast ==
  \A j \in JobIds \ doubted :
    written[j].new # NoText => task[<<j, First>>].pc = "done"

KindsOfWork ==
  \A j \in JobIds, c \in Copies :
    /\ task[<<j, c>>].pc = "write" => kind(j) = "revision"
    /\ task[<<j, c>>].pc = "fetch" => kind(j) = "question"

TextFollows ==
  \A j \in JobIds :
    (kind(j) = "revision" /\ row[j].status = "completed" /\ written[j].new = NoText)
      => j \in abandoned \/ \E c \in Copies : In(<<j, c>>, "write")

RevisionInv ==
  /\ JobInv
  /\ KindsOfWork /\ WritesLast /\ KeepsWhatItRead /\ ReadsTheText
  /\ TextFollows /\ RevisionCanBeUndone

LEMMA InitRevision == Init => RevisionInv
  BY InitJob, JobConstants
  DEF Init, RevisionInv, KindsOfWork, WritesLast, KeepsWhatItRead, ReadsTheText,
      TextFollows, RevisionCanBeUndone, Working, NoTask, NoRow, deliveries

\* A request leaves the texts and the rows' kept ones alone, and starts tasks.
LEMMA RequestStepsRevision ==
  ASSUME RevisionInv, JobInv', NEW i \in JobIds,
         RequestStep(i) \/ AskRevision(i) \/ AskQuestion(i) \/ AskSummary(i)
           \/ FailOpen(i) \/ Refuse(i) \/ LoseRequest(i)
  PROVE  RevisionInv'
<1> USE DEF RevisionInv
<1>0. TypeOK
  BY DEF JobInv, TypeInv
<1>1. UNCHANGED description /\ doubted \subseteq doubted' /\ abandoned \subseteq abandoned'
  BY DEF RequestStep, AskRevision, AskQuestion, AskSummary, FailOpen, Refuse, LoseRequest,
         Hit, Expire, Create, Send, MarkUnqueued
<1>2. \E pc : Goes(i, pc)
  BY DEF RequestStep, AskRevision, AskQuestion, AskSummary, FailOpen, Refuse, LoseRequest,
         Hit, Expire, Create, Send, MarkUnqueued
<1>3. \A j \in JobIds : kind(j)' = kind(j)
  BY <1>0, <1>2, GoesElsewhere DEF kind
<1>4. \A j \in JobIds : row'[j].kept = row[j].kept
                          /\ (row'[j].status = "completed" => row[j].status = "completed")
  <2>1. UNCHANGED row \/ row' = [row EXCEPT ![i].status = "pending"]
          \/ row' = [row EXCEPT ![i] = Failed(@)]
    BY DEF RequestStep, AskRevision, AskQuestion, AskSummary, FailOpen, Refuse, LoseRequest,
           Hit, Expire, Create, Send, MarkUnqueued
  <2>2. /\ Failed(row[i]).kept = row[i].kept /\ Failed(row[i]).status = "failed"
        /\ [row[i] EXCEPT !.status = "pending"].kept = row[i].kept
        /\ [row[i] EXCEPT !.status = "pending"].status = "pending"
    BY <1>0 DEF TypeOK, Row, Failed
  <2> QED
    BY <1>0, <2>1, <2>2 DEF TypeOK
<1>5. \A j \in JobIds, c \in Copies :
        \/ task'[<<j, c>>] = task[<<j, c>>]
        \/ task[<<j, c>>].pc = "none" /\ task'[<<j, c>>].pc = "queued"
  <2>1. UNCHANGED task \/ (At(i, "send") /\ task' = [task EXCEPT ![<<i, First>>].pc = "queued"])
    BY DEF RequestStep, AskRevision, AskQuestion, AskSummary, FailOpen, Refuse, LoseRequest,
           Hit, Expire, Create, Send, MarkUnqueued
  <2>2. At(i, "send") => task[<<i, First>>].pc = "none"
    BY JobConstants DEF JobInv, BeforeTheMessage, At
  <2>3. <<i, First>> \in deliveries /\ [task[<<i, First>>] EXCEPT !.pc = "queued"].pc = "queued"
    BY <1>0, JobConstants DEF TypeOK, Task, deliveries
  <2> QED
    BY <1>0, <2>1, <2>2, <2>3 DEF TypeOK, deliveries
<1>6. KindsOfWork'
  BY <1>3, <1>5 DEF KindsOfWork
<1>7. WritesLast' /\ KeepsWhatItRead' /\ ReadsTheText'
  BY <1>1, <1>3, <1>4, <1>5, JobConstants
  DEF WritesLast, KeepsWhatItRead, ReadsTheText, Working, description
<1>8. TextFollows'
  BY <1>1, <1>3, <1>4, <1>5 DEF TextFollows, In, description
<1>9. RevisionCanBeUndone'
  BY <1>1, <1>4 DEF RevisionCanBeUndone, description
<1> QED
  BY <1>6, <1>7, <1>8, <1>9

LEMMA TaskStepsRevision ==
  ASSUME RevisionInv, JobInv', NEW i \in JobIds, NEW c \in Copies,
         TaskStep(<<i, c>>) \/ LoseTask(<<i, c>>)
  PROVE  RevisionInv'
<1> DEFINE d == <<i, c>>
<1> USE DEF RevisionInv
<1>a. TypeOK /\ d \in deliveries /\ row[i] \in Row /\ task[d] \in Task /\ Elsewhere(i, c)
  BY TaskStepsElsewhere DEF JobInv, TypeInv, TypeOK, deliveries
<1>b. \A j \in JobIds : kind(j)' = kind(j)
  BY <1>a DEF Elsewhere, kind
<1>c. /\ doubted' = doubted
      /\ \A j \in JobIds \ {i} : row'[j] = row[j] /\ \A e \in Copies : task'[<<j, e>>] = task[<<j, e>>]
      /\ \A e \in Copies \ {c} : task'[<<i, e>>] = task[<<i, e>>]
  BY <1>a DEF Elsewhere
<1>d. First \in Copies /\ (i \notin doubted /\ task[d].pc # "none" => c = First)
  BY JobConstants DEF JobInv, Alone
<1>e. \A pc : Turns(d, pc) => task'[d].pc = pc /\ task'[d].seen = task[d].seen
  BY <1>a DEF Turns, TypeOK, Task
<1>f. Ends(d) => task'[d].pc = "done"
  BY <1>a DEF Ends, NoTask, TypeOK
<1>g. /\ Failed(row[i]).status = "failed" /\ Failed(row[i]).kept = row[i].kept
      /\ Marked(row[i]).status = "processing" /\ Marked(row[i]).kept = row[i].kept
  BY <1>a DEF Task, Row, Failed, Marked
\* A step that neither completes the job nor writes the text.
<1>1. ASSUME UNCHANGED <<text, written, crossed>>, abandoned \subseteq abandoned',
             row'[i].kept = row[i].kept, task[d].pc \notin {"none", "done"},
             \/ task'[d].pc \in {"queued", "done"}
             \/ task'[d].pc = "fetch" /\ kind(i) = "question"
             \/ task'[d].pc = "call" /\ task'[d].seen = task[d].seen
                  /\ (task[d].pc \in Working \/ kind(i) # "revision"),
             row'[i].status # "completed" \/ row'[i].status = row[i].status,
             task[d].pc = "write" => i \in abandoned'
      PROVE  RevisionInv'
  <2>1. KindsOfWork'
    <3>1. task'[d].pc # "write" /\ (task'[d].pc = "fetch" => kind(i) = "question")
      BY <1>1
    <3>2. ASSUME NEW j \in JobIds, NEW e \in Copies
          PROVE  <<j, e>> = d \/ task'[<<j, e>>] = task[<<j, e>>]
      BY <1>c
    <3> QED
      BY <3>1, <3>2, <1>b DEF KindsOfWork
  <2>2. WritesLast'
    BY <1>1, <1>c, <1>d DEF WritesLast
  <2>3. KeepsWhatItRead'
    BY <1>1, <1>c, <1>d DEF KeepsWhatItRead
  <2>4. ReadsTheText'
    BY <1>1, <1>b, <1>c, <1>d DEF ReadsTheText, Working
  <2>5. TextFollows'
    <3> SUFFICES ASSUME NEW j \in JobIds,
                        (kind(j) = "revision" /\ row[j].status = "completed"
                           /\ written[j].new = NoText)'
                 PROVE  (j \in abandoned \/ \E e \in Copies : In(<<j, e>>, "write"))'
      BY DEF TextFollows
    <3>1. row[j].status = "completed"
      BY <1>1, <1>c
    <3>2. j \in abandoned \/ \E e \in Copies : task[<<j, e>>].pc = "write"
      BY <1>1, <1>b, <3>1 DEF TextFollows, In
    <3>3. ASSUME NEW e \in Copies, task[<<j, e>>].pc = "write"
          PROVE  j \in abandoned' \/ task'[<<j, e>>].pc = "write"
      BY <1>1, <1>c, <3>3
    <3> QED
      BY <1>1, <3>2, <3>3 DEF In
  <2>6. RevisionCanBeUndone'
    BY <1>1, <1>c DEF RevisionCanBeUndone
  <2> QED
    BY <2>1, <2>2, <2>3, <2>4, <2>5, <2>6
<1>2. CASE Take(d)
  <2>1. /\ UNCHANGED <<row, text, written, abandoned>> /\ crossed' = crossed \ {i}
        /\ task[d].pc = "queued"
    BY <1>2 DEF Take, In
  <2>2. \/ task'[d].pc = "mark" /\ (kind(i) = "revision" => task'[d].seen = text)
        \/ task'[d].pc = "done"
    <3>1. CASE row[i].status \in Admits
      <4> DEFINE seen == IF kind(i) = "revision" THEN text ELSE 0
      <4>1. task' = [task EXCEPT ![d].pc = "mark", ![d].seen = seen]
        BY <1>2, <3>1 DEF Take
      <4> HIDE DEF seen
      <4>2. task'[d].pc = "mark" /\ task'[d].seen = seen
        BY <4>1, <1>a DEF TypeOK, Task
      <4> QED
        BY <4>2 DEF seen
    <3>2. CASE row[i].status \notin Admits
      BY <1>2, <1>f, <3>2 DEF Take
    <3> QED
      BY <3>1, <3>2
  <2>3. i \notin doubted => written[i].new = NoText
    BY <2>1, <1>d DEF WritesLast
  <2>4. KindsOfWork' /\ WritesLast' /\ KeepsWhatItRead'
    BY <2>1, <2>2, <2>3, <1>b, <1>c, <1>d DEF KindsOfWork, WritesLast, KeepsWhatItRead
  <2>5. ReadsTheText'
    BY <2>1, <2>2, <1>b, <1>c, <1>d DEF ReadsTheText, Working
  <2>6. TextFollows'
    BY <2>1, <1>b, <1>c DEF TextFollows, In
  <2>7. RevisionCanBeUndone'
    BY <2>1, <2>3, <1>c DEF RevisionCanBeUndone
  <2> QED
    BY <2>4, <2>5, <2>6, <2>7
<1>3. CASE Mark(d)
  <2>1. /\ UNCHANGED <<text, written, crossed, abandoned>> /\ task[d].pc = "mark"
        /\ row'[i] = Marked(row[i])
    BY <1>3, <1>a DEF Mark, In, description, TypeOK
  <2>2. PICK pc \in {"fetch", "call"} : Turns(d, pc) /\ (pc = "fetch" => kind(i) = "question")
    BY <1>3 DEF Mark
  <2>3. task'[d].pc = pc /\ task'[d].seen = task[d].seen
    BY <2>2, <1>e
  <2> QED
    BY <2>1, <2>2, <2>3, <1>1, <1>g DEF Working
<1>4. CASE FetchLink(d) \/ RetryLater(d) \/ GiveUp(d) \/ Raise(d) \/ LoseTask(d)
  <2>1. /\ UNCHANGED <<text, written, crossed>> /\ abandoned \subseteq abandoned'
        /\ task[d].pc \in {"mark", "fetch", "call", "write"}
        /\ task[d].pc = "write" => i \in abandoned'
    BY <1>4 DEF FetchLink, RetryLater, GiveUp, Raise, LoseTask, In, description
  <2>2. row'[i] = row[i] \/ row'[i] = Failed(row[i])
    BY <1>4, <1>a DEF FetchLink, RetryLater, GiveUp, Raise, LoseTask, TypeOK
  <2>3. CASE FetchLink(d) /\ Turns(d, "call")
    <3>1. task'[d].pc = "call" /\ task'[d].seen = task[d].seen
      BY <2>3, <1>e
    <3>2. task[d].pc = "fetch" /\ kind(i) # "revision"
      BY <2>3 DEF FetchLink, In, KindsOfWork
    <3> QED
      BY <2>1, <2>2, <3>1, <3>2, <1>1, <1>g
  <2>4. CASE Ends(d)
    BY <2>1, <2>2, <2>4, <1>1, <1>f, <1>g
  <2>5. CASE RetryLater(d)
    <3>1. task'[d].pc = "queued" /\ task[d].pc = "call"
      BY <2>5, <1>a DEF RetryLater, In, Retried, NoTask, TypeOK
    <3> QED
      BY <2>1, <2>2, <3>1, <1>1, <1>g
  <2> QED
    BY <1>4, <2>3, <2>4, <2>5 DEF FetchLink, GiveUp, Raise, LoseTask
<1>5. CASE FinishQuestion(d) \/ FinishSummary(d)
  <2>1. /\ UNCHANGED <<text, written, crossed, abandoned>> /\ kind(i) # "revision"
        /\ task[d].pc = "call" /\ Ends(d)
    BY <1>5 DEF FinishQuestion, FinishSummary, In, description
  <2>2. KindsOfWork' /\ WritesLast' /\ KeepsWhatItRead' /\ ReadsTheText'
    BY <2>1, <1>b, <1>c, <1>d, <1>f
    DEF KindsOfWork, WritesLast, KeepsWhatItRead, ReadsTheText, Working
  <2>3. TextFollows'
    BY <2>1, <1>b, <1>c DEF TextFollows, In
  <2>4. i \notin doubted => written[i].new = NoText
    BY <2>1, <1>d DEF WritesLast
  <2>5. RevisionCanBeUndone'
    BY <2>1, <2>4, <1>c DEF RevisionCanBeUndone
  <2> QED
    BY <2>2, <2>3, <2>5
<1>6. CASE FinishRevision(d)
  <2>1. /\ UNCHANGED <<text, written, crossed, abandoned>> /\ kind(i) = "revision"
        /\ task[d].pc = "call"
        /\ task'[d].pc = "write" /\ task'[d].seen = task[d].seen
    BY <1>6, <1>e DEF FinishRevision, In, description, AfterAnswer
  <2>2. row'[i].kept = task[d].seen
    BY <1>6, <1>a DEF FinishRevision, Completed, TypeOK, Row
  <2>3. i \notin doubted => written[i].new = NoText
    BY <2>1, <1>d DEF WritesLast
  <2>4. KindsOfWork' /\ WritesLast' /\ KeepsWhatItRead'
    BY <2>1, <2>2, <2>3, <1>b, <1>c, <1>d DEF KindsOfWork, WritesLast, KeepsWhatItRead
  <2>5. ReadsTheText'
    BY <2>1, <1>b, <1>c, <1>d DEF ReadsTheText, Working
  <2>6. TextFollows'
    BY <2>1, <1>b, <1>c DEF TextFollows, In
  <2>7. RevisionCanBeUndone'
    BY <2>1, <2>3, <1>c DEF RevisionCanBeUndone
  <2> QED
    BY <2>4, <2>5, <2>6, <2>7
<1>7. CASE WriteText(d)
  <2>1. /\ UNCHANGED <<row, abandoned>> /\ task[d].pc = "write" /\ task'[d].pc = "done"
        /\ text' = texts + 1 /\ texts \in Nat
    BY <1>7, <1>a, <1>f DEF WriteText, In, TypeOK, Texts
  <2>2. /\ \A j \in JobIds \ {i} : written'[j] = written[j]
        /\ written'[i].new = texts + 1 /\ written'[i].over = text
    BY <1>7, <1>a DEF WriteText, TypeOK
  <2>3. /\ crossed \subseteq crossed' /\ (i \in crossed' => i \in crossed)
        /\ \A j \in JobIds \ {i} :
             kind(j) = "revision" /\ (\E e \in Copies : task[<<j, e>>].pc \in Working) => j \in crossed'
    BY <1>7 DEF WriteText, Crosses, Working
  <2>4. KindsOfWork' /\ KeepsWhatItRead'
    BY <2>1, <1>b, <1>c, <1>d DEF KindsOfWork, KeepsWhatItRead
  <2>5. WritesLast'
    BY <2>1, <2>2, <1>c, <1>d DEF WritesLast
  <2>6. ReadsTheText'
    BY <2>1, <2>3, <1>b, <1>c, <1>d, JobConstants DEF ReadsTheText, Working
  <2>7. TextFollows'
    <3>1. written'[i].new # NoText
      BY <2>1, <2>2, JobConstants
    <3> QED
      BY <2>1, <2>2, <3>1, <1>b, <1>c DEF TextFollows, In
  <2>8. i \notin doubted \cup crossed => row[i].kept = text
    BY <2>1, <1>d DEF KeepsWhatItRead, ReadsTheText, KindsOfWork, Working
  <2>9. RevisionCanBeUndone'
    BY <2>1, <2>2, <2>3, <2>8, <1>c DEF RevisionCanBeUndone
  <2> QED
    BY <2>4, <2>5, <2>6, <2>7, <2>9
<1> QED
  BY <1>2, <1>3, <1>4, <1>5, <1>6, <1>7 DEF TaskStep

LEMMA RedeliverRevision ==
  ASSUME RevisionInv, JobInv', NEW i \in JobIds, NEW c \in Copies, NEW e \in Copies,
         Redeliver(<<i, c>>, e)
  PROVE  RevisionInv'
<1> USE DEF RevisionInv
<1>0. TypeOK /\ task[<<i, e>>].pc = "none" /\ task[<<i, c>>].pc = "queued"
  BY DEF Redeliver, In, JobInv, TypeInv
<1>1. /\ \A j \in JobIds, f \in Copies :
           \/ task'[<<j, f>>] = task[<<j, f>>]
           \/ j = i /\ task[<<j, f>>].pc = "none" /\ task'[<<j, f>>].pc = "queued"
      /\ doubted' = doubted \cup {i}
      /\ UNCHANGED <<request, row, text, written, crossed, abandoned>>
  BY <1>0 DEF Redeliver, TypeOK, deliveries, description
<1>2. KindsOfWork' /\ WritesLast' /\ KeepsWhatItRead'
  BY <1>1, JobConstants DEF KindsOfWork, WritesLast, KeepsWhatItRead, kind
<1>3. ReadsTheText'
  BY <1>1, JobConstants DEF ReadsTheText, kind
<1>4. TextFollows'
  <2>1. \A j \in JobIds, f \in Copies : In(<<j, f>>, "write") => In(<<j, f>>, "write")'
    BY <1>1 DEF In
  <2>2. \A j \in JobIds : kind(j)' = kind(j) /\ row[j]' = row[j]
    BY <1>1 DEF kind
  <2> QED
    BY <1>1, <2>1, <2>2 DEF TextFollows
<1>5. RevisionCanBeUndone'
  BY <1>1 DEF RevisionCanBeUndone
<1> QED
  BY <1>2, <1>3, <1>4, <1>5

LEMMA EditRevision ==
  ASSUME RevisionInv, JobInv', Edit
  PROVE  RevisionInv'
<1> USE DEF RevisionInv
<1>1. UNCHANGED <<request, row, task, written, doubted, abandoned>>
  BY DEF Edit
<1>2. /\ crossed \subseteq crossed'
      /\ \A j \in JobIds :
           kind(j) = "revision" /\ (\E e \in Copies : task[<<j, e>>].pc \in Working) => j \in crossed'
  BY DEF Edit, Crosses, Working
<1>3. KindsOfWork' /\ WritesLast' /\ KeepsWhatItRead'
  BY <1>1 DEF KindsOfWork, WritesLast, KeepsWhatItRead, kind
<1>4. ReadsTheText'
  BY <1>1, <1>2, JobConstants DEF ReadsTheText, kind
<1>5. TextFollows' /\ RevisionCanBeUndone'
  BY <1>1, <1>2 DEF TextFollows, RevisionCanBeUndone, In, kind
<1> QED
  BY <1>3, <1>4, <1>5

LEMMA RevisionInvariant == Spec => []RevisionInv
<1>1. RevisionInv /\ [Next]_vars => RevisionInv'
  <2> SUFFICES ASSUME RevisionInv, [Next]_vars PROVE RevisionInv'
    OBVIOUS
  <2>1. JobInv'
    BY StepJob DEF RevisionInv
  <2>2. ASSUME UNCHANGED <<request, row, task, description, doubted, abandoned>>
        PROVE  RevisionInv'
    BY <2>1, <2>2
    DEF RevisionInv, KindsOfWork, WritesLast, KeepsWhatItRead, ReadsTheText,
        TextFollows, RevisionCanBeUndone, In, kind, description
  <2>3. UNCHANGED vars \/ (\E k \in Limited : EndWindow(k))
          => UNCHANGED <<request, row, task, description, doubted, abandoned>>
    BY DEF vars, EndWindow
  <2>4. ASSUME NEW i \in JobIds,
               RequestStep(i) \/ AskRevision(i) \/ AskQuestion(i) \/ AskSummary(i)
                 \/ FailOpen(i) \/ Refuse(i) \/ LoseRequest(i)
        PROVE  RevisionInv'
    BY <2>1, <2>4, RequestStepsRevision
  <2>5. ASSUME NEW d \in deliveries,
               TaskStep(d) \/ LoseTask(d) \/ \E c \in Copies : Redeliver(d, c)
        PROVE  RevisionInv'
    <3>1. PICK i \in JobIds, c \in Copies : d = <<i, c>>
      BY DEF deliveries
    <3> QED
      BY <2>1, <2>5, <3>1, TaskStepsRevision, RedeliverRevision
  <2> QED
    BY <2>1, <2>2, <2>3, <2>4, <2>5, EditRevision DEF Next
<1> QED
  BY <1>1, InitRevision, PTL DEF Spec

\* A completed revision whose text is not written has that write as the next
\* step of a task, or its task was lost: the safety behind CompletedIsWritten.
THEOREM CompletedIsOneWriteAway == Spec => []TextFollows
<1>1. RevisionInv => TextFollows
  BY DEF RevisionInv
<1> QED
  BY <1>1, RevisionInvariant, PTL

\* The text a revision keeps is the one it overwrote, if no other text crossed.
THEOREM RevisionsUndo == Spec => []RevisionCanBeUndone
<1>1. RevisionInv => RevisionCanBeUndone
  BY DEF RevisionInv
<1> QED
  BY <1>1, RevisionInvariant, PTL

-----------------------------------------------------------------------------
(***************************************************************************)
(* Jobs implements JobLife: a task lays a hand on the job when it finds it *)
(* under way, and a request when the broker did not answer.                *)
(***************************************************************************)
phases == [j \in JobIds |-> row[j].status]
handsOf == [j \in JobIds |-> HandsOn(j)]
AtHand == {"mark", "fetch", "call"}
LifeStep == [Life!Next]_(Life!vars)

LEMMA HandsDiffer ==
  /\ \A c : <<"request", First>> # <<"task", c>>
  /\ \A c, e : <<"task", c>> = <<"task", e>> => c = e
  OBVIOUS

LEMMA HandsMembers ==
  ASSUME NEW j \in JobIds
  PROVE  /\ \A c \in Copies : <<"task", c>> \in HandsOn(j) <=> task[<<j, c>>].pc \in AtHand
         /\ <<"request", First>> \in HandsOn(j) <=> At(j, "unqueued")
         /\ \A h \in HandsOn(j) :
              h = <<"request", First>> \/ \E c \in Copies : h = <<"task", c>>
  BY HandsDiffer DEF HandsOn, AtHand

LEMMA HandsMembersNext ==
  ASSUME NEW j \in JobIds
  PROVE  /\ \A c \in Copies : <<"task", c>> \in HandsOn(j)' <=> task'[<<j, c>>].pc \in AtHand
         /\ <<"request", First>> \in HandsOn(j)' <=> request'[j].pc = "unqueued"
         /\ \A h \in HandsOn(j)' :
              h = <<"request", First>> \/ \E c \in Copies : h = <<"task", c>>
  BY HandsDiffer DEF HandsOn, AtHand, At

LEMMA DeliveryHands ==
  ASSUME NEW i \in JobIds, NEW c \in Copies, Elsewhere(i, c)
  PROVE  /\ task'[<<i, c>>].pc \in AtHand
              => handsOf' = [handsOf EXCEPT ![i] = @ \cup {<<"task", c>>}]
         /\ task'[<<i, c>>].pc \notin AtHand
              => handsOf' = [handsOf EXCEPT ![i] = @ \ {<<"task", c>>}]
         /\ (task'[<<i, c>>].pc \in AtHand <=> task[<<i, c>>].pc \in AtHand)
              => handsOf' = handsOf
<1> DEFINE mine == <<"task", c>>
<1>1. UNCHANGED request
  BY DEF Elsewhere
<1>2. ASSUME NEW j \in JobIds, NEW h
      PROVE  h \in HandsOn(j)' <=>
               IF j = i /\ h = mine THEN task'[<<i, c>>].pc \in AtHand ELSE h \in HandsOn(j)
  <2>1. CASE h = <<"request", First>>
    BY <1>1, <2>1, HandsDiffer, HandsMembers, HandsMembersNext DEF At
  <2>2. ASSUME NEW e \in Copies, h = <<"task", e>>
        PROVE  h \in HandsOn(j)' <=>
                 IF j = i /\ h = mine THEN task'[<<i, c>>].pc \in AtHand ELSE h \in HandsOn(j)
    <3>1. /\ h \in HandsOn(j)' <=> task'[<<j, e>>].pc \in AtHand
          /\ h \in HandsOn(j) <=> task[<<j, e>>].pc \in AtHand
      BY <2>2, HandsMembers, HandsMembersNext
    <3>2. CASE j = i /\ e = c
      BY <2>2, <3>1, <3>2
    <3>3. CASE ~(j = i /\ e = c)
      <4>1. task'[<<j, e>>] = task[<<j, e>>] /\ ~(j = i /\ h = mine)
        BY <2>2, <3>3, HandsDiffer DEF Elsewhere
      <4> QED
        BY <3>1, <4>1
    <3> QED
      BY <3>2, <3>3
  <2>3. h \in HandsOn(j) \/ h \in HandsOn(j)'
          => h = <<"request", First>> \/ \E e \in Copies : h = <<"task", e>>
    BY HandsMembers, HandsMembersNext
  <2> QED
    BY <2>1, <2>2, <2>3, HandsDiffer
<1>3. mine \in HandsOn(i) <=> task[<<i, c>>].pc \in AtHand
  BY HandsMembers
<1> HIDE DEF mine
<1>4. \A j \in JobIds \ {i} : HandsOn(j)' = HandsOn(j)
  BY <1>2
<1>5. task'[<<i, c>>].pc \in AtHand => HandsOn(i)' = HandsOn(i) \cup {mine}
  BY <1>2
<1>6. task'[<<i, c>>].pc \notin AtHand => HandsOn(i)' = HandsOn(i) \ {mine}
  BY <1>2
<1>7. (task'[<<i, c>>].pc \in AtHand <=> task[<<i, c>>].pc \in AtHand)
        => HandsOn(i)' = HandsOn(i)
  BY <1>2, <1>3
<1> QED
  BY <1>4, <1>5, <1>6, <1>7 DEF handsOf, mine

LEMMA RequestHands ==
  ASSUME TypeOK, NEW i \in JobIds, NEW pc, Goes(i, pc),
         \A j \in JobIds, c \in Copies :
           task'[<<j, c>>].pc \in AtHand <=> task[<<j, c>>].pc \in AtHand
  PROVE  /\ pc = "unqueued"
              => handsOf' = [handsOf EXCEPT ![i] = @ \cup {<<"request", First>>}]
         /\ pc # "unqueued"
              => handsOf' = [handsOf EXCEPT ![i] = @ \ {<<"request", First>>}]
         /\ pc # "unqueued" /\ ~At(i, "unqueued") => handsOf' = handsOf
<1>1. request'[i].pc = pc /\ \A j \in JobIds \ {i} : request'[j] = request[j]
  BY GoesElsewhere
<1>a. ASSUME NEW j \in JobIds, NEW h
      PROVE  h \in HandsOn(j)' <=>
               IF h = <<"request", First>> THEN request'[j].pc = "unqueued"
               ELSE h \in HandsOn(j)
  <2>1. CASE h = <<"request", First>>
    BY <2>1, HandsDiffer, HandsMembersNext
  <2>2. ASSUME NEW e \in Copies, h = <<"task", e>>
        PROVE  h \in HandsOn(j)' <=> h \in HandsOn(j)
    BY <2>2, HandsMembers, HandsMembersNext
  <2>3. h \in HandsOn(j) \/ h \in HandsOn(j)'
          => h = <<"request", First>> \/ \E e \in Copies : h = <<"task", e>>
    BY HandsMembers, HandsMembersNext
  <2> QED
    BY <2>1, <2>2, <2>3, HandsDiffer
<1>b. \A j \in JobIds : <<"request", First>> \in HandsOn(j) <=> request[j].pc = "unqueued"
  BY HandsDiffer, HandsMembers DEF At
<1>2. ASSUME NEW j \in JobIds \ {i} PROVE HandsOn(j)' = HandsOn(j)
  BY <1>1, <1>a, <1>b
<1>3. pc = "unqueued" => HandsOn(i)' = HandsOn(i) \cup {<<"request", First>>}
  BY <1>1, <1>a, <1>b DEF At
<1>4. pc # "unqueued" => HandsOn(i)' = HandsOn(i) \ {<<"request", First>>}
  BY <1>1, <1>a, <1>b DEF At
<1>5. pc # "unqueued" /\ ~At(i, "unqueued") => HandsOn(i)' = HandsOn(i)
  BY <1>1, <1>a, <1>b DEF At
<1> QED
  BY <1>2, <1>3, <1>4, <1>5 DEF handsOf

LEMMA PhaseUpdate ==
  ASSUME NEW i \in JobIds, \A j \in JobIds \ {i} : row'[j] = row[j]
  PROVE  phases' = [phases EXCEPT ![i] = row'[i].status]
  BY DEF phases

LEMMA InitLife == Init => Life!Init
<1> SUFFICES ASSUME Init PROVE Life!Init
  OBVIOUS
<1>1. \A j \in JobIds : row[j].status = "none"
  BY DEF Init, NoRow
<1>2. ASSUME NEW j \in JobIds PROVE HandsOn(j) = {}
  <2>1. ~At(j, "unqueued") /\ \A c \in Copies : task[<<j, c>>].pc \notin AtHand
    BY DEF Init, At, NoTask, AtHand, deliveries
  <2> QED
    BY <2>1, HandsMembers
<1> QED
  BY <1>1, <1>2 DEF Life!Init, Init

\* The moves of JobLife, and a stutter, in terms of phases and handsOf.
LEMMA LifeMoves ==
  ASSUME NEW j \in JobIds, NEW h \in {"task", "request"} \X Copies
  PROVE  /\ UNCHANGED <<phases, handsOf, doubted>> => LifeStep
         /\ /\ row[j].status = "none" /\ phases' = [phases EXCEPT ![j] = "pending"]
            /\ UNCHANGED <<handsOf, doubted>>
            => LifeStep
         /\ /\ row[j].status # "none" /\ doubted' = doubted \cup {j}
            /\ UNCHANGED <<phases, handsOf>>
            => LifeStep
         /\ /\ row[j].status \in Admits /\ doubted' \in {doubted, doubted \cup {j}}
            /\ HandsOn(j) # {} => j \in doubted'
            /\ handsOf' = [handsOf EXCEPT ![j] = @ \cup {h}] /\ phases' = phases
            => LifeStep
         /\ /\ h \in HandsOn(j) /\ (row[j].status \in {"completed", "failed"} => j \in doubted)
            /\ phases' = [phases EXCEPT ![j] = "processing"]
            /\ UNCHANGED <<handsOf, doubted>>
            => LifeStep
         /\ /\ h \in HandsOn(j) /\ (row[j].status \in {"completed", "failed"} => j \in doubted)
            /\ \E s \in {"completed", "failed"} : phases' = [phases EXCEPT ![j] = s]
            /\ handsOf' = [handsOf EXCEPT ![j] = @ \ {h}] /\ UNCHANGED doubted
            => LifeStep
         /\ /\ handsOf' = [handsOf EXCEPT ![j] = @ \ {h}] /\ UNCHANGED <<phases, doubted>>
            => LifeStep
<1>1. phases[j] = row[j].status /\ handsOf[j] = HandsOn(j)
  BY DEF phases, handsOf
<1>2. UNCHANGED <<phases, handsOf, doubted>> => LifeStep
  BY DEF LifeStep, Life!vars, phases, handsOf
<1>3. Life!Next => LifeStep
  BY DEF LifeStep
<1>4. Life!Submit(j) => LifeStep
  BY <1>3 DEF Life!Next
<1>5. Life!Doubt(j) => LifeStep
  BY <1>3 DEF Life!Next
<1>6. Life!LayHand(j, h) => LifeStep
  BY <1>3 DEF Life!Next
<1>7. Life!Write(j, h) => LifeStep
  BY <1>3 DEF Life!Next
<1>8. Life!TakeHandOff(j, h) => LifeStep
  BY <1>3 DEF Life!Next
<1>9. ASSUME row[j].status = "none" /\ phases' = [phases EXCEPT ![j] = "pending"],
             UNCHANGED <<handsOf, doubted>>
      PROVE  LifeStep
  BY <1>1, <1>4, <1>9 DEF Life!Submit, phases, handsOf
<1>10. ASSUME row[j].status # "none" /\ doubted' = doubted \cup {j},
              UNCHANGED <<phases, handsOf>>
       PROVE  LifeStep
  BY <1>1, <1>5, <1>10 DEF Life!Doubt, phases, handsOf
<1>11. ASSUME row[j].status \in Admits /\ doubted' \in {doubted, doubted \cup {j}},
              HandsOn(j) # {} => j \in doubted',
              handsOf' = [handsOf EXCEPT ![j] = @ \cup {h}] /\ phases' = phases
       PROVE  LifeStep
  BY <1>1, <1>6, <1>11 DEF Life!LayHand, Life!UnderWay, Admits, phases, handsOf
<1>12. ASSUME h \in HandsOn(j), row[j].status \in {"completed", "failed"} => j \in doubted,
              phases' = [phases EXCEPT ![j] = "processing"],
              UNCHANGED <<handsOf, doubted>>
       PROVE  LifeStep
  BY <1>1, <1>7, <1>12 DEF Life!Write, Life!Over, phases, handsOf
<1>13. ASSUME h \in HandsOn(j), row[j].status \in {"completed", "failed"} => j \in doubted,
              \E s \in {"completed", "failed"} : phases' = [phases EXCEPT ![j] = s],
              handsOf' = [handsOf EXCEPT ![j] = @ \ {h}] /\ UNCHANGED doubted
       PROVE  LifeStep
  BY <1>1, <1>7, <1>13 DEF Life!Write, Life!Over, phases, handsOf
<1>14. ASSUME handsOf' = [handsOf EXCEPT ![j] = @ \ {h}], UNCHANGED <<phases, doubted>>
       PROVE  LifeStep
  BY <1>1, <1>8, <1>14 DEF Life!TakeHandOff, phases, handsOf
<1> QED
  BY <1>2, <1>9, <1>10, <1>11, <1>12, <1>13, <1>14

LEMMA RequestStepsLife ==
  ASSUME JobInv, NEW i \in JobIds,
         RequestStep(i) \/ AskRevision(i) \/ AskQuestion(i) \/ AskSummary(i)
           \/ FailOpen(i) \/ Refuse(i) \/ LoseRequest(i)
  PROVE  LifeStep
<1> DEFINE h == <<"request", First>>
<1>a. TypeOK /\ h \in {"task", "request"} \X Copies
  BY JobConstants DEF JobInv, TypeInv
<1>1. CASE UNCHANGED <<row, doubted>> /\ \E pc \in {"hit", "expire", "create", "send", "done"} : Goes(i, pc)
           /\ UNCHANGED task
  <2>1. UNCHANGED phases
    BY <1>1 DEF phases
  <2>2. handsOf' = [handsOf EXCEPT ![i] = @ \ {h}]
    BY <1>a, <1>1, RequestHands
  <2> QED
    BY <1>a, <1>1, <2>1, <2>2, LifeMoves
<1>2. CASE Create(i)
  <2>1. row[i].status = "none" /\ Goes(i, "send") /\ ~At(i, "unqueued") /\ UNCHANGED <<task, doubted>>
    BY <1>2 DEF Create, At, JobInv, BeforeTheRow, NoRow
  <2>2. phases' = [phases EXCEPT ![i] = "pending"]
    BY <1>2, <1>a DEF Create, phases, TypeOK, Row
  <2>3. handsOf' = handsOf
    BY <1>a, <2>1, RequestHands
  <2> QED
    BY <1>a, <2>1, <2>2, <2>3, LifeMoves
<1>3. CASE Send(i)
  <2>1. /\ UNCHANGED row /\ At(i, "send")
        /\ doubted' \in {doubted, doubted \cup {i}}
    BY <1>3 DEF Send
  <2>2. \A j \in JobIds, c \in Copies :
          task'[<<j, c>>].pc \in AtHand <=> task[<<j, c>>].pc \in AtHand
    <3>1. task[<<i, First>>].pc = "none"
      BY <2>1, JobConstants DEF JobInv, BeforeTheMessage, At
    <3>2. UNCHANGED task \/ task' = [task EXCEPT ![<<i, First>>].pc = "queued"]
      BY <1>3 DEF Send
    <3>3. <<i, First>> \in deliveries /\ [task[<<i, First>>] EXCEPT !.pc = "queued"].pc = "queued"
      BY <1>a, JobConstants DEF TypeOK, Task, deliveries
    <3> QED
      BY <1>a, <3>1, <3>2, <3>3 DEF AtHand, TypeOK, deliveries
  <2>3. UNCHANGED phases
    BY <2>1 DEF phases
  <2>4. CASE Goes(i, "done") /\ UNCHANGED doubted
    <3>1. handsOf' = handsOf
      BY <1>a, <2>1, <2>2, <2>4, RequestHands DEF At
    <3> QED
      BY <1>a, <2>3, <2>4, <3>1, LifeMoves
  <2>5. CASE Goes(i, "unqueued")
    <3>1. handsOf' = [handsOf EXCEPT ![i] = @ \cup {h}]
      BY <1>a, <2>2, <2>5, RequestHands
    <3>2. HandsOn(i) = {}
      <4>1. \A c \in Copies : task[<<i, c>>].pc \notin AtHand
        BY <2>1 DEF JobInv, BeforeTheMessage, At, AtHand
      <4>2. <<"request", First>> \notin HandsOn(i) /\ \A c \in Copies : <<"task", c>> \notin HandsOn(i)
        BY <2>1, <4>1, HandsMembers DEF At
      <4> QED
        BY <4>2, HandsMembers
    <3>3. row[i].status \in Admits
      BY <2>1 DEF JobInv, Alone, BeforeTheMessage, At
    <3> QED
      BY <1>a, <2>1, <2>3, <3>1, <3>2, <3>3, LifeMoves
  <2> QED
    BY <1>3, <2>4, <2>5 DEF Send
<1>4. CASE MarkUnqueued(i)
  <2>1. Goes(i, "done") /\ At(i, "unqueued") /\ UNCHANGED <<task, doubted>>
    BY <1>4 DEF MarkUnqueued
  <2>2. phases' = [phases EXCEPT ![i] = "failed"]
    <3>1. Failed(row[i]).status = "failed"
      BY <1>a DEF Failed, TypeOK, Row
    <3> QED
      BY <1>4, <1>a, <3>1 DEF MarkUnqueued, phases, TypeOK
  <2>3. handsOf' = [handsOf EXCEPT ![i] = @ \ {h}]
    BY <1>a, <2>1, RequestHands
  <2>4. h \in HandsOn(i) /\ (row[i].status \in {"completed", "failed"} => i \in doubted)
    BY <2>1, HandsMembers DEF JobInv, Alone, Admits
  <2> QED
    BY <1>a, <2>1, <2>2, <2>3, <2>4, LifeMoves
<1>5. CASE AskRevision(i) \/ AskQuestion(i) \/ AskSummary(i) \/ Refuse(i) \/ LoseRequest(i)
           \/ Hit(i) \/ Expire(i) \/ FailOpen(i)
  BY <1>1, <1>5
  DEF AskRevision, AskQuestion, AskSummary, Refuse, LoseRequest, Hit, Expire, FailOpen
<1> QED
  BY <1>2, <1>3, <1>4, <1>5 DEF RequestStep

LEMMA TaskStepsLife ==
  ASSUME JobInv, NEW i \in JobIds, NEW c \in Copies,
         TaskStep(<<i, c>>) \/ LoseTask(<<i, c>>)
  PROVE  LifeStep
<1> DEFINE d == <<i, c>>
           h == <<"task", c>>
<1>a. TypeOK /\ d \in deliveries /\ row[i] \in Row /\ task[d] \in Task /\ Elsewhere(i, c)
  BY TaskStepsElsewhere DEF JobInv, TypeInv, TypeOK, deliveries
<1>b. h \in {"task", "request"} \X Copies
  OBVIOUS
<1>c. UNCHANGED doubted /\ phases' = [phases EXCEPT ![i] = row'[i].status]
  BY <1>a, PhaseUpdate DEF Elsewhere
<1>d. UNCHANGED row => UNCHANGED phases
  BY DEF phases
<1>e. task[d].pc \in AtHand =>
        h \in HandsOn(i) /\ (row[i].status \in {"completed", "failed"} => i \in doubted)
  BY HandsMembers DEF JobInv, Alone, AtHand, Admits
<1>f. \A pc : Turns(d, pc) => task'[d].pc = pc
  BY <1>a DEF Turns, Task, TypeOK
<1>g. Ends(d) => task'[d].pc = "done"
  BY <1>a DEF Ends, NoTask, TypeOK
<1>h. task'[d].pc \notin AtHand => handsOf' = [handsOf EXCEPT ![i] = @ \ {h}]
  BY <1>a, DeliveryHands
<1>1. CASE UNCHANGED row /\ task'[d].pc \notin AtHand
  BY <1>1, <1>b, <1>c, <1>d, <1>h, LifeMoves
<1>2. CASE /\ row'[i].status \in {"completed", "failed"}
           /\ task[d].pc \in AtHand /\ task'[d].pc \notin AtHand
  BY <1>2, <1>b, <1>c, <1>e, <1>h, LifeMoves
<1>3. CASE task[d].pc \in AtHand /\ task'[d].pc \in AtHand /\ UNCHANGED row
  <2>1. handsOf' = handsOf
    BY <1>3, <1>a, DeliveryHands
  <2> QED
    BY <1>3, <1>b, <1>c, <1>d, <2>1, LifeMoves
<1>4. CASE Take(d)
  <2>1. UNCHANGED row /\ task[d].pc = "queued"
    BY <1>4 DEF Take, In
  <2>2. CASE row[i].status \in Admits
    <3>1. task'[d].pc = "mark"
      BY <1>4, <1>a, <2>2 DEF Take, TypeOK, Task
    <3>2. handsOf' = [handsOf EXCEPT ![i] = @ \cup {h}]
      BY <3>1, <1>a, DeliveryHands DEF AtHand
    <3>3. HandsOn(i) # {} => i \in doubted
      <4>1. SUFFICES ASSUME i \notin doubted, NEW g \in HandsOn(i) PROVE FALSE
        OBVIOUS
      <4>2. c = First /\ \A e \in Copies : task[<<i, e>>].pc \notin AtHand
        <5>1. \A e \in Copies \ {First} : task[<<i, e>>].pc = "none"
          BY <4>1 DEF JobInv, Alone
        <5>2. c = First
          BY <2>1, <5>1
        <5> QED
          BY <2>1, <5>1, <5>2 DEF AtHand
      <4>3. ~At(i, "unqueued")
        BY <2>1, <4>1, <4>2 DEF JobInv, Alone
      <4> QED
        BY <4>1, <4>2, <4>3, HandsMembers
    <3> QED
      BY <1>b, <1>c, <1>d, <2>1, <2>2, <3>2, <3>3, LifeMoves
  <2>3. CASE row[i].status \notin Admits
    <3>1. task'[d].pc \notin AtHand
      BY <1>4, <1>g, <2>3 DEF Take, AtHand
    <3> QED
      BY <1>1, <2>1, <3>1
  <2> QED
    BY <2>2, <2>3
<1>5. CASE Mark(d)
  <2>1. task[d].pc \in AtHand /\ task'[d].pc \in AtHand
    BY <1>5, <1>f DEF Mark, In, AtHand
  <2>2. row'[i].status = "processing"
    BY <1>5, <1>a DEF Mark, Marked, TypeOK, Row
  <2>3. handsOf' = handsOf
    BY <2>1, <1>a, DeliveryHands
  <2> QED
    BY <2>1, <2>2, <2>3, <1>b, <1>c, <1>e, LifeMoves
<1>6. Failed(row[i]).status = "failed" /\ \A seen : Completed(row[i], seen).status = "completed"
  BY <1>a DEF Failed, Completed, Row
<1>7. CASE FetchLink(d)
  <2>1. task[d].pc = "fetch"
    BY <1>7 DEF FetchLink, In
  <2>2. \/ Turns(d, "call") /\ row' = row
        \/ Ends(d) /\ row' = row
        \/ Ends(d) /\ row'[i] = Failed(row[i])
    BY <1>7, <1>a DEF FetchLink, TypeOK
  <2> QED
    BY <2>1, <2>2, <1>f, <1>g, <1>1, <1>2, <1>3, <1>6 DEF AtHand
<1>8. CASE GiveUp(d)
  <2>1. task[d].pc = "call" /\ Ends(d) /\ row'[i] = Failed(row[i])
    BY <1>8, <1>a DEF GiveUp, In, TypeOK
  <2> QED
    BY <2>1, <1>g, <1>2, <1>6 DEF AtHand
<1>9. CASE Raise(d) \/ WriteText(d) \/ LoseTask(d)
  <2>1. row' = row /\ Ends(d)
    BY <1>9 DEF Raise, WriteText, LoseTask
  <2> QED
    BY <2>1, <1>g, <1>1 DEF AtHand
<1>10. CASE FinishRevision(d) \/ FinishQuestion(d) \/ FinishSummary(d)
  <2>1. \E seen : row'[i] = Completed(row[i], seen)
    BY <1>10, <1>a DEF FinishRevision, FinishQuestion, FinishSummary, TypeOK
  <2>2. task[d].pc = "call" /\ task'[d].pc \in {"write", "done"}
    BY <1>10, <1>f, <1>g DEF FinishRevision, AfterAnswer, FinishQuestion, FinishSummary, In
  <2> QED
    BY <2>1, <2>2, <1>2, <1>6 DEF AtHand
<1>11. CASE RetryLater(d)
  <2>1. row' = row /\ task'[d].pc = "queued"
    BY <1>11, <1>a DEF RetryLater, Retried, NoTask, TypeOK
  <2> QED
    BY <2>1, <1>1 DEF AtHand
<1> QED
  BY <1>4, <1>5, <1>7, <1>8, <1>9, <1>10, <1>11 DEF TaskStep

LEMMA RedeliverLife ==
  ASSUME JobInv, NEW i \in JobIds, NEW c \in Copies, NEW e \in Copies,
         Redeliver(<<i, c>>, e)
  PROVE  LifeStep
<1>1. /\ UNCHANGED <<request, row>> /\ doubted' = doubted \cup {i}
      /\ task' = [task EXCEPT ![<<i, e>>] = task[<<i, c>>]]
      /\ task[<<i, c>>].pc = "queued" /\ task[<<i, e>>].pc = "none"
  BY DEF Redeliver, In
<1>2. \A j \in JobIds, f \in Copies :
        task'[<<j, f>>].pc \in AtHand <=> task[<<j, f>>].pc \in AtHand
  BY <1>1 DEF AtHand, JobInv, TypeInv, TypeOK, deliveries
<1>3. \A j \in JobIds : HandsOn(j)' = HandsOn(j)
  BY <1>1, <1>2 DEF HandsOn, AtHand, At
<1>4. UNCHANGED <<phases, handsOf>>
  BY <1>1, <1>3 DEF phases, handsOf
<1>5. row[i].status # "none" /\ <<"task", c>> \in {"task", "request"} \X Copies
  BY <1>1 DEF JobInv, BeforeTheMessage
<1> QED
  BY <1>1, <1>4, <1>5, LifeMoves

LEMMA StepLife == JobInv /\ [Next]_vars => LifeStep
<1> SUFFICES ASSUME JobInv, [Next]_vars PROVE LifeStep
  OBVIOUS
<1>1. CASE UNCHANGED <<request, row, task, doubted>>
  <2>1. UNCHANGED <<phases, handsOf, doubted>>
    BY <1>1 DEF phases, handsOf, HandsOn, At
  <2> QED
    BY <2>1 DEF LifeStep, Life!vars, phases, handsOf
<1>2. ASSUME NEW i \in JobIds,
             RequestStep(i) \/ AskRevision(i) \/ AskQuestion(i) \/ AskSummary(i)
               \/ FailOpen(i) \/ Refuse(i) \/ LoseRequest(i)
      PROVE  LifeStep
  BY <1>2, RequestStepsLife
<1>3. ASSUME NEW d \in deliveries,
             TaskStep(d) \/ LoseTask(d) \/ \E c \in Copies : Redeliver(d, c)
      PROVE  LifeStep
  <2>1. PICK i \in JobIds, c \in Copies : d = <<i, c>>
    BY DEF deliveries
  <2> QED
    BY <1>3, <2>1, TaskStepsLife, RedeliverLife
<1>4. (UNCHANGED vars \/ Edit \/ \E k \in Limited : EndWindow(k))
        => UNCHANGED <<request, row, task, doubted>>
  BY DEF vars, Edit, EndWindow
<1> QED
  BY <1>1, <1>2, <1>3, <1>4 DEF Next

\* The jobs implement JobLife: submitted once, written only by a hand laid on
\* while under way, and without doubt ended once.
THEOREM LifeIsKept == Spec => KeepsLife
<1>1. JobInv /\ [Next]_vars => [Life!Next]_(Life!vars)
  BY StepLife DEF LifeStep
<1> QED
  BY <1>1, InitLife, JobInvariant, PTL DEF Spec, KeepsLife, Life!Spec
=============================================================================
