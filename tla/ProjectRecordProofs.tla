------------------------- MODULE ProjectRecordProofs -------------------------
(***************************************************************************)
(* Theorems about ProjectRecord, for any number of requests, users, files, *)
(* tasks and faults.                                                       *)
(***************************************************************************)
EXTENDS ProjectRecord, FiniteSetTheorems, TLAPS

(***************************************************************************)
(* Types.  Only an upload gets to "store".                                 *)
(***************************************************************************)
AllTasks == tasks.open + tasks.done + tasks.archived

StoresUploads == \A r \in Requests : At(r, "store") => Does(r) = "upload"

TypeInv == TypeOK /\ StoresUploads

LEMMA NoRequestType == NoRequest \in Request
  BY RecordConstants DEF NoRequest, Request, NoRow, Row, Wants, Entries

LEMMA InitType == Init => TypeInv
<1> SUFFICES ASSUME Init PROVE TypeInv
  OBVIOUS
<1>1. row \in Row /\ files \subseteq Files /\ feed \subseteq Entries
        /\ missing \subseteq Entries
  <2>1. row \in Row /\ missing = {}
    BY DEF Init
  <2>2. files \subseteq Files /\ feed \subseteq Entries
    BY <2>1 DEF Init, Row, Entries
  <2> QED
    BY <2>1, <2>2
<1>2. request \in [Requests -> Request]
        /\ \A r \in Requests : request[r].pc = "none" /\ request[r].file = NoFile
  BY NoRequestType DEF Init, NoRequest
<1>3. /\ tasks = [open |-> 0, done |-> 0, archived |-> 0]
      /\ report = NoReport /\ torn = FALSE /\ faults = 0
  BY DEF Init
<1>4. TypeOK
  <2>1. 0 \in 0..MaxTasks /\ 0 \in 0..MaxFaults
    BY RecordConstants
  <2>2. /\ tasks \in [open : 0..MaxTasks, done : 0..MaxTasks, archived : 0..MaxTasks]
        /\ tasks.open + tasks.done + tasks.archived <= MaxTasks
    BY <1>3, <2>1, RecordConstants
  <2>3. report \in [pc : {"total", "completed", "done"}, total : 0..MaxTasks,
                    completed : 0..MaxTasks, born : 0..MaxTasks]
    BY <1>3, <2>1 DEF NoReport
  <2> QED
    BY <1>1, <1>2, <1>3, <2>1, <2>2, <2>3 DEF TypeOK, At
<1>5. StoresUploads
  BY <1>2 DEF StoresUploads, At
<1> QED
  BY <1>4, <1>5 DEF TypeInv

\* What a request's own steps leave of its record.
RequestOK ==
  /\ request \in [Requests -> Request]
  /\ \A r \in Requests :
       /\ request[r].file # NoFile <=> At(r, "save") /\ Does(r) = "upload"
       /\ At(r, "store") => Does(r) = "upload"

LEMMA EndsOK ==
  ASSUME RequestOK, NEW r \in Requests, Ends(r)
  PROVE  RequestOK'
<1>1. [NoRequest EXCEPT !.pc = "done"] \in Request
  BY NoRequestType DEF Request
<1> QED
  BY <1>1 DEF Ends, RequestOK, At, Does, NoRequest

LEMMA LogsOK ==
  ASSUME RequestOK, NEW r \in Requests, NEW e \in Entries, Logs(r, e)
  PROVE  RequestOK'
<1>1. [NoRequest EXCEPT !.pc = "log", !.entry = e] \in Request
  BY NoRequestType DEF Request
<1> QED
  BY <1>1 DEF Logs, RequestOK, At, Does, NoRequest

LEMMA RequestSteps ==
  ASSUME TypeOK, RequestOK, NEW r \in Requests,
         \/ \E u \in Users : CreateProject(r, u)
         \/ Read(r) \/ DeleteImage(r) \/ StoreImage(r) \/ SaveCover(r) \/ UpdateProject(r)
         \/ TransferOwnership(r) \/ Log(r) \/ LoseRequest(r)
  PROVE  RequestOK' /\ row' \in Row
<1> request[r] \in Request /\ row \in Row
  BY DEF TypeOK
<1> /\ request[r].wants \in Wants /\ Seen(r) \in Row
    /\ request[r].file \in Files \cup {NoFile}
  BY DEF Request, Seen
<1>1. ASSUME NEW u \in Users, CreateProject(r, u) PROVE RequestOK' /\ row' \in Row
  <2>1. u \in Entries /\ row' \in Row
    BY <1>1 DEF Entries, CreateProject, NoRow, Row
  <2> QED
    BY <1>1, <2>1, LogsOK DEF CreateProject
<1>2. CASE Read(r)
  <2> PICK w \in Wants :
        request' = [request EXCEPT ![r] = [NoRequest EXCEPT
                      !.pc = IF w.does \in Covers /\ row.image # NoFile
                             THEN "delete" ELSE NextStep(w.does),
                      !.wants = w, !.seen = row]]
    BY <1>2 DEF Read
  <2> DEFINE q == [NoRequest EXCEPT
                      !.pc = IF w.does \in Covers /\ row.image # NoFile
                             THEN "delete" ELSE NextStep(w.does),
                      !.wants = w, !.seen = row]
  <2>1. /\ q.wants = w /\ q.file = NoFile
        /\ q.pc \in {"delete", "store", "save"}
        /\ q.pc = "store" <=> q.pc # "delete" /\ w.does = "upload"
    BY DEF NoRequest, NextStep
  <2>2. q \in Request
    BY NoRequestType DEF Request, NextStep
  <2>3. request'[r] = q /\ \A p \in Requests \ {r} : request'[p] = request[p]
    BY DEF TypeOK
  <2> HIDE DEF q
  <2> QED
    BY <1>2, <2>1, <2>2, <2>3 DEF Read, RequestOK, At, Does
<1>3. CASE DeleteImage(r)
  BY <1>3 DEF DeleteImage, Goes, NextStep, RequestOK, Request, At, Does
<1>4. CASE StoreImage(r)
  <2> PICK f \in Files \ files :
        request' = [request EXCEPT ![r].pc = "save", ![r].file = f]
    BY <1>4 DEF StoreImage
  <2>1. Does(r) = "upload" /\ f # NoFile /\ row' = row
    BY <1>4, RecordConstants DEF StoreImage, RequestOK
  <2>2. request' \in [Requests -> Request]
    BY DEF RequestOK, Request
  <2>3. /\ request'[r].pc = "save" /\ request'[r].file = f
        /\ request'[r].wants = request[r].wants
        /\ \A q \in Requests \ {r} : request'[q] = request[q]
    BY DEF RequestOK, Request
  <2> QED
    BY <2>1, <2>2, <2>3 DEF RequestOK, At, Does
<1>5. CASE SaveCover(r)
  BY <1>5, EndsOK DEF SaveCover, Covered, Row
<1>6. CASE UpdateProject(r)
  <2>1. row' \in Row
    BY <1>6 DEF UpdateProject, Row, Wants, Does
  <2>2. "completed" \in Entries
    BY DEF Entries
  <2> QED
    BY <1>6, <2>1, <2>2, EndsOK, LogsOK DEF UpdateProject
<1>7. CASE TransferOwnership(r)
  <2>1. request[r].wants.to \in Users
    BY <1>7 DEF TransferOwnership, Does, Wants
  <2>2. Transferred(r) \in Entries /\ row' \in Row
    BY <1>7, <2>1 DEF TransferOwnership, Transferred, Entries, Row
  <2> QED
    BY <1>7, <2>2, EndsOK, LogsOK DEF TransferOwnership
<1>8. CASE Log(r) \/ LoseRequest(r)
  BY <1>8, EndsOK DEF Log, LoseRequest
<1> QED
  BY <1>1, <1>2, <1>3, <1>4, <1>5, <1>6, <1>7, <1>8

\* What the other variables have to do with it.
LEMMA StepOK ==
  ASSUME TypeInv, Next
  PROVE  TypeInv'
<1> TypeOK /\ RequestOK
  BY DEF TypeInv, TypeOK, RequestOK, StoresUploads
<1>1. ASSUME NEW r \in Requests,
             \/ \E u \in Users : CreateProject(r, u)
             \/ Read(r) \/ DeleteImage(r) \/ StoreImage(r) \/ SaveCover(r) \/ UpdateProject(r)
             \/ TransferOwnership(r) \/ Log(r) \/ LoseRequest(r)
      PROVE  TypeInv'
  <2>1. RequestOK' /\ row' \in Row
    BY <1>1, RequestSteps
  <2>2. tasks' = tasks /\ report' = report
    BY <1>1
    DEF CreateProject, Read, DeleteImage, StoreImage, SaveCover, UpdateProject,
        TransferOwnership, Log, LoseRequest, counting
  <2>3. files' \subseteq Files /\ torn' \in BOOLEAN
    BY <1>1
    DEF CreateProject, Read, DeleteImage, StoreImage, SaveCover, UpdateProject,
        TransferOwnership, Log, LoseRequest, cover, TypeOK
  <2>4. feed' \subseteq Entries /\ missing' \subseteq Entries
    <3> request[r].entry \in Entries
      BY DEF TypeOK, Request
    <3> QED
      BY <1>1
      DEF CreateProject, Read, DeleteImage, StoreImage, SaveCover, UpdateProject,
          TransferOwnership, Log, LoseRequest, activity, TypeOK, Entries
  <2>5. faults' \in 0..MaxFaults
    <3>1. ~LoseRequest(r) => faults' = faults
      BY <1>1
      DEF CreateProject, Read, DeleteImage, StoreImage, SaveCover, UpdateProject,
          TransferOwnership, Log
    <3>2. LoseRequest(r) => faults < MaxFaults /\ faults' = faults + 1
      BY DEF LoseRequest
    <3> QED
      BY <3>1, <3>2, RecordConstants DEF TypeOK
  <2> QED
    BY <2>1, <2>2, <2>3, <2>4, <2>5
    DEF TypeInv, TypeOK, RequestOK, StoresUploads, AllTasks
<1>2. ASSUME NEW u \in Users, Inherit(u) PROVE TypeInv'
  <2>1. row' \in Row /\ missing' \subseteq Entries
    BY <1>2 DEF Inherit, TypeOK, Row, Entries
  <2> QED
    BY <1>2, <2>1
    DEF Inherit, TypeInv, TypeOK, StoresUploads, AllTasks, At, Does,
        cover, counting
<1>3. ASSUME CreateTask \/ MoveTask \/ UpdateTask \/ CountTotal \/ CountCompleted PROVE TypeInv'
  <2>1. /\ row' = row /\ cover' = cover /\ activity' = activity /\ request' = request
        /\ faults' = faults
    BY <1>3 DEF CreateTask, MoveTask, UpdateTask, CountTotal, CountCompleted
  <2> DEFINE TasksOK ==
        /\ tasks \in [open : 0..MaxTasks, done : 0..MaxTasks, archived : 0..MaxTasks]
        /\ AllTasks <= MaxTasks
      ReportOK ==
        report \in [pc : {"total", "completed", "done"}, total : 0..MaxTasks,
                    completed : 0..MaxTasks, born : 0..MaxTasks]
  <2>2. TasksOK /\ ReportOK
    BY DEF TypeInv, TypeOK, AllTasks
  <2>3. TasksOK' /\ ReportOK'
    <3>0. Appears => ReportOK'
      <4>1. CASE report.pc = "completed"
        <5>1. Appears => report.born + 1 \in 0..MaxTasks
                          /\ report' = [report EXCEPT !.born = @ + 1]
          BY <4>1, <2>2, RecordConstants DEF Appears
        <5> QED
          BY <5>1, <2>2
      <4>2. CASE report.pc # "completed"
        BY <4>2, <2>2 DEF Appears
      <4> QED
        BY <4>1, <4>2
    <3>1. CASE CreateTask
      <4>1. tasks' = [tasks EXCEPT !.open = @ + 1] /\ AllTasks < MaxTasks
        BY <3>1 DEF CreateTask, AllTasks
      <4>2. TasksOK' /\ AllTasks' = AllTasks + 1
        BY <4>1, <2>2, RecordConstants DEF AllTasks
      <4> QED
        BY <4>2, <3>1, <3>0 DEF CreateTask
    <3>2. CASE MoveTask
      <4>1. PICK p \in {"open", "done"}, q \in {"open", "done", "archived"} :
              /\ p # q /\ tasks[p] > 0
              /\ tasks' = [tasks EXCEPT ![p] = @ - 1, ![q] = @ + 1]
        BY <3>2 DEF MoveTask
      <4>2. TasksOK' /\ AllTasks' = AllTasks
        BY <4>1, <2>2, RecordConstants DEF AllTasks
      <4> QED
        BY <3>2, <4>2, <2>2 DEF MoveTask
    <3>5. CASE UpdateTask
      <4>1. PICK p \in {"archived"}, q \in {"open", "done"} :
              /\ p # q /\ tasks[p] > 0
              /\ tasks' = [tasks EXCEPT ![p] = @ - 1, ![q] = @ + 1]
        BY <3>5 DEF UpdateTask
      <4>2. TasksOK' /\ AllTasks' = AllTasks
        BY <4>1, <2>2, RecordConstants DEF AllTasks
      <4> QED
        BY <4>2, <3>5, <3>0 DEF UpdateTask
    <3>3. CASE CountTotal
      <4>1. tasks' = tasks
              /\ report' = [NoReport EXCEPT !.pc = "completed",
                                            !.total = tasks.open + tasks.done]
        BY <3>3 DEF CountTotal
      <4>2. tasks.open + tasks.done \in 0..MaxTasks
        BY <2>2, RecordConstants DEF AllTasks
      <4>3. report' \in [pc : {"total", "completed", "done"}, total : 0..MaxTasks,
                         completed : 0..MaxTasks, born : 0..MaxTasks]
        <5>1. 0 \in 0..MaxTasks
          BY RecordConstants
        <5>2. report' = [pc |-> "completed", total |-> tasks.open + tasks.done,
                         completed |-> 0, born |-> 0]
          BY <4>1 DEF NoReport
        <5> QED
          BY <4>2, <5>1, <5>2
      <4> QED
        BY <2>2, <4>1, <4>2, <4>3 DEF AllTasks
    <3>4. CASE CountCompleted
      BY <3>4, <2>2, RecordConstants DEF CountCompleted, Counted, AllTasks
    <3> QED
      BY <1>3, <3>1, <3>2, <3>3, <3>4, <3>5
  <2> QED
    BY <2>1, <2>3
    DEF TypeInv, TypeOK, StoresUploads, AllTasks, At, Does, cover, activity
<1> QED
  BY <1>1, <1>2, <1>3 DEF Next

LEMMA StepKeepsType == TypeInv /\ [Next]_vars => TypeInv'
<1>1. CASE UNCHANGED vars
  BY <1>1
  DEF vars, cover, activity, counting, TypeInv, TypeOK, StoresUploads,
      AllTasks, At, Does
<1> QED
  BY <1>1, StepOK

\* Whatever overlaps, every row and record keeps its type; a request holds a
\* file that is stored and not yet named by the row only to save an upload.
THEOREM TypeCorrect == Spec => []TypeOK
<1>1. TypeInv => TypeOK
  BY DEF TypeInv
<1> QED
  BY <1>1, InitType, StepKeepsType, PTL DEF Spec
-----------------------------------------------------------------------------
(***************************************************************************)
(* Counts.  While the second count is due, the tasks that are open or done *)
(* were counted, or created or brought back since.                         *)
(***************************************************************************)
CountInv ==
  /\ report.pc = "completed" => tasks.open + tasks.done <= report.total + report.born
  /\ CompletedWithinTotal

LEMMA InitCount == Init => CountInv
  BY DEF Init, CountInv, CompletedWithinTotal, NoReport

LEMMA StepKeepsCount ==
  ASSUME TypeInv, CountInv, [Next]_vars
  PROVE  CountInv'
<1> /\ tasks \in [open : 0..MaxTasks, done : 0..MaxTasks, archived : 0..MaxTasks]
    /\ report \in [pc : {"total", "completed", "done"}, total : 0..MaxTasks,
                   completed : 0..MaxTasks, born : 0..MaxTasks]
    /\ MaxTasks \in Nat
  BY RecordConstants DEF TypeInv, TypeOK
<1>1. CASE UNCHANGED counting
  BY <1>1 DEF counting, CountInv, CompletedWithinTotal
<1>2. CASE CreateTask
  <2>1. tasks' = [tasks EXCEPT !.open = @ + 1]
    BY <1>2 DEF CreateTask
  <2>2. report' = IF report.pc = "completed" THEN [report EXCEPT !.born = @ + 1] ELSE report
    BY <1>2 DEF CreateTask, Appears
  <2> QED
    BY <2>1, <2>2 DEF CountInv, CompletedWithinTotal
<1>3. CASE MoveTask
  <2>1. PICK p \in {"open", "done"}, q \in {"open", "done", "archived"} :
          /\ p # q /\ tasks[p] > 0
          /\ tasks' = [tasks EXCEPT ![p] = @ - 1, ![q] = @ + 1]
    BY <1>3 DEF MoveTask
  <2>2. tasks'.open + tasks'.done <= tasks.open + tasks.done /\ report' = report
    BY <1>3, <2>1 DEF MoveTask
  <2>3. tasks'.open \in Nat /\ tasks'.done \in Nat
    BY <2>1
  <2> QED
    BY <2>2, <2>3 DEF CountInv, CompletedWithinTotal
<1>7. CASE UpdateTask
  <2>1. PICK q \in {"open", "done"} :
          tasks' = [tasks EXCEPT !.archived = @ - 1, ![q] = @ + 1]
    BY <1>7 DEF UpdateTask
  <2>2. report' = IF report.pc = "completed" THEN [report EXCEPT !.born = @ + 1] ELSE report
    BY <1>7 DEF UpdateTask, Appears
  <2>3. tasks'.open + tasks'.done = tasks.open + tasks.done + 1
    BY <2>1
  <2> QED
    BY <2>2, <2>3 DEF CountInv, CompletedWithinTotal
<1>4. CASE CountTotal
  <2>1. report' = [pc |-> "completed", total |-> tasks.open + tasks.done,
                   completed |-> 0, born |-> 0] /\ tasks' = tasks
    BY <1>4 DEF CountTotal, NoReport
  <2> QED
    BY <2>1 DEF CountInv, CompletedWithinTotal
<1>5. CASE CountCompleted
  <2>1. report' = [report EXCEPT !.pc = "done", !.completed = tasks.done]
          /\ report.pc = "completed"
    BY <1>5 DEF CountCompleted, Counted
  <2>2. /\ report'.pc = "done" /\ report'.completed = tasks.done
        /\ report'.total = report.total /\ report'.born = report.born
    BY <2>1
  <2> QED
    BY <2>1, <2>2 DEF CountInv, CompletedWithinTotal
<1>6. Next => \/ UNCHANGED counting
              \/ CreateTask \/ MoveTask \/ UpdateTask \/ CountTotal \/ CountCompleted
  BY DEF Next, CreateProject, Read, DeleteImage, StoreImage, SaveCover, UpdateProject,
         TransferOwnership, Log, LoseRequest, Inherit
<1> QED
  BY <1>1, <1>2, <1>3, <1>4, <1>5, <1>6, <1>7 DEF vars

\* The two queries behind a project's counts never show more completed tasks
\* than there are, but for tasks created or brought back between them.
THEOREM CountsAgree == Spec => []CompletedWithinTotal
<1>1. CountInv => CompletedWithinTotal
  BY DEF CountInv
<1>2. TypeInv /\ CountInv /\ [Next]_vars => CountInv'
  BY StepKeepsCount
<1> QED
  BY <1>1, <1>2, InitType, StepKeepsType, InitCount, PTL DEF Spec
-----------------------------------------------------------------------------
(***************************************************************************)
(* The feed.  What a request has read was shown, or is about to be, since  *)
(* nothing that is shown, or was lost, is taken back.                      *)
(***************************************************************************)
Shown(e) ==
  \/ e \in feed \cup missing
  \/ \E r \in Requests : At(r, "log") /\ request[r].entry = e

ShownRow(R) ==
  /\ R.owner # Nobody => Shown(R.owner)
  /\ R.done => Shown("completed")

Open(r) == request[r].pc \in {"delete", "store", "save"}

FeedInv ==
  /\ ShownRow(row)
  /\ \A r \in Requests : Open(r) => ShownRow(Seen(r))

LEMMA InitFeed == Init => FeedInv
  BY DEF Init, FeedInv, ShownRow, Shown, Open, NoRequest, Exists, NoRow

\* One request's step, which loses no entry it was about to write.
LEMMA StaysShown ==
  ASSUME NEW r \in Requests, feed \subseteq feed', missing \subseteq missing',
         \A q \in Requests \ {r} : request'[q] = request[q],
         At(r, "log") => request[r].entry \in feed' \cup missing'
  PROVE  /\ \A e : Shown(e) => Shown(e)'
         /\ \A q \in Requests \ {r} : Seen(q)' = Seen(q) /\ Open(q)' = Open(q)
<1>1. \A q \in Requests \ {r} : Seen(q)' = Seen(q) /\ Open(q)' = Open(q)
  BY DEF Seen, Open
<1>2. ASSUME NEW e, Shown(e) PROVE Shown(e)'
  BY <1>2 DEF Shown, At
<1> QED
  BY <1>1, <1>2

LEMMA RequestKeepsFeed ==
  ASSUME TypeInv, FeedInv, NEW r \in Requests,
         \/ \E u \in Users : CreateProject(r, u)
         \/ Read(r) \/ DeleteImage(r) \/ StoreImage(r) \/ SaveCover(r) \/ UpdateProject(r)
         \/ TransferOwnership(r) \/ Log(r) \/ LoseRequest(r)
  PROVE  FeedInv'
<1> TypeOK /\ request \in [Requests -> Request] /\ request[r] \in Request /\ row \in Row
  BY DEF TypeInv, TypeOK
<1> Seen(r) \in Row
  BY DEF Request, Seen
<1>1. /\ feed \subseteq feed' /\ missing \subseteq missing'
      /\ \A q \in Requests \ {r} : request'[q] = request[q]
      /\ At(r, "log") => request[r].entry \in feed' \cup missing'
  BY DEF CreateProject, Read, DeleteImage, StoreImage, SaveCover, UpdateProject,
         TransferOwnership, Log, LoseRequest, activity, Ends, Goes, Logs, At
<1>2. /\ \A e : Shown(e) => Shown(e)'
      /\ \A q \in Requests \ {r} : Seen(q)' = Seen(q) /\ Open(q)' = Open(q)
  BY <1>1, StaysShown
<1>3. \A R : ShownRow(R) => ShownRow(R)'
  BY <1>2 DEF ShownRow
<1>4. ASSUME ShownRow(row)', Open(r)' => ShownRow(Seen(r))'
      PROVE  FeedInv'
  BY <1>2, <1>3, <1>4 DEF FeedInv, ShownRow
<1>5. ASSUME NEW e \in Entries, Logs(r, e)
      PROVE  Shown(e)' /\ ~Open(r)'
  BY <1>5 DEF Logs, Shown, At, Open, NoRequest
<1>6. Ends(r) => ~Open(r)'
  BY DEF Ends, Open, NoRequest
<1>7. ASSUME NEW u \in Users, CreateProject(r, u) PROVE FeedInv'
  <2>1. Logs(r, u) /\ u \in Entries
    BY <1>7 DEF CreateProject, Entries
  <2>2. row'.owner = u /\ ~row'.done
    BY <1>7 DEF CreateProject, NoRow
  <2> QED
    BY <1>4, <1>5, <2>1, <2>2 DEF ShownRow
<1>8. CASE Read(r)
  <2>1. row' = row /\ Seen(r)' = row
    BY <1>8 DEF Read, Seen, NoRequest
  <2> QED
    BY <1>3, <1>4, <2>1 DEF FeedInv, ShownRow
<1>9. CASE DeleteImage(r) \/ StoreImage(r)
  <2>1. row' = row /\ Open(r) /\ Seen(r)' = Seen(r)
    BY <1>9 DEF DeleteImage, StoreImage, Goes, At, Open, Seen, Request
  <2> QED
    BY <1>3, <1>4, <2>1 DEF FeedInv, ShownRow
<1>10. CASE SaveCover(r)
  <2>1. row'.owner = row.owner /\ row'.done = row.done /\ Ends(r)
    BY <1>10 DEF SaveCover, Covered, Row
  <2> QED
    BY <1>2, <1>4, <1>6, <2>1 DEF FeedInv, ShownRow
<1>11. CASE UpdateProject(r)
  <2>1. /\ row'.owner = Seen(r).owner
        /\ row'.done = request[r].wants.done
        /\ Open(r)
    BY <1>11 DEF UpdateProject, Row, At, Open
  <2>2. ShownRow(Seen(r))
    BY <2>1 DEF FeedInv
  <2>3. CASE Ends(r) /\ (row'.done => Seen(r).done)
    BY <1>2, <1>4, <1>6, <2>1, <2>2, <2>3 DEF ShownRow
  <2>4. CASE Logs(r, "completed")
    <3>1. Shown("completed")' /\ ~Open(r)'
      BY <1>5, <2>4 DEF Entries
    <3> QED
      BY <1>2, <1>4, <2>1, <2>2, <3>1 DEF ShownRow
  <2> QED
    BY <1>11, <2>1, <2>3, <2>4 DEF UpdateProject
<1>12. CASE TransferOwnership(r)
  <2>1. CASE Ends(r) /\ row' = row
    BY <1>3, <1>4, <1>6, <2>1 DEF FeedInv, ShownRow
  <2>2. CASE row' = [row EXCEPT !.owner = request[r].wants.to] /\ Logs(r, Transferred(r))
    <3>1. Transferred(r) \in Entries
      BY <1>12 DEF TransferOwnership, Transferred, Does, Wants, Request, Entries
    <3>2. row'.owner = Transferred(r) /\ row'.done = row.done
      BY <2>2 DEF Transferred, Row
    <3> QED
      BY <1>2, <1>4, <1>5, <2>2, <3>1, <3>2 DEF FeedInv, ShownRow
  <2> QED
    BY <1>12, <2>1, <2>2 DEF TransferOwnership
<1>13. CASE Log(r) \/ LoseRequest(r)
  <2>1. row' = row /\ Ends(r)
    BY <1>13 DEF Log, LoseRequest
  <2> QED
    BY <1>3, <1>4, <1>6, <2>1 DEF FeedInv, ShownRow
<1> QED
  BY <1>7, <1>8, <1>9, <1>10, <1>11, <1>12, <1>13

LEMMA StepKeepsFeed == TypeInv /\ FeedInv /\ [Next]_vars => FeedInv'
<1> SUFFICES ASSUME TypeInv, FeedInv, [Next]_vars PROVE FeedInv'
  OBVIOUS
<1>1. CASE UNCHANGED <<row, activity, request>>
  BY <1>1 DEF activity, FeedInv, ShownRow, Shown, At, Open, Seen
<1>2. ASSUME NEW u \in Users, Inherit(u) PROVE FeedInv'
  <2>1. request' = request /\ feed' = feed /\ missing' = missing \cup {u}
          /\ row'.owner = u /\ row'.done = row.done
    BY <1>2 DEF Inherit, TypeInv, TypeOK, Row
  <2>2. \A e : Shown(e) => Shown(e)'
    BY <2>1 DEF Shown, At
  <2>3. Shown(u)'
    BY <2>1 DEF Shown
  <2> QED
    BY <2>1, <2>2, <2>3 DEF FeedInv, ShownRow, Open, Seen
<1>3. CreateTask \/ MoveTask \/ UpdateTask \/ CountTotal \/ CountCompleted
        => UNCHANGED <<row, activity, request>>
  BY DEF CreateTask, MoveTask, UpdateTask, CountTotal, CountCompleted
<1> QED
  BY <1>1, <1>2, <1>3, RequestKeepsFeed DEF Next, vars

\* The feed shows how the project came to its owner and that it was completed,
\* whatever stale updates put back: these repeat what was shown before.
THEOREM FeedIsKept == Spec => []FeedKeepsUp
<1>1. FeedInv => FeedKeepsUp
  BY DEF FeedInv, ShownRow, Shown, FeedKeepsUp, Exists
<1> QED
  BY <1>1, InitType, StepKeepsType, InitFeed, StepKeepsFeed, PTL DEF Spec
-----------------------------------------------------------------------------
(***************************************************************************)
(* The cover.  A file's name may be stored, deleted and stored again by    *)
(* requests that have all read the same row, so no single request answers  *)
(* for a file that is missing.  But unless the cover is torn, those that   *)
(* will name a file, and the row if it does, are no more than those that   *)
(* have deleted it, and one more if it is stored.                          *)
(***************************************************************************)
Holding(f) == {r \in Requests : request[r].file = f}
Deleting(f) == {r \in Requests : Deleted(r) /\ Seen(r).image = f}
Named(f) == IF row.image = f THEN 1 ELSE 0
Stored(f) == IF f \in files THEN 1 ELSE 0

Balanced(f) ==
  Cardinality(Holding(f)) + Named(f) <= Cardinality(Deleting(f)) + Stored(f)

OneCover(R) == R.image = NoFile \/ ~R.link

\* What an open request has read, and which of them delete.
ReadsCovers ==
  \A r \in Requests :
    /\ Open(r) => OneCover(Seen(r)) /\ Seen(r).owner # Nobody /\ Exists
    /\ At(r, "delete") => Does(r) \in Covers /\ Seen(r).image # NoFile

CoverInv ==
  /\ OneCover(row) /\ ReadsCovers
  /\ torn \/ \A f \in Files : Balanced(f)

LEMMA Finite ==
  ASSUME NEW S \in SUBSET Requests
  PROVE  IsFiniteSet(S) /\ Cardinality(S) \in Nat
  BY FS_Subset, FS_CardinalityType, RecordConstants

LEMMA SetsOfRequests ==
  /\ \A f : Holding(f) \in SUBSET Requests /\ Deleting(f) \in SUBSET Requests
  /\ \A f : Holding(f)' \in SUBSET Requests /\ Deleting(f)' \in SUBSET Requests
  BY DEF Holding, Deleting

LEMMA InitCover == Init => CoverInv
<1> SUFFICES ASSUME Init PROVE CoverInv
  OBVIOUS
<1>1. \A r \in Requests : request[r] = NoRequest
  BY DEF Init
<1>2. OneCover(row) /\ ReadsCovers
  BY <1>1 DEF Init, OneCover, NoRow, ReadsCovers, Open, At, NoRequest
<1>3. ASSUME NEW f \in Files PROVE Balanced(f)
  <2>1. Holding(f) = {} /\ Deleting(f) = {}
    BY <1>1, RecordConstants DEF Holding, Deleting, Deleted, NoRequest
  <2>2. Named(f) = Stored(f) /\ Named(f) \in Nat
    BY RecordConstants DEF Init, Named, Stored
  <2> QED
    BY <2>1, <2>2, FS_EmptySet DEF Balanced
<1> QED
  BY <1>2, <1>3 DEF CoverInv

\* A file stays balanced if nobody holds or names it more, and nobody who has
\* deleted it is done.
LEMMA StaysBalanced ==
  ASSUME NEW f, Balanced(f), Holding(f)' \subseteq Holding(f),
         Deleting(f) \subseteq Deleting(f)', Named(f)' <= Named(f),
         Stored(f)' = Stored(f)
  PROVE  Balanced(f)'
<1>1. Cardinality(Holding(f)') <= Cardinality(Holding(f))
  BY FS_Subset, Finite, SetsOfRequests
<1>2. Cardinality(Deleting(f)) <= Cardinality(Deleting(f)')
  BY FS_Subset, Finite, SetsOfRequests
<1>3. /\ Cardinality(Holding(f)) \in Nat /\ Cardinality(Holding(f)') \in Nat
      /\ Cardinality(Deleting(f)) \in Nat /\ Cardinality(Deleting(f)') \in Nat
  BY Finite, SetsOfRequests
<1>4. Named(f) \in {0, 1} /\ Named(f)' \in {0, 1} /\ Stored(f) \in {0, 1}
  BY DEF Named, Stored
<1> QED
  BY <1>1, <1>2, <1>3, <1>4 DEF Balanced

LEMMA ReadKeepsCover ==
  ASSUME TypeInv, CoverInv, NEW r \in Requests, Read(r)
  PROVE  CoverInv'
<1> TypeOK /\ request \in [Requests -> Request]
  BY DEF TypeInv, TypeOK
<1> PICK w \in Wants :
      request' = [request EXCEPT ![r] = [NoRequest EXCEPT
                    !.pc = IF w.does \in Covers /\ row.image # NoFile
                           THEN "delete" ELSE NextStep(w.does),
                    !.wants = w, !.seen = row]]
  BY DEF Read
<1>1. /\ \A q \in Requests \ {r} : request'[q] = request[q]
      /\ request'[r].pc = IF w.does \in Covers /\ row.image # NoFile
                          THEN "delete" ELSE NextStep(w.does)
      /\ request'[r].wants = w /\ request'[r].seen = row /\ request'[r].file = NoFile
  BY DEF NoRequest
<1>2. /\ row' = row /\ files' = files /\ torn' = torn /\ Exists /\ At(r, "none")
  BY DEF Read, cover
<1>3. OneCover(row)' /\ ReadsCovers'
  BY <1>1, <1>2
  DEF CoverInv, OneCover, ReadsCovers, Open, At, Does, Seen, Exists, NextStep
<1>4. ASSUME NEW f \in Files, Balanced(f) PROVE Balanced(f)'
  <2>1. Holding(f)' \subseteq Holding(f)
    BY <1>1, RecordConstants DEF Holding
  <2>2. Deleting(f) \subseteq Deleting(f)'
    BY <1>1, <1>2 DEF Deleting, Deleted, Does, Seen, Exists, At
  <2>3. Named(f)' <= Named(f) /\ Stored(f)' = Stored(f)
    BY <1>2 DEF Named, Stored
  <2> QED
    BY <1>4, <2>1, <2>2, <2>3, StaysBalanced
<1> QED
  BY <1>2, <1>3, <1>4 DEF CoverInv

LEMMA DeleteKeepsCover ==
  ASSUME TypeInv, CoverInv, NEW r \in Requests, DeleteImage(r)
  PROVE  CoverInv'
<1> TypeOK /\ request \in [Requests -> Request] /\ request[r] \in Request
  BY DEF TypeInv, TypeOK
<1>1. /\ \A q \in Requests \ {r} : request'[q] = request[q]
      /\ request'[r].pc = NextStep(Does(r)) /\ request'[r].pc \in {"store", "save"}
      /\ request'[r].wants = request[r].wants /\ request'[r].seen = request[r].seen
      /\ request'[r].file = request[r].file
  BY DEF DeleteImage, Goes, Request, NextStep
<1>2. /\ row' = row /\ files' = files \ {Seen(r).image} /\ At(r, "delete")
      /\ torn' = (torn \/ Stale(r))
  BY DEF DeleteImage
<1>3. Exists /\ Does(r) \in Covers /\ Seen(r).image # NoFile
  BY <1>2 DEF CoverInv, ReadsCovers, Open, At
<1>4. OneCover(row)' /\ ReadsCovers'
  BY <1>1, <1>2, <1>3
  DEF CoverInv, OneCover, ReadsCovers, Open, At, Does, Seen, Exists
<1>5. ASSUME NEW f \in Files, Balanced(f) PROVE Balanced(f)'
  <2>1. Holding(f)' = Holding(f)
    BY <1>1 DEF Holding
  <2>2. Named(f)' = Named(f) /\ Named(f) \in {0, 1}
    BY <1>2 DEF Named
  <2>3. \A q \in Requests \ {r} : Deleted(q)' = Deleted(q) /\ Seen(q)' = Seen(q)
    BY <1>1, <1>2 DEF Deleted, Does, Seen, Exists
  <2>4. Deleted(r)' /\ ~Deleted(r) /\ Seen(r)' = Seen(r)
    BY <1>1, <1>2, <1>3 DEF Deleted, Does, Seen, Exists, At
  <2>5. CASE Seen(r).image = f
    <3>1. Deleting(f)' = Deleting(f) \cup {r} /\ r \notin Deleting(f)
      BY <2>3, <2>4, <2>5 DEF Deleting
    <3>2. Cardinality(Deleting(f)') = Cardinality(Deleting(f)) + 1
      BY <3>1, FS_AddElement, Finite, SetsOfRequests
    <3>3. Stored(f)' \in {0, 1} /\ Stored(f) \in {0, 1}
      BY DEF Stored
    <3>4. Cardinality(Holding(f)) \in Nat /\ Cardinality(Deleting(f)) \in Nat
      BY Finite, SetsOfRequests
    <3> QED
      BY <1>5, <2>1, <2>2, <3>2, <3>3, <3>4 DEF Balanced
  <2>6. CASE Seen(r).image # f
    <3>1. Deleting(f)' = Deleting(f)
      BY <2>3, <2>4, <2>6 DEF Deleting
    <3>2. Stored(f)' = Stored(f)
      BY <1>2, <2>6 DEF Stored
    <3> QED
      BY <1>5, <2>1, <2>2, <3>1, <3>2 DEF Balanced
  <2> QED
    BY <2>5, <2>6
<1> QED
  BY <1>2, <1>4, <1>5 DEF CoverInv

LEMMA StoreKeepsCover ==
  ASSUME TypeInv, CoverInv, NEW r \in Requests, StoreImage(r)
  PROVE  CoverInv'
<1> TypeOK /\ request \in [Requests -> Request] /\ request[r] \in Request
  BY DEF TypeInv, TypeOK
<1> PICK g \in Files \ files :
      /\ files' = files \cup {g}
      /\ request' = [request EXCEPT ![r].pc = "save", ![r].file = g]
  BY DEF StoreImage
<1>1. /\ \A q \in Requests \ {r} : request'[q] = request[q]
      /\ request'[r].pc = "save" /\ request'[r].file = g
      /\ request'[r].wants = request[r].wants /\ request'[r].seen = request[r].seen
  BY DEF Request
<1>2. /\ row' = row /\ torn' = torn /\ At(r, "store") /\ request[r].file = NoFile
  BY DEF StoreImage, TypeOK, At
<1>3. OneCover(row)' /\ ReadsCovers'
  BY <1>1, <1>2 DEF CoverInv, OneCover, ReadsCovers, Open, At, Does, Seen, Exists
<1>4. ASSUME NEW f \in Files, Balanced(f) PROVE Balanced(f)'
  <2>1. Deleting(f)' = Deleting(f)
    BY <1>1, <1>2 DEF Deleting, Deleted, Does, Seen, Exists, At
  <2>2. Named(f)' = Named(f) /\ Named(f) \in {0, 1} /\ Stored(f) \in {0, 1}
    BY <1>2 DEF Named, Stored
  <2>3. CASE f = g
    <3>1. Holding(f)' = Holding(f) \cup {r}
      BY <1>1, <2>3 DEF Holding
    <3>2. Cardinality(Holding(f)') <= Cardinality(Holding(f)) + 1
      BY <3>1, FS_AddElement, Finite, SetsOfRequests
    <3>3. Stored(f)' = Stored(f) + 1
      BY <2>3 DEF Stored
    <3>4. /\ Cardinality(Holding(f)) \in Nat /\ Cardinality(Deleting(f)) \in Nat
          /\ Cardinality(Holding(f)') \in Nat
      BY Finite, SetsOfRequests
    <3> QED
      BY <1>4, <2>1, <2>2, <3>2, <3>3, <3>4 DEF Balanced
  <2>4. CASE f # g
    <3>1. Holding(f)' = Holding(f)
      BY <1>1, <1>2, <2>4, RecordConstants DEF Holding
    <3>2. Stored(f)' = Stored(f)
      BY <2>4 DEF Stored
    <3> QED
      BY <1>4, <2>1, <2>2, <3>1, <3>2 DEF Balanced
  <2> QED
    BY <2>3, <2>4
<1> QED
  BY <1>2, <1>3, <1>4 DEF CoverInv

\* The request that leaves with its save.
LEMMA SaveKeepsCover ==
  ASSUME TypeInv, CoverInv, NEW r \in Requests, SaveCover(r)
  PROVE  CoverInv'
<1> TypeOK /\ request \in [Requests -> Request] /\ request[r] \in Request /\ row \in Row
  BY DEF TypeInv, TypeOK
<1>1. /\ \A q \in Requests \ {r} : request'[q] = request[q]
      /\ request'[r].pc = "done" /\ request'[r].file = NoFile
  BY DEF SaveCover, Ends, NoRequest
<1>2. /\ row'.owner = row.owner /\ row'.image = request[r].file
      /\ row'.link <=> Does(r) = "link"
      /\ files' = files /\ torn' = (torn \/ Stale(r))
      /\ At(r, "save") /\ Does(r) \in Covers
  BY DEF SaveCover, Covered, Row
<1>3. Exists /\ Exists'
  BY <1>2 DEF CoverInv, ReadsCovers, Open, At, Exists
<1>4. OneCover(row)'
  BY <1>2 DEF OneCover, TypeOK, At
<1>5. ReadsCovers'
  BY <1>1, <1>3 DEF CoverInv, ReadsCovers, OneCover, Open, At, Does, Seen
<1>6. ASSUME ~Stale(r), NEW f \in Files, Balanced(f) PROVE Balanced(f)'
  <2> DEFINE held == IF request[r].file = f THEN 1 ELSE 0
             owed == IF Seen(r).image = f THEN 1 ELSE 0
  <2>1. f # NoFile
    BY RecordConstants
  <2>2. Holding(f)' = Holding(f) \ {r} /\ (r \in Holding(f) <=> request[r].file = f)
    BY <1>1, <2>1 DEF Holding
  <2>3. \A q \in Requests \ {r} : Deleted(q)' = Deleted(q) /\ Seen(q)' = Seen(q)
    BY <1>1, <1>3 DEF Deleted, Does, Seen
  <2>4. ~Deleted(r)'
    BY <1>1 DEF Deleted
  <2>5. Deleting(f)' = Deleting(f) \ {r}
    BY <2>3, <2>4 DEF Deleting
  <2>6. r \in Deleting(f) <=> Seen(r).image = f
    BY <1>2, <1>3, <2>1 DEF Deleting, Deleted, At
  <2>7. Cardinality(Holding(f)') = Cardinality(Holding(f)) - held
    BY <2>2, FS_RemoveElement, Finite, SetsOfRequests
  <2>8. Cardinality(Deleting(f)') = Cardinality(Deleting(f)) - owed
    BY <2>5, <2>6, FS_RemoveElement, Finite, SetsOfRequests
  <2>9. Named(f) = owed /\ Named(f)' = held /\ Stored(f)' = Stored(f)
    BY <1>2, <1>6 DEF Named, Stored, Stale
  <2>10. /\ Cardinality(Holding(f)) \in Nat /\ Cardinality(Deleting(f)) \in Nat
         /\ held \in {0, 1} /\ owed \in {0, 1} /\ Stored(f) \in {0, 1}
    BY Finite, SetsOfRequests DEF Stored
  <2> HIDE DEF held, owed
  <2> QED
    BY <1>6, <2>7, <2>8, <2>9, <2>10 DEF Balanced
<1> QED
  BY <1>2, <1>4, <1>5, <1>6 DEF CoverInv

\* The requests whose step leaves the image and the storage alone, and that
\* neither hold a file nor have deleted one.
LEMMA QuietKeepsCover ==
  ASSUME TypeInv, CoverInv, NEW r \in Requests,
         \A q \in Requests \ {r} : request'[q] = request[q],
         request'[r].pc \in {"log", "done"}, request'[r].file = NoFile,
         files' = files, torn => torn',
         torn' \/ (row'.image = row.image /\ ~Deleted(r)),
         OneCover(row)', Exists => Exists'
  PROVE  CoverInv'
<1>1. ReadsCovers'
  BY DEF CoverInv, ReadsCovers, OneCover, Open, At, Does, Seen
<1>2. ASSUME ~torn', NEW f \in Files, Balanced(f) PROVE Balanced(f)'
  <2>1. Holding(f)' \subseteq Holding(f)
    BY RecordConstants DEF Holding
  <2>2. ASSUME NEW q \in Deleting(f) PROVE q \in Deleting(f)'
    <3>1. q \in Requests \ {r} /\ Deleted(q) /\ Seen(q).image = f
      BY <1>2, <2>2 DEF Deleting
    <3> QED
      BY <3>1 DEF Deleting, Deleted, Does, Seen
  <2>3. Named(f)' = Named(f) /\ Stored(f)' = Stored(f) /\ Named(f) \in {0, 1}
    BY <1>2 DEF Named, Stored
  <2> QED
    BY <1>2, <2>1, <2>2, <2>3, StaysBalanced
<1> QED
  BY <1>1, <1>2 DEF CoverInv

LEMMA OtherRequestsKeepCover ==
  ASSUME TypeInv, CoverInv, NEW r \in Requests,
         \/ \E u \in Users : CreateProject(r, u)
         \/ UpdateProject(r) \/ TransferOwnership(r) \/ Log(r) \/ LoseRequest(r)
  PROVE  CoverInv'
<1> TypeOK /\ request \in [Requests -> Request] /\ request[r] \in Request /\ row \in Row
  BY DEF TypeInv, TypeOK
<1> Seen(r) \in Row
  BY DEF Request, Seen
<1>1. Ends(r) => /\ \A q \in Requests \ {r} : request'[q] = request[q]
                 /\ request'[r].pc = "done" /\ request'[r].file = NoFile
  BY DEF Ends, NoRequest
<1>2. ASSUME NEW e, Logs(r, e)
      PROVE  /\ \A q \in Requests \ {r} : request'[q] = request[q]
             /\ request'[r].pc = "log" /\ request'[r].file = NoFile
  BY <1>2 DEF Logs, NoRequest
<1>3. ASSUME NEW u \in Users, CreateProject(r, u) PROVE CoverInv'
  <2>1. /\ row' = [NoRow EXCEPT !.owner = u] /\ ~Exists /\ At(r, "none")
        /\ files' = files /\ torn' = torn /\ Logs(r, u)
    BY <1>3 DEF CreateProject, cover
  <2>2. /\ row'.image = NoFile /\ ~row'.link /\ Exists'
    BY <2>1, RecordConstants DEF NoRow, Exists
  <2>3. /\ \A q \in Requests \ {r} : request'[q] = request[q]
        /\ request'[r].pc = "log" /\ request'[r].file = NoFile
    BY <1>2, <2>1
  <2>4. ReadsCovers' /\ OneCover(row)'
    BY <2>2, <2>3 DEF CoverInv, ReadsCovers, OneCover, Open, At, Does, Seen
  <2>5. ASSUME NEW f \in Files, Balanced(f) PROVE Balanced(f)'
    <3>1. Holding(f)' \subseteq Holding(f)
      BY <2>3, RecordConstants DEF Holding
    <3>2. Deleting(f) \subseteq Deleting(f)'
      BY <2>1 DEF Deleting, Deleted
    <3>3. Named(f)' <= Named(f) /\ Stored(f)' = Stored(f)
      BY <2>1, <2>2, RecordConstants DEF Named, Stored
    <3> QED
      BY <2>5, <3>1, <3>2, <3>3, StaysBalanced
  <2> QED
    BY <2>1, <2>4, <2>5 DEF CoverInv
<1>4. CASE UpdateProject(r)
  <2>1. /\ row' = [Seen(r) EXCEPT !.done = request[r].wants.done]
        /\ At(r, "save") /\ Does(r) = "update"
        /\ files' = files /\ torn' = (torn \/ Stale(r))
        /\ Ends(r) \/ Logs(r, "completed")
    BY <1>4 DEF UpdateProject
  <2>2. /\ row'.image = Seen(r).image /\ row'.link = Seen(r).link
        /\ row'.owner = Seen(r).owner
    BY <2>1 DEF Row
  <2>3. OneCover(row)' /\ Exists'
    BY <2>1, <2>2 DEF CoverInv, ReadsCovers, OneCover, Open, At, Exists
  <2>4. ~Deleted(r)
    BY <2>1 DEF Deleted, Covers
  <2>5. torn' \/ row'.image = row.image
    BY <2>1, <2>2 DEF Stale
  <2> QED
    BY <1>1, <1>2, <2>1, <2>3, <2>4, <2>5, QuietKeepsCover
<1>5. CASE TransferOwnership(r)
  <2>1. /\ row' = row \/ row' = [row EXCEPT !.owner = request[r].wants.to]
        /\ request[r].wants.to \in Users
        /\ files' = files /\ torn' = torn /\ Does(r) = "transfer"
        /\ Ends(r) \/ Logs(r, Transferred(r))
    BY <1>5 DEF TransferOwnership, cover, Does, Request, Wants
  <2>2. row'.image = row.image /\ row'.link = row.link /\ (Exists => Exists')
    BY <2>1, RecordConstants DEF Row, Exists
  <2>3. OneCover(row)' /\ ~Deleted(r)
    BY <2>1, <2>2 DEF CoverInv, OneCover, Deleted, Covers
  <2> QED
    BY <1>1, <1>2, <2>1, <2>2, <2>3, QuietKeepsCover
<1>6. CASE Log(r)
  <2>1. row' = row /\ files' = files /\ torn' = torn /\ Ends(r) /\ ~Deleted(r)
    BY <1>6 DEF Log, cover, At, Deleted
  <2> QED
    BY <1>1, <2>1, QuietKeepsCover DEF CoverInv, OneCover, Exists
<1>7. CASE LoseRequest(r)
  <2>1. row' = row /\ files' = files /\ Ends(r) /\ torn' = (torn \/ Deleted(r))
    BY <1>7 DEF LoseRequest
  <2>2. torn' \/ (row'.image = row.image /\ ~Deleted(r))
    BY <2>1
  <2>3. OneCover(row)' /\ (Exists => Exists') /\ (torn => torn')
    BY <2>1 DEF CoverInv, OneCover, Exists
  <2> QED
    BY <1>1, <2>1, <2>2, <2>3, QuietKeepsCover
<1> QED
  BY <1>3, <1>4, <1>5, <1>6, <1>7

LEMMA StepKeepsCover == TypeInv /\ CoverInv /\ [Next]_vars => CoverInv'
<1> SUFFICES ASSUME TypeInv, CoverInv, [Next]_vars PROVE CoverInv'
  OBVIOUS
<1>1. ASSUME row'.image = row.image, row'.link = row.link, Exists => Exists',
             request' = request, files' = files, torn' = torn
      PROVE  CoverInv'
  <2>1. ReadsCovers' /\ OneCover(row)'
    BY <1>1 DEF CoverInv, ReadsCovers, OneCover, Open, At, Does, Seen
  <2>2. ASSUME NEW f \in Files, Balanced(f) PROVE Balanced(f)'
    <3>1. Holding(f)' \subseteq Holding(f)
      BY <1>1 DEF Holding
    <3>2. Deleting(f) \subseteq Deleting(f)'
      BY <1>1 DEF Deleting, Deleted, Does, Seen
    <3>3. Named(f)' = Named(f) /\ Named(f) \in {0, 1} /\ Stored(f)' = Stored(f)
      BY <1>1 DEF Named, Stored
    <3> QED
      BY <2>2, <3>1, <3>2, <3>3, StaysBalanced
  <2> QED
    BY <1>1, <2>1, <2>2 DEF CoverInv
<1>2. ASSUME NEW u \in Users, Inherit(u) PROVE CoverInv'
  <2>1. row' = [row EXCEPT !.owner = u] /\ row \in Row
    BY <1>2 DEF Inherit, TypeInv, TypeOK
  <2>2. row'.image = row.image /\ row'.link = row.link /\ Exists'
    BY <2>1, RecordConstants DEF Row, Exists
  <2> QED
    BY <1>1, <1>2, <2>2 DEF Inherit, cover
<1>3. CreateTask \/ MoveTask \/ UpdateTask \/ CountTotal \/ CountCompleted \/ UNCHANGED vars
        => row' = row /\ request' = request /\ files' = files /\ torn' = torn
  BY DEF CreateTask, MoveTask, UpdateTask, CountTotal, CountCompleted, vars, cover
<1> QED
  BY <1>1, <1>2, <1>3, ReadKeepsCover, DeleteKeepsCover, StoreKeepsCover,
     SaveKeepsCover, OtherRequestsKeepCover DEF Next, Exists

\* The cover is a file or a link, and its file is in the storage, unless it was
\* torn or the request that has deleted it is about to name another.
THEOREM CoverIsKept == Spec => []CoverIsThere
<1>1. ASSUME TypeInv, CoverInv PROVE CoverIsThere
  <2>1. ASSUME row.image # NoFile, row.image \notin files, ~torn
        PROVE  \E r \in Requests : Deleted(r) /\ Seen(r).image = row.image
    <3> DEFINE f == row.image
    <3>1. f \in Files
      BY <1>1, <2>1 DEF TypeInv, TypeOK, Row
    <3>2. Balanced(f) /\ Named(f) = 1 /\ Stored(f) = 0
      BY <1>1, <2>1, <3>1 DEF CoverInv, Named, Stored
    <3>3. Cardinality(Deleting(f)) # 0
      BY <3>2, Finite, SetsOfRequests DEF Balanced
    <3>4. Deleting(f) # {}
      BY <3>3, FS_EmptySet
    <3> QED
      BY <3>4 DEF Deleting
  <2> QED
    BY <1>1, <2>1 DEF CoverInv, OneCover, CoverIsThere
<1> QED
  BY <1>1, InitType, StepKeepsType, InitCover, StepKeepsCover, PTL DEF Spec
=============================================================================
