---------------------------- MODULE ProjectRecord ----------------------------
(***************************************************************************)
(* The record of one project under overlapping requests: its row, the      *)
(* cover image in the file storage that the row names, the company's       *)
(* activity feed, and the counts of its tasks that are shown with it.      *)
(*                                                                         *)
(* A request reads the row and later saves all of it, or some columns; the *)
(* storage and the feed are written before or after that.  Each of these   *)
(* is an action, and the process may be lost between two of them.  Who may *)
(* make the requests is Access.                                            *)
(***************************************************************************)
EXTENDS Naturals, FiniteSets

CONSTANTS
  Requests,   \* requests
  Users,      \* members of the company
  Nobody,     \* no user
  Files,      \* names of files in the storage
  NoFile,     \* no image
  MaxTasks,   \* bound: tasks of the project, and of those that appear between
              \* two counts
  MaxFaults   \* bound: lost processes

ASSUME RecordConstants ==
  /\ IsFiniteSet(Requests)
  /\ Nobody \notin Users
  /\ NoFile \notin Files
  /\ MaxTasks \in Nat /\ MaxFaults \in Nat

VARIABLES
  row,      \* the project's row
  files,    \* files in the storage
  feed,     \* the entries of the activity feed about the project
  request,  \* where each request is, what it wants and the row it read
  tasks,    \* how many tasks are open and how many are done
  report,   \* where the count of the tasks is, and what it has counted
  torn,     \* history: a cover was changed by a request that had read another
            \* or was lost on the way
  missing,  \* history: entries of the feed that were lost or never due
  faults    \* faults so far

cover == <<files, torn>>
activity == <<feed, missing>>
counting == <<tasks, report>>
vars == <<row, cover, activity, request, counting, faults>>
-----------------------------------------------------------------------------
Row == [owner : Users \cup {Nobody}, image : Files \cup {NoFile}, link : BOOLEAN,
        done : BOOLEAN]
NoRow == [owner |-> Nobody, image |-> NoFile, link |-> FALSE, done |-> FALSE]
Exists == row.owner # Nobody

\* project_completed, and project_created or project_ownership_transferred,
\* which name the owner.
Entries == {"completed"} \cup Users

\* What a request may want: any PATCH, whether or not it names the status; a
\* new owner; one of the three ways to set the cover.
Wants == [does : {"update"}, done : BOOLEAN] \cup [does : {"transfer"}, to : Users]
           \cup [does : {"link", "upload", "remove"}]
Covers == {"link", "upload", "remove"}

Request == [pc : {"none", "delete", "store", "save", "log", "done"},
            wants : Wants, seen : Row, file : Files \cup {NoFile},
            entry : Entries]
NoRequest == [pc |-> "none", wants |-> [does |-> "remove"], seen |-> NoRow,
              file |-> NoFile, entry |-> "completed"]

At(r, pc) == request[r].pc = pc
Does(r) == request[r].wants.does
Seen(r) == request[r].seen
Ends(r) == request' = [request EXCEPT ![r] = [NoRequest EXCEPT !.pc = "done"]]
Goes(r, pc) == request' = [request EXCEPT ![r].pc = pc]
Logs(r, entry) ==
  request' = [request EXCEPT ![r] = [NoRequest EXCEPT !.pc = "log", !.entry = entry]]

\* The row is not the one the request read, as far as the image goes.
Stale(r) == row.image # Seen(r).image

\* This request has deleted the file that the row it read names.
Deleted(r) ==
  /\ Exists /\ Does(r) \in Covers /\ request[r].pc \in {"store", "save"}
  /\ Seen(r).image # NoFile

NoReport == [pc |-> "total", total |-> 0, completed |-> 0, born |-> 0]

(***************************************************************************)
(* The pieces a slip would most likely change, each after its slip.        *)
(***************************************************************************)

\* The cover is a file or a link, never both: save(update_fields=['image',
\* 'image_url']).
CoveredTwice(r) ==
  [row EXCEPT !.image = IF Does(r) = "link" THEN @ ELSE request[r].file,
              !.link = Does(r) = "link"]
Covered(r) == [row EXCEPT !.image = request[r].file, !.link = Does(r) = "link"]

\* Who a transfer is logged for.
TransferredFrom(r) == Seen(r).owner
Transferred(r) == request[r].wants.to

\* An upload stores its file before the row is saved.
NextStepSaves(does) == "save"
NextStep(does) == IF does = "upload" THEN "store" ELSE "save"

\* completed counts the tasks that are not archived.
CountedAll == tasks.done + tasks.archived
Counted == tasks.done

TypeOK ==
  /\ row \in Row
  /\ files \subseteq Files
  /\ feed \subseteq Entries /\ missing \subseteq Entries
  /\ request \in [Requests -> Request]
  /\ \A r \in Requests :
       request[r].file # NoFile <=> At(r, "save") /\ Does(r) = "upload"
  /\ tasks \in [open : 0..MaxTasks, done : 0..MaxTasks, archived : 0..MaxTasks]
  /\ tasks.open + tasks.done + tasks.archived <= MaxTasks
  /\ report \in [pc : {"total", "completed", "done"}, total : 0..MaxTasks,
                 completed : 0..MaxTasks, born : 0..MaxTasks]
  /\ torn \in BOOLEAN
  /\ faults \in 0..MaxFaults

\* The project is not there yet, or it is and has a cover or none.
Init ==
  /\ row \in Row /\ ~row.done
  /\ IF Exists THEN row.image = NoFile \/ ~row.link ELSE row = NoRow
  /\ files = {row.image} \ {NoFile}
  /\ feed = {row.owner} \ {Nobody} /\ missing = {}
  /\ request = [r \in Requests |-> NoRequest]
  /\ tasks = [open |-> 0, done |-> 0, archived |-> 0]
  /\ report = NoReport
  /\ torn = FALSE /\ faults = 0
-----------------------------------------------------------------------------
(* Requests *)

\* create_project saves the row and then logs it.
CreateProject(r, u) ==
  /\ At(r, "none") /\ ~Exists
  /\ row' = [NoRow EXCEPT !.owner = u]
  /\ Logs(r, u)
  /\ UNCHANGED <<cover, activity, counting, faults>>

\* get_project_for_user.
Read(r) ==
  /\ At(r, "none") /\ Exists
  /\ \E w \in Wants :
       request' = [request EXCEPT ![r] = [NoRequest EXCEPT
                     !.pc = IF w.does \in Covers /\ row.image # NoFile
                            THEN "delete" ELSE NextStep(w.does),
                     !.wants = w, !.seen = row]]
  /\ UNCHANGED <<row, cover, activity, counting, faults>>

\* project.image.delete(save=False): a file that is gone already is no error.
DeleteImage(r) ==
  /\ At(r, "delete")
  /\ files' = files \ {Seen(r).image}
  /\ torn' = (torn \/ Stale(r))
  /\ Goes(r, NextStep(Does(r)))
  /\ UNCHANGED <<row, activity, counting, faults>>

\* Saving an uploaded image stores it under a name that is free at the time.
StoreImage(r) ==
  /\ At(r, "store")
  /\ \E f \in Files \ files :
       /\ files' = files \cup {f}
       /\ request' = [request EXCEPT ![r].pc = "save", ![r].file = f]
  /\ UNCHANGED <<row, torn, activity, counting, faults>>

\* set_project_image_link, upload_project_image and remove_project_image.
SaveCover(r) ==
  /\ At(r, "save") /\ Does(r) \in Covers
  /\ row' = Covered(r)
  /\ torn' = (torn \/ Stale(r))
  /\ Ends(r)
  /\ UNCHANGED <<files, activity, counting, faults>>

\* update_project saves every column, as it was read but for what it changes.
UpdateProject(r) ==
  /\ At(r, "save") /\ Does(r) = "update"
  /\ row' = [Seen(r) EXCEPT !.done = request[r].wants.done]
  /\ torn' = (torn \/ Stale(r))
  /\ IF request[r].wants.done /\ ~Seen(r).done THEN Logs(r, "completed") ELSE Ends(r)
  /\ UNCHANGED <<files, activity, counting, faults>>

\* transfer_project_ownership.
TransferOwnership(r) ==
  /\ At(r, "save") /\ Does(r) = "transfer"
  /\ IF request[r].wants.to = Seen(r).owner
     THEN Ends(r) /\ UNCHANGED row
     ELSE /\ row' = [row EXCEPT !.owner = request[r].wants.to]
          /\ Logs(r, Transferred(r))
  /\ UNCHANGED <<cover, activity, counting, faults>>

\* log_project_created, log_project_completed and log_ownership_transferred.
Log(r) ==
  /\ At(r, "log")
  /\ feed' = feed \cup {request[r].entry}
  /\ Ends(r)
  /\ UNCHANGED <<row, cover, missing, counting, faults>>

\* The process is lost, or the storage or the database fails: what was saved
\* stays.
LoseRequest(r) ==
  /\ request[r].pc \in {"delete", "store", "save", "log"}
  /\ faults < MaxFaults /\ faults' = faults + 1
  /\ torn' = (torn \/ Deleted(r))
  /\ missing' = IF At(r, "log") THEN missing \cup {request[r].entry} ELSE missing
  /\ Ends(r)
  /\ UNCHANGED <<row, files, feed, counting>>

\* remove_member gives the project to the heir and logs the removal only.
Inherit(u) ==
  /\ Exists /\ u # row.owner
  /\ row' = [row EXCEPT !.owner = u]
  /\ missing' = missing \cup {u}
  /\ UNCHANGED <<cover, feed, request, counting, faults>>
-----------------------------------------------------------------------------
(* The tasks and their count *)

\* A task appears: a count that is half done may see it or not.
Appears ==
  IF report.pc = "completed"
  THEN report.born < MaxTasks /\ report' = [report EXCEPT !.born = @ + 1]
  ELSE UNCHANGED report

CreateTask ==
  /\ Exists /\ tasks.open + tasks.done + tasks.archived < MaxTasks
  /\ tasks' = [tasks EXCEPT !.open = @ + 1]
  /\ Appears
  /\ UNCHANGED <<row, cover, activity, request, faults>>

\* A task is done, reopened or archived.
MoveTask ==
  /\ \E p \in {"open", "done"}, q \in {"open", "done", "archived"} :
       /\ p # q /\ tasks[p] > 0
       /\ tasks' = [tasks EXCEPT ![p] = @ - 1, ![q] = @ + 1]
  /\ UNCHANGED <<row, cover, activity, request, report, faults>>

\* update_task saves every column as it was read, is_deleted among them: a task
\* that was archived meanwhile is back.
UpdateTask ==
  /\ tasks.archived > 0
  /\ \E q \in {"open", "done"} :
       tasks' = [tasks EXCEPT !.archived = @ - 1, ![q] = @ + 1]
  /\ Appears
  /\ UNCHANGED <<row, cover, activity, request, faults>>

\* project_data and get_project_stats: one query for each count.
CountTotal ==
  /\ Exists /\ report.pc \in {"total", "done"}
  /\ report' = [NoReport EXCEPT !.pc = "completed", !.total = tasks.open + tasks.done]
  /\ UNCHANGED <<row, cover, activity, request, tasks, faults>>

CountCompleted ==
  /\ report.pc = "completed"
  /\ report' = [report EXCEPT !.pc = "done", !.completed = Counted]
  /\ UNCHANGED <<row, cover, activity, request, tasks, faults>>
-----------------------------------------------------------------------------
Next ==
  \/ \E r \in Requests :
       \/ \E u \in Users : CreateProject(r, u)
       \/ Read(r) \/ DeleteImage(r) \/ StoreImage(r) \/ SaveCover(r) \/ UpdateProject(r)
       \/ TransferOwnership(r) \/ Log(r) \/ LoseRequest(r)
  \/ \E u \in Users : Inherit(u)
  \/ CreateTask \/ MoveTask \/ UpdateTask \/ CountTotal \/ CountCompleted

Spec == Init /\ [][Next]_vars
-----------------------------------------------------------------------------
(* Properties *)

\* The cover is a file or a link, never both, and the file the row names is in
\* the storage, unless a request that has deleted it is about to name another,
\* one changed the cover after reading an older one, or one was lost on its way.
CoverIsThere ==
  /\ row.image = NoFile \/ ~row.link
  /\ row.image = NoFile \/ row.image \in files \/ torn
       \/ \E r \in Requests : Deleted(r) /\ Seen(r).image = row.image

\* The feed shows how the project came to its owner and that it was completed,
\* or is about to, but for what was lost with a process and for a project that
\* was inherited.  A stale update that puts an earlier owner or the
\* status back is not logged again.
FeedKeepsUp ==
  /\ Exists => \/ row.owner \in feed \cup missing
               \/ \E r \in Requests : At(r, "log") /\ request[r].entry = row.owner
  /\ row.done => \/ "completed" \in feed \cup missing
                 \/ \E r \in Requests : At(r, "log") /\ request[r].entry = "completed"

\* A project is never shown with more completed tasks than it has, unless tasks
\* were created, or brought back from the archive, between the two counts.
CompletedWithinTotal ==
  report.pc = "done" => report.completed <= report.total + report.born
=============================================================================
