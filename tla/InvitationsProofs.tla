-------------------------- MODULE InvitationsProofs --------------------------
(***************************************************************************)
(* Theorems about Invitations, for any number of addresses, workers,       *)
(* sweeps, invites and faults.                                             *)
(***************************************************************************)
EXTENDS Invitations, TLAPS

-----------------------------------------------------------------------------
(* Type correctness *)

\* What the writes of single columns keep.
LEMMA SentWrite ==
  ASSUME row \in [Ids -> Row], NEW i, NEW b \in BOOLEAN
  PROVE  [row EXCEPT ![i].sent = b] \in [Ids -> Row]
  BY DEF Row

LEMMA RenewWrite ==
  ASSUME row \in [Ids -> Row], NEW i \in Ids, NEW t \in Nat, NEW b \in BOOLEAN
  PROVE  [row EXCEPT ![i].hash = t, ![i].sent = b] \in [Ids -> Row]
  BY DEF Row

LEMMA StatusWrite ==
  ASSUME row \in [Ids -> Row], NEW i, NEW st \in {"Expired", "Deleted"}
  PROVE  [row EXCEPT ![i].status = st] \in [Ids -> Row]
  BY DEF Row

LEMMA FaultType ==
  ASSUME TypeOK, Fault \/ NoFault
  PROVE  faults' \in 0..MaxFaults
  BY InviteConstants DEF TypeOK, Fault, NoFault

LEMMA MadeAddress ==
  ASSUME TypeOK, OnlyMadeRows, NEW i \in Made
  PROVE  i \in Ids /\ row[i].email \in Emails
  BY InviteConstants DEF TypeOK, OnlyMadeRows, Made, Ids

LEMMA MailType ==
  ASSUME TypeOK, OnlyMadeRows, NEW i \in Made, NEW t \in Nat
  PROVE  Mail(i, t) \in [to : Emails, tok : Nat]
  BY MadeAddress DEF Mail

LEMMA InitType == Init => TypeOK
  BY InviteConstants DEF Init, TypeOK, Ids, Row, IdleWorker, IdleSweep

LEMMA HandlersKeepType ==
  ASSUME TypeOK,
         \/ \E e \in Emails : CheckInvite(e) \/ CreateInvite(e) \/ SignUp(e)
         \/ \E i \in Ids : QueueEmail(i)
         \/ PassDeadline
  PROVE  TypeOK'
<1> USE InviteConstants DEF TypeOK, Ids, people, queue
<1>1. ASSUME NEW e \in Emails, CheckInvite(e) PROVE TypeOK'
  BY <1>1 DEF CheckInvite
<1>2. ASSUME NEW e \in Emails, CreateInvite(e) PROVE TypeOK'
  <2>1. row' \in [Ids -> Row]
    BY <1>2 DEF CreateInvite, Row
  <2>2. /\ made' \in 0..MaxInvites
        /\ pastDue' \in 0..made'
        /\ nextTok' \in Nat \ {0}
        /\ checked' \in [Emails -> 0..MaxHandlers]
        /\ toQueue' \in SUBSET Ids
    BY <1>2 DEF CreateInvite, TokenDrawn
  <2> QED
    BY <1>2, <2>1, <2>2 DEF CreateInvite
<1>3. ASSUME NEW e \in Emails, SignUp(e) PROVE TypeOK'
  BY <1>3 DEF SignUp
<1>4. ASSUME NEW i \in Ids, QueueEmail(i) PROVE TypeOK'
  BY <1>4, FaultType DEF QueueEmail
<1>5. CASE PassDeadline
  BY <1>5 DEF PassDeadline
<1> QED
  BY <1>1, <1>2, <1>3, <1>4, <1>5

LEMMA WorkersKeepType ==
  ASSUME TypeOK, OnlyMadeRows, NEW w \in Workers,
         \/ \E i \in Ids : StartTask(w, i)
         \/ TaskSend(w) \/ TaskMark(w) \/ LoseWorker(w)
  PROVE  TypeOK'
<1> USE DEF people, queue, IdleWorker
<1>1. ASSUME NEW i \in Ids, StartTask(w, i) PROVE TypeOK'
  <2>1. worker' \in [Workers -> [pc : {"idle", "send", "mark"}, inv : Ids \cup {0}]]
    BY <1>1 DEF TypeOK, StartTask
  <2>2. tasks' \in SUBSET Ids /\ faults' \in 0..MaxFaults
    BY <1>1, FaultType DEF TypeOK, StartTask
  <2> QED
    BY <1>1, <2>1, <2>2 DEF TypeOK, StartTask
<1>2. CASE TaskSend(w)
  <2>1. worker[w].inv \in Made
    BY <1>2 DEF OnlyMadeRows, TaskSend
  <2>2. row[worker[w].inv].first \in Nat
    BY <2>1 DEF TypeOK, Row, Made, Ids
  <2>3. Mail(worker[w].inv, row[worker[w].inv].first) \in [to : Emails, tok : Nat]
    BY <2>1, <2>2, MailType
  <2> QED
    <3>1. inbox' \in SUBSET [to : Emails, tok : Nat] /\ faults' \in 0..MaxFaults
      BY <1>2, <2>3, FaultType DEF TypeOK, TaskSend
    <3>2. worker' \in [Workers -> [pc : {"idle", "send", "mark"}, inv : Ids \cup {0}]]
      BY <1>2 DEF TypeOK, TaskSend
    <3> QED
      BY <1>2, <3>1, <3>2 DEF TypeOK, TaskSend
<1>3. CASE TaskMark(w)
  <2> DEFINE b == row[worker[w].inv].sent \/ row[worker[w].inv].status # "Deleted"
  <2>1. b \in BOOLEAN
    OBVIOUS
  <2> HIDE DEF b
  <2>2. row' = [row EXCEPT ![worker[w].inv].sent = b]
    BY <1>3 DEF TaskMark, b
  <2>3. row' \in [Ids -> Row]
    BY <2>1, <2>2, SentWrite DEF TypeOK
  <2> QED
    BY <1>3, <2>3 DEF TypeOK, TaskMark
<1>4. CASE LoseWorker(w)
  BY <1>4, FaultType DEF TypeOK, LoseWorker
<1> QED
  BY <1>1, <1>2, <1>3, <1>4

LEMMA SweepsKeepType ==
  ASSUME TypeOK, OnlyMadeRows, NEW s \in Sweeps,
         SweepStep(s) \/ LoseSweep(s)
  PROVE  TypeOK'
<1> DEFINE SweepType == [Sweeps -> [pc   : {"idle", "each", "send", "save", "keep"},
                                   todo : SUBSET Ids,
                                   inv  : Ids \cup {0},
                                   tok  : Nat]]
<1> USE DEF people, queue, IdleSweep
<1>1. CASE StartSweep(s)
  <2>1. Unsent \subseteq Ids
    BY InviteConstants DEF TypeOK, Unsent, Ids
  <2>2. sweep' \in SweepType
    BY <1>1, <2>1 DEF TypeOK, StartSweep
  <2> QED
    BY <1>1, <2>2 DEF TypeOK, StartSweep
<1>2. ASSUME NEW i \in Ids, SweepExpire(s, i)
      PROVE  TypeOK'
  <2>1. \/ row' = row
        \/ \E st \in {"Expired", "Deleted"} : row' = [row EXCEPT ![i].status = st]
    BY <1>2 DEF SweepExpire, Lapsed
  <2>2. row' \in [Ids -> Row]
    <3>1. CASE row' = row
      BY <3>1 DEF TypeOK
    <3>2. ASSUME NEW st \in {"Expired", "Deleted"},
                 row' = [row EXCEPT ![i].status = st]
          PROVE  row' \in [Ids -> Row]
      BY <3>2, StatusWrite DEF TypeOK
    <3> QED
      BY <2>1, <3>1, <3>2
  <2>3. sweep' \in SweepType
    BY <1>2 DEF TypeOK, SweepExpire
  <2> QED
    BY <1>2, <2>2, <2>3 DEF TypeOK, SweepExpire
<1>3. ASSUME NEW i \in Ids, SweepRenew(s, i)
      PROVE  TypeOK'
  <2>1. sweep' \in SweepType
    BY <1>3 DEF TypeOK, SweepRenew
  <2>2. nextTok' \in Nat \ {0}
    BY <1>3 DEF TypeOK, SweepRenew, TokenDrawn
  <2> QED
    BY <1>3, <2>1, <2>2 DEF TypeOK, SweepRenew
<1>4. CASE SweepSend(s)
  <2>1. sweep[s].inv \in Made /\ sweep[s].tok \in Nat
    BY <1>4 DEF TypeOK, OnlyMadeRows, SweepSend, SendingSweep
  <2>2. Mail(sweep[s].inv, sweep[s].tok) \in [to : Emails, tok : Nat]
    BY <2>1, MailType
  <2>3. inbox' \in SUBSET [to : Emails, tok : Nat] /\ faults' \in 0..MaxFaults
    BY <1>4, <2>2, FaultType DEF TypeOK, SweepSend
  <2>4. \/ sweep' = [sweep EXCEPT ![s].pc = "save"]
        \/ sweep' = [sweep EXCEPT ![s].pc = "keep"]
    BY <1>4 DEF SweepSend
  <2>5. sweep' \in SweepType
    BY <2>4 DEF TypeOK
  <2> QED
    BY <1>4, <2>3, <2>5 DEF TypeOK, SweepSend
<1>5. CASE SweepSave(s)
  <2> DEFINE i == sweep[s].inv
             b == row[i].sent \/ sweep[s].pc = "save"
  <2>1. b \in BOOLEAN /\ sweep[s].tok \in Nat
    BY DEF TypeOK
  <2>2. i \in Ids
    BY <1>5, MadeAddress DEF OnlyMadeRows, SweepSave, SendingSweep
  <2>3. \/ row' = [row EXCEPT ![i].hash = sweep[s].tok, ![i].sent = b]
        \/ row' = row
    BY <1>5 DEF SweepSave, Renewed
  <2> HIDE DEF b, i
  <2>4. row' \in [Ids -> Row]
    <3>1. row \in [Ids -> Row]
      BY DEF TypeOK
    <3>2. [row EXCEPT ![i].hash = sweep[s].tok, ![i].sent = b] \in [Ids -> Row]
      BY <2>1, <2>2, <3>1, RenewWrite
    <3> QED
      BY <2>3, <3>1, <3>2
  <2> USE DEF i
  <2>5. failed' \in SUBSET Ids
    BY <1>5, <2>2 DEF TypeOK, SweepSave
  <2>6. sweep' \in SweepType
    BY <1>5 DEF TypeOK, SweepSave
  <2> QED
    BY <1>5, <2>4, <2>5, <2>6 DEF TypeOK, SweepSave
<1>6. CASE SweepDone(s)
  BY <1>6 DEF TypeOK, SweepDone
<1>7. CASE LoseSweep(s)
  BY <1>7, FaultType DEF TypeOK, LoseSweep
<1> QED
  BY <1>1, <1>2, <1>3, <1>4, <1>5, <1>6, <1>7 DEF SweepStep

LEMMA AcceptKeepsType ==
  ASSUME TypeOK, OnlyMadeRows, NEW m \in inbox, Accept(m)
  PROVE  TypeOK'
<1>1. PICK i \in Made : AcceptLate(m, i) \/ AcceptJoin(m, i)
  BY DEF Accept, Made
<1>2. row[i].email \in Emails
  BY MadeAddress
<1>3. row' \in [Ids -> Row]
  <2>1. PICK st \in {"Expired", "Deleted"} : row' = [row EXCEPT ![i].status = st]
    BY <1>1 DEF AcceptLate, AcceptJoin, Lapsed
  <2> QED
    BY <2>1, StatusWrite DEF TypeOK
<1>4. users' \in SUBSET Emails /\ members' \in SUBSET users'
  BY <1>1, <1>2 DEF TypeOK, AcceptLate, AcceptJoin, AccountAdded, people
<1> QED
  BY <1>3, <1>4 DEF TypeOK, Accept, queue

LEMMA StepType ==
  TypeOK /\ OnlyMadeRows /\ [Next]_vars => TypeOK'
<1> SUFFICES ASSUME TypeOK, OnlyMadeRows, [Next]_vars
             PROVE  TypeOK'
  OBVIOUS
<1>1. CASE UNCHANGED vars
  BY <1>1 DEF vars, TypeOK, people, queue
<1>2. CASE Next
  BY <1>2, HandlersKeepType, WorkersKeepType, SweepsKeepType, AcceptKeepsType
     DEF Next
<1> QED
  BY <1>1, <1>2
-----------------------------------------------------------------------------
(* Which rows the processes can hold *)

LEMMA InitRows == Init => OnlyMadeRows
  BY InviteConstants DEF Init, OnlyMadeRows, Ids, Made, IdleWorker, IdleSweep,
                         SendingSweep

\* An action that writes no address and creates no row disturbs nothing but
\* what the processes hold.
LEMMA RowsFrame ==
  ASSUME TypeOK, OnlyMadeRows, made' = made,
         \A i \in Ids : row'[i].email = row[i].email
  PROVE  /\ Made' = Made
         /\ \A i \in Ids : i \in Made' <=> row'[i].email \in Emails
  BY DEF OnlyMadeRows, Made

LEMMA StepRows ==
  TypeOK /\ OnlyMadeRows /\ [Next]_vars => OnlyMadeRows'
<1> SUFFICES ASSUME TypeOK, OnlyMadeRows, [Next]_vars
             PROVE  OnlyMadeRows'
  OBVIOUS
<1> USE DEF people, queue
<1>1. CASE UNCHANGED vars
  BY <1>1 DEF vars, OnlyMadeRows, SendingSweep, Made
<1>2. ASSUME NEW e \in Emails, CheckInvite(e) \/ SignUp(e)
      PROVE  OnlyMadeRows'
  BY <1>2 DEF CheckInvite, SignUp, OnlyMadeRows, SendingSweep, Made
<1>3. ASSUME NEW e \in Emails, CreateInvite(e)
      PROVE  OnlyMadeRows'
  <2>1. Made' = Made \cup {made + 1}
    <3>1. made \in Nat /\ made' = made + 1
      BY <1>3, InviteConstants DEF CreateInvite, TypeOK
    <3> QED
      BY <3>1 DEF Made
  <2>2. \A i \in Ids : i \in Made' <=> row'[i].email \in Emails
    BY <1>3, <2>1 DEF CreateInvite, OnlyMadeRows, TypeOK
  <2> QED
    BY <1>3, <2>1, <2>2 DEF CreateInvite, OnlyMadeRows, SendingSweep
<1>4. ASSUME NEW i \in Ids, QueueEmail(i)
      PROVE  OnlyMadeRows'
  BY <1>4 DEF QueueEmail, OnlyMadeRows, SendingSweep, Made
<1>5. ASSUME NEW w \in Workers, NEW i \in Ids, StartTask(w, i)
      PROVE  OnlyMadeRows'
  <2>1. Unsent \subseteq Made
    BY DEF Unsent, Made
  <2>2. \A v \in Workers : worker'[v].pc # "idle" => worker'[v].inv \in Made
    BY <1>5, <2>1 DEF StartTask, OnlyMadeRows, TypeOK, IdleWorker
  <2> QED
    BY <1>5, <2>2 DEF StartTask, OnlyMadeRows, SendingSweep, Made
<1>6. ASSUME NEW w \in Workers, TaskSend(w) \/ LoseWorker(w)
      PROVE  OnlyMadeRows'
  BY <1>6 DEF TaskSend, LoseWorker, OnlyMadeRows, TypeOK, SendingSweep, Made,
              IdleWorker
<1>7. ASSUME NEW w \in Workers, TaskMark(w)
      PROVE  OnlyMadeRows'
  <2>1. \A i \in Ids : row'[i].email = row[i].email
    BY <1>7 DEF TaskMark, TypeOK
  <2> QED
    BY <1>7, <2>1, RowsFrame
    DEF TaskMark, OnlyMadeRows, TypeOK, SendingSweep, IdleWorker
<1>8. ASSUME NEW s \in Sweeps, StartSweep(s)
      PROVE  OnlyMadeRows'
  <2>1. Unsent \subseteq Made
    BY DEF Unsent, Made
  <2> QED
    BY <1>8, <2>1 DEF StartSweep, OnlyMadeRows, TypeOK, SendingSweep, Made, IdleSweep
<1>9. ASSUME NEW s \in Sweeps, NEW i \in Ids, SweepExpire(s, i)
      PROVE  OnlyMadeRows'
  <2>1. \A j \in Ids : row'[j].email = row[j].email
    BY <1>9 DEF SweepExpire, Lapsed, TypeOK, Row
  <2>2. \A r \in Sweeps : sweep'[r].todo \subseteq sweep[r].todo
    BY <1>9 DEF SweepExpire, TypeOK, IdleSweep
  <2>3. \A r \in Sweeps : SendingSweep(r)' => SendingSweep(r) /\ sweep'[r].inv = sweep[r].inv
    BY <1>9 DEF SweepExpire, TypeOK, IdleSweep, SendingSweep
  <2> QED
    BY <1>9, <2>1, <2>2, <2>3, RowsFrame DEF SweepExpire, OnlyMadeRows
<1>10. ASSUME NEW s \in Sweeps, NEW i \in Ids, SweepRenew(s, i)
       PROVE  OnlyMadeRows'
  BY <1>10 DEF SweepRenew, OnlyMadeRows, TypeOK, SendingSweep, Made
<1>11. ASSUME NEW s \in Sweeps, SweepSend(s) \/ SweepDone(s) \/ LoseSweep(s)
       PROVE  OnlyMadeRows'
  BY <1>11 DEF SweepSend, SweepDone, LoseSweep, OnlyMadeRows, TypeOK,
               SendingSweep, Made, IdleSweep
<1>12. ASSUME NEW s \in Sweeps, SweepSave(s)
       PROVE  OnlyMadeRows'
  <2>1. \A j \in Ids : row'[j].email = row[j].email
    BY <1>12 DEF SweepSave, Renewed, TypeOK, Row
  <2>2. \A r \in Sweeps : sweep'[r].todo \subseteq sweep[r].todo
    BY <1>12 DEF SweepSave, TypeOK, IdleSweep
  <2>3. \A r \in Sweeps : SendingSweep(r)' => SendingSweep(r) /\ sweep'[r].inv = sweep[r].inv
    BY <1>12 DEF SweepSave, TypeOK, IdleSweep, SendingSweep
  <2>4. failed' \subseteq Made
    BY <1>12 DEF SweepSave, OnlyMadeRows, SendingSweep
  <2> QED
    BY <1>12, <2>1, <2>2, <2>3, <2>4, RowsFrame DEF SweepSave, OnlyMadeRows
<1>13. ASSUME NEW m \in inbox, Accept(m)
       PROVE  OnlyMadeRows'
  <2>1. \A j \in Ids : row'[j].email = row[j].email
    BY <1>13 DEF Accept, AcceptLate, AcceptJoin, Lapsed, TypeOK, Row
  <2> QED
    BY <1>13, <2>1, RowsFrame DEF Accept, OnlyMadeRows, SendingSweep
<1>14. CASE PassDeadline
  BY <1>14 DEF PassDeadline, OnlyMadeRows, SendingSweep, Made
<1> QED
  BY <1>1, <1>2, <1>3, <1>4, <1>5, <1>6, <1>7, <1>8, <1>9, <1>10, <1>11, <1>12,
     <1>13, <1>14
  DEF Next, SweepStep

\* Every variable keeps its type, and no process holds a row that was never
\* created.
THEOREM TypeCorrect == Spec => [](TypeOK /\ OnlyMadeRows)
  BY InitType, InitRows, StepType, StepRows, PTL DEF Spec
-----------------------------------------------------------------------------
(* Whose token is whose *)

LEMMA InitOwned == Init => TokensAreOwned
<1> SUFFICES ASSUME Init PROVE TokensAreOwned
  OBVIOUS
<1>1. Made = {} /\ inbox = {}
  BY DEF Init, Made
<1> QED
  BY <1>1 DEF TokensAreOwned

LEMMA TokensAreNumbers ==
  ASSUME TypeOK, NEW i \in Ids
  PROVE  Tokens(i) \subseteq Nat
  BY DEF TypeOK, Tokens, Row

\* A step that hands out no token: no invite gains one, and only an invite's
\* own tokens are mailed to its address.
LEMMA OwnedFrame ==
  ASSUME TypeOK, OnlyMadeRows, TokensAreOwned, nextTok' = nextTok, made' = made,
         \A i \in Made : /\ Tokens(i)' \subseteq Tokens(i)
                         /\ row'[i].email = row[i].email,
         \A m \in inbox' : \/ m \in inbox
                           \/ \E i \in Made : \E t \in Tokens(i) : m = Mail(i, t)
  PROVE  TokensAreOwned'
<1>1. Made' = Made
  BY DEF Made
<1>2. \A m \in inbox' : m.tok < nextTok
  BY DEF TokensAreOwned, Mail
<1>3. \A m \in inbox', i \in Made : m.tok \in Tokens(i) => m.to = row[i].email
  BY DEF TokensAreOwned, Mail
<1> HIDE DEF Tokens
<1> QED
  BY <1>1, <1>2, <1>3 DEF TokensAreOwned

\* A step that hands the next token to invite k.
LEMMA OwnedGrowth ==
  ASSUME TypeOK, OnlyMadeRows, TokensAreOwned, nextTok' = nextTok + 1,
         inbox' = inbox, NEW k \in Made', Made' = Made \cup {k},
         \A i \in Made : /\ Tokens(i)' \subseteq Tokens(i) \cup (IF i = k THEN {nextTok} ELSE {})
                         /\ row'[i].email = row[i].email,
         k \notin Made => Tokens(k)' \subseteq {nextTok}
  PROVE  TokensAreOwned'
<1>1. nextTok \in Nat
  BY DEF TypeOK
<1>2. Made \subseteq Ids
  BY MadeAddress
<1>3. \A i \in Made : Tokens(i) \subseteq Nat
  BY <1>2, TokensAreNumbers
<1>4. \A i \in Made : \A t \in Tokens(i) : t \in Nat /\ t < nextTok
  BY <1>3 DEF TokensAreOwned
<1>5. \A m \in inbox : m.tok \in Nat /\ m.tok < nextTok
  BY DEF TokensAreOwned, TypeOK
<1>6. \A i \in Made' : \A t \in Tokens(i)' :
        \/ i \in Made /\ t \in Tokens(i)
        \/ i = k /\ t = nextTok
  OBVIOUS
<1>7. \A i \in Made' : \A t \in Tokens(i)' : t < nextTok'
  BY <1>1, <1>4, <1>6
<1>8. \A m \in inbox' : m.tok < nextTok'
  BY <1>1, <1>5
<1>9. \A i, j \in Made' : i # j => Tokens(i)' \cap Tokens(j)' = {}
  <2> SUFFICES ASSUME NEW i \in Made', NEW j \in Made', i # j,
                      NEW t \in Tokens(i)', t \in Tokens(j)'
               PROVE  FALSE
    OBVIOUS
  <2>1. CASE t = nextTok
    BY <2>1, <1>1, <1>4, <1>6
  <2>2. CASE t # nextTok
    BY <2>2, <1>6 DEF TokensAreOwned
  <2> QED
    BY <2>1, <2>2
<1>10. \A m \in inbox', i \in Made' : m.tok \in Tokens(i)' => m.to = row'[i].email
  <2> SUFFICES ASSUME NEW m \in inbox, NEW i \in Made', m.tok \in Tokens(i)'
               PROVE  m.to = row'[i].email
    OBVIOUS
  <2>1. m.tok # nextTok
    BY <1>1, <1>5
  <2>2. i \in Made /\ m.tok \in Tokens(i)
    BY <2>1, <1>6
  <2> QED
    BY <2>2 DEF TokensAreOwned
<1> QED
  BY <1>7, <1>8, <1>9, <1>10 DEF TokensAreOwned

\* What Tokens depends on: the row's two tokens and the sweeps that hold one.
LEMMA TokensFrame ==
  ASSUME NEW i \in Ids,
         row'[i].first = row[i].first,
         row'[i].hash \in Tokens(i),
         \A s \in Sweeps : (SendingSweep(s) /\ sweep[s].inv = i)' =>
                           sweep'[s].tok \in Tokens(i)
  PROVE  Tokens(i)' \subseteq Tokens(i)
  BY DEF Tokens

LEMMA TokensOf ==
  ASSUME NEW i \in Ids
  PROVE  /\ row[i].first \in Tokens(i)
         /\ row[i].hash \in Tokens(i)
         /\ \A s \in Sweeps : SendingSweep(s) /\ sweep[s].inv = i =>
                              sweep[s].tok \in Tokens(i)
  BY DEF Tokens

\* Steps that leave every row's tokens, and every sweep's, as they are.
LEMMA OwnedUnchanged ==
  ASSUME TypeOK, OnlyMadeRows, TokensAreOwned, nextTok' = nextTok, made' = made,
         \A i \in Ids : /\ row'[i].first = row[i].first
                        /\ row'[i].hash = row[i].hash
                        /\ row'[i].email = row[i].email,
         \A s \in Sweeps : SendingSweep(s)' =>
                           /\ SendingSweep(s)
                           /\ sweep'[s].inv = sweep[s].inv
                           /\ sweep'[s].tok = sweep[s].tok,
         \A m \in inbox' : \/ m \in inbox
                           \/ \E i \in Made : \E t \in Tokens(i) : m = Mail(i, t)
  PROVE  TokensAreOwned'
<1>1. ASSUME NEW i \in Made
      PROVE  /\ Tokens(i)' \subseteq Tokens(i)
             /\ row'[i].email = row[i].email
  <2>1. i \in Ids
    BY MadeAddress
  <2>2. ASSUME NEW s \in Sweeps, (SendingSweep(s) /\ sweep[s].inv = i)'
        PROVE  sweep'[s].tok \in Tokens(i)
    BY <2>1, <2>2, TokensOf
  <2>3. row'[i].hash \in Tokens(i)
    BY <2>1, TokensOf
  <2> QED
    BY <2>1, <2>2, <2>3, TokensFrame
<1> QED
  BY <1>1, OwnedFrame

LEMMA StepOwned ==
  TypeOK /\ OnlyMadeRows /\ TokensAreOwned /\ [Next]_vars => TokensAreOwned'
<1> SUFFICES ASSUME TypeOK, OnlyMadeRows, TokensAreOwned, [Next]_vars
             PROVE  TokensAreOwned'
  OBVIOUS
<1> USE DEF people, queue
<1>1. CASE UNCHANGED vars
  BY <1>1, OwnedUnchanged DEF vars, SendingSweep
<1>2. ASSUME NEW e \in Emails, CheckInvite(e) \/ SignUp(e)
      PROVE  TokensAreOwned'
  BY <1>2, OwnedUnchanged DEF CheckInvite, SignUp, SendingSweep
<1>3. ASSUME NEW e \in Emails, CreateInvite(e)
      PROVE  TokensAreOwned'
  <2>0. PICK k : k = made + 1
    OBVIOUS
  <2>1. /\ made \in Nat /\ MaxInvites \in Nat /\ made < MaxInvites
        /\ made' = k /\ nextTok' = nextTok + 1 /\ inbox' = inbox
    BY <1>3, <2>0, InviteConstants DEF CreateInvite, TypeOK, TokenDrawn
  <2>2. Made' = Made \cup {k} /\ k \in Made' /\ k \notin Made /\ k \in Ids
    BY <2>0, <2>1 DEF Made, Ids
  <2>3. \A s \in Sweeps : SendingSweep(s)' => /\ SendingSweep(s)
                                              /\ sweep'[s] = sweep[s]
                                              /\ sweep[s].inv \in Made
    BY <1>3 DEF CreateInvite, SendingSweep, OnlyMadeRows
  <2>4. ASSUME NEW i \in Made
        PROVE  /\ Tokens(i)' \subseteq Tokens(i)
               /\ row'[i].email = row[i].email
    <3>1. i \in Ids /\ i # k
      BY MadeAddress, <2>2
    <3>2. row'[i] = row[i]
      BY <1>3, <2>0, <3>1 DEF CreateInvite, TypeOK
    <3>3. row'[i].hash \in Tokens(i)
      BY <3>1, <3>2, TokensOf
    <3>4. ASSUME NEW s \in Sweeps, (SendingSweep(s) /\ sweep[s].inv = i)'
          PROVE  sweep'[s].tok \in Tokens(i)
      BY <2>3, <3>1, <3>4, TokensOf
    <3> QED
      BY <3>1, <3>2, <3>3, <3>4, TokensFrame
  <2>5. Tokens(k)' \subseteq {nextTok}
    <3>1. row'[k].first = nextTok /\ row'[k].hash = nextTok
      BY <1>3, <2>0, <2>2 DEF CreateInvite, TypeOK
    <3>2. \A s \in Sweeps : ~(SendingSweep(s) /\ sweep[s].inv = k)'
      BY <2>2, <2>3
    <3> QED
      BY <3>1, <3>2 DEF Tokens
  <2> QED
    BY <2>1, <2>2, <2>4, <2>5, OwnedGrowth
<1>4. ASSUME NEW i \in Ids, QueueEmail(i)
      PROVE  TokensAreOwned'
  BY <1>4, OwnedUnchanged DEF QueueEmail, SendingSweep
<1>5. ASSUME NEW w \in Workers,
             LoseWorker(w) \/ \E i \in Ids : StartTask(w, i)
      PROVE  TokensAreOwned'
  BY <1>5, OwnedUnchanged DEF StartTask, LoseWorker, SendingSweep
<1>6. ASSUME NEW w \in Workers, TaskSend(w)
      PROVE  TokensAreOwned'
  <2>1. worker[w].inv \in Made
    BY <1>6 DEF OnlyMadeRows, TaskSend
  <2>2. row[worker[w].inv].first \in Tokens(worker[w].inv)
    BY <2>1, MadeAddress, TokensOf
  <2> QED
    BY <1>6, <2>1, <2>2, OwnedUnchanged DEF TaskSend, SendingSweep
<1>7. ASSUME NEW w \in Workers, TaskMark(w)
      PROVE  TokensAreOwned'
  <2>1. \A i \in Ids : /\ row'[i].first = row[i].first
                       /\ row'[i].hash = row[i].hash
                       /\ row'[i].email = row[i].email
    BY <1>7 DEF TaskMark, TypeOK, Row
  <2> QED
    BY <1>7, <2>1, OwnedUnchanged DEF TaskMark, SendingSweep
<1>8. ASSUME NEW s \in Sweeps, StartSweep(s) \/ SweepDone(s) \/ LoseSweep(s)
      PROVE  TokensAreOwned'
  <2>1. \A r \in Sweeps : SendingSweep(r)' => /\ SendingSweep(r)
                                              /\ sweep'[r].inv = sweep[r].inv
                                              /\ sweep'[r].tok = sweep[r].tok
    <3>1. CASE StartSweep(s)
      BY <3>1 DEF StartSweep, SendingSweep, TypeOK, IdleSweep
    <3>2. CASE SweepDone(s) \/ LoseSweep(s)
      BY <3>2 DEF SweepDone, LoseSweep, SendingSweep, TypeOK, IdleSweep
    <3> QED
      BY <1>8, <3>1, <3>2
  <2> QED
    BY <1>8, <2>1, OwnedUnchanged DEF StartSweep, SweepDone, LoseSweep
<1>9. ASSUME NEW s \in Sweeps, NEW i \in Ids, SweepExpire(s, i)
      PROVE  TokensAreOwned'
  <2>1. \A j \in Ids : /\ row'[j].first = row[j].first
                       /\ row'[j].hash = row[j].hash
                       /\ row'[j].email = row[j].email
    BY <1>9 DEF SweepExpire, Lapsed, TypeOK, Row
  <2>2. \A r \in Sweeps : SendingSweep(r)' => /\ SendingSweep(r)
                                              /\ sweep'[r].inv = sweep[r].inv
                                              /\ sweep'[r].tok = sweep[r].tok
    BY <1>9 DEF SweepExpire, SendingSweep, TypeOK, IdleSweep
  <2> QED
    BY <1>9, <2>1, <2>2, OwnedUnchanged DEF SweepExpire
<1>10. ASSUME NEW s \in Sweeps, NEW i \in Ids, SweepRenew(s, i)
       PROVE  TokensAreOwned'
  <2>1. i \in Made
    BY <1>10 DEF SweepRenew, OnlyMadeRows
  <2>2. /\ nextTok' = nextTok + 1 /\ inbox' = inbox /\ row' = row
        /\ Made' = Made \cup {i}
    BY <1>10, <2>1 DEF SweepRenew, TokenDrawn, Made
  <2>3. \A r \in Sweeps :
          SendingSweep(r)' => IF r = s THEN sweep'[r].inv = i /\ sweep'[r].tok = nextTok
                                       ELSE SendingSweep(r) /\ sweep'[r] = sweep[r]
    BY <1>10 DEF SweepRenew, SendingSweep, TypeOK
  <2>4. ASSUME NEW j \in Made
        PROVE  Tokens(j)' \subseteq Tokens(j) \cup (IF j = i THEN {nextTok} ELSE {})
    <3>1. ASSUME NEW t \in Tokens(j)', t \notin Tokens(j)
          PROVE  j = i /\ t = nextTok
      <4>1. j \in Ids
        BY MadeAddress
      <4>2. PICK r \in Sweeps : SendingSweep(r)' /\ sweep'[r].inv = j /\ sweep'[r].tok = t
        BY <3>1, <4>1, <2>2, TokensOf DEF Tokens
      <4> QED
        BY <3>1, <4>1, <4>2, <2>3, TokensOf
    <3> QED
      BY <3>1
  <2> QED
    BY <2>1, <2>2, <2>4, OwnedGrowth
<1>11. ASSUME NEW s \in Sweeps, SweepSend(s)
       PROVE  TokensAreOwned'
  <2>1. sweep[s].inv \in Made /\ sweep[s].tok \in Tokens(sweep[s].inv)
    BY <1>11, MadeAddress, TokensOf DEF SweepSend, OnlyMadeRows, SendingSweep
  <2>2. \A r \in Sweeps : SendingSweep(r)' => /\ SendingSweep(r)
                                              /\ sweep'[r].inv = sweep[r].inv
                                              /\ sweep'[r].tok = sweep[r].tok
    BY <1>11 DEF SweepSend, SendingSweep, TypeOK
  <2> QED
    BY <1>11, <2>1, <2>2, OwnedUnchanged DEF SweepSend
<1>12. ASSUME NEW s \in Sweeps, SweepSave(s)
       PROVE  TokensAreOwned'
  <2>1. sweep[s].inv \in Ids /\ sweep[s].tok \in Tokens(sweep[s].inv)
    BY <1>12, MadeAddress, TokensOf DEF SweepSave, OnlyMadeRows, SendingSweep
  <2>2. \A j \in Ids : /\ row'[j].first = row[j].first
                       /\ row'[j].email = row[j].email
                       /\ \/ row'[j].hash = row[j].hash
                          \/ j = sweep[s].inv /\ row'[j].hash = sweep[s].tok
    BY <1>12 DEF SweepSave, Renewed, TypeOK, Row
  <2>3. \A r \in Sweeps : SendingSweep(r)' => /\ SendingSweep(r)
                                              /\ sweep'[r].inv = sweep[r].inv
                                              /\ sweep'[r].tok = sweep[r].tok
    BY <1>12 DEF SweepSave, SendingSweep, TypeOK, IdleSweep
  <2>4. ASSUME NEW j \in Made
        PROVE  /\ Tokens(j)' \subseteq Tokens(j)
               /\ row'[j].email = row[j].email
    <3>1. j \in Ids
      BY MadeAddress
    <3>2. row'[j].hash \in Tokens(j)
      BY <3>1, <2>1, <2>2, TokensOf
    <3>3. ASSUME NEW r \in Sweeps, (SendingSweep(r) /\ sweep[r].inv = j)'
          PROVE  sweep'[r].tok \in Tokens(j)
      BY <3>1, <3>3, <2>3, TokensOf
    <3> QED
      BY <3>1, <3>2, <3>3, <2>2, TokensFrame
  <2> QED
    BY <1>12, <2>4, OwnedFrame DEF SweepSave
<1>13. ASSUME NEW m \in inbox, Accept(m)
       PROVE  TokensAreOwned'
  <2>1. \A j \in Ids : /\ row'[j].first = row[j].first
                       /\ row'[j].hash = row[j].hash
                       /\ row'[j].email = row[j].email
    BY <1>13 DEF Accept, AcceptLate, AcceptJoin, Lapsed, TypeOK, Row
  <2> QED
    BY <1>13, <2>1, OwnedUnchanged DEF Accept, SendingSweep
<1>14. CASE PassDeadline
  BY <1>14, OwnedUnchanged DEF PassDeadline, SendingSweep
<1> QED
  BY <1>1, <1>2, <1>3, <1>4, <1>5, <1>6, <1>7, <1>8, <1>9, <1>10, <1>11, <1>12,
     <1>13, <1>14
  DEF Next, SweepStep
-----------------------------------------------------------------------------
(* How an invite's current token is accounted for *)

LEMMA InitAccounted == Init => TokensAreAccounted
  BY DEF Init, TokensAreAccounted, Made, IdleWorker, IdleSweep

\* It is enough that mails and failures are not forgotten, that a row whose
\* token or flag changes is accounted for, and that a process that comes to
\* have sent its mail has sent it.
LEMMA AccountedFrame ==
  ASSUME TypeOK, OnlyMadeRows, TokensAreAccounted,
         made' = made, inbox \subseteq inbox', failed \subseteq failed',
         \A i \in Ids : row'[i].email = row[i].email /\ row'[i].first = row[i].first,
         \A i \in Made : \/ row'[i].hash = row[i].hash /\ row'[i].sent = row[i].sent
                         \/ LinkMailed(i)'
                         \/ i \in failed',
         \A w \in Workers : worker'[w].pc = "mark" =>
           \/ worker'[w] = worker[w]
           \/ /\ worker'[w].inv \in Made
              /\ Mail(worker'[w].inv, row[worker'[w].inv].first) \in inbox',
         \A s \in Sweeps : sweep'[s].pc = "save" =>
           \/ sweep'[s] = sweep[s]
           \/ /\ sweep'[s].inv \in Made
              /\ Mail(sweep'[s].inv, sweep'[s].tok) \in inbox'
  PROVE  TokensAreAccounted'
<1>1. Made' = Made /\ Made \subseteq Ids
  BY MadeAddress DEF Made
<1>3. ASSUME NEW i \in Made'
      PROVE  \/ row'[i].hash = row'[i].first /\ ~row'[i].sent
             \/ LinkMailed(i)'
             \/ i \in failed'
  <2>1. i \in Made /\ i \in Ids
    BY <1>1
  <2>2. CASE row'[i].hash = row[i].hash /\ row'[i].sent = row[i].sent
    <3>1. LinkMailed(i) => LinkMailed(i)'
      BY <2>1, <2>2 DEF LinkMailed, Mail
    <3> QED
      BY <2>1, <2>2, <3>1 DEF TokensAreAccounted
  <2> QED
    BY <2>1, <2>2
<1>4. ASSUME NEW w \in Workers, worker'[w].pc = "mark"
      PROVE  Mail(worker[w].inv, row[worker[w].inv].first)' \in inbox'
  <2>1. worker'[w].inv \in Made
    BY <1>4 DEF OnlyMadeRows
  <2>2. Mail(worker'[w].inv, row[worker'[w].inv].first) \in inbox'
    BY <1>4 DEF TokensAreAccounted
  <2> QED
    BY <2>1, <2>2, <1>1 DEF Mail
<1>5. ASSUME NEW s \in Sweeps, sweep'[s].pc = "save"
      PROVE  Mail(sweep[s].inv, sweep[s].tok)' \in inbox'
  <2>1. sweep'[s].inv \in Made
    BY <1>5 DEF OnlyMadeRows, SendingSweep
  <2>2. Mail(sweep'[s].inv, sweep'[s].tok) \in inbox'
    BY <1>5 DEF TokensAreAccounted
  <2> QED
    BY <2>1, <2>2, <1>1 DEF Mail
<1> QED
  BY <1>3, <1>4, <1>5 DEF TokensAreAccounted

LEMMA StepAccounted ==
  TypeOK /\ OnlyMadeRows /\ TokensAreAccounted /\ [Next]_vars => TokensAreAccounted'
<1> SUFFICES ASSUME TypeOK, OnlyMadeRows, TokensAreAccounted, [Next]_vars
             PROVE  TokensAreAccounted'
  OBVIOUS
<1> USE DEF people, queue
<1>0. Made \subseteq Ids
  BY MadeAddress
<1>1. CASE UNCHANGED vars
  BY <1>1, AccountedFrame DEF vars
<1>2. ASSUME NEW e \in Emails, CheckInvite(e) \/ SignUp(e)
      PROVE  TokensAreAccounted'
  BY <1>2, AccountedFrame DEF CheckInvite, SignUp
<1>3. ASSUME NEW e \in Emails, CreateInvite(e)
      PROVE  TokensAreAccounted'
  <2>0. PICK k : k = made + 1
    OBVIOUS
  <2>1. made \in Nat /\ MaxInvites \in Nat /\ made < MaxInvites /\ made' = k
    BY <1>3, <2>0, InviteConstants DEF CreateInvite, TypeOK
  <2>2. Made' = Made \cup {k} /\ k \notin Made /\ k \in Ids
    BY <2>0, <2>1 DEF Made, Ids
  <2>3. \A i \in Made : row'[i] = row[i]
    BY <1>0, <1>3, <2>0, <2>2 DEF CreateInvite, TypeOK
  <2>4. row'[k].hash = row'[k].first /\ ~row'[k].sent
    BY <1>3, <2>0, <2>2 DEF CreateInvite, TypeOK
  <2>5. inbox' = inbox /\ failed' = failed /\ worker' = worker /\ sweep' = sweep
    BY <1>3 DEF CreateInvite
  <2>6. \A i \in Made : LinkMailed(i) => LinkMailed(i)'
    BY <2>3, <2>5 DEF LinkMailed, Mail
  <2>7. \A w \in Workers : worker[w].pc = "mark" => worker[w].inv \in Made
    BY DEF OnlyMadeRows
  <2>8. \A s \in Sweeps : sweep[s].pc = "save" => sweep[s].inv \in Made
    BY DEF OnlyMadeRows, SendingSweep
  <2> QED
    BY <2>2, <2>3, <2>4, <2>5, <2>6, <2>7, <2>8 DEF TokensAreAccounted, Mail
<1>4. ASSUME NEW i \in Ids, QueueEmail(i)
      PROVE  TokensAreAccounted'
  BY <1>4, AccountedFrame DEF QueueEmail
<1>5. ASSUME NEW w \in Workers,
             LoseWorker(w) \/ \E i \in Ids : StartTask(w, i)
      PROVE  TokensAreAccounted'
  <2>1. \A v \in Workers : worker'[v].pc = "mark" => worker'[v] = worker[v]
    BY <1>5 DEF StartTask, LoseWorker, IdleWorker, TypeOK
  <2> QED
    BY <1>5, <2>1, AccountedFrame DEF StartTask, LoseWorker
<1>6. ASSUME NEW w \in Workers, TaskSend(w)
      PROVE  TokensAreAccounted'
  <2>1. worker[w].inv \in Made
    BY <1>6 DEF OnlyMadeRows, TaskSend
  <2>2. \A v \in Workers : worker'[v].pc = "mark" =>
          \/ worker'[v] = worker[v]
          \/ /\ worker'[v].inv \in Made
             /\ Mail(worker'[v].inv, row[worker'[v].inv].first) \in inbox'
    BY <1>6, <2>1 DEF TaskSend, IdleWorker, TypeOK
  <2> QED
    BY <1>6, <2>2, AccountedFrame DEF TaskSend
<1>7. ASSUME NEW w \in Workers, TaskMark(w)
      PROVE  TokensAreAccounted'
  <2>1. PICK k : k = worker[w].inv
    OBVIOUS
  <2>2. k \in Made /\ Mail(k, row[k].first) \in inbox
    BY <1>7, <2>1 DEF TaskMark, OnlyMadeRows, TokensAreAccounted
  <2>3. ASSUME NEW i \in Ids
        PROVE  /\ row'[i].first = row[i].first
               /\ row'[i].hash = row[i].hash
               /\ row'[i].email = row[i].email
               /\ i # k => row'[i].sent = row[i].sent
    BY <1>7, <2>1 DEF TaskMark, TypeOK, Row
  <2>4. made' = made /\ inbox' = inbox /\ failed' = failed /\ sweep' = sweep
    BY <1>7 DEF TaskMark
  <2>5. \A v \in Workers : worker'[v].pc = "mark" => worker'[v] = worker[v]
    BY <1>7 DEF TaskMark, IdleWorker, TypeOK
  <2>6. LinkMailed(k) \/ k \in failed
    BY <2>2 DEF LinkMailed, TokensAreAccounted
  <2>7. LinkMailed(k)' \/ k \in failed'
    <3>1. k \in Ids
      BY <1>0, <2>2
    <3>2. row'[k].email = row[k].email /\ row'[k].hash = row[k].hash
      BY <2>3, <3>1
    <3> QED
      BY <3>2, <2>4, <2>6 DEF LinkMailed, Mail
  <2>8. ASSUME NEW i \in Made
        PROVE  \/ row'[i].hash = row[i].hash /\ row'[i].sent = row[i].sent
               \/ LinkMailed(i)' \/ i \in failed'
    BY <1>0, <2>3, <2>7
  <2> QED
    BY <2>3, <2>4, <2>5, <2>8, AccountedFrame
<1>8. ASSUME NEW s \in Sweeps,
             \/ StartSweep(s) \/ SweepDone(s) \/ LoseSweep(s)
             \/ \E i \in Ids : SweepRenew(s, i)
      PROVE  TokensAreAccounted'
  <2>1. \A r \in Sweeps : sweep'[r].pc = "save" => sweep'[r] = sweep[r]
    <3>1. CASE StartSweep(s)
      BY <3>1 DEF StartSweep, IdleSweep, TypeOK
    <3>2. CASE SweepDone(s) \/ LoseSweep(s)
      BY <3>2 DEF SweepDone, LoseSweep, IdleSweep, TypeOK
    <3>3. ASSUME NEW i \in Ids, SweepRenew(s, i)
          PROVE  \A r \in Sweeps : sweep'[r].pc = "save" => sweep'[r] = sweep[r]
      BY <3>3 DEF SweepRenew, TypeOK
    <3> QED
      BY <1>8, <3>1, <3>2, <3>3
  <2> QED
    BY <1>8, <2>1, AccountedFrame DEF StartSweep, SweepDone, LoseSweep, SweepRenew
<1>9. ASSUME NEW s \in Sweeps, NEW i \in Ids, SweepExpire(s, i)
      PROVE  TokensAreAccounted'
  <2>1. \A j \in Ids : /\ row'[j].email = row[j].email
                       /\ row'[j].first = row[j].first
                       /\ row'[j].hash = row[j].hash
                       /\ row'[j].sent = row[j].sent
    BY <1>9 DEF SweepExpire, Lapsed, TypeOK, Row
  <2>2. \A r \in Sweeps : sweep'[r].pc = "save" => sweep'[r] = sweep[r]
    BY <1>9 DEF SweepExpire, IdleSweep, TypeOK
  <2> QED
    BY <1>0, <1>9, <2>1, <2>2, AccountedFrame DEF SweepExpire
<1>10. ASSUME NEW s \in Sweeps, SweepSend(s)
       PROVE  TokensAreAccounted'
  <2>1. sweep[s].inv \in Made
    BY <1>10 DEF OnlyMadeRows, SweepSend, SendingSweep
  <2>2. \A r \in Sweeps : sweep'[r].pc = "save" =>
          \/ sweep'[r] = sweep[r]
          \/ /\ sweep'[r].inv \in Made
             /\ Mail(sweep'[r].inv, sweep'[r].tok) \in inbox'
    BY <1>10, <2>1 DEF SweepSend, TypeOK
  <2> QED
    BY <1>10, <2>2, AccountedFrame DEF SweepSend
<1>11. ASSUME NEW s \in Sweeps, SweepSave(s)
       PROVE  TokensAreAccounted'
  <2>1. PICK k : k = sweep[s].inv
    OBVIOUS
  <2>2. k \in Made /\ (sweep[s].pc = "save" => Mail(k, sweep[s].tok) \in inbox)
    BY <1>11, <2>1 DEF SweepSave, OnlyMadeRows, SendingSweep, TokensAreAccounted
  <2>3. ASSUME NEW i \in Ids
        PROVE  /\ row'[i].first = row[i].first
               /\ row'[i].email = row[i].email
               /\ i # k => row'[i].sent = row[i].sent /\ row'[i].hash = row[i].hash
    BY <1>11, <2>1 DEF SweepSave, Renewed, TypeOK, Row
  <2>4. /\ made' = made /\ inbox' = inbox /\ worker' = worker
        /\ failed \subseteq failed'
    BY <1>11 DEF SweepSave
  <2>5. \A r \in Sweeps : sweep'[r].pc = "save" => sweep'[r] = sweep[r]
    BY <1>11 DEF SweepSave, IdleSweep, TypeOK
  <2>6. k \in Ids
    BY <1>0, <2>2
  <2>7. \/ row'[k] = row[k]
        \/ row'[k].hash = sweep[s].tok /\ (sweep[s].pc = "keep" => k \in failed')
    BY <1>11, <2>1, <2>6 DEF SweepSave, Renewed, TypeOK, Row
  <2>8. \/ row'[k] = row[k]
        \/ LinkMailed(k)' \/ k \in failed'
    <3>1. row'[k].email = row[k].email
      BY <2>3, <2>6
    <3> QED
      BY <1>11, <2>2, <2>4, <2>7, <3>1 DEF SweepSave, LinkMailed, Mail
  <2>9. ASSUME NEW i \in Made
        PROVE  \/ row'[i].hash = row[i].hash /\ row'[i].sent = row[i].sent
               \/ LinkMailed(i)' \/ i \in failed'
    BY <1>0, <2>3, <2>8
  <2> QED
    BY <2>3, <2>4, <2>5, <2>9, AccountedFrame
<1>12. ASSUME NEW m \in inbox, Accept(m)
       PROVE  TokensAreAccounted'
  <2>1. \A j \in Ids : /\ row'[j].email = row[j].email
                       /\ row'[j].first = row[j].first
                       /\ row'[j].hash = row[j].hash
                       /\ row'[j].sent = row[j].sent
    BY <1>12 DEF Accept, AcceptLate, AcceptJoin, Lapsed, TypeOK, Row
  <2> QED
    BY <1>0, <1>12, <2>1, AccountedFrame DEF Accept
<1>13. CASE PassDeadline
  BY <1>13, AccountedFrame DEF PassDeadline
<1> QED
  BY <1>1, <1>2, <1>3, <1>4, <1>5, <1>6, <1>7, <1>8, <1>9, <1>10, <1>11, <1>12,
     <1>13
  DEF Next, SweepStep

-----------------------------------------------------------------------------
(* The life of a row, and the promise it keeps *)

LEMMA InitStatus == Init => StatusOfMadeRows
  BY InviteConstants DEF Init, StatusOfMadeRows, Made, Ids

LEMMA InitPromise == Init => Promise!Init
  BY DEF Init, Promise!Init

\* Steps an invitee cannot tell from no step at all.
LEMMA Invisible ==
  ASSUME \A i \in Ids : row'[i].status = row[i].status /\ row'[i].email = row[i].email,
         UNCHANGED <<pastDue, users, members>>
  PROVE  UNCHANGED Promise!vars
  BY DEF Promise!vars

\* What the promise sees of a step that writes the status of one row.
LEMMA StatusWritten ==
  ASSUME NEW i \in Ids, NEW st, row'[i].status = st,
         \A j \in Ids : /\ row'[j].email = row[j].email
                        /\ j # i => row'[j].status = row[j].status
  PROVE  /\ [j \in Ids |-> row'[j].status]
              = [[j \in Ids |-> row[j].status] EXCEPT ![i] = st]
         /\ [j \in Ids |-> row'[j].email] = [j \in Ids |-> row[j].email]
  OBVIOUS

\* The steps that change what the invitee is offered are those of the promise.
LEMMA StepPromise ==
  TypeOK /\ OnlyMadeRows /\ StatusOfMadeRows /\ [Next]_vars
    => [Promise!Next]_(Promise!vars) /\ StatusOfMadeRows'
<1> SUFFICES ASSUME TypeOK, OnlyMadeRows, StatusOfMadeRows, [Next]_vars
             PROVE  [Promise!Next]_(Promise!vars) /\ StatusOfMadeRows'
  OBVIOUS
<1> DEFINE Goal == [Promise!Next]_(Promise!vars) /\ StatusOfMadeRows'
           Keeps == /\ made' = made /\ pastDue' = pastDue
                    /\ users' = users /\ members' = members
                    /\ \A i \in Ids : /\ row'[i].status = row[i].status
                                      /\ row'[i].email = row[i].email
<1> USE DEF people, queue
<1>0. Made \subseteq Ids
  BY MadeAddress
<1>a. Keeps => Goal
  BY Invisible DEF StatusOfMadeRows, Made
<1> HIDE DEF Goal
<1>1. ASSUME UNCHANGED vars
      PROVE  Goal
  <2>1. Keeps
    BY <1>1 DEF vars
  <2> QED
    BY <2>1, <1>a
<1>2. ASSUME NEW e \in Emails, CheckInvite(e)
      PROVE  Goal
  BY <1>2, <1>a DEF CheckInvite
<1>3. ASSUME NEW e \in Emails, SignUp(e)
      PROVE  Goal
  <2>1. Promise!Register(e)
    BY <1>3 DEF SignUp, Promise!Register
  <2>2. StatusOfMadeRows'
    BY <1>3 DEF SignUp, StatusOfMadeRows, Made
  <2> QED
    BY <2>1, <2>2 DEF Goal, Promise!Next
<1>4. ASSUME NEW e \in Emails, CreateInvite(e)
      PROVE  Goal
  <2>0. PICK k : k = made + 1
    OBVIOUS
  <2>1. made \in Nat /\ MaxInvites \in Nat /\ made < MaxInvites /\ made' = k
    BY <1>4, <2>0, InviteConstants DEF CreateInvite, TypeOK
  <2>2. Made' = Made \cup {k} /\ k \notin Made /\ k \in Ids
    BY <2>0, <2>1 DEF Made, Ids
  <2>3. /\ row'[k].status = "Pending" /\ row'[k].email = e
        /\ \A i \in Ids \ {k} : row'[i] = row[i]
    BY <1>4, <2>0, <2>2 DEF CreateInvite, TypeOK
  <2>4. row[k].status = "None"
    BY <2>2 DEF StatusOfMadeRows
  <2>a. [j \in Ids |-> row'[j].status]
          = [[j \in Ids |-> row[j].status] EXCEPT ![k] = "Pending"]
    BY <2>2, <2>3
  <2>b. [j \in Ids |-> row'[j].email]
          = [[j \in Ids |-> row[j].email] EXCEPT ![k] = e]
    BY <2>2, <2>3
  <2>c. UNCHANGED <<pastDue, users, members>>
    BY <1>4 DEF CreateInvite
  <2>5. Promise!Make(k, e)
    BY <2>2, <2>4, <2>a, <2>b, <2>c DEF Promise!Make
  <2>6. StatusOfMadeRows'
    BY <2>2, <2>3 DEF StatusOfMadeRows
  <2> QED
    BY <2>2, <2>5, <2>6 DEF Goal, Promise!Next
<1>5. ASSUME NEW i \in Ids, QueueEmail(i)
      PROVE  Goal
  BY <1>5, <1>a DEF QueueEmail
<1>6. ASSUME NEW w \in Workers,
             TaskSend(w) \/ LoseWorker(w) \/ \E i \in Ids : StartTask(w, i)
      PROVE  Goal
  BY <1>6, <1>a DEF TaskSend, LoseWorker, StartTask
<1>7. ASSUME NEW w \in Workers, TaskMark(w)
      PROVE  Goal
  <2>1. \A i \in Ids : /\ row'[i].status = row[i].status
                       /\ row'[i].email = row[i].email
    BY <1>7 DEF TaskMark, TypeOK, Row
  <2> QED
    BY <1>7, <2>1, <1>a DEF TaskMark
<1>8. ASSUME NEW s \in Sweeps,
             \/ StartSweep(s) \/ SweepSend(s) \/ SweepDone(s) \/ LoseSweep(s)
             \/ \E i \in Ids : SweepRenew(s, i)
      PROVE  Goal
  BY <1>8, <1>a DEF StartSweep, SweepSend, SweepDone, LoseSweep, SweepRenew
<1>9. ASSUME NEW s \in Sweeps, SweepSave(s)
      PROVE  Goal
  <2>1. \A i \in Ids : /\ row'[i].status = row[i].status
                       /\ row'[i].email = row[i].email
    BY <1>9 DEF SweepSave, Renewed, TypeOK, Row
  <2> QED
    BY <1>9, <2>1, <1>a DEF SweepSave
<1>b. ASSUME NEW i \in Made, i <= pastDue, row[i].status # "Deleted",
             row' = Lapsed(i), UNCHANGED <<made, pastDue, users, members>>
      PROVE  Goal
  <2>0. i \in Ids
    BY <1>0, <1>b
  <2>1. i \in Ids /\ row[i].status \in {"Pending", "Expired"}
    <3>1. row[i].status # "None"
      BY <2>0, <1>b DEF StatusOfMadeRows
    <3>2. row[i] \in Row
      BY <2>0 DEF TypeOK
    <3> QED
      BY <2>0, <3>1, <3>2, <1>b DEF Row
  <2>2. /\ row'[i].status = "Expired"
        /\ \A j \in Ids : /\ row'[j].email = row[j].email
                          /\ j # i => row'[j].status = row[j].status
    BY <1>b, <2>1 DEF Lapsed, TypeOK, Row
  <2>3. CASE row[i].status = "Expired"
    <3>1. \A j \in Ids : /\ row'[j].status = row[j].status
                         /\ row'[j].email = row[j].email
      BY <2>2, <2>3
    <3> QED
      BY <1>b, <1>a, <3>1
  <2>4. CASE row[i].status = "Pending"
    <3>0. /\ [j \in Ids |-> row'[j].status]
                = [[j \in Ids |-> row[j].status] EXCEPT ![i] = "Expired"]
          /\ [j \in Ids |-> row'[j].email] = [j \in Ids |-> row[j].email]
      BY <2>1, <2>2, StatusWritten
    <3>1. Promise!Lapse(i)
      BY <1>b, <2>1, <2>4, <3>0 DEF Promise!Lapse
    <3>2. StatusOfMadeRows'
      <4>1. Made' = Made
        BY <1>b DEF Made
      <4>2. \A j \in Ids : row'[j].status # "None" <=> row[j].status # "None"
        BY <2>1, <2>2
      <4> QED
        BY <4>1, <4>2 DEF StatusOfMadeRows
    <3> QED
      BY <2>1, <3>1, <3>2 DEF Goal, Promise!Next
  <2> QED
    BY <2>1, <2>3, <2>4
<1>10. ASSUME NEW s \in Sweeps, NEW i \in Ids, SweepExpire(s, i)
       PROVE  Goal
  <2>1. i \in Made
    BY <1>10 DEF SweepExpire, OnlyMadeRows
  <2>2. CASE row[i].status = "Deleted"
    BY <1>10, <2>2, <1>a DEF SweepExpire
  <2>3. CASE row[i].status # "Deleted"
    BY <1>10, <2>1, <2>3, <1>b DEF SweepExpire
  <2> QED
    BY <2>2, <2>3
<1>11. ASSUME NEW m \in inbox, Accept(m)
       PROVE  Goal
  <2>1. PICK i \in Made : AcceptLate(m, i) \/ AcceptJoin(m, i)
    BY <1>11 DEF Accept, Made
  <2>2. CASE AcceptLate(m, i)
    BY <1>11, <2>2, <1>b DEF Accept, AcceptLate, Pending
  <2>3. CASE AcceptJoin(m, i)
    <3>1. i \in Ids
      BY <1>0
    <3>2. /\ row'[i].status = "Deleted"
          /\ \A j \in Ids : /\ row'[j].email = row[j].email
                            /\ j # i => row'[j].status = row[j].status
      BY <2>3, <3>1 DEF AcceptJoin, TypeOK, Row
    <3>a. /\ [j \in Ids |-> row'[j].status]
                = [[j \in Ids |-> row[j].status] EXCEPT ![i] = "Deleted"]
          /\ [j \in Ids |-> row'[j].email] = [j \in Ids |-> row[j].email]
      BY <3>1, <3>2, StatusWritten
    <3>b. /\ row[i].status = "Pending" /\ i > pastDue /\ row[i].email \notin users
          /\ users' = users \cup {row[i].email}
          /\ members' = members \cup {row[i].email}
          /\ made' = made /\ pastDue' = pastDue
      BY <1>11, <2>3 DEF Accept, AcceptJoin, Pending, MayJoin, AccountAdded
    <3>3. Promise!Take(i)
      BY <3>1, <3>a, <3>b DEF Promise!Take
    <3>4. StatusOfMadeRows'
      <4>1. Made' = Made
        BY <3>b DEF Made
      <4>2. \A j \in Ids : row'[j].status # "None" <=> row[j].status # "None"
        BY <3>1, <3>2, <3>b
      <4> QED
        BY <4>1, <4>2 DEF StatusOfMadeRows
    <3> QED
      BY <3>1, <3>3, <3>4 DEF Goal, Promise!Next
  <2> QED
    BY <2>1, <2>2, <2>3
<1>12. ASSUME PassDeadline
       PROVE  Goal
  <2>1. Promise!TimePasses
    BY <1>12 DEF PassDeadline, Promise!TimePasses
  <2>2. StatusOfMadeRows'
    BY <1>12 DEF PassDeadline, StatusOfMadeRows, Made
  <2> QED
    BY <2>1, <2>2 DEF Goal, Promise!Next
<1> HIDE DEF Keeps
<1>13. ASSUME NEW s \in Sweeps, SweepStep(s) \/ LoseSweep(s)
       PROVE  Goal
  BY <1>8, <1>9, <1>10, <1>13 DEF SweepStep
<1>14. ASSUME NEW w \in Workers,
              \/ \E i \in Ids : StartTask(w, i)
              \/ TaskSend(w) \/ TaskMark(w) \/ LoseWorker(w)
       PROVE  Goal
  BY <1>6, <1>7, <1>14
<1>15. CASE Next
  <2>1. Goal
    BY <1>2, <1>3, <1>4, <1>5, <1>11, <1>12, <1>13, <1>14, <1>15 DEF Next
  <2> QED
    BY <2>1 DEF Goal
<1> QED
  BY <1>1, <1>15 DEF Goal

-----------------------------------------------------------------------------
(* The theorems *)

\* The inductive invariant holds throughout.
THEOREM InviteInvariant == Spec => []InviteInv
<1>1. Init => InviteInv
  BY InitType, InitRows, InitStatus, InitOwned, InitAccounted DEF InviteInv
<1>2. InviteInv /\ [Next]_vars => InviteInv'
  BY StepType, StepRows, StepPromise, StepOwned, StepAccounted DEF InviteInv
<1> QED
  BY <1>1, <1>2, PTL DEF Spec

\* A link opens no invite but one of the address it was mailed to.
THEOREM LinksMatch == Spec => []LinkMatchesAddress
<1>1. InviteInv => LinkMatchesAddress
  BY DEF InviteInv, TokensAreOwned, LinkMatchesAddress, Tokens, Made
<1> QED
  BY <1>1, InviteInvariant, PTL

\* A dead link on an invite marked as sent comes from a failed retry.
THEOREM DeadLinks == Spec => []DeadLinkNeedsFailedRetry
<1>1. InviteInv => DeadLinkNeedsFailedRetry
  BY DEF InviteInv, TokensAreAccounted, DeadLinkNeedsFailedRetry, Made
<1> QED
  BY <1>1, InviteInvariant, PTL

\* The table, the mailers and the handlers together keep InvitationPromise.
THEOREM PromiseKept == Spec => KeepsPromise
<1>1. InviteInv /\ [Next]_vars => [Promise!Next]_(Promise!vars)
  BY StepPromise DEF InviteInv
<1> QED
  BY <1>1, InitPromise, InviteInvariant, PTL DEF Spec, KeepsPromise, Promise!Spec
=============================================================================
