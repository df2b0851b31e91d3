------------------------- MODULE InvitationPromise -------------------------
(***************************************************************************)
(* What an invitation promises, without mail, tasks or sweeps: an offer to *)
(* an address is open until it is taken or lapses, both for good; taking   *)
(* it is possible only before its deadline, and makes an address without   *)
(* an account a user and a member in one step.                             *)
(***************************************************************************)
EXTENDS Naturals

CONSTANTS
  Emails,   \* addresses
  NoEmail,  \* the invitee of an offer not made yet
  Ids       \* offers: 1, 2, ... in the order they are made

VARIABLES
  offer,    \* "None", "Pending", "Expired" or "Deleted", by offer
  invitee,  \* the address of an offer that was made
  pastDue,  \* offers 1..pastDue have passed their deadline
  users,    \* addresses with an account
  members   \* addresses that belong to the company

vars == <<offer, invitee, pastDue, users, members>>

Init ==
  /\ offer = [i \in Ids |-> "None"]
  /\ invitee = [i \in Ids |-> NoEmail]
  /\ pastDue = 0
  /\ users \in SUBSET Emails
  /\ members = {}

Make(i, e) ==
  /\ offer[i] = "None"
  /\ offer' = [offer EXCEPT ![i] = "Pending"]
  /\ invitee' = [invitee EXCEPT ![i] = e]
  /\ UNCHANGED <<pastDue, users, members>>

Lapse(i) ==
  /\ offer[i] = "Pending"
  /\ i <= pastDue
  /\ offer' = [offer EXCEPT ![i] = "Expired"]
  /\ UNCHANGED <<invitee, pastDue, users, members>>

Take(i) ==
  /\ offer[i] = "Pending"
  /\ i > pastDue
  /\ invitee[i] \notin users
  /\ offer' = [offer EXCEPT ![i] = "Deleted"]
  /\ users' = users \cup {invitee[i]}
  /\ members' = members \cup {invitee[i]}
  /\ UNCHANGED <<invitee, pastDue>>

Register(e) ==
  /\ users' = users \cup {e}
  /\ UNCHANGED <<offer, invitee, pastDue, members>>

TimePasses ==
  /\ pastDue' = pastDue + 1
  /\ UNCHANGED <<offer, invitee, users, members>>

Next ==
  \/ \E i \in Ids : Lapse(i) \/ Take(i) \/ \E e \in Emails : Make(i, e)
  \/ \E e \in Emails : Register(e)
  \/ TimePasses

Spec == Init /\ [][Next]_vars
=============================================================================
