---------------------------- MODULE MCMembership ----------------------------
(* The instance of Membership for TLC: all but the owner are alike, and    *)
(* nobody joins once somebody has asked for something.                     *)
EXTENDS Membership, TLC

Symmetry == Permutations(Users \ {Owner}) \cup Permutations(Requests)

UnitRequests == {"create", "save", "members", "lead", "revoke", "hand over"}
WorkRequests == {"new item", "assign", "save item"}

UsesUnits == \/ \E x \in Units : leader[x] # Absent
             \/ \E r \in Requests : request[r].op \in UnitRequests
UsesWork  == \/ \E i \in Items : status[i] # "absent"
             \/ \E r \in Requests : request[r].op \in WorkRequests
Asked(op) == \E r \in Requests : request[r].op = op

\* Work and units are in different behaviours, and so are work and changes of
\* a role, and leaders and changes of a member's department.
Apart ==
  /\ UsesWork => ~UsesUnits /\ ~Asked("role") /\ ~Asked("move")
  /\ Asked("move") => \A u \in Users : ~Leads(u)

JoinedFirst ==
  \A u \in Users : IF started = 0 THEN dept[u] = None ELSE role[u] # "unregistered"

Bound == Apart /\ JoinedFirst /\ (UsesUnits => started <= 3)
=============================================================================
