------------------------------ MODULE MCAccess ------------------------------
(* Symmetry and the bounds for the run of Access: requests are alike; there  *)
(* are three requests and changes of the roster in all; and a project is     *)
(* created without collaborators, which updates set.                         *)
EXTENDS Access, TLC

Symmetry == Permutations(Requests)

Begun == {r \in Requests : request[r].pc # "idle"}
Short == Cardinality(Begun) + moves <= 3

Sets == {r \in Requests : request[r].pc \in {"write", "crowd"} /\ ~request[r].keep}
Sparing == \A r \in Sets : request[r].what = "update"
Bounded == Short /\ Sparing
=============================================================================
