--------------------------- MODULE MCInvitations ---------------------------
(* The instance of Invitations for TLC.  The addresses are alike, but      *)
(* symmetry is unsound under fairness: so one of them, Ada, is asked       *)
(* first, and only who was asked signs up.  While two invites are at hand  *)
(* there is one sweep and no fault.                                        *)
EXTENDS Invitations, FiniteSetsExt, TLC

CONSTANT Ada

Asked(e) == checked[e] > 0 \/ \E i \in 1..made : row[i].email = e
InHand == made + MapThenSumSet(LAMBDA e : checked[e], Emails)

Bound ==
  /\ \A e \in Emails : Asked(e) => Asked(Ada)
  /\ \A e \in users : Asked(e)
  /\ InHand <= MaxInvites
  /\ InHand > 1 => faults = 0 /\ \A s \in Sweeps \ {Beat} : sweep[s].pc = "idle"
=============================================================================
