------------------------------ MODULE JobLife ------------------------------
(***************************************************************************)
(* What the three AI jobs promise who asked for one: the job is submitted  *)
(* once, is under way, and ends once, as completed or failed.  Only hands  *)
(* laid on it while it was under way write to it, one at a time unless the *)
(* broker may hold two messages about the job: so nothing revives a job    *)
(* that has ended and that no hand is on.                                  *)
(***************************************************************************)
CONSTANTS JobIds, Hands

VARIABLES
  phase,    \* "none", "pending", "processing", "completed" or "failed"
  hands,    \* who may still write to each job
  doubted   \* jobs whose message may be worked on twice

vars == <<phase, hands, doubted>>

UnderWay == {"pending", "processing"}
Over == {"completed", "failed"}

Init ==
  /\ phase = [j \in JobIds |-> "none"]
  /\ hands = [j \in JobIds |-> {}]
  /\ doubted = {}

Submit(j) ==
  /\ phase[j] = "none"
  /\ phase' = [phase EXCEPT ![j] = "pending"]
  /\ UNCHANGED <<hands, doubted>>

Doubt(j) ==
  /\ phase[j] # "none"
  /\ doubted' = doubted \cup {j}
  /\ UNCHANGED <<phase, hands>>

LayHand(j, h) ==
  /\ phase[j] \in UnderWay
  /\ doubted' \in {doubted, doubted \cup {j}}
  /\ hands[j] # {} => j \in doubted'
  /\ hands' = [hands EXCEPT ![j] = @ \cup {h}]
  /\ phase' = phase

\* A job that is over is written again only in doubt.
Write(j, h) ==
  /\ h \in hands[j]
  /\ phase[j] \in Over => j \in doubted
  /\ \/ phase' = [phase EXCEPT ![j] = "processing"] /\ hands' = hands
     \/ /\ \E s \in Over : phase' = [phase EXCEPT ![j] = s]
        /\ hands' = [hands EXCEPT ![j] = @ \ {h}]
  /\ doubted' = doubted

TakeHandOff(j, h) ==
  /\ hands' = [hands EXCEPT ![j] = @ \ {h}]
  /\ UNCHANGED <<phase, doubted>>

Next ==
  \E j \in JobIds :
    \/ Submit(j) \/ Doubt(j)
    \/ \E h \in Hands : LayHand(j, h) \/ Write(j, h) \/ TakeHandOff(j, h)

Spec == Init /\ [][Next]_vars
=============================================================================
