---------------------------- MODULE PlanReview ----------------------------
(***************************************************************************)
(* What reviewing an AI plan promises, whoever and however many work on    *)
(* it.  A hand laid on a generation found it under way, or complete and    *)
(* not saved.  Only a hand that was to propose a plan can fail it; a plan  *)
(* only grows; and a hand that revises leaves a complete plan behind, or   *)
(* nothing.  So what was saved is safe but from hands already on it.       *)
(***************************************************************************)
EXTENDS Naturals

CONSTANTS
  Gens,   \* generations
  Rows,   \* the tasks a plan can propose
  Hands   \* who may work on a generation

VARIABLES
  status,   \* "none", "pending", "processing", "completed" or "failed"
  plan,     \* the tasks a generation proposed
  batches,  \* how many times its tasks were added to the backlog
  hand      \* what each hand does, and on which generation

vars == <<status, plan, batches, hand>>

Free == [does |-> "nothing"]
On(h, does, g) == hand[h] = [gen |-> g, does |-> does]
Turns(h, does, g) == hand' = [hand EXCEPT ![h] = [gen |-> g, does |-> does]]
Leaves(h) == hand' = [hand EXCEPT ![h] = Free]
Becomes(g, s) == status' = [status EXCEPT ![g] = s]

Unsaved(g) == status[g] = "completed" /\ batches[g] = 0

Init ==
  /\ status = [g \in Gens |-> "none"]
  /\ plan = [g \in Gens |-> {}]
  /\ batches = [g \in Gens |-> 0]
  /\ hand = [h \in Hands |-> Free]

Ask(g) ==
  /\ status[g] = "none"
  /\ Becomes(g, "pending")
  /\ UNCHANGED <<plan, batches, hand>>

Lay(g, h, does) ==
  /\ hand[h] = Free
  /\ \/ does = "propose" /\ status[g] \in {"pending", "processing"}
     \/ does = "revise" /\ plan[g] # {} /\ (status[g] = "processing" \/ Unsaved(g))
     \/ does = "save" /\ Unsaved(g)
  /\ Turns(h, does, g)
  /\ UNCHANGED <<status, plan, batches>>

Work(g, h) ==
  /\ On(h, "propose", g) \/ On(h, "revise", g)
  /\ Becomes(g, "processing")
  /\ UNCHANGED <<plan, batches, hand>>

Propose(g, h, P) ==
  /\ On(h, "propose", g)
  /\ P \cap plan[g] = {}
  /\ plan' = [plan EXCEPT ![g] = @ \cup P]
  /\ Turns(h, "close", g)
  /\ UNCHANGED <<status, batches>>

Fail(g, h) ==
  /\ On(h, "propose", g)
  /\ Becomes(g, "failed")
  /\ Leaves(h)
  /\ UNCHANGED <<plan, batches>>

Complete(g, h) ==
  /\ On(h, "close", g) \/ On(h, "revise", g)
  /\ plan[g] # {}
  /\ Becomes(g, "completed")
  /\ Leaves(h)
  /\ UNCHANGED <<plan, batches>>

Save(g, h) ==
  /\ On(h, "save", g)
  /\ batches' = [batches EXCEPT ![g] = @ + 1]
  /\ Leaves(h)
  /\ UNCHANGED <<status, plan>>

GiveUp(h) ==
  /\ Leaves(h)
  /\ UNCHANGED <<status, plan, batches>>

Next ==
  \/ \E g \in Gens : Ask(g)
  \/ \E g \in Gens, h \in Hands :
       \/ Work(g, h) \/ Fail(g, h) \/ Complete(g, h) \/ Save(g, h)
       \/ \E does \in {"propose", "revise", "save"} : Lay(g, h, does)
       \/ \E P \in (SUBSET Rows) \ {{}} : Propose(g, h, P)
  \/ \E h \in Hands : GiveUp(h)

Spec == Init /\ [][Next]_vars
=============================================================================
