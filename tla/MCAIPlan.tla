----------------------------- MODULE MCAIPlan -----------------------------
(* Symmetry for the safety runs of AIPlan: processes of one kind are alike. *)
EXTENDS AIPlan, TLC

Symmetry == Permutations(Handlers) \cup Permutations(Workers)
              \cup Permutations(Rows) \cup Permutations(Gens)
=============================================================================
