----------------------------- MODULE MCLiveBudget -----------------------------
(* Instances of LiveBudget for TLC. *)
EXTENDS LiveBudget, TLC

\* Tasks are interchangeable, and so are writers.
BudgetSymmetry == Permutations(Tasks) \cup Permutations(Writers)

\* Every purpose costs the same.
UnitPrice == [p \in Purposes |-> 1]
================================================================================
