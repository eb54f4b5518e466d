----------------------------- MODULE MCTaskRuntime -----------------------------
(* Instances of TaskRuntime for TLC. *)
EXTENDS TaskRuntime, TLC

\* The slots of an interaction are interchangeable requests, and only the equality
\* of contents is looked at.
RequestSymmetry == Permutations(Slots) \cup Permutations(Contents)
================================================================================
