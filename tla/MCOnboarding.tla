------------------------------ MODULE MCOnboarding ------------------------------
(* Onboarding for TLC: small numbers of services and bounded disturbances.       *)
EXTENDS Onboarding, TLC

ApprovalSymmetry == Permutations(Approvals)
================================================================================
