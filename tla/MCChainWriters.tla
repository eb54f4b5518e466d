----------------------------- MODULE MCChainWriters -----------------------------
(* The writers of the owned chain for TLC: few services, bounded disturbances.   *)
EXTENDS ChainWriters, TLC

ApprovalSymmetry == Permutations(Approvals)
SubmitterSymmetry == Permutations(Submitters)
WriterSymmetry == ApprovalSymmetry \cup SubmitterSymmetry
================================================================================
