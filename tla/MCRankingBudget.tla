---------------------------- MODULE MCRankingBudget ----------------------------
(* RankingBudget for TLC: two shared requests, and two of one index lane that      *)
(* compete for its permit.                                                         *)
EXTENDS RankingBudget, TLC

CONSTANTS s1, s2, a1, a2

LaneOfRequest == (s1 :> "shared") @@ (s2 :> "shared") @@ (a1 :> "index-a")
                 @@ (a2 :> "index-a")
KindOfRequest == (s1 :> "rpc") @@ (s2 :> "rpc") @@ (a1 :> "index") @@ (a2 :> "rpc")

\* Two calls for the shared lane, so that two leases can be over it together.
SmallCalls == [l \in Lanes |-> IF l = "shared" THEN 2 ELSE 1]
SmallBytes == [p \in Pools |-> IF p = <<"shared", "index">> THEN 0 ELSE 1]
================================================================================
