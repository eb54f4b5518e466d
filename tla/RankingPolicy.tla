----------------------------- MODULE RankingPolicy -----------------------------
(***************************************************************************)
(* The usefulness policy of a city for one candidate service, as pure       *)
(* operators (reputation/policy.ts, reputation/engine.ts): which reviews    *)
(* count, whether what is unknown could matter, and the score.              *)
(*                                                                         *)
(* A review is a publication of a document, with what the readers found of  *)
(* it.  None stands for metadata that could not be read.                    *)
(***************************************************************************)
EXTENDS Integers, FiniteSets, FiniteSetsExt

CONSTANTS
  Groups,   \* a partition of the accepted reviewers
  Sample,   \* interactions of a reviewer that count: 3 in the code
  None      \* unreadable metadata

ASSUME PolicyAssumption ==
  /\ Sample \in 1..3
  /\ \A g \in Groups : g # {} /\ IsFiniteSet(g) /\ Cardinality(g) <= 2
  /\ \A g, h \in Groups : g # h => g \cap h = {}
  /\ None \notin UNION Groups

Reviewers == UNION Groups

\* A review has a place on the chain, so first and last are by place.
Earliest(reviews) == CHOOSE r \in reviews : \A s \in reviews : r.at <= s.at
Matches(u, r) ==
  u.reviewer \in {None, r.reviewer} /\ u.interaction \in {None, r.interaction}

\* initialExclusion: what keeps a review out whatever else is known of it.
Relevant(r, scope) ==
  /\ r.reviewer \in {None} \cup scope
  /\ r.status # "invalid" /\ r.canonical # "noncanonical" /\ r.projection # "mismatched"
  /\ ~r.elsewhere

Qualifies(r) == r.canonical = "canonical" /\ r.projection = "matched"

\* A document stands at its first publication, known or not.
Anchors(reviews) ==
  {Earliest({r \in reviews : r.doc = d}) : d \in {r.doc : r \in reviews}}
Unclear(a) ==
  \/ ~Qualifies(a) \/ a.status = "unknown" \/ a.history = "unknown"
  \/ a.history = "committed" /\ a.basis # a.at

\* selectLatestByPair.
Latest(anchors) ==
  {a \in anchors : \A b \in anchors :
     b.reviewer = a.reviewer /\ b.interaction = a.interaction => b.at <= a.at}

\* An anchor that is not understood may be a later revision of a.
PossiblyLater(u, a) ==
  Matches(u, a) /\ (u.canonical = "unknown" \/ u.projection = "unknown" \/ u.at >= a.at)

Retired(a) == a.epoch = "retired" /\ a.history # "committed"
Verdict(a) ==
  CASE a.revocation = "revoked" -> "revoked"
    [] a.revocation # "revoked" /\ Retired(a) -> "retired"
    [] a.revocation # "revoked" /\ ~Retired(a) /\ a.aged -> "aged"
    [] a.revocation # "revoked" /\ ~Retired(a) /\ ~a.aged
         /\ (a.revocation = "unknown" \/ a.epoch = "unknown") -> "unknown"
    [] OTHER -> "counts"

\* Mutant of SelectReviews: what is not understood is left out of the comparison.
SelectKnown(reviews, scope, complete) ==
  LET anchors == Anchors({r \in reviews : Relevant(r, scope)})
      chosen == Latest({a \in anchors : ~Unclear(a)})
      Of(verdict) == {a \in chosen : Verdict(a) = verdict}
  IN [eligible |-> Of("counts"),
      unresolved |-> ~complete \/ Of("unknown") # {},
      prior |-> \/ \E a \in anchors : ~Unclear(a) /\ Retired(a)
                \/ \E a \in Of("revoked") \cup Of("aged") : a.rating < 3]

SelectReviews(reviews, scope, complete) ==
  LET anchors == Anchors({r \in reviews : Relevant(r, scope)})
      unclear == {a \in anchors : Unclear(a)}
      chosen == {a \in Latest(anchors \ unclear) : ~\E u \in unclear : PossiblyLater(u, a)}
      Of(verdict) == {a \in chosen : Verdict(a) = verdict}
  IN [eligible |-> Of("counts"),
      unresolved |-> ~complete \/ unclear # {} \/ Of("unknown") # {},
      prior |-> \/ \E a \in anchors \ unclear : Retired(a)
                \/ \E a \in Of("revoked") \cup Of("aged") : a.rating < 3]

--------------------------------------------------------------------------------
(* scoreGroups: rationals, as a fraction whose terms are multiplied by 12.  *)

MostRecent(reviews) ==
  {r \in reviews : Cardinality({s \in reviews : s.at > r.at}) < Sample}
Ratings(reviews) == FoldSet(LAMBDA r, sum : r.rating + sum, 0, reviews)

\* Twelve times the mean of a group: the mean of its reviewers' means.
GroupMean(group, eligible) ==
  LET By(v) == MostRecent({r \in eligible : r.reviewer = v})
      voices == {v \in group : By(v) # {}}
  IN FoldSet(LAMBDA v, sum : (12 * Ratings(By(v))) \div (Cardinality(By(v)) * Cardinality(voices)) + sum,
             0, voices)

\* What a score is made of.
Votes(reviews) == {[at |-> r.at, reviewer |-> r.reviewer, rating |-> r.rating] : r \in reviews}

Heard(eligible) == {g \in Groups : \E r \in eligible : r.reviewer \in g}
Score(eligible) ==
  LET heard == Heard(eligible) IN
  IF heard = {} THEN None
  ELSE [above |-> FoldSet(LAMBDA g, sum : GroupMean(g, eligible) + sum, 72, heard),
        below |-> 12 * (2 + Cardinality(heard))]

\* calculateCandidate: an unresolved candidate has no score.
Candidate(reviews, scope, complete, eligibleProfile, admitted) ==
  LET found == SelectReviews(reviews, scope, complete)
      score == Score(Votes(found.eligible))
  IN [qualified |-> ~found.unresolved,
      score |-> IF found.unresolved THEN None ELSE score,
      prior |-> found.prior,
      view |-> CASE ~eligibleProfile -> "excluded"
                 [] eligibleProfile /\ ~admitted -> "explore"
                 [] eligibleProfile /\ admitted /\ found.unresolved -> "unresolved"
                 [] eligibleProfile /\ admitted /\ ~found.unresolved /\ score # None -> "rated"
                 [] OTHER -> IF found.prior THEN "unassessed" ELSE "newcomer"]
================================================================================
