---------------------------- MODULE RankingEvidence ----------------------------
(***************************************************************************)
(* readRankingEvidence (reputation/evidence.ts): the findings of Coverage   *)
(* and of the feedback readers, one publication after another in chain      *)
(* order, become the input of RankingPolicy, and the observation block is   *)
(* read once more before the result is given out.                           *)
(*                                                                         *)
(* One service.  A read finds what is so or does not find it, as the        *)
(* properties of Coverage, FeedbackReaders and CarryForward say, until the  *)
(* observation is replaced.                                                 *)
(***************************************************************************)
EXTENDS RankingPolicy, Sequences

CONSTANTS
  Rating,     \* the rating of each document
  MaxFaults   \* reads that fail

ASSUME EvidenceAssumption == MaxFaults \in Nat /\ \A d \in DOMAIN Rating : Rating[d] \in 1..5

VARIABLES
  by, doc,     \* who published each slot, and which document
  papers,      \* documents: author, interaction, kind, whether for the former runtime
  retirement,  \* the place from which the former runtime is retired
  revoked,     \* slots that were revoked
  old,         \* slots up to here are out of the window
  seen,        \* slots that Coverage authenticated; complete: it has them all
  complete,
  lost,        \* documents that no Index returned
  bundles,     \* the private bundle file at hand for each document
  holds,       \* the observation block is still canonical
  step,        \* what it is doing
  next,        \* the slot it reads next
  reviews,     \* the reviews so far
  anchors,     \* per document: what was composed for its first matched publication
  observed,    \* per document: what was composed last
  gap,         \* a review was left out, which leaves the history partial
  profile,     \* the service's current profile is valid, or it is unknown
  admitted,    \* a curator or a test admits the service
  faulted,     \* reads that failed
  report       \* what it returns

truthVars == <<by, doc, papers, retirement, revoked, old, seen, complete, lost, bundles>>
foundVars == <<next, reviews, anchors, observed, gap>>
rankVars == <<truthVars, holds, step, foundVars, profile, admitted, faulted, report>>

Docs == DOMAIN Rating
Absent == [carry |-> "absent"]

\* Documents as they are published: sound or not, left out of the history for want of an
\* interaction, of another rubric, or of another city.
PaperKinds == {"plain", "legacy", "unsound", "odd", "foreign", "elsewhere"}

\* Its own bundle, that of another document of this city or of another city, or none that
\* can be decoded.
Bundles == {"own", "other", "astray", "none"}

\* What may be so of one service.  A coverage is called complete only with every slot
\* (SlotsComplete of Coverage).
Published ==
  /\ doc \in Seq(Docs) /\ by \in [DOMAIN doc -> Reviewers]
  /\ DOMAIN papers = Docs
  /\ \A d \in Docs : /\ papers[d].kind \in PaperKinds /\ papers[d].former \in BOOLEAN
                      /\ None \notin {papers[d].author, papers[d].interaction}
  /\ retirement \in Nat /\ old \in Nat
  /\ seen \subseteq DOMAIN doc
  /\ complete => DOMAIN doc \subseteq seen
  /\ bundles \in [Docs -> Bundles]

RankingStart ==
  /\ step = "service" /\ next = 1 /\ reviews = {} /\ gap = FALSE
  /\ anchors = [d \in Docs |-> Absent] /\ observed = [d \in Docs |-> Absent]
  /\ profile = "unknown" /\ admitted = FALSE /\ faulted = 0 /\ report = [snapshot |-> "none"]

RankingInit == Published /\ holds = TRUE /\ RankingStart

\* The observation block is replaced, and does not come back.
Reorganized ==
  /\ holds /\ step # "reported" /\ holds' = FALSE
  /\ UNCHANGED <<truthVars, step, foundVars, profile, admitted, faulted, report>>

--------------------------------------------------------------------------------
(* Reading a slot.                                                          *)

Legacy(d) == papers[d].kind = "legacy"
Substituted(d) == bundles[d] \in {"other", "astray"}

\* The request in the bundle at hand names another city.
SaysElsewhere(d) == bundles[d] = "astray" \/ (bundles[d] = "own" /\ papers[d].kind = "elsewhere")
Commitment(d) ==
  CASE d \in lost -> "unavailable"
    [] d \notin lost /\ Legacy(d) -> "uncommitted"
    [] d \notin lost /\ ~Legacy(d) ->
         IF bundles[d] = "own" THEN "matched" ELSE IF Substituted(d) THEN "mismatched" ELSE "unavailable"
RetiredNow(d) == papers[d].former /\ retirement <= Len(doc)

\* readFeedbackPublication: a document that is not the event's, or is not there.
Publication(i) ==
  IF doc[i] \in lost THEN "unknown" ELSE IF by[i] = papers[doc[i]].author THEN "matched" ELSE "mismatched"

\* The checks that the documents and the original authority lead to.  A bundle that is not
\* the one a document commits to says nothing of it.
Verified(d) ==
  CASE d \in lost \/ bundles[d] = "none" -> "unknown"
    [] d \notin lost /\ Substituted(d) -> IF Legacy(d) THEN "invalid" ELSE "unknown"
    [] OTHER -> IF papers[d].kind = "unsound" THEN "invalid" ELSE "valid"

\* readFeedbackCarryForward for the publication at i, when fault is all that fails.
Composed(i, fault) ==
  LET d == doc[i]
      basis == d \notin lost /\ bundles[d] # "none" /\ fault # "publication"
      epoch == IF ~basis \/ fault = "epoch" THEN "unknown" ELSE IF RetiredNow(d) THEN "retired" ELSE "same"
      known == /\ Verified(d) = "valid" /\ Publication(i) = "matched"
               /\ fault \notin {"authority", "disowned"} /\ epoch # "unknown"
  IN [commitment |-> Commitment(d), epoch |-> epoch, at |-> i,
      carry |-> IF ~basis THEN "unknown"
                ELSE IF Commitment(d) # "matched" THEN "ineligible"
                ELSE IF ~known THEN "unknown"
                ELSE IF RetiredNow(d) /\ i < retirement THEN "qualified" ELSE "ineligible"]

\* reviewFromObservation.  A bundle speaks for a document of version 0.2 only when it is the
\* committed one, and for a document that was not read whatever it is: no version says that
\* it had to be committed to.
Review(i, fault, epoch) ==
  LET d == doc[i]
      blind == d \in lost \/ fault = "throws"
      private == blind \/ Legacy(d) \/ Commitment(d) = "matched"
      publication == CASE fault = "orphaned" -> "orphaned"
                       [] fault \in {"publication", "throws"} -> "unknown"
                       [] OTHER -> Publication(i)
  IN [at |-> i, doc |-> d, aged |-> i <= old,
      reviewer |-> IF blind THEN None ELSE papers[d].author,
      interaction |-> IF blind THEN None ELSE papers[d].interaction,
      rating |-> IF blind THEN 0 ELSE Rating[d],
      elsewhere |-> private /\ SaysElsewhere(d),
      status |-> CASE blind -> "unknown"
                   [] ~blind /\ Verified(d) = "valid" /\ fault = "authority" -> "unknown"
                   [] ~blind /\ Verified(d) = "valid" /\ fault = "disowned" -> "invalid"
                   [] OTHER -> Verified(d),
      canonical |-> CASE publication = "orphaned" -> "noncanonical"
                      [] publication \in {"matched", "mismatched"} -> "canonical"
                      [] OTHER -> "unknown",
      projection |-> IF publication \in {"matched", "mismatched"} THEN publication ELSE "unknown",
      revocation |-> CASE fault \in {"publication", "throws", "orphaned"} -> "unknown"
                       [] OTHER -> IF i \in revoked THEN "revoked" ELSE "active",
      epoch |-> IF private THEN epoch ELSE "unknown",
      history |-> "unqualified", basis |-> 0]

\* A replaced block reads as another chain's.
Faults ==
  {"none"} \cup (IF faulted < MaxFaults
                 THEN {"publication", "authority", "epoch", "throws"} \cup (IF holds THEN {} ELSE {"orphaned", "disowned"})
                 ELSE {})

\* readCurrentService: the snapshot, the registration, the card, the profile and the epoch
\* give a valid profile, or one that is inactive or that a read did not reach.
ReadService ==
  /\ step = "service" /\ step' = "reviews"
  /\ profile' \in {"valid", "unknown"}
  /\ UNCHANGED <<truthVars, holds, foundVars, admitted, faulted, report>>

\* A slot that Coverage does not have, or whose event is not of this rubric.
PassSlot ==
  /\ step = "reviews" /\ next <= Len(doc)
  /\ next \notin seen \/ papers[doc[next]].kind = "foreign"
  /\ next' = next + 1
  /\ UNCHANGED <<truthVars, holds, step, reviews, anchors, observed, gap, profile, admitted, faulted, report>>

\* The first matched publication of a document is the one its history is judged by.
ReadSlot ==
  /\ step = "reviews" /\ next \in seen /\ papers[doc[next]].kind # "foreign"
  /\ \E fault \in Faults :
       LET d == doc[next]
           found == IF anchors[d] # Absent THEN anchors[d] ELSE Composed(next, fault)
           review == Review(next, fault, IF fault = "throws" THEN "unknown" ELSE found.epoch)
           odd == papers[d].kind = "odd" /\ review.interaction # None
       IN /\ observed' = IF fault = "throws" THEN observed ELSE [observed EXCEPT ![d] = found]
          /\ anchors' = IF review.projection = "matched" THEN [anchors EXCEPT ![d] = found] ELSE anchors
          /\ reviews' = IF odd THEN reviews ELSE reviews \cup {review}
          /\ gap' = (gap \/ odd)
          /\ faulted' = IF fault = "none" THEN faulted ELSE faulted + 1
  /\ next' = next + 1
  /\ UNCHANGED <<truthVars, holds, step, profile, admitted, report>>

\* What the whole loop knows of a document goes to each of its reviews.
Judged(r) ==
  LET found == IF anchors[r.doc] # Absent THEN anchors[r.doc] ELSE observed[r.doc]
      private == found # Absent /\ found.commitment \in {"matched", "uncommitted"}
  IN [r EXCEPT !.history = CASE ~private -> "unknown"
                             [] private /\ found.carry = "qualified" -> "committed"
                             [] private /\ found.carry = "unknown" -> "unknown"
                             [] OTHER -> "unqualified",
               !.basis = IF private /\ found.carry = "qualified" THEN found.at ELSE 0,
               !.epoch = IF private /\ found.carry # "unknown" THEN found.epoch ELSE @]

Descriptor(r) ==
  <<r.reviewer, r.interaction, r.rating, r.elsewhere, r.status, r.epoch, r.history, r.basis>>
Conflicts(rs) == {r \in rs : \E s \in rs : s.doc = r.doc /\ Descriptor(s) # Descriptor(r)}

\* reconcilePolicyReviews.
JudgeAll ==
  /\ step = "reviews" /\ next > Len(doc)
  /\ LET judged == {Judged(r) : r \in reviews} IN
     /\ reviews' = judged \ Conflicts(judged)
     /\ gap' = (gap \/ Conflicts(judged) # {})
  /\ step' = "town"
  /\ UNCHANGED <<truthVars, holds, next, anchors, observed, profile, admitted, faulted, report>>

\* A curator's inclusion, or a test of the profile and the card that the service has now.
ReadTown ==
  /\ step = "town" /\ step' = "final"
  /\ admitted' \in BOOLEAN
  /\ UNCHANGED <<truthVars, holds, foundVars, profile, faulted, report>>

\* historyFor: complete only when coverage is and no document of it was indeterminate.
HistoryComplete == complete /\ ~gap
Result == Candidate(reviews, Reviewers, HistoryComplete, profile = "valid", admitted)

Finish ==
  /\ step = "final" /\ step' = "reported"
  /\ \/ report' = [snapshot |-> "unavailable"]
     \/ report' = IF holds THEN [snapshot |-> "matched", result |-> Result] ELSE [snapshot |-> "changed"]
  /\ UNCHANGED <<truthVars, holds, foundVars, profile, admitted, faulted>>

RankingNext ==
  Reorganized \/ ReadService \/ PassSlot \/ ReadSlot \/ JudgeAll \/ ReadTown \/ Finish

RankingSpec == RankingInit /\ [][RankingNext]_rankVars

--------------------------------------------------------------------------------
(* What the policy says of the documents as they are.                       *)

Places(d) == {i \in DOMAIN doc : doc[i] = d /\ by[i] = papers[d].author}
Counting == {d \in Docs : Places(d) # {} /\ papers[d].kind \in {"plain", "legacy", "odd"}}
Stood(d) == Min(Places(d))
TrulyRetired(d) == RetiredNow(d) /\ (Legacy(d) \/ Stood(d) >= retirement)
LastWords ==
  {d \in Counting : \A e \in Counting :
     papers[e].author = papers[d].author /\ papers[e].interaction = papers[d].interaction => Stood(e) <= Stood(d)}
Standing == {d \in LastWords : Stood(d) \notin revoked /\ ~TrulyRetired(d) /\ Stood(d) > old}
TrueScore == Score({[at |-> Stood(d), reviewer |-> papers[d].author, rating |-> Rating[d]] : d \in Standing})
TruePrior ==
  \/ \E d \in Counting : TrulyRetired(d)
  \/ \E d \in LastWords : Rating[d] < 3 /\ (Stood(d) \in revoked \/ Stood(d) <= old)

Given == step = "reported" /\ report.snapshot = "matched" /\ report.result.qualified

\* A qualified score is the one that the policy gives to everything that was published:
\* no read that failed, document that was withheld, bundle that was substituted, revision
\* out of order or block that was replaced makes another (evidence.ts 717-795, policy.ts
\* 271-337).  A legacy document commits to no bundle, so a substituted one condemns it.
QualifiedIsTrue ==
  (Given /\ \A d \in Docs : Legacy(d) => ~Substituted(d)) => report.result.score = TrueScore

\* Nobody is a newcomer whose accepted reviewers have published of it before, and were
\* set aside because the runtime was retired or a low rating was revoked or has aged
\* (policy.ts 366-367).  A legacy document proves no history, so it is left out here.
NewcomerIsNew ==
  (Given /\ report.result.view = "newcomer" /\ \A d \in Docs : ~Legacy(d)) => ~TruePrior /\ TrueScore = None

\* Publications that another document's bundle took to another city.
Misplaced(rs) ==
  {r \in rs : r.reviewer = None /\ r.elsewhere /\ papers[r.doc].kind # "elsewhere"}

\* What is said of a service, in its score or its rank among newcomers, is what the
\* publications of its accepted reviewers say, unless one that was not read has been set
\* aside for what a substituted bundle says of its city.
VerdictIsTrue == Misplaced(reviews) = {} => QualifiedIsTrue /\ NewcomerIsNew

\* A substituted bundle erases no review through a forged scope: what is published of a
\* service, its score, is then unresolved or the true one (evidence.ts 430-432,
\* docs/ranking-evidence.md 21-24).  The code does not have this.
NothingErased == (\A d \in Docs : ~Legacy(d)) => QualifiedIsTrue
================================================================================
