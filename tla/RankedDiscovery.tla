---------------------------- MODULE RankedDiscovery ----------------------------
(***************************************************************************)
(* discoverRanked (client/rankedDiscovery.ts): ask two Indexes, which may   *)
(* lie, withhold or fail, for services, and verify each row they offer      *)
(* against one frozen block of the registry and the card of the agent.      *)
(*                                                                         *)
(* Each Index has a lane of its own: its pages, rows and the reads that     *)
(* verify them run one after the other, out of one reservation of requests  *)
(* (discovery/readBudget.ts).  The two lanes run side by side; the deadline *)
(* and the caller end both.  A lane's reads are sequential, but for the two *)
(* eth_calls of readIdentitySnapshot, which are in flight together.         *)
(* A page holds one row here.  The ranking of what is selected is read by   *)
(* RankingEvidence, and only the wait for it is in this module.             *)
(***************************************************************************)
EXTENDS Integers, Sequences, FiniteSets, FiniteSetsExt

CONSTANTS
  RequestLimit,   \* requests of one lane: 64 in the code
  PageLimit,      \* pages of one search: 10 in the code
  ShortlistLimit, \* services that are ranked: 6 in the code
  MaxTroubles     \* requests that fail, and tokens that are repeated: a bound of the model

ASSUME DiscoveryAssumption ==
  RequestLimit \in Nat /\ PageLimit \in Nat \ {0} /\ ShortlistLimit \in Nat /\ MaxTroubles \in Nat

VARIABLES
  offers,   \* per Index: the rows it offers, in order, each an agent and what is wrong with it
  stands,   \* the frozen observation is still canonical
  caller,   \* "waits" or "cancelled"
  stage,    \* "searching", "ranking" or "reported"
  lane,     \* per Index: the read it is at, and its reservation
  listed,   \* per Index: the candidates, each a row and the status it was given
  troubles, \* requests that failed, and tokens that were repeated
  report    \* what is selected, the status of each Index and of the whole

discoveryVars == <<offers, stands, caller, stage, lane, listed, troubles, report>>

Sides == DOMAIN offers
Parallel == {1, 2}   \* ownerOf and tokenURI
NoCalls == [i \in Parallel |-> "none"]
FirstLane == [pc |-> "search", page |-> 0, requests |-> 0, exhausted |-> {}, errors |-> FALSE,
              available |-> FALSE, calls |-> NoCalls]
Offered(s) == offers[s][lane[s].page]

\* What may be wrong with a row: it is false where the chain or the card says so, and the
\* others are told by the row itself or by its observation.
Kinds == {"good", "false", "later", "orphan", "elsewhere", "foreign", "unfit", "unknown", "mismatch"}
Offers == [1..2 -> Seq([agent : STRING, kind : Kinds])]

DiscoveryStart ==
  /\ stands = TRUE /\ caller = "waits" /\ stage = "searching"
  /\ lane = [s \in Sides |-> FirstLane] /\ listed = [s \in Sides |-> {}]
  /\ troubles = 0
  /\ report = [selected |-> {}, eligible |-> 0, origins |-> [s \in Sides |-> "none"], status |-> "none"]

--------------------------------------------------------------------------------
(* The reservation of a lane.                                               *)

\* A request that times out does not end the lane; any other exhaustion does.
Refuses(s) == lane[s].exhausted \ {"request-timeout"} # {}
Undispatched(s) == {i \in Parallel : lane[s].calls[i] = "open"}

\* Mutant of Full: a call that was let in and not yet sent is not counted.
FullOfSent(s) == lane[s].requests >= RequestLimit

\* What has been let in counts before it is sent.
Full(s) == lane[s].requests + Cardinality(Undispatched(s)) >= RequestLimit

Charged(l) == [l EXCEPT !.requests = @ + 1]
Exhausted(l, code) == [l EXCEPT !.exhausted = @ \cup {code}]
Lane(s, l) == lane' = [lane EXCEPT ![s] = l]
To(s, step) == [lane[s] EXCEPT !.pc = step]

\* stop: both lanes, and what is in flight.
StopAll(code) == lane' = [s \in Sides |-> Exhausted(lane[s], code)]

\* A request that was let in is answered in time and within the bytes.
Answered(s) == ~Refuses(s) /\ ~Full(s) /\ UNCHANGED troubles

\* What is in flight fails by itself, at the end of its time, or by its bytes.
Troubled(s, l) ==
  /\ troubles < MaxTroubles /\ troubles' = troubles + 1
  /\ \E after \in {l, Exhausted(l, "request-timeout"), Exhausted(l, "byte-budget")} : Lane(s, after)

\* A request is refused, or is sent and fails; the lane goes on as l.
Lost(s, l) ==
  \/ Refuses(s) /\ Lane(s, l) /\ UNCHANGED troubles
  \/ ~Refuses(s) /\ Full(s) /\ Lane(s, Exhausted(l, "request-budget")) /\ UNCHANGED troubles
  \/ ~Refuses(s) /\ ~Full(s) /\ Troubled(s, Charged(l))

--------------------------------------------------------------------------------
(* searchOne: the pages of one Index and its rows.                          *)

Searching == stage = "searching" /\ UNCHANGED <<offers, stands, caller, stage, report>>
List(s, status) == listed' = [listed EXCEPT ![s] = @ \cup {[row |-> lane[s].page, status |-> status]}]
Blamed(l) == [l EXCEPT !.errors = TRUE]

SearchAnswers(s) ==
  /\ Searching /\ lane[s].pc = "search" /\ Answered(s)
  /\ LET more == lane[s].page < Len(offers[s]) IN
     Lane(s, [Charged(To(s, IF more THEN "row" ELSE "turn")) EXCEPT !.available = TRUE, !.page = @ + 1])
  /\ UNCHANGED listed

\* An answer that does not parse is no answer.
SearchFails(s) ==
  /\ Searching /\ lane[s].pc = "search"
  /\ Lost(s, Blamed(To(s, "done"))) /\ UNCHANGED listed

\* What a row says of itself decides whether a request is spent on it.
ExamineOffer(s) ==
  /\ Searching /\ lane[s].pc = "row" /\ UNCHANGED troubles
  /\ LET l == To(s, "turn") IN
     \/ Offered(s).kind = "unknown" /\ Lane(s, Blamed(l)) /\ UNCHANGED listed
     \/ Offered(s).kind \in {"unfit", "foreign"} /\ Lane(s, l) /\ List(s, "rejected")
     \/ /\ Offered(s).kind \notin {"unknown", "unfit", "foreign"}
        /\ Lane(s, To(s, "observe")) /\ UNCHANGED listed

\* The observation must be the row; then, before any read of the chain, the card is
\* where it has to be and the observation is not later than the frozen one.
Observed(s) ==
  /\ Searching /\ lane[s].pc = "observe" /\ Answered(s)
  /\ LET l == Charged(To(s, "turn")) IN
     \/ Offered(s).kind = "mismatch" /\ Lane(s, Blamed(l)) /\ UNCHANGED listed
     \/ Offered(s).kind \in {"elsewhere", "later"} /\ Lane(s, l) /\ List(s, "rejected")
     \/ /\ Offered(s).kind \notin {"mismatch", "elsewhere", "later"}
        /\ Lane(s, [l EXCEPT !.pc = "anchor"]) /\ UNCHANGED listed

ObservationLost(s) ==
  /\ Searching /\ lane[s].pc = "observe"
  /\ Lost(s, Blamed(To(s, "turn"))) /\ UNCHANGED listed

\* The next page, unless there is none, its token is one that was used, or it is one
\* too many.
Turn(s) ==
  /\ Searching /\ lane[s].pc = "turn" /\ UNCHANGED listed
  /\ LET more == lane[s].page < Len(offers[s])
         last == Blamed(To(s, "done"))
     IN
     \/ ~more /\ Lane(s, To(s, "done")) /\ UNCHANGED troubles
     \/ more /\ lane[s].page = PageLimit /\ Lane(s, last) /\ UNCHANGED troubles
     \/ more /\ lane[s].page > 1 /\ troubles < MaxTroubles /\ troubles' = troubles + 1 /\ Lane(s, last)
     \/ more /\ lane[s].page < PageLimit /\ Lane(s, To(s, "search")) /\ UNCHANGED troubles

--------------------------------------------------------------------------------
(* onCandidate: verify one row.                                             *)

\* A read of the candidate is answered: it goes on, or is settled with a status.
Replied(s, step) ==
  /\ Searching /\ lane[s].pc = step /\ Answered(s)
Proceeds(s, step) == Lane(s, Charged(To(s, step))) /\ UNCHANGED listed
Settles(s, status) == Lane(s, Charged(To(s, "turn"))) /\ List(s, status)

\* The block of the observation may be the frozen one, or have been replaced with it.
Anchored(s) ==
  /\ Replied(s, "anchor")
  /\ \/ Offered(s).kind # "orphan" /\ Proceeds(s, "chain")
     \/ (Offered(s).kind = "orphan" \/ ~stands) /\ Settles(s, "rejected")

ChainRead(s) == Replied(s, "chain") /\ Proceeds(s, "block")
BlockRead(s) == Replied(s, "block") /\ Proceeds(s, "calls")

\* Promise.all of two calls: each asks for its lease, is sent, and is answered.  They
\* are alike, so 1 is the one that asks first.
Call(s, i, state) == [lane[s] EXCEPT !.calls[i] = state]
Calling(s) == Searching /\ lane[s].pc = "calls" /\ UNCHANGED listed
CallFailed(s) == \E i \in Parallel : lane[s].calls[i] = "failed"

OpenCall(s, i) ==
  /\ Calling(s) /\ lane[s].calls[i] = "none" /\ ~CallFailed(s) /\ UNCHANGED troubles
  /\ i = 2 => lane[s].calls[1] # "none"
  /\ Lane(s, IF Refuses(s) THEN Call(s, i, "failed")
             ELSE IF Full(s) THEN Exhausted(Call(s, i, "failed"), "request-budget")
             ELSE Call(s, i, "open"))

\* The lease looks at the lane once more before the call is sent and charged.
SendCall(s, i) ==
  /\ Calling(s) /\ lane[s].calls[i] = "open" /\ ~CallFailed(s) /\ UNCHANGED troubles
  /\ Lane(s, IF Refuses(s) THEN Call(s, i, "failed")
             ELSE Charged(Call(s, i, "sent")))

Aborted(s) == lane[s].exhausted \cap {"cancelled", "deadline", "byte-budget"} # {}
CallAnswered(s, i) ==
  /\ Calling(s) /\ lane[s].calls[i] = "sent" /\ ~CallFailed(s) /\ ~Aborted(s) /\ UNCHANGED troubles
  /\ Lane(s, Call(s, i, "ok"))

CallLost(s, i) ==
  /\ Calling(s) /\ lane[s].calls[i] = "sent" /\ ~CallFailed(s)
  /\ \/ Aborted(s) /\ UNCHANGED troubles /\ Lane(s, Call(s, i, "failed"))
     \/ ~Aborted(s) /\ Troubled(s, Call(s, i, "failed"))

\* One call failed: the other is aborted and waited for, and the row is given up.
CallsFail(s) ==
  /\ Searching /\ lane[s].pc = "calls" /\ CallFailed(s) /\ UNCHANGED troubles
  /\ Lane(s, [lane[s] EXCEPT !.pc = "turn", !.calls = NoCalls]) /\ List(s, "unavailable")

CallsReturn(s) ==
  /\ Calling(s) /\ (\A i \in Parallel : lane[s].calls[i] = "ok") /\ UNCHANGED troubles
  /\ Lane(s, [lane[s] EXCEPT !.pc = "again", !.calls = NoCalls])

\* The block is read again: it is still the one the calls were made at, and that is
\* the frozen one; or either is seen to differ.
ReadAgain(s) ==
  /\ Replied(s, "again")
  /\ \/ stands /\ Proceeds(s, "card")
     \/ ~stands /\ Settles(s, "rejected")

\* Mutant of AgainLost: the reader's wrapper of a read that failed is taken for a
\* block that was seen to differ.
AgainLostAsReorganized(s) ==
  Searching /\ lane[s].pc = "again" /\ Lost(s, To(s, "turn")) /\ List(s, "rejected")

\* A failed read-back has a cause, by which it is told from a mismatch.
AgainLost(s) ==
  Searching /\ lane[s].pc = "again" /\ Lost(s, To(s, "turn")) /\ List(s, "unavailable")

\* The card is what the registration names, and with it the row is checked.
CardRead(s) ==
  /\ Replied(s, "card")
  /\ \/ Offered(s).kind = "false" /\ Settles(s, "rejected")
     \/ Offered(s).kind # "false" /\ Proceeds(s, "confirm")

Confirmed(s) ==
  /\ Replied(s, "confirm")
  /\ \/ stands /\ Settles(s, "verified")
     \/ ~stands /\ Settles(s, "rejected")

\* Any other read of the candidate fails.
CandidateLost(s) ==
  /\ Searching /\ lane[s].pc \in {"anchor", "chain", "block", "card", "confirm"}
  /\ Lost(s, To(s, "turn")) /\ List(s, "unavailable")

--------------------------------------------------------------------------------
(* The caller, the deadline and the chain; then the report.                 *)

ObservationReplaced ==
  /\ stage = "searching" /\ stands /\ stands' = FALSE
  /\ UNCHANGED <<offers, caller, stage, lane, listed, troubles, report>>

Deadline ==
  /\ Searching /\ \A s \in Sides : "deadline" \notin lane[s].exhausted
  /\ StopAll("deadline") /\ UNCHANGED <<listed, troubles>>

CallerCancels ==
  /\ stage # "reported" /\ caller = "waits" /\ caller' = "cancelled"
  /\ IF stage = "searching" THEN StopAll("cancelled") ELSE UNCHANGED lane
  /\ UNCHANGED <<offers, stands, stage, listed, troubles, report>>

Agents(s, rows) == {offers[s][i].agent : i \in rows}
Verified == UNION {Agents(s, {c.row : c \in {x \in listed[s] : x.status = "verified"}}) : s \in Sides}

\* A row that does not match what was asked for takes nothing from completeness.
OriginStatus(s) ==
  IF ~lane[s].available \/ caller = "cancelled" THEN "unavailable"
  ELSE IF \/ lane[s].errors \/ lane[s].exhausted # {}
          \/ \E c \in listed[s] : c.status # "verified" /\ offers[s][c.row].kind # "unfit"
       THEN "partial" ELSE "complete"

\* dispose, and the shortlist: by the hash of the service, so any of them.
Disposes ==
  /\ stage = "searching" /\ \A s \in Sides : lane[s].pc = "done"
  /\ LET eligible == IF caller = "cancelled" THEN {} ELSE Verified
         size == Min({Cardinality(eligible), ShortlistLimit})
     IN \E chosen \in kSubset(size, eligible) :
          report' = [report EXCEPT !.selected = chosen, !.eligible = Cardinality(eligible),
                                   !.origins = [s \in Sides |-> OriginStatus(s)]]
  /\ stage' = "ranking"
  /\ UNCHANGED <<offers, stands, caller, lane, listed, troubles>>

Overall ==
  IF \A s \in Sides : report.origins[s] = "unavailable" THEN "unavailable"
  ELSE IF report.eligible > ShortlistLimit \/ \E s \in Sides : report.origins[s] # "complete"
       THEN "partial" ELSE "complete"

\* The ranking was awaited, so the cancellation is looked at again.
Reports ==
  /\ stage = "ranking" /\ stage' = "reported"
  /\ \/ /\ caller = "waits" /\ report' = [report EXCEPT !.status = Overall] /\ UNCHANGED listed
     \/ /\ caller = "cancelled"
        /\ report' = [selected |-> {}, eligible |-> 0, status |-> "unavailable",
                      origins |-> [s \in Sides |-> "unavailable"]]
        /\ listed' = [s \in Sides |-> {IF c.status = "verified" THEN [c EXCEPT !.status = "unavailable"] ELSE c :
                                         c \in listed[s]}]
  /\ UNCHANGED <<offers, stands, caller, lane, troubles>>

DiscoveryNext ==
  \/ \E s \in Sides :
       \/ SearchAnswers(s) \/ SearchFails(s) \/ ExamineOffer(s) \/ Observed(s)
       \/ ObservationLost(s) \/ Turn(s)
       \/ Anchored(s) \/ ChainRead(s) \/ BlockRead(s) \/ CallsFail(s) \/ CallsReturn(s)
       \/ ReadAgain(s) \/ AgainLost(s) \/ CardRead(s) \/ Confirmed(s) \/ CandidateLost(s)
       \/ \E i \in Parallel : OpenCall(s, i) \/ SendCall(s, i) \/ CallAnswered(s, i) \/ CallLost(s, i)
  \/ ObservationReplaced \/ Deadline \/ CallerCancels \/ Disposes \/ Reports

DiscoverySpec == offers \in Offers /\ DiscoveryStart /\ [][DiscoveryNext]_discoveryVars

--------------------------------------------------------------------------------
(* Properties.                                                              *)

Reported == stage = "reported"
Rows(s) == DOMAIN offers[s]

\* A caller that cancelled, however late, is given no service (rankedDiscovery.ts 202-212).
CancelledGetsNothing ==
  Reported /\ caller = "cancelled" =>
    /\ report.selected = {} /\ report.status = "unavailable"
    /\ \A s \in Sides : \A c \in listed[s] : c.status # "verified"

\* A discovery that calls itself complete has selected every service that was offered,
\* and each of them is what its row said (rankedDiscovery.ts 189-205).
CompleteIsAll ==
  Reported /\ report.status = "complete" =>
    /\ \A s \in Sides : \A i \in Rows(s) : offers[s][i].kind \in {"good", "unfit"}
    /\ report.selected = UNION {Agents(s, {i \in Rows(s) : offers[s][i].kind = "good"}) : s \in Sides}

\* A row that is right is never rejected because a read failed: it is unavailable
\* (rankedDiscovery.ts 156-174).
RightIsNotRejected ==
  stands => \A s \in Sides : \A c \in listed[s] : c.status = "rejected" => offers[s][c.row].kind # "good"

\* Where nothing went wrong the discovery is complete.
UndisturbedIsComplete ==
  /\ Reported /\ stands /\ caller = "waits" /\ troubles = 0 /\ report.eligible <= ShortlistLimit
  /\ \A s \in Sides : /\ lane[s].exhausted = {} /\ Len(offers[s]) <= PageLimit
                      /\ \A i \in Rows(s) : offers[s][i].kind \in {"good", "unfit"}
  => report.status = "complete"

\* What a discovery reports is all there was, and nothing more: the four above.
DiscoveryHolds == CancelledGetsNothing /\ CompleteIsAll /\ RightIsNotRejected /\ UndisturbedIsComplete

\* No lane is sent more requests than its reservation, and what is let in will not take
\* it there (readBudget.ts 67).
DiscoveryBudget ==
  \A s \in Sides : lane[s].requests + Cardinality(Undispatched(s)) <= RequestLimit
================================================================================
