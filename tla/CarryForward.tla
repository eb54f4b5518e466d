------------------------------ MODULE CarryForward ------------------------------
(***************************************************************************)
(* readHistoricalFeedback and readFeedbackCarryForward                      *)
(* (feedback/historicalRead.ts): feedback that was published at block mid,  *)
(* for a request at block low, still counts at block high although the agent*)
(* has retired the runtime that served the request, if it was published     *)
(* before that and nothing else interrupted the agent's authority.          *)
(*                                                                         *)
(* It composes three readers: the original basis (low), the publication of  *)
(* FeedbackReaders (mid and high), and the epoch of IdentityReaders (low to *)
(* high), then looks at all of their blocks once more.                      *)
(***************************************************************************)
EXTENDS IdentityReaders, FeedbackReaders

\* What the documents show by themselves: signatures, links and claimed times, and
\* the commitment of the feedback document to the bundle.
Claims == {"sound", "uncommitted", "unsound"}

CarryGot == Over(SlotGot, Over(IdentityGot, [authority |-> "unavailable", checked |-> FALSE, claims |-> "sound",
                                             epoch |-> [status |-> "none"]]))
CarryStart ==
  /\ pc = "original head" /\ left = <<>>
  /\ got \in {[CarryGot EXCEPT !.claims = c] : c \in Claims} \cup
             {[CarryGot EXCEPT !.document = d] : d \in {"other", "absent"}}

CarryKeeps == UNCHANGED <<configVars, worldVars, noted, cursor, logs>>
Conclude(status) == Report([status |-> status]) /\ UNCHANGED got

--------------------------------------------------------------------------------
(* readHistoricalFeedback.                                                  *)

\* The basis of the request; only documents of the configured domain lead to a read.
OriginalHead ==
  /\ pc = "original head"
  /\ IF got.document = "absent" THEN Went("publication", Nothing)
     ELSE IF Own(base.low) THEN Went("original snapshot", Nothing)
     ELSE Went("publication", [authority |-> "mismatched"])
  /\ CarryKeeps /\ UNCHANGED <<left, verdict>>

\* The snapshot, with both of its headers guarded, its profile and the evaluation.
OriginalSnapshot ==
  /\ pc = "original snapshot"
  /\ Went("publication",
          IF ~Own(base.low) THEN [authority |-> "mismatched"]
          ELSE [checked |-> TRUE, authority |-> IF got.claims = "unsound" THEN "mismatched" ELSE "matched"])
  /\ CarryKeeps /\ UNCHANGED <<left, verdict>>

OriginalFails ==
  /\ pc \in {"original head", "original snapshot"}
  /\ Went("publication", [authority |-> "unavailable"])
  /\ CarryKeeps /\ UNCHANGED <<left, verdict>>

\* After the publication: the basis again, and the epoch unless there is nothing to judge.
\* The epoch's observation is the block that the publication saw.
RecheckOriginal ==
  /\ pc = "recheck original"
  /\ \E status \in IF ~got.checked THEN {got.authority}
                   ELSE {IF Own(base.low) THEN got.authority ELSE "mismatched", "unavailable"} :
       IF got.document = "absent" \/ ~got.observedRead
       THEN Conclude("unknown") /\ UNCHANGED left
       ELSE /\ Went("bounds", [authority |-> status])
            /\ left' = Boundaries /\ UNCHANGED verdict
  /\ CarryKeeps

--------------------------------------------------------------------------------
(* readFeedbackCarryForward, once the epoch is known.                       *)

\* Each conclusion excludes the next: commitment, history, publication, epoch.
Weigh ==
  /\ pc = "carry"
  /\ CASE got.claims = "uncommitted" -> Conclude("ineligible") /\ UNCHANGED left
       [] got.claims # "uncommitted" /\ (got.authority # "matched" \/ got.finding # "matched"
                                         \/ got.epoch.status = "unknown") ->
            Conclude("unknown") /\ UNCHANGED left
       [] OTHER -> /\ Went("compose", Nothing) /\ UNCHANGED verdict
                   /\ left' = <<base.low, base.mid, base.high>> \o [i \in DOMAIN noted |-> noted[i].at]
  /\ CarryKeeps

\* Mutant of EndsBefore: an interruption that is not the retirement is overlooked.
RetiredAfter(epoch) == epoch.retirement > 0 /\ base.mid < epoch.retirement

\* No interruption but a retirement, and that after the publication.
EndsBefore(epoch) ==
  ~epoch.transferred /\ ~epoch.deauthorized /\ epoch.retirement > 0
    /\ base.low <= base.mid /\ base.mid < epoch.retirement

\* The blocks of all three once more, and the conclusion.
Compose ==
  /\ pc = "compose"
  /\ IF left = <<>>
     THEN Conclude(IF EndsBefore(got.epoch) THEN "qualified" ELSE "ineligible") /\ UNCHANGED left
     ELSE IF Own(Head(left)) THEN left' = Tail(left) /\ UNCHANGED <<pc, got, verdict>>
     ELSE Conclude("unknown") /\ UNCHANGED left
  /\ CarryKeeps

ComposeFails ==
  /\ pc = "compose" /\ Conclude("unknown") /\ UNCHANGED left /\ CarryKeeps

CarryNext ==
  \/ OriginalHead \/ OriginalSnapshot \/ OriginalFails \/ RecheckOriginal
  \/ Weigh \/ Compose \/ ComposeFails

--------------------------------------------------------------------------------

\* Feedback is carried forward only if, on the chain of the observation block, it was
\* published before the runtime of its request was retired and nothing else interrupted
\* the authority; with sound documents it is refused only if that is not so, never
\* because two of the readers saw different chains (historicalRead.ts 278-324).
CarryHolds ==
  (reader = "carry" /\ pc = "done") =>
    LET stops == Between(Breaks)
        eligible == /\ story[base.mid] = "feedback" /\ base.mid >= base.low
                    /\ Between({"runtime"}) # {} /\ stops = Between({"runtime"})
                    /\ \A h \in stops : base.mid < h
    IN /\ verdict.status = "qualified" => eligible /\ got.claims = "sound" /\ got.document = "valid"
       /\ verdict.status = "ineligible" /\ got.claims = "sound" => ~eligible
================================================================================
