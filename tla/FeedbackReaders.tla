--------------------------- MODULE FeedbackReaders ---------------------------
(***************************************************************************)
(* Readers of one feedback slot of the Reputation Registry: the registry    *)
(* observation (feedback/registryObservation.ts), for a block that is given *)
(* by number and hash, and the publication (feedback/publication.ts), for a *)
(* block that is given by number and a document.  The event is at block mid,*)
(* the observation at block high.                                           *)
(*                                                                         *)
(* Both read the event's receipt and then the slot's state, and look at both*)
(* blocks again when everything else was read, after a failed read as well. *)
(***************************************************************************)
EXTENDS RegistryChain

Source == IF reader = "checkpoint" THEN got.slot ELSE base.mid
Observation == base.high
\* The slot's place, and whether its block is the one the event was taken from.
Index == IF reader = "checkpoint" THEN got.nth ELSE Counter(Source)
SourceStands == Own(Source) = got.slotOwn

\* What the receipt shows of the event, and what a node that lost its block answers;
\* the checkpoint has read receipts and counters before, and keeps the answers.
ReceiptSays == IF reader = "checkpoint" THEN {"event"} ELSE Answers(Source, IF story[Source] = "feedback" THEN "event" ELSE "no event",
                       {"event", "no event", "no receipt"})
\* The linked registry, its version and its interface.
LinkSays == Answers(Observation, Known(Observation), BOOLEAN)
CounterSays == IF reader = "checkpoint" THEN {got.last} ELSE Answers(Observation, Counter(Observation), 0..Tip)
SlotSays == Answers(Observation, IF Revoked(Source, Observation) THEN "revoked" ELSE "active",
                    {"active", "revoked", "another"})

SlotGot == [which |-> "basis", own |-> TRUE, slotOwn |-> TRUE, document |-> "valid", sourceRead |-> FALSE,
            observedRead |-> FALSE, finding |-> "unavailable", revocation |-> "unknown"]

SlotKeeps == UNCHANGED <<configVars, worldVars, noted, left, cursor, logs, verdict>>
Nothing == <<>>
Went(p, fields) == pc' = p /\ got' = Over(fields, got)

--------------------------------------------------------------------------------
(* readRegistryFeedbackObservation.                                         *)

\* fail: an orphaned source stays orphaned, everything else is overwritten.
Failed(finding) ==
  [finding |-> IF got.finding = "orphaned" THEN "orphaned" ELSE finding, revocation |-> "unknown"]

\* A failed read goes on to the second look at the blocks that were read.
ReadFailed(finding) ==
  Went(IF got.sourceRead THEN "again source" ELSE "slot end", Failed(finding))

\* The source is looked at first: a changed observation must not hide its orphan.
ObserveSource ==
  /\ pc = "source"
  /\ IF Source > Observation THEN ReadFailed("mismatched")
     ELSE IF SourceStands THEN Went("observed", [sourceRead |-> TRUE])
     ELSE ReadFailed("orphaned")
  /\ SlotKeeps

ObserveBasis ==
  /\ pc = "observed"
  /\ IF Own(Observation) THEN Went("receipt", [observedRead |-> TRUE]) ELSE ReadFailed("unavailable")
  /\ SlotKeeps

ObserveReceipt ==
  /\ pc = "receipt"
  /\ \E says \in ReceiptSays :
       CASE says = "event" -> Went("link", Nothing)
         [] says = "no event" -> ReadFailed("mismatched")
         [] OTHER -> ReadFailed("unavailable")
  /\ SlotKeeps

ObserveLink ==
  /\ pc = "link"
  /\ \E known \in LinkSays :
       IF known THEN Went("counter", Nothing) ELSE ReadFailed("mismatched")
  /\ SlotKeeps

ObserveCounter ==
  /\ pc = "counter"
  /\ \E last \in CounterSays :
       IF Index <= last THEN Went("storage", Nothing) ELSE ReadFailed("mismatched")
  /\ SlotKeeps

ObserveStorage ==
  /\ pc = "storage"
  /\ \E says \in SlotSays :
       IF says = "another" THEN ReadFailed("mismatched")
       ELSE Went("again source", [finding |-> "matched", revocation |-> says])
  /\ SlotKeeps

AgainSource ==
  /\ pc = "again source"
  /\ Went(IF got.observedRead THEN "again observed" ELSE "slot end",
          IF SourceStands THEN Nothing
          ELSE [finding |-> "orphaned", revocation |-> "unknown"])
  /\ SlotKeeps

\* Mutant of AgainObserved: nor is the observation's.
NotAgainObserved ==
  /\ pc = "again observed" /\ Went("slot end", Nothing) /\ SlotKeeps

AgainObserved ==
  /\ pc = "again observed"
  /\ Went("slot end", IF Own(Observation) THEN Nothing ELSE Failed("unavailable"))
  /\ SlotKeeps

SlotPhases == {"source", "observed", "receipt", "link", "counter", "storage", "again source",
               "again observed", "slot end"}

\* An RPC error is followed by the second looks; a deadline, a cancellation or a budget
\* stops the reader where it is.
SlotReadFails ==
  /\ pc \in SlotPhases
  /\ \/ Went("slot end", Failed("unavailable"))
     \/ pc \in {"source", "observed", "receipt", "link", "counter", "storage"} /\ ReadFailed("unavailable")
     \/ pc = "again source" /\ got.observedRead /\ Went("again observed", Failed("unavailable"))
  /\ SlotKeeps

SlotEnds ==
  /\ pc = "slot end" /\ reader = "observation"
  /\ Report([status |-> got.finding, revocation |-> got.revocation])
  /\ UNCHANGED <<configVars, worldVars, noted, left, cursor, logs, got>>

ObservationNext ==
  \/ ObserveSource \/ ObserveBasis \/ ObserveReceipt \/ ObserveLink \/ ObserveCounter \/ ObserveStorage
  \/ AgainSource \/ AgainObserved \/ SlotReadFails \/ SlotEnds

--------------------------------------------------------------------------------
(* readFeedbackPublication: the observation block is the one its number has *)
(* now, and a mismatch with the document does not end the read.             *)

Returns(fields) ==
  Went(IF got.sourceRead THEN "republished" ELSE IF got.observedRead THEN "reobserved" ELSE "published",
       fields)

PublicationObserved ==
  /\ pc = "publication"
  /\ LET seen == [which |-> "current", own |-> Own(Observation), observedRead |-> TRUE] IN
     IF Source > Observation THEN Went("reobserved", Over([finding |-> "mismatched"], seen))
     ELSE Went("published at", seen)
  /\ SlotKeeps

PublicationSource ==
  /\ pc = "published at"
  /\ IF Own(Source) THEN Went("published by", [sourceRead |-> TRUE])
     ELSE Returns([finding |-> "orphaned"])
  /\ SlotKeeps

\* The receipt and its log, then the document against the event.
PublicationReceipt ==
  /\ pc = "published by"
  /\ \E says \in ReceiptSays \ {"no receipt"} :
       IF says = "no event" THEN Returns([finding |-> "mismatched"])
       ELSE Went("domain", IF got.document = "other" THEN [finding |-> "mismatched"] ELSE Nothing)
  /\ SlotKeeps

PublicationDomain ==
  /\ pc = "domain"
  /\ \E known \in LinkSays :
       IF known THEN Went("stored", Nothing) ELSE Returns([finding |-> "mismatched"])
  /\ SlotKeeps

\* getLastIndex and readFeedback; without a document the event alone is not a match.
PublicationStored ==
  /\ pc = "stored"
  /\ \E last \in CounterSays, says \in SlotSays :
       IF last < Index \/ says = "another" THEN Returns([finding |-> "mismatched"])
       ELSE Returns([finding |-> IF got.document = "valid" THEN "matched" ELSE got.finding,
                     revocation |-> says])
  /\ SlotKeeps

\* A throw of any of these reads.
PublicationThrows ==
  /\ pc \in {"publication", "published at", "published by", "domain", "stored"}
  /\ Returns([finding |-> "unavailable", revocation |-> "unknown"])
  /\ SlotKeeps

Republished ==
  /\ pc = "republished"
  /\ \/ Went("reobserved", IF Own(Source) THEN Nothing
                           ELSE [finding |-> "orphaned", revocation |-> "unknown"])
     \/ Went("reobserved", [finding |-> "unavailable", revocation |-> "unknown"])   \* the read fails
  /\ SlotKeeps

Reobserved ==
  /\ pc = "reobserved"
  /\ \/ Own(Observation) = got.own /\ Went("published", Nothing)
     \/ Went("published", Failed("unavailable"))   \* another block, or the read fails
  /\ SlotKeeps

PublicationEnds ==
  /\ pc = "published"
  /\ IF reader = "carry" THEN pc' = "recheck original" /\ UNCHANGED verdict
     ELSE Report([status |-> got.finding, revocation |-> got.revocation])
  /\ UNCHANGED <<configVars, worldVars, noted, left, cursor, logs, got>>

PublicationNext ==
  \/ PublicationObserved \/ PublicationSource \/ PublicationReceipt \/ PublicationDomain
  \/ PublicationStored \/ PublicationThrows \/ Republished \/ Reobserved \/ PublicationEnds

--------------------------------------------------------------------------------
(* Properties.                                                              *)

Published == Source <= Observation /\ story[Source] = "feedback" /\ Known(Observation)
RevocationIs(r) == r # "unknown" => Published /\ (r = "revoked") = Revoked(Source, Observation)

\* A finding about a slot is about the two given blocks: a match and a revocation are
\* what those blocks hold, a reorganization in the middle of the reads is never shown as
\* a mismatch, and only a source that was replaced is orphaned, whatever failed beside
\* it (registryObservation.ts 309-322, publication.ts 226-249).
SlotsHold ==
  (reader \in {"observation", "publication"} /\ pc = "done") =>
    /\ verdict.status = "matched" =>
         Published /\ verdict.revocation # "unknown" /\ got.document = "valid"
    /\ RevocationIs(verdict.revocation)
    /\ verdict.status = "mismatched" => ~Published \/ got.document = "other"
    /\ verdict.status = "orphaned" => ~Own(Source)
================================================================================
