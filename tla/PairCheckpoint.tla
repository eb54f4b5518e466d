---------------------------- MODULE PairCheckpoint ----------------------------
(***************************************************************************)
(* readFreshPairZeroCheckpoint (feedback/pairZeroCheckpoint.ts): the whole  *)
(* history of one pair of an agent and a reviewer, from a block where its   *)
(* counter is zero (mid) to the observation (high), for an agent that was   *)
(* registered after the block low.  Each publication is observed with the   *)
(* registry observation of FeedbackReaders.                                 *)
(***************************************************************************)
EXTENDS FeedbackReaders

Registered == base.low + 1   \* the block of the registration and of its profile
\* Upgrades of the Identity Registry are scanned from the registration on, those of
\* the Reputation Registry from the zero block on.
Scans == <<[kinds |-> {"reform"}, from |-> base.low + 1],
           [kinds |-> {"upgrade", "restore"}, from |-> base.mid + 1]>>

CheckpointGot == [which |-> "current", slot |-> 0, slotOwn |-> TRUE, nth |-> 0, last |-> 0,
                  scanned |-> 0, slots |-> <<>>]
CheckpointStart == pc = "headers" /\ got = CheckpointGot /\ left = <<base.low, base.mid, base.high>>
CheckpointKeeps == UNCHANGED <<configVars, worldVars>>
Refuse(status) == Report([status |-> status]) /\ UNCHANGED <<noted, left, cursor, logs, got>>

\* block(): the given hash at its number.
CheckpointHeader ==
  /\ pc = "headers"
  /\ IF ~Own(Head(left)) THEN Refuse("unavailable")
     ELSE /\ Remember(Head(left))
          /\ IF Len(left) > 1 THEN left' = Tail(left) /\ UNCHANGED pc
             ELSE pc' = "qualify" /\ left' = <<base.low, Registered, base.mid, base.high>>
          /\ UNCHANGED <<cursor, logs, got, verdict>>
  /\ CheckpointKeeps

\* Each basis: its header when it is new, then code, implementation, owner, version and
\* link by number.
Qualify ==
  LET h == Head(left) IN
  /\ pc = "qualify"
  /\ \/ ~Noted(h) /\ Own(h) /\ Remember(h) /\ UNCHANGED <<pc, left, cursor, logs, got, verdict>>
     \/ ~Noted(h) /\ ~Own(h) /\ Refuse("unavailable")
     \/ /\ Noted(h) /\ TRUE \in Answers(h, Known(h), BOOLEAN)
        /\ left' = Tail(left)
        /\ pc' = IF Len(left) = 1 THEN "registration" ELSE pc
        /\ UNCHANGED <<noted, cursor, logs, got, verdict>>
     \/ /\ Noted(h) /\ FALSE \in Answers(h, Known(h), BOOLEAN)
        /\ \E status \in {"unsupported", "mismatched"} : Refuse(status)
  /\ CheckpointKeeps

\* authenticate: the transaction and its receipt, with the two events of a registration.
Registration ==
  /\ pc = "registration"
  /\ \E ok \in Answers(Registered, story[Registered] = "register", BOOLEAN) :
       IF ok THEN pc' = "profile" /\ UNCHANGED <<noted, left, cursor, logs, got, verdict>>
       ELSE Refuse("mismatched")
  /\ CheckpointKeeps

\* The guarded snapshot of the profile, of the given hash.
RegistrationProfile ==
  /\ pc = "profile"
  /\ IF Own(Registered)
     THEN /\ pc' = "upgrades" /\ cursor' = [start |-> Scans[1].from, filter |-> 1]
          /\ UNCHANGED <<noted, left, logs, got, verdict>>
     ELSE \E status \in {"mismatched", "unavailable"} : Refuse(status)
  /\ CheckpointKeeps

PageTo == PageEnd(cursor.start, base.high)

\* scan: a chunk of the upgrades of a registry, any of which ends the read.
UpgradePage ==
  /\ pc = "upgrades"
  /\ IF cursor.start > base.high
     THEN /\ IF cursor.filter = 1 THEN cursor' = [start |-> Scans[2].from, filter |-> 2] /\ UNCHANGED pc
             ELSE pc' = "zero" /\ UNCHANGED cursor
          /\ UNCHANGED <<noted, left, logs, got, verdict>>
     ELSE \E found \in Page(Scans[cursor.filter].kinds, cursor.start, PageTo) :
            IF found # {} THEN Refuse("unsupported")
            ELSE cursor' = [cursor EXCEPT !.start = PageTo + 1]
                 /\ UNCHANGED <<pc, noted, left, logs, got, verdict>>
  /\ CheckpointKeeps

\* counter at the zero block, by getter and by storage.
CounterIsZero ==
  /\ pc = "zero"
  /\ \E zero \in Answers(base.mid, Counter(base.mid), 0..1) :
       IF zero # 0 THEN Refuse("unsupported")
       ELSE pc' = "last" /\ UNCHANGED <<noted, left, cursor, logs, got, verdict>>
  /\ CheckpointKeeps

CounterIsLast ==
  /\ pc = "last"
  /\ \E last \in Answers(base.high, Counter(base.high), 0..(MaxLogs + 1)) :
       IF last > MaxLogs THEN Refuse("unavailable")
       ELSE /\ got' = [got EXCEPT !.last = last]
            /\ pc' = "publications" /\ cursor' = [start |-> base.mid + 1, filter |-> 1]
            /\ UNCHANGED <<noted, left, logs, verdict>>
  /\ CheckpointKeeps

\* A chunk of the pair's publications; at the end there are as many as the counter says.
PublicationPage ==
  /\ pc = "publications"
  /\ IF cursor.start > base.high
     THEN IF Cardinality(logs) # got.last THEN Refuse("mismatched")
          ELSE pc' = "slot" /\ left' = InOrder(logs) /\ UNCHANGED <<noted, cursor, logs, got, verdict>>
     ELSE \E found \in Page({"feedback"}, cursor.start, PageTo) :
            IF Cardinality(logs) + Cardinality(found) > MaxLogs THEN Refuse("unavailable")
            ELSE /\ cursor' = [cursor EXCEPT !.start = PageTo + 1]
                 /\ logs' = logs \cup found
                 /\ UNCHANGED <<pc, noted, left, got, verdict>>
  /\ CheckpointKeeps

\* The next publication: its index, its block, its transaction and receipt, whose
\* answers are kept, then its registry observation.
NextSlot ==
  LET log == Head(left)
      inOrder == IF log.own THEN {Counter(log.at) = Len(got.slots) + 1} ELSE BOOLEAN
  IN
  /\ pc = "slot"
  /\ IF left = <<>>
     THEN pc' = "recheck" /\ left' = noted /\ UNCHANGED <<noted, cursor, logs, got, verdict>>
     ELSE \/ FALSE \in inOrder /\ Refuse("mismatched")
          \/ TRUE \in inOrder /\ Remembered(log.at) # log.own /\ Refuse("unavailable")
          \/ /\ TRUE \in inOrder /\ Remembered(log.at) = log.own
             /\ Remember(log.at) /\ pc' = "receipts" /\ UNCHANGED <<left, cursor, logs, got, verdict>>
  /\ CheckpointKeeps

SlotReceipt ==
  LET log == Head(left) IN
  /\ pc = "receipts"
  /\ \/ Own(log.at) # log.own /\ \E status \in {"mismatched", "unavailable"} : Refuse(status)
     \/ /\ Own(log.at) = log.own
        /\ pc' = "source"
        /\ got' = Over([SlotGot EXCEPT !.which = "current", !.slotOwn = log.own],
                      [got EXCEPT !.slot = log.at, !.nth = @ + 1])
        /\ UNCHANGED <<noted, left, cursor, logs, verdict>>
  /\ CheckpointKeeps

\* The observation of a slot ended: it must match.
SlotObserved ==
  /\ pc = "slot end" /\ reader = "checkpoint"
  /\ IF got.finding = "matched"
     THEN /\ pc' = "slot" /\ left' = Tail(left)
          /\ got' = [got EXCEPT !.slots = Append(@, got.revocation)]
          /\ UNCHANGED <<noted, cursor, logs, verdict>>
     ELSE Refuse(IF got.finding = "mismatched" THEN "mismatched" ELSE "unavailable")
  /\ CheckpointKeeps

\* Mutant of CheckpointRecheck: the first reads are trusted.
CheckpointAtOnce ==
  /\ pc = "recheck"
  /\ Report([status |-> "matched", slots |-> got.slots]) /\ UNCHANGED <<noted, left, cursor, logs, got>>
  /\ CheckpointKeeps

\* Every block that was read, once more.
CheckpointRecheck ==
  /\ pc = "recheck"
  /\ IF left = <<>>
     THEN Report([status |-> "matched", slots |-> got.slots]) /\ UNCHANGED <<noted, left, cursor, logs, got>>
     ELSE IF Own(Head(left).at) # Head(left).own THEN Refuse("unavailable")
     ELSE left' = Tail(left) /\ UNCHANGED <<pc, noted, cursor, logs, got, verdict>>
  /\ CheckpointKeeps

\* A read fails, the time is up, or a budget of calls, bytes or the ledger is spent.
CheckpointFails ==
  /\ pc \in {"headers", "qualify", "registration", "profile", "upgrades", "zero", "last",
             "publications", "slot", "receipts", "recheck"}
  /\ Refuse("unavailable")
  /\ CheckpointKeeps

CheckpointNext ==
  \/ CheckpointHeader \/ Qualify \/ Registration \/ RegistrationProfile \/ UpgradePage
  \/ CounterIsZero \/ CounterIsLast \/ PublicationPage \/ NextSlot \/ SlotReceipt \/ SlotObserved
  \/ CheckpointRecheck \/ CheckpointFails

--------------------------------------------------------------------------------

\* A checkpoint that matches covers the pair completely: nothing was published before
\* its zero block, the slots it lists are all of those published since, in order and
\* with the revocation that the observation block has, and no registry was upgraded
\* meanwhile, whatever was reorganized between its hundreds of reads (494-562).
CheckpointHolds ==
  (reader = "checkpoint" /\ pc = "done" /\ verdict.status = "matched") =>
    LET published == InOrder({[at |-> h, kind |-> "feedback", own |-> TRUE] :
                                 h \in Where({"feedback"}, base.mid + 1, base.high)}) IN
    /\ story[Registered] = "register" /\ Counter(base.mid) = 0
    /\ \A i \in DOMAIN Scans : Where(Scans[i].kinds, Scans[i].from, base.high) = {}
    /\ verdict.slots = [i \in DOMAIN published |->
                          IF Revoked(published[i].at, base.high) THEN "revoked" ELSE "active"]
================================================================================
