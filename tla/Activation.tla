------------------------------- MODULE Activation -------------------------------
(***************************************************************************)
(* readReputationActivation (feedback/reputationActivation.ts): whether the *)
(* Reputation Registry that a city uses was deployed and activated as the   *)
(* configured provenance says.  The proxy is created at the block low, with *)
(* a bootstrap implementation; the activation at mid upgrades it to the     *)
(* known one; nothing may upgrade it again up to the observation at high.   *)
(*                                                                         *)
(* Many of these reads contradict the provenance when the chain is          *)
(* reorganized under them, so every block that was read, even one whose     *)
(* read failed, is looked at again before a finding is reported.            *)
(***************************************************************************)
EXTENDS RegistryChain

Changes == {"upgrade", "restore"}
\* The two upgrades that the receipts of the deployment name.
Expected == {[at |-> base.low, kind |-> "upgrade", own |-> TRUE],
             [at |-> base.mid, kind |-> "restore", own |-> TRUE]}

ActivationGot == [which |-> "current", finding |-> "unavailable", gap |-> FALSE, seen |-> {}]
ActivationStart == pc = "bases" /\ got = ActivationGot /\ left = <<0, base.high>>
ActivationKeeps == UNCHANGED <<configVars, worldVars>>

\* fail: once something was unavailable, a contradiction does not hide that.
Fault(finding) ==
  [got EXCEPT !.finding = IF got.gap THEN "unavailable" ELSE finding,
              !.gap = got.gap \/ finding = "unavailable"]

Throw(finding) == got' = Fault(finding) /\ pc' = "every block" /\ left' = noted'
Keep == UNCHANGED <<cursor, logs, verdict>>

\* basis: h is a block of the expected hash, read once and remembered before it is read.
Basis(h, own, next) ==
  /\ noted' = IF Noted(h) THEN noted ELSE Append(noted, [at |-> h, own |-> own])
  /\ IF (IF Noted(h) THEN Remembered(h) ELSE Own(h)) = own THEN next ELSE Throw("unavailable")

\* The genesis block and the observation, then the deployment transactions.
ActivationBases ==
  /\ pc = "bases"
  /\ Basis(Head(left), TRUE,
           IF Len(left) > 1 THEN left' = Tail(left) /\ UNCHANGED <<pc, got>>
           ELSE pc' = "deployed" /\ left' = <<base.low, base.mid>> /\ UNCHANGED got)
  /\ Keep /\ ActivationKeeps

\* authenticate: the block of a transaction (creations at low, the activation at mid) ...
DeploymentBlock ==
  /\ pc = "deployed"
  /\ Basis(Head(left), TRUE, pc' = "transaction" /\ UNCHANGED <<left, got>>)
  /\ Keep /\ ActivationKeeps

\* ... the transaction, then its receipt with the upgrade: as configured, gone, or in
\* another block.
DeploymentRead ==
  LET h == Head(left)
      fact == IF story[h] = (IF h = base.low THEN "upgrade" ELSE "restore") THEN "ok" ELSE "mismatched"
  IN
  /\ pc \in {"transaction", "deployment receipt"}
  /\ UNCHANGED noted
  /\ \E says \in Answers(h, IF pc = "transaction" THEN "ok" ELSE fact, {"ok", "mismatched", "unavailable"}) :
       IF says # "ok" THEN Throw(says)
       ELSE /\ IF pc = "transaction" THEN pc' = "deployment receipt" /\ UNCHANGED left
               ELSE IF Len(left) > 1 THEN pc' = "deployed" /\ left' = Tail(left)
               ELSE pc' = "known" /\ left' = IF base.mid = base.high THEN <<base.mid>> ELSE <<base.mid, base.high>>
            /\ UNCHANGED got
  /\ Keep /\ ActivationKeeps

\* The pinned code, and knownAt: proxy code, slot, implementation, version and link.
KnownImplementation ==
  LET h == Head(left) IN
  /\ pc = "known"
  /\ UNCHANGED noted
  /\ \/ FALSE \in Answers(h, Known(h), BOOLEAN) /\ (\E f \in {"unsupported", "mismatched"} : Throw(f))
        /\ UNCHANGED cursor
     \/ /\ TRUE \in Answers(h, Known(h), BOOLEAN)
        /\ left' = Tail(left) /\ UNCHANGED got
        /\ IF Len(left) > 1 THEN UNCHANGED <<pc, cursor>>
           ELSE pc' = "changes" /\ cursor' = [start |-> base.low, filter |-> 1]
  /\ UNCHANGED <<logs, verdict>> /\ ActivationKeeps

\* A chunk of the upgrades since the proxy's block; both expected ones were among them.
ChangesPage ==
  LET to == PageEnd(cursor.start, base.high) IN
  /\ pc = "changes"
  /\ UNCHANGED noted
  /\ IF cursor.start > base.high
     THEN /\ IF got.seen # Expected THEN Throw("mismatched")
             ELSE /\ got' = [got EXCEPT !.finding = "matched"]
                  /\ pc' = "every block" /\ left' = noted
          /\ UNCHANGED <<cursor, logs>>
     ELSE \E found \in Page(Changes, cursor.start, to) :
            IF Cardinality(logs) + Cardinality(found) > MaxLogs
            THEN Throw("unavailable") /\ UNCHANGED <<cursor, logs>>
            ELSE /\ pc' = "change" /\ left' = InOrder(found) /\ logs' = logs \cup found
                 /\ cursor' = [cursor EXCEPT !.start = to + 1] /\ UNCHANGED got
  /\ UNCHANGED verdict /\ ActivationKeeps

\* Each is in the block it names, is one of the two, and for the first time.
ChangeLog ==
  /\ pc = "change"
  /\ IF left = <<>> THEN pc' = "changes" /\ UNCHANGED <<noted, left, got>>
     ELSE LET log == Head(left) IN
          Basis(log.at, log.own,
                IF log \notin Expected \ got.seen THEN Throw("mismatched")
                ELSE got' = [got EXCEPT !.seen = @ \cup {log}] /\ left' = Tail(left) /\ UNCHANGED pc)
  /\ Keep /\ ActivationKeeps

\* Mutant of EveryBlock: the first reads are trusted.
NotAgain ==
  /\ pc = "every block" /\ Report([status |-> got.finding])
  /\ UNCHANGED <<noted, left, cursor, logs, got>> /\ ActivationKeeps

\* Every block again, in the order they were remembered, whatever the reads found.
EveryBlock ==
  /\ pc = "every block"
  /\ IF left = <<>> THEN Report([status |-> got.finding]) /\ UNCHANGED <<left, got>>
     ELSE /\ left' = Tail(left)
          /\ got' = IF Own(Head(left).at) = Head(left).own THEN got ELSE Fault("unavailable")
          /\ UNCHANGED <<pc, verdict>>
  /\ UNCHANGED <<noted, cursor, logs>> /\ ActivationKeeps

Reading == {"bases", "deployed", "transaction", "deployment receipt", "known", "changes", "change"}

\* A read fails; a spent budget, the deadline or a cancellation stops the reader.
ActivationFails ==
  /\ UNCHANGED <<noted, cursor, logs>>
  /\ \/ pc \in Reading /\ Throw("unavailable") /\ UNCHANGED verdict
     \/ pc = "every block" /\ left # <<>>
        /\ got' = Fault("unavailable") /\ left' = Tail(left) /\ UNCHANGED <<pc, verdict>>
     \/ pc \in Reading \cup {"every block"} /\ Report([status |-> "unavailable"])
        /\ got' = Fault("unavailable") /\ UNCHANGED left
  /\ ActivationKeeps

ActivationNext ==
  \/ ActivationBases \/ DeploymentBlock \/ DeploymentRead \/ KnownImplementation
  \/ ChangesPage \/ ChangeLog \/ EveryBlock \/ ActivationFails

--------------------------------------------------------------------------------

\* A registry is qualified exactly when the given chain upgrades it twice and never else:
\* no later upgrade is overlooked, and a reorganization is never taken for evidence
\* against the deployment (reputationActivation.ts 267-275, 335-346).
ActivationHolds ==
  (reader = "activation" /\ pc = "done") =>
    LET asConfigured == /\ story[base.low] = "upgrade" /\ story[base.mid] = "restore"
                        /\ Where(Changes, base.low, base.high) = {base.low, base.mid} IN
    /\ verdict.status = "matched" => asConfigured
    /\ verdict.status \in {"mismatched", "unsupported"} => ~asConfigured
================================================================================
