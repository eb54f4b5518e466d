--------------------------- MODULE IdentityReaders ---------------------------
(***************************************************************************)
(* Readers of the Identity Registry: readIdentitySnapshot                   *)
(* (identity/registry.ts), the checked interval, the continuity and the     *)
(* feedback epoch of an agent (identity/continuity.ts), and the authority a *)
(* service resolves for a request (a2a/authority.ts).                       *)
(*                                                                         *)
(* The authority reader takes the agent at the block of the signed request  *)
(* (low) and at the latest block (high), then proves that nothing changed in*)
(* between; the epoch reader replays the events from low to high.           *)
(***************************************************************************)
EXTENDS RegistryChain

Filters == <<{"uri", "runtime", "deauthorize"}, {"transfer"}, {"upgrade", "restore"}>>
IntervalKinds == UNION {Filters[i] : i \in 1..3}

\* The finding of this reader; the carry-forward reader goes on with it.
Give(finding) ==
  IF reader = "carry"
  THEN got' = [got EXCEPT !.epoch = finding] /\ pc' = "carry" /\ UNCHANGED verdict
  ELSE Report(finding) /\ UNCHANGED got
Unknown == Give([status |-> "unknown"])   \* a caught or thrown error: no authority

--------------------------------------------------------------------------------
(* observeRequestAuthority: two snapshots, each guarded by its header.      *)

SnapshotHeight == IF got.which = "basis" THEN base.low ELSE base.high

SnapshotHead ==
  /\ pc = "snapshot head"
  /\ got' = [got EXCEPT !.own = Own(SnapshotHeight)]
  /\ pc' = "snapshot read"
  /\ UNCHANGED <<configVars, worldVars, noted, left, cursor, logs, verdict>>

\* ownerOf and tokenURI, by number.
SnapshotRead ==
  LET h == SnapshotHeight IN
  /\ pc = "snapshot read"
  /\ \E value \in Answers(h, Authority(h), {Authority(h), SomeoneElse}) :
       got' = [got EXCEPT ![got.which] = value]
  /\ pc' = "snapshot guard"
  /\ UNCHANGED <<configVars, worldVars, noted, left, cursor, logs, verdict>>

\* The header again, unchanged; the basis must be the block that the request names.
SnapshotGuard ==
  /\ pc = "snapshot guard"
  /\ IF ~Own(SnapshotHeight) THEN Unknown /\ UNCHANGED left
     ELSE IF got.which = "basis"
     THEN got' = [got EXCEPT !.which = "current"] /\ pc' = "snapshot head" /\ UNCHANGED <<left, verdict>>
     ELSE pc' = "bounds" /\ left' = Boundaries /\ UNCHANGED <<got, verdict>>
  /\ UNCHANGED <<configVars, worldVars, noted, cursor, logs>>

--------------------------------------------------------------------------------
(* collectCheckedInterval.                                                  *)

\* Both bounds must be the given blocks; one header when they are the same block.
Bounds ==
  /\ pc = "bounds"
  /\ IF ~Own(Head(left)) THEN Unknown /\ UNCHANGED <<noted, left>>
     ELSE /\ Remember(Head(left))
          /\ IF Len(left) = 1 THEN pc' = "implementation" /\ left' = Boundaries
             ELSE left' = Tail(left) /\ UNCHANGED pc
          /\ UNCHANGED <<got, verdict>>
  /\ UNCHANGED <<configVars, worldVars, cursor, logs>>

\* knownAt: the implementation must be known at the basis and is noted at the end.
KnownAt ==
  LET h == Head(left) IN
  /\ pc = "implementation"
  /\ \E known \in Answers(h, Known(h), BOOLEAN) :
       IF h = base.low /\ ~known THEN Unknown /\ UNCHANGED <<left, cursor>>
       ELSE /\ got' = [got EXCEPT !.known = known]
            /\ IF h = base.high
               THEN /\ cursor' = [start |-> base.low + 1, filter |-> 1] /\ left' = <<>>
                    /\ pc' = IF base.low = base.high THEN "collected" ELSE "page"
               ELSE left' = Tail(left) /\ UNCHANGED <<pc, cursor>>
            /\ UNCHANGED verdict
  /\ UNCHANGED <<configVars, worldVars, noted, logs>>

\* A chunk of one filter; more logs than the limit is a failure of the scan.
ScanPage ==
  /\ pc = "page"
  /\ \E found \in Page(Filters[cursor.filter], cursor.start, PageEnd(cursor.start, base.high)) :
       IF Cardinality(logs) + Cardinality(found) > MaxLogs
       THEN got' = [got EXCEPT !.failed = TRUE] /\ pc' = "collected" /\ UNCHANGED left
       ELSE left' = InOrder(found) /\ pc' = "log" /\ UNCHANGED got
  /\ UNCHANGED <<configVars, worldVars, noted, cursor, logs, verdict>>

\* The filters of a chunk in turn, then the next chunk.
NextPage ==
  IF cursor.filter < Len(Filters) THEN [cursor EXCEPT !.filter = @ + 1]
  ELSE [start |-> PageEnd(cursor.start, base.high) + 1, filter |-> 1]

\* Each log's block, read unless it is remembered, must have the log's hash.
ScanLog ==
  /\ pc = "log"
  /\ IF left = <<>>
     THEN /\ cursor' = NextPage
          /\ pc' = IF NextPage.start > base.high THEN "collected" ELSE "page"
          /\ UNCHANGED <<noted, left, logs, got>>
     ELSE /\ Remember(Head(left).at)
          /\ IF Remembered(Head(left).at) # Head(left).own
             THEN got' = [got EXCEPT !.failed = TRUE] /\ pc' = "collected" /\ UNCHANGED <<left, logs>>
             ELSE logs' = logs \cup {Head(left)} /\ left' = Tail(left) /\ UNCHANGED <<got, pc>>
          /\ UNCHANGED cursor
  /\ UNCHANGED <<configVars, worldVars, verdict>>

\* A read of the scan fails: the failure is kept with what was found.
ScanFails ==
  /\ pc \in {"page", "log"}
  /\ got' = [got EXCEPT !.failed = TRUE]
  /\ pc' = "collected"
  /\ UNCHANGED <<configVars, worldVars, noted, left, cursor, logs, verdict>>

--------------------------------------------------------------------------------
(* readIdentityContinuity.                                                  *)

ContinuityCollected ==
  /\ pc = "collected" /\ reader = "authority"
  /\ IF got.failed THEN Unknown /\ UNCHANGED left
     ELSE pc' = "boundaries" /\ left' = Boundaries /\ UNCHANGED <<got, verdict>>
  /\ UNCHANGED <<configVars, worldVars, noted, cursor, logs>>

Of(kinds) == {log \in logs : log.kind \in kinds}
Upgrades == {"upgrade", "restore"}

Continuity ==
  [status |-> IF ~got.known /\ Of(Upgrades) = {} THEN "unknown"
              ELSE IF logs # {} \/ got.basis # got.current THEN "changed" ELSE "unchanged"]

\* Mutant of RecheckBoundaries: the finding of the first reads.
NoRecheck ==
  /\ pc = "boundaries"
  /\ Give(Continuity)
  /\ UNCHANGED <<configVars, worldVars, noted, left, cursor, logs>>

\* The two boundaries again, then the finding.
RecheckBoundaries ==
  /\ pc = "boundaries"
  /\ IF left = <<>> THEN Give(Continuity) /\ UNCHANGED left
     ELSE IF ~Own(Head(left)) THEN Unknown /\ UNCHANGED left
     ELSE left' = Tail(left) /\ UNCHANGED <<pc, got, verdict>>
  /\ UNCHANGED <<configVars, worldVars, noted, cursor, logs>>

--------------------------------------------------------------------------------
(* readIdentityFeedbackEpoch.  Its guarded snapshots are one step each: a   *)
(* replaced block does not come back, so when the second header agrees the  *)
(* values between the two were the block's.                                 *)

EpochCollected ==
  /\ pc = "collected" /\ reader # "authority"
  /\ IF Own(base.low) THEN pc' = "epoch current" /\ UNCHANGED <<got, verdict>> ELSE Unknown
  /\ UNCHANGED <<configVars, worldVars, noted, left, cursor, logs>>

\* The state that the accepted events lead to from the basis.
Replayed ==
  LET start == Authority(base.low)
      declared == {l.at : l \in Of(Declarations)} IN
  [owner |-> start.owner + Cardinality(Of({"transfer"})),
   uri |-> IF declared = {} THEN start.uri ELSE CHOOSE x \in declared : \A y \in declared : y <= x]

\* Unless the scan failed, the state at the observation must be the replayed one.
EpochCurrent ==
  /\ pc = "epoch current"
  /\ IF Own(base.high) /\ (got.failed \/ Replayed = Authority(base.high))
     THEN left' = noted /\ pc' = "epoch recheck" /\ UNCHANGED <<got, verdict>>
     ELSE Unknown /\ UNCHANGED left
  /\ UNCHANGED <<configVars, worldVars, noted, cursor, logs>>

FirstAt(heights) == IF heights = {} THEN 0 ELSE CHOOSE h \in heights : \A x \in heights : h <= x
At(kinds) == {l.at : l \in Of(kinds)}

Breaks == {"transfer", "runtime", "deauthorize"}

\* Mutant of Epoch: the latest retirement of a runtime instead of the first.
EpochOfLatest ==
  IF got.failed \/ ~got.known \/ Of(Upgrades) # {} THEN [status |-> "unknown"]
  ELSE [status |-> IF Of(Breaks) = {} THEN "same" ELSE "retired",
        transferred |-> Of({"transfer"}) # {}, deauthorized |-> Of({"deauthorize"}) # {},
        retirement |-> IF At({"runtime"}) = {} THEN 0 ELSE CHOOSE h \in At({"runtime"}) : \A x \in At({"runtime"}) : h >= x,
        firstBreak |-> FirstAt(At(Breaks))]

Epoch ==
  IF got.failed \/ ~got.known \/ Of(Upgrades) # {} THEN [status |-> "unknown"]
  ELSE [status |-> IF Of(Breaks) = {} THEN "same" ELSE "retired",
        transferred |-> Of({"transfer"}) # {}, deauthorized |-> Of({"deauthorize"}) # {},
        retirement |-> FirstAt(At({"runtime"})), firstBreak |-> FirstAt(At(Breaks))]

\* Every remembered block again, the blocks of the events included.
EpochRecheck ==
  /\ pc = "epoch recheck"
  /\ IF left = <<>> THEN Give(Epoch) /\ UNCHANGED left
     ELSE IF Own(Head(left).at) # Head(left).own THEN Unknown /\ UNCHANGED left
     ELSE left' = Tail(left) /\ UNCHANGED <<pc, got, verdict>>
  /\ UNCHANGED <<configVars, worldVars, noted, cursor, logs>>

--------------------------------------------------------------------------------

\* Any other read fails, times out or is cancelled.
IdentityReadFails ==
  /\ pc \in {"snapshot head", "snapshot read", "snapshot guard", "bounds", "implementation",
             "boundaries", "collected", "epoch current", "epoch recheck"}
  /\ Unknown
  /\ UNCHANGED <<configVars, worldVars, noted, left, cursor, logs>>

IdentityNext ==
  \/ SnapshotHead \/ SnapshotRead \/ SnapshotGuard
  \/ Bounds \/ KnownAt \/ ScanPage \/ ScanLog \/ ScanFails
  \/ ContinuityCollected \/ RecheckBoundaries
  \/ EpochCollected \/ EpochCurrent \/ EpochRecheck \/ IdentityReadFails

IdentityGot == [which |-> "basis", own |-> FALSE, basis |-> SomeoneElse, current |-> SomeoneElse,
                known |-> FALSE, failed |-> FALSE]
AuthorityStart == pc = "snapshot head" /\ left = <<>> /\ got = IdentityGot
\* The epoch is given both of its blocks.
EpochStart == pc = "bounds" /\ left = Boundaries /\ got = [IdentityGot EXCEPT !.which = "current"]

--------------------------------------------------------------------------------
(* Properties.                                                              *)

Between(kinds) == Where(kinds, base.low + 1, base.high)

\* A service accepts a request only on 'unchanged': then no event of the agent and no
\* upgrade lies between the request's block and the current one, not even one that
\* was taken back, and the owner and URI it read are those of both blocks.  'changed'
\* is never reported of an agent that did not change (authority.ts 19-27).
AuthorityHolds ==
  (reader = "authority" /\ pc = "done") =>
    /\ verdict.status = "unchanged" =>
         /\ Between(IntervalKinds) = {}
         /\ got.basis = Authority(base.low) /\ got.current = got.basis
    /\ verdict.status = "changed" => Between(IntervalKinds) # {}

\* The epoch tells whether the authority was interrupted since the basis, by what and
\* where first, exactly as the given chain has it (continuity.ts 272-385).
EpochHolds ==
  (reader = "epoch" /\ pc = "done" /\ verdict.status # "unknown") =>
    /\ Between(Upgrades) = {}
    /\ (verdict.status = "same") = (Between(Breaks) = {})
    /\ verdict.transferred = (Between({"transfer"}) # {})
    /\ verdict.deauthorized = (Between({"deauthorize"}) # {})
    /\ verdict.retirement = FirstAt(Between({"runtime"}))
    /\ verdict.firstBreak = FirstAt(Between(Breaks))
================================================================================
