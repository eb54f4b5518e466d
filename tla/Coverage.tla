------------------------------- MODULE Coverage -------------------------------
(***************************************************************************)
(* readAcceptedReviewerCoverage (reputation/coverage.ts): find every        *)
(* publication slot of the accepted reviewers at one observation block.     *)
(*                                                                         *)
(* Two Indexes, which may lie, miss or fail, supply candidate coordinates;  *)
(* the chain says how many slots there are and authenticates each.  One     *)
(* worker per Index walks the same pairs, and both write the same pairs.    *)
(* The worker that completes a pair cancels what the other still does there.*)
(* A slot is its place on the chain; the readers below it hold what         *)
(* SlotsHold, ActivationHolds and CheckpointHolds say of them.              *)
(***************************************************************************)
EXTENDS Integers, Sequences, FiniteSets, FiniteSetsExt, SequencesExt

CONSTANTS
  Pairs,      \* the pairs of an agent and an accepted reviewer, in order
  PairLimit,  \* slots of one pair: 32 in the code
  TotalLimit, \* slots of all pairs: 512 in the code
  MaxRows     \* rows of an Index's history

ASSUME CoverageAssumption ==
  /\ IsInjective(Pairs) /\ PairLimit \in Nat /\ TotalLimit \in Nat /\ MaxRows \in Nat

VARIABLES
  story,     \* the pair of each publication, in chain order
  stands,    \* the observation block is still canonical
  start,     \* "activation" or "checkpoint": what slot 1 is known by
  at,        \* the step it is at
  last,      \* per pair: its number of slots, Unread at first
  slots,     \* per pair: the slots authenticated
  faults,    \* per pair: its diagnostics
  failed,    \* the diagnostics of the whole
  basis,     \* batchBasis
  worker,    \* per Index: the pair it is at, and how far
  unfetched, \* per Index: the documents it has yet to ask for
  fetched    \* slots whose document is available

coverWorld == <<story, stands, start>>
coverVars == <<coverWorld, at, last, slots, faults, failed, basis, worker, unfetched, fetched>>

Indexes == {0, 1}
Unread == 0 - 1
PairSet == Range(Pairs)
Mine(p) == {i \in DOMAIN story : story[i] = p}
Nth(i) == Cardinality({j \in Mine(story[i]) : j <= i})
Authenticated == UNION {slots[p] : p \in PairSet}
CoveredBy(p, found, blamed) == last[p] # Unread /\ blamed[p] = {} /\ Cardinality(found[p]) = last[p]
Covered(p) == CoveredBy(p, slots, faults)

Idle(n) == [pair |-> n, mode |-> "next", rows |-> <<>>, cancelled |-> FALSE]
CoverageInit ==
  /\ at = "start" /\ basis = "unavailable" /\ failed = {} /\ fetched = {}
  /\ last = [p \in PairSet |-> Unread]
  /\ slots = [p \in PairSet |-> {}] /\ faults = [p \in PairSet |-> {}]
  /\ worker = [o \in Indexes |-> Idle(1)]
  /\ unfetched = [o \in Indexes |-> {}]

Keep == UNCHANGED <<coverWorld, fetched, unfetched>>
Stop(code) == failed' = failed \cup {code} /\ at' = "close" /\ UNCHANGED <<last, slots, faults, worker>>

\* The observation block is replaced, and does not come back.
Replaced ==
  /\ stands /\ at # "done" /\ stands' = FALSE
  /\ UNCHANGED <<story, start, at, last, slots, faults, failed, basis, worker, unfetched, fetched>>

--------------------------------------------------------------------------------
(* Before the workers.                                                      *)

\* The checkpoint's finding brings the counters and slots of every pair with it.
StartKnown ==
  /\ at = "start"
  /\ \/ start = "activation" /\ UNCHANGED <<last, slots>>
     \/ /\ start = "checkpoint"
        /\ last' = [p \in PairSet |-> Cardinality(Mine(p))]
        /\ slots' = [p \in PairSet |-> Mine(p)]
  /\ at' = "bracket" /\ UNCHANGED <<faults, failed, basis, worker>> /\ Keep

StartUnknown ==
  /\ at = "start" /\ Stop("start") /\ UNCHANGED basis /\ Keep

Bracket ==
  /\ at = "bracket"
  /\ \/ /\ stands /\ UNCHANGED <<failed, basis, last, slots, faults, worker>>
        /\ at' = IF start = "checkpoint" THEN "documents" ELSE "counters"
     \/ ~stands /\ basis' = "changed" /\ Stop("required-work-unavailable")
     \/ UNCHANGED basis /\ Stop("required-work-unavailable")   \* the read fails
  /\ Keep

\* getLastIndex of the next pair: one eth_call by number, of whatever block has it.
Count(p, n) ==
  /\ last' = [last EXCEPT ![p] = n]
  /\ faults' = [faults EXCEPT ![p] = IF n = Unread THEN {"counter-unavailable"}
                                     ELSE IF n > PairLimit THEN {"over-limit"} ELSE {}]
Uncounted == {i \in DOMAIN Pairs : last[Pairs[i]] = Unread /\ faults[Pairs[i]] = {}}
Counter ==
  /\ at = "counters" /\ Uncounted # {}
  /\ LET p == Pairs[Min(Uncounted)] IN
     \E n \in {Unread} \cup (IF stands THEN {Cardinality(Mine(p))} ELSE 0..(Len(story) + 1)) : Count(p, n)
  /\ UNCHANGED <<at, slots, failed, basis, worker>> /\ Keep

Expected == FoldSet(LAMBDA p, n : (IF last[p] = Unread THEN 0 ELSE last[p]) + n, 0, PairSet)
Counted ==
  /\ at = "counters" /\ Uncounted = {}
  /\ IF Expected > TotalLimit
     THEN /\ failed' = failed \cup {"total-over-limit"} /\ at' = "documents"
          /\ faults' = [p \in PairSet |-> faults[p] \cup {"total-over-limit"}]
     ELSE at' = "work" /\ UNCHANGED <<failed, faults>>
  /\ UNCHANGED <<last, slots, basis, worker>> /\ Keep

--------------------------------------------------------------------------------
(* originWorker: one per Index, in step with the other.                     *)

Pair(o) == Pairs[worker[o].pair]
Row(o) == Head(worker[o].rows)
Goes(o, w) == worker' = [worker EXCEPT ![o] = w]
Works == at = "work" /\ UNCHANGED <<at, last, failed, basis>> /\ Keep
Working(o) == worker[o].pair <= Len(Pairs)

NextPair(o) ==
  /\ Works /\ Working(o) /\ worker[o].mode = "next"
  /\ LET p == Pair(o) IN
     Goes(o, IF last[p] \in {Unread, 0} \/ faults[p] # {} \/ Covered(p)
             THEN Idle(worker[o].pair + 1)
             ELSE [worker[o] EXCEPT !.mode = "asked"])
  /\ UNCHANGED <<slots, faults>>

\* What an Index may answer: places in order, each with the event that is there or
\* with another, and not all of them.  A request that fails or is cancelled has none.
Rows == [place : DOMAIN story, true : BOOLEAN]
Histories ==
  {rows \in UNION {[1..n -> Rows] : n \in 0..MaxRows} :
     \A i, j \in DOMAIN rows : i < j => rows[i].place < rows[j].place}
History(o) ==
  /\ Works /\ worker[o].mode = "asked"
  /\ \E rows \in IF worker[o].cancelled THEN {<<>>} ELSE Histories :
       Goes(o, [worker[o] EXCEPT !.mode = "rows", !.rows = rows])
  /\ UNCHANGED <<slots, faults>>

\* A row that is authenticated already, or of a pair that is complete, is not read.
ExamineRow(o) ==
  /\ Works /\ worker[o].mode = "rows"
  /\ Goes(o, IF worker[o].rows = <<>> THEN Idle(worker[o].pair + 1)
             ELSE IF Row(o).place \in Authenticated \/ Covered(Pair(o))
                  THEN [worker[o] EXCEPT !.rows = Tail(worker[o].rows)]
             ELSE [worker[o] EXCEPT !.mode = "reading"])
  /\ UNCHANGED <<slots, faults>>

RowRead(o) == [worker[o] EXCEPT !.mode = "rows", !.rows = Tail(worker[o].rows)]

\* The read fails, is cancelled, or contradicts the row.
RowRejected(o) ==
  /\ Works /\ worker[o].mode = "reading"
  /\ Goes(o, RowRead(o)) /\ UNCHANGED <<slots, faults>>

Accuse(p, code) == faults' = [faults EXCEPT ![p] = @ \cup {code}] /\ UNCHANGED slots

\* Mutant of Settle: the place is not looked up again after the read.
SettleUnchecked(p, place) ==
  IF \E s \in slots[p] : Nth(s) = Nth(place) THEN Accuse(p, "canonical-slot-conflict")
  ELSE slots' = [slots EXCEPT ![p] = @ \cup {place}] /\ UNCHANGED faults

\* What was authenticated meanwhile counts once.
Settle(p, place) ==
  CASE Cardinality(Mine(p)) # last[p] -> Accuse(p, "canonical-counter-conflict")
    [] Cardinality(Mine(p)) = last[p] /\ place \in Authenticated -> UNCHANGED <<slots, faults>>
    [] Cardinality(Mine(p)) = last[p] /\ place \notin Authenticated /\ (\E s \in slots[p] : Nth(s) = Nth(place)) ->
         Accuse(p, "canonical-slot-conflict")
    [] OTHER -> slots' = [slots EXCEPT ![p] = @ \cup {place}] /\ UNCHANGED faults

\* compareAssertion: the event that was authenticated is what the row asserts.
SaysTheSame(o) == Row(o).true /\ story[Row(o).place] = Pair(o)

\* The read matches and the row said the same.  The other worker is told when that
\* completes the pair it is at.
RowMatches(o) ==
  /\ Works /\ worker[o].mode = "reading" /\ stands /\ ~worker[o].cancelled
  /\ SaysTheSame(o)
  /\ Settle(Pair(o), Row(o).place)
  /\ worker' = [worker EXCEPT ![o] = RowRead(o),
                  ![1 - o].cancelled = @ \/ /\ worker[1 - o].pair = worker[o].pair
                                            /\ worker[1 - o].mode # "next" /\ CoveredBy(Pair(o), slots', faults')]

Worked ==
  /\ at = "work" /\ \A o \in Indexes : ~Working(o)
  /\ at' = "documents"
  /\ UNCHANGED <<coverWorld, last, slots, faults, failed, basis, worker, unfetched, fetched>>

--------------------------------------------------------------------------------
(* The documents, and the end.                                              *)

Fetching ==
  /\ at = "documents" /\ at' = "fetching"
  /\ unfetched' = [o \in Indexes |-> Authenticated]
  /\ UNCHANGED <<coverWorld, last, slots, faults, failed, basis, worker, fetched>>

\* Each Index is asked for what the other has not brought.
Fetch(o) ==
  /\ at = "fetching" /\ unfetched[o] # {}
  /\ LET d == Min(unfetched[o]) IN
     /\ unfetched' = [unfetched EXCEPT ![o] = @ \ {d}]
     /\ fetched' = fetched \/ fetched' = fetched \cup {d}
  /\ UNCHANGED <<coverWorld, at, last, slots, faults, failed, basis, worker>>

Fetched ==
  /\ at = "fetching" /\ \A o \in Indexes : unfetched[o] = {}
  /\ at' = "closing"
  /\ UNCHANGED <<coverWorld, last, slots, faults, failed, basis, worker, unfetched, fetched>>

\* Mutant of Conclude: the first look at the observation is enough.
ConcludeUnlooked ==
  /\ at = "closing" /\ basis' = "matched" /\ at' = "done"
  /\ UNCHANGED <<failed, last, slots, faults, worker>> /\ Keep

\* The observation is looked at again, unless it never was; then the budget.
Conclude ==
  /\ at \in {"close", "closing"} /\ at' = "done"
  /\ \/ at = "close" /\ UNCHANGED <<basis, failed>>
     \/ at = "closing" /\ stands /\ basis' = "matched" /\ UNCHANGED failed
     \/ at = "closing" /\ ~stands /\ basis' = "changed" /\ failed' = failed \cup {"batch-observation-unavailable"}
     \/ basis' = "unavailable" /\ failed' = failed \cup {"batch-work-expired"}
  /\ UNCHANGED <<last, slots, faults, worker>> /\ Keep

PairComplete(p) == basis = "matched" /\ failed = {} /\ Covered(p)
CoverageComplete == at = "done" /\ \A p \in PairSet : PairComplete(p)

CoverageNext ==
  \/ Replaced \/ StartKnown \/ StartUnknown \/ Bracket \/ Counter \/ Counted
  \/ \E o \in Indexes : NextPair(o) \/ History(o) \/ ExamineRow(o) \/ RowRejected(o) \/ RowMatches(o)
  \/ Worked \/ Fetching \/ (\E o \in Indexes : Fetch(o)) \/ Fetched \/ Conclude

CoverageSpec ==
  /\ story \in Seq(PairSet) /\ stands = TRUE /\ start \in {"activation", "checkpoint"} /\ CoverageInit
  /\ [][CoverageNext]_coverVars

--------------------------------------------------------------------------------
(* Properties.                                                              *)

\* A pair is complete only with every slot that the chain of the observation has, none
\* of another pair, whichever Index brought it and whatever either claimed, withheld
\* or failed to answer (coverage.ts 305-318).
SlotsComplete ==
  at = "done" => \A p \in PairSet : PairComplete(p) => slots[p] = Mine(p)

\* Two workers that authenticate the same slot do not take it for a conflict: a pair is
\* given up only for its counter, its size, or a chain that was replaced
\* (coverage.ts 221-235).
NoFalseConflict ==
  stands => \A p \in PairSet : faults[p] \subseteq {"counter-unavailable", "over-limit", "total-over-limit"}

\* What the two workers leave is complete when it is called so, and is not given up
\* because there are two of them.
CoverageHolds == SlotsComplete /\ NoFalseConflict
================================================================================
