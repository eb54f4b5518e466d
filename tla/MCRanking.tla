------------------------------- MODULE MCRanking -------------------------------
EXTENDS RankingEvidence, Coverage

CONSTANTS Alice, Bob
PairOrder == <<Alice, Bob>>
GroupsOfOne == {{Alice}, {Bob}}
Ratings3 == [a |-> 2, b |-> 5, c |-> 4]

Idleness == /\ story = <<>> /\ stands = TRUE /\ start = "activation" /\ at = "idle"
            /\ basis = "unavailable" /\ failed = {} /\ fetched = {}
            /\ last = [p \in PairSet |-> Unread] /\ slots = [p \in PairSet |-> {}]
            /\ faults = [p \in PairSet |-> {}] /\ worker = [o \in Indexes |-> Idle(1)]
            /\ unfetched = [o \in Indexes |-> {}]

Paper(author, interaction) ==
  [author |-> author, interaction |-> interaction, kind |-> "plain", former |-> FALSE]

\* Who wrote of which interaction: a revision, another interaction, or someone else.
Plain ==
  {[a |-> Paper(Alice, "x"), b |-> b, c |-> c] :
     b \in {Paper(Alice, "x"), Paper(Alice, "y"), Paper(Bob, "x")},
     c \in {Paper(Alice, "x"), Paper(Alice, "z"), Paper(Bob, "x")}}

\* What is out of the ordinary about one document: its kind, a runtime that retires, or
\* bytes that are not there or not its own.
Oddities ==
  [kind : PaperKinds, former : {FALSE}, retirement : {4}, lost : {FALSE}, bundle : {"own"}] \cup
  [kind : {"plain", "legacy"}, former : {TRUE}, retirement : {2, 3}, lost : {FALSE}, bundle : {"own"}] \cup
  [kind : {"plain"}, former : {FALSE}, retirement : {4}, lost : BOOLEAN, bundle : Bundles] \cup
  [kind : {"legacy"}, former : {FALSE}, retirement : {4}, lost : BOOLEAN, bundle : Bundles \ {"astray"}]
Orders == {<<"a", "b", "c">>, <<"b", "a", "c">>, <<"a", "b", "a">>}

CoverageCase ==
  /\ story \in UNION {[1..n -> PairSet] : n \in 0..3} /\ stands = TRUE
  /\ start \in {"activation", "checkpoint"} /\ CoverageInit
  /\ by = <<>> /\ doc = <<>> /\ papers = [d \in Docs |-> Paper(Alice, "x")] /\ retirement = 1 /\ revoked = {} /\ old = 0
  /\ seen = {} /\ complete = FALSE /\ lost = {} /\ bundles = [d \in Docs |-> "own"] /\ holds = TRUE
  /\ step = "idle" /\ next = 1 /\ reviews = {} /\ gap = FALSE
  /\ anchors = [d \in Docs |-> Absent] /\ observed = [d \in Docs |-> Absent]
  /\ profile = "unknown" /\ admitted = FALSE /\ faulted = 0 /\ report = [snapshot |-> "none"]

RankingCase ==
  /\ Idleness /\ RankingStart /\ holds = TRUE /\ doc \in Orders
  /\ \E plain \in Plain, d \in Range(doc), odd \in Oddities :
       /\ papers = [plain EXCEPT ![d].kind = odd.kind, ![d].former = odd.former]
       /\ retirement = odd.retirement
       /\ lost = IF odd.lost THEN {d} ELSE {}
       /\ bundles = [[e \in Docs |-> "own"] EXCEPT ![d] = odd.bundle]
  \* The last slot may be someone else's copy of the first document.
  /\ LET own == [i \in 1..3 |-> papers[doc[i]].author]
     IN by \in {own} \cup (IF doc[1] = doc[3] THEN {[own EXCEPT ![3] = Bob]} ELSE {})
  /\ \E fate \in {<<{}, 0>>, <<{2}, 0>>, <<{}, 1>>} : revoked = fate[1] /\ old = fate[2]
  /\ \/ complete = TRUE /\ seen = 1..3
     \/ complete = FALSE /\ seen = {1, 3} /\ lost = {} /\ retirement = 4 /\ revoked = {} /\ old = 0
  /\ Published

Init == CoverageCase \/ RankingCase
Idling == (at = "done" \/ step = "reported") /\ UNCHANGED <<coverVars, rankVars>>
Next == \/ step = "idle" /\ CoverageNext /\ UNCHANGED rankVars
        \/ at = "idle" /\ RankingNext /\ UNCHANGED coverVars
        \/ Idling
================================================================================
