----------------------------- MODULE ReadersProofs -----------------------------
(***************************************************************************)
(* Theorems about the readers of the registries, for any number of blocks,  *)
(* pages and logs, any story of the agent, and any reorganizations between  *)
(* any two reads; and about the discovery of ranked services, for any rows  *)
(* and limits.                                                              *)
(*                                                                         *)
(* The argument about the readers: what a reader has read so far is true of *)
(* the given chain as long as the last of the given blocks, high, is        *)
(* canonical (Current), because then every block below it is too and a node *)
(* can answer only from it.  A block never comes back, so whoever finds     *)
(* high unreplaced when everything else was read has found Current for all  *)
(* of it; and every reader keeps high among the blocks that it looks at     *)
(* again (HighIn).  A reader that says something of a block that was        *)
(* replaced is refused, or says it from what it has seen of that block      *)
(* itself.  Each invariant below is these three, for one of the readers.    *)
(*                                                                         *)
(* What a set of logs has, a last one, an order, a least height, is shown   *)
(* by a smallest counterexample (Smallest), since the finite subsets of a   *)
(* finite set are well founded.                                            *)
(***************************************************************************)
EXTENDS RegistryReaders, RankedDiscovery, FiniteSetTheorems, TLAPS

--------------------------------------------------------------------------------
(* The readers: the chain they read and what is so of it. *)

\* What is so of the given blocks can be read while the last of them stands.
Current == Own(base.high)
Event(h) == [at |-> h, kind |-> story[h], own |-> TRUE]
Events(kinds, a, b) == {Event(h) : h \in Where(kinds, a, b)}
IsASeq(s) == \E S : s \in Seq(S)
\* The last block is among those to look at, as the given chain's.
HighIn(s) == \E i \in DOMAIN s : s[i].at = base.high /\ s[i].own = TRUE

WorldOK ==
  /\ base \in Blocks /\ story \in [Heights -> EventKinds] /\ common \in 0..base.high
  /\ reader = "authority" => base.mid = base.low
  /\ reader \in {"checkpoint", "activation"} => base.low < base.mid /\ base.mid <= base.high

SnapshotPhases == {"snapshot head", "snapshot read", "snapshot guard"}
ScanPhases == {"bounds", "implementation", "page", "log", "collected"}
ReplayPhases == {"epoch current", "epoch recheck"}
PublicationPhases == {"publication", "published at", "published by", "domain", "stored", "republished",
                      "reobserved", "published"}
OriginalPhases == {"original head", "original snapshot", "recheck original"}
CheckPhases == {"headers", "qualify", "registration", "profile", "upgrades", "zero", "last",
                "publications", "slot", "receipts", "recheck"}
ActivationPhases == Reading \cup {"every block"}
PhasesOf(r) ==
  {"done"} \cup
  (CASE r = "authority" -> SnapshotPhases \cup ScanPhases \cup {"boundaries"}
     [] r = "epoch" -> ScanPhases \cup ReplayPhases
     [] r = "observation" -> SlotPhases
     [] r = "publication" -> PublicationPhases
     [] r = "checkpoint" -> CheckPhases \cup SlotPhases
     [] r = "carry" -> OriginalPhases \cup PublicationPhases \cup ScanPhases \cup ReplayPhases
                       \cup {"carry", "compose"}
     [] r = "activation" -> ActivationPhases)
Readers == {"authority", "epoch", "observation", "publication", "checkpoint", "carry", "activation"}
Phased == reader \in Readers /\ pc \in PhasesOf(reader)

IdentityFields == {"which", "own", "basis", "current", "known", "failed"}
SlotFields == {"which", "own", "slotOwn", "document", "sourceRead", "observedRead", "finding", "revocation"}
CarryFields == IdentityFields \cup SlotFields \cup {"authority", "checked", "claims", "epoch"}

--------------------------------------------------------------------------------
(* The interval of an agent, and its recheck. *)

Interval == Where(IntervalKinds, base.low + 1, base.high)
ScanTruth == logs = Events(IntervalKinds, base.low + 1, base.high)
\* The pages before c have h.
Passed(c, h) ==
  h < c.start \/ (h <= PageEnd(c.start, base.high) /\ \E f \in 1..3 : f < c.filter /\ story[h] \in Filters[f])
Waiting == {left[i] : i \in DOMAIN left}

ScanShape ==
  /\ IdentityFields \subseteq DOMAIN got /\ got.failed \in BOOLEAN /\ IsASeq(noted)
  /\ got.which \in {"basis", "current"}
  /\ pc \in {"page", "log"} => /\ cursor \in [start : Nat, filter : 1..3]
                               /\ base.low < cursor.start /\ cursor.start <= base.high
Unscanned == pc \in SnapshotPhases \cup OriginalPhases \cup PublicationPhases => noted = <<>> /\ logs = {}
Bounded ==
  /\ pc = "bounds" => /\ logs = {} /\ (left = Boundaries \/ left = <<base.high>>)
                      /\ \A i \in DOMAIN noted : noted[i].own = TRUE
  /\ pc = "implementation" => logs = {} /\ (left = Boundaries \/ left = <<base.high>>)
  /\ pc \in {"implementation", "page", "log", "collected", "epoch current"} => HighIn(noted)
Scanned ==
  Current /\ ~got.failed =>
    /\ pc = "page" => /\ logs \subseteq Events(IntervalKinds, base.low + 1, base.high)
                      /\ \A h \in Interval : Passed(cursor, h) => Event(h) \in logs
    /\ pc = "log" => /\ IsASeq(left)
                     /\ logs \cup Waiting \subseteq Events(IntervalKinds, base.low + 1, base.high)
                     /\ \A h \in Interval : Passed(NextPage, h) => Event(h) \in logs \cup Waiting
    /\ pc \in {"collected", "boundaries", "epoch current", "epoch recheck"} => ScanTruth
Rechecked ==
  /\ pc = "boundaries" => /\ got.failed = FALSE
                          /\ left = Boundaries \/ left = <<base.high>> \/ (left = <<>> /\ ScanTruth)
  /\ pc = "epoch recheck" => IsASeq(left) /\ (HighIn(left) \/ got.failed = TRUE \/ ScanTruth)
ScanInv ==
  reader \in {"authority", "epoch", "carry"} => ScanShape /\ Unscanned /\ Bounded /\ Scanned /\ Rechecked

\* The two snapshots of the authority reader.
AuthorityInv ==
  reader = "authority" =>
    /\ got.which \in {"basis", "current"} /\ DOMAIN got = IdentityFields
    /\ pc = "snapshot guard" /\ Own(SnapshotHeight) => got[got.which] = Authority(SnapshotHeight)
    /\ got.which = "current" => got.basis = Authority(base.low)
    /\ pc \in ScanPhases \cup {"boundaries"} => got.which = "current" /\ got.current = Authority(base.high)
    /\ AuthorityHolds

\* An epoch is what the given chain has.
EpochTruth(e) ==
  e.status # "unknown" =>
    /\ Between(Upgrades) = {}
    /\ (e.status = "same") = (Between(Breaks) = {})
    /\ e.transferred = (Between({"transfer"}) # {})
    /\ e.deauthorized = (Between({"deauthorize"}) # {})
    /\ e.retirement = FirstAt(Between({"runtime"}))
    /\ e.firstBreak = FirstAt(Between(Breaks))
EpochInv ==
  /\ reader = "epoch" /\ pc = "done" => EpochTruth(verdict)
  /\ reader = "carry" => "epoch" \in DOMAIN got
  /\ reader = "carry" /\ pc \in {"carry", "compose"} => EpochTruth(got.epoch)

--------------------------------------------------------------------------------
(* The slot of a publication. *)

\* What a finding says of the given blocks, an orphan aside.
Matching(finding, revocation) ==
  /\ finding = "matched" => Published /\ revocation # "unknown" /\ got.document = "valid"
  /\ RevocationIs(revocation)
  /\ finding = "mismatched" /\ reader # "checkpoint" => ~Published \/ got.document = "other"
Orphaning(finding) == finding = "orphaned" /\ reader # "checkpoint" => ~Own(Source)
Silent(finding, revocation) == finding \notin {"matched", "mismatched"} /\ revocation = "unknown"

BeforeStorage == {"source", "observed", "receipt", "link", "counter", "storage"}
\* At p the source and the observation were read or not, and the finding is so far this.
SlotAt(p, sourceRead, observedRead, finding, revocation) ==
  /\ sourceRead \in BOOLEAN /\ observedRead \in BOOLEAN
  /\ Orphaning(finding)
  /\ p = "source" => ~sourceRead /\ ~observedRead
  /\ p \in SlotPhases \ {"source", "slot end"} =>
       sourceRead /\ (Current \/ reader # "checkpoint" => Source <= Observation)
  /\ p \in {"receipt", "link", "counter", "storage", "again observed"} => observedRead
  /\ p \in BeforeStorage => finding = "unavailable" /\ revocation = "unknown"
  /\ p = "again source" /\ ~observedRead => Silent(finding, revocation)
  /\ Current /\ p \in {"link", "counter", "storage"} => story[Source] = "feedback"
  /\ Current /\ p \in {"counter", "storage"} => Known(Observation)
  /\ Current /\ p \in {"again source", "again observed"} => Matching(finding, revocation)
  /\ p = "slot end" => Matching(finding, revocation)
SlotInv ==
  reader \in {"observation", "checkpoint"} /\ pc \in SlotPhases =>
    /\ SlotFields \subseteq DOMAIN got /\ got.document = "valid"
    /\ reader = "observation" => got.slotOwn = TRUE
    /\ SlotAt(pc, got.sourceRead, got.observedRead, got.finding, got.revocation)
ObservationInv ==
  reader = "observation" /\ pc = "done" => SlotsHold

\* The same of a publication, whose observation is the block that its number had.
PublicationAt(p, own, sourceRead, observedRead, finding, revocation) ==
  /\ sourceRead \in BOOLEAN /\ observedRead \in BOOLEAN /\ own \in BOOLEAN
  /\ Orphaning(finding)
  /\ p \in {"original head", "original snapshot", "publication"} =>
       ~sourceRead /\ ~observedRead /\ finding = "unavailable" /\ revocation = "unknown"
  /\ p \in PublicationPhases \ {"publication", "published"} => observedRead
  /\ p = "published at" => /\ Source <= Observation /\ ~sourceRead /\ finding = "unavailable" /\ revocation = "unknown"
                           /\ ~own => ~Own(Source)
  /\ p \in {"published by", "domain", "stored", "republished"} => own /\ sourceRead /\ Source <= Observation
  /\ p = "published by" => finding = "unavailable" /\ revocation = "unknown"
  /\ p \in {"domain", "stored"} => /\ finding = (IF got.document = "other" THEN "mismatched" ELSE "unavailable")
                                   /\ revocation = "unknown"
  /\ Current /\ p \in {"domain", "stored"} => story[Source] = "feedback"
  /\ Current /\ p = "stored" => Known(Observation)
  /\ Current /\ p \in {"republished", "reobserved"} => Matching(finding, revocation)
  /\ p = "reobserved" /\ ~own => Matching(finding, revocation)
  /\ p \in {"published", "recheck original", "carry", "compose"} \cup ScanPhases \cup ReplayPhases =>
       Matching(finding, revocation)
PublicationInv ==
  reader \in {"publication", "carry"} =>
    /\ SlotFields \subseteq DOMAIN got /\ got.document \in {"valid", "other", "absent"}
    /\ pc \in {"original head", "original snapshot", "publication"} =>
         got.which = "basis" /\ (Current \/ common < base.mid)
    /\ pc # "done" => PublicationAt(pc, got.own, got.sourceRead, got.observedRead, got.finding, got.revocation)
    /\ reader = "publication" /\ pc = "done" => SlotsHold

--------------------------------------------------------------------------------
(* Carried forward. *)
CarryInv ==
  reader = "carry" =>
    /\ CarryFields \subseteq DOMAIN got
    /\ got.claims \in Claims
    /\ got.authority = "matched" => got.claims # "unsound"
    /\ pc = "compose" => /\ got.claims = "sound" /\ got.finding = "matched"
                         /\ got.epoch.status # "unknown"
    /\ CarryHolds

--------------------------------------------------------------------------------
(* The activation of a registry. *)
AsConfigured ==
  /\ story[base.low] = "upgrade" /\ story[base.mid] = "restore"
  /\ Where(Changes, base.low, base.high) = {base.low, base.mid}
FindingIsTrue(f) == (f = "matched" => AsConfigured) /\ (f \in {"mismatched", "unsupported"} => ~AsConfigured)
ActivationInv ==
  reader = "activation" =>
    /\ {"finding", "gap", "seen"} \subseteq DOMAIN got /\ IsASeq(noted)
    /\ pc = "bases" => /\ left = <<0, base.high>> \/ left = <<base.high>>
                       /\ \A i \in DOMAIN noted : noted[i].at = 0
    /\ pc \in Reading => got.finding = "unavailable"
    /\ pc \in Reading \ {"bases"} => HighIn(noted)
    /\ pc \in {"deployed", "transaction", "deployment receipt"} => left = <<base.low, base.mid>> \/ left = <<base.mid>>
    /\ pc = "known" => left \in {<<base.mid, base.high>>, <<base.high>>}
    /\ pc \in {"changes", "change"} => /\ cursor \in [start : Nat, filter : {1}]
                                      /\ base.low <= cursor.start /\ cursor.start <= base.high + 1
    /\ pc \in {"bases", "deployed", "transaction", "deployment receipt", "known"} => got.seen = {}
    /\ Current =>
         /\ pc \in {"deployed", "transaction", "deployment receipt"} /\ left = <<base.mid>> => story[base.low] = "upgrade"
         /\ pc \in {"known", "changes", "change"} => story[base.low] = "upgrade" /\ story[base.mid] = "restore"
         /\ pc = "changes" => got.seen = Events(Changes, base.low, cursor.start - 1)
         /\ pc = "change" => /\ IsASeq(left) /\ got.seen \cup Waiting = Events(Changes, base.low, cursor.start - 1)
                             /\ \A i \in DOMAIN left : left[i] \notin got.seen
                             /\ \A i, j \in DOMAIN left : i < j => left[i].at < left[j].at
         /\ pc = "every block" => FindingIsTrue(got.finding)
    /\ pc = "every block" => IsASeq(left) /\ (HighIn(left) \/ FindingIsTrue(got.finding))
    /\ ActivationHolds

--------------------------------------------------------------------------------
(* The checkpoint. *)
Publications == Events({"feedback"}, base.mid + 1, base.high)
Listing == InOrder(Publications)
Stated(k) == IF Revoked(Listing[k].at, base.high) THEN "revoked" ELSE "active"
ScanEmpty(i, b) == Where(Scans[i].kinds, Scans[i].from, b) = {}
Unpublished == story[Registered] = "register" /\ Counter(base.mid) = 0 /\ ScanEmpty(1, base.high) /\ ScanEmpty(2, base.high)
CheckpointTruth == Unpublished /\ got.slots = [i \in DOMAIN Listing |-> Stated(i)]

BeforePublications == {"headers", "qualify", "registration", "profile", "upgrades", "zero", "last"}
ListPhases == {"slot", "receipts"} \cup SlotPhases
CheckpointShape ==
  /\ {"slot", "slotOwn", "nth", "last", "slots"} \subseteq DOMAIN got /\ IsASeq(noted)
  /\ pc = "headers" => /\ left \in {<<base.low, base.mid, base.high>>, <<base.mid, base.high>>, <<base.high>>}
                       /\ \A i \in DOMAIN noted : noted[i].own = TRUE
  /\ pc \in (CheckPhases \ {"headers", "recheck"}) \cup SlotPhases => HighIn(noted)
  /\ pc \in {"upgrades", "publications"} => cursor \in [start : Nat, filter : 1..2]
  /\ pc \in BeforePublications => logs = {}
  /\ pc \in BeforePublications \cup {"publications"} => got.slots = <<>> /\ got.nth = 0
  /\ pc = "publications" => base.mid < cursor.start
  /\ pc \in SlotPhases => got.revocation \in {"unknown", "active", "revoked"}
\* What the scans have found so far.
Scanning ==
  /\ pc \in {"profile", "upgrades", "zero"} => story[Registered] = "register"
  /\ pc = "upgrades" => /\ cursor.filter = 1 => ScanEmpty(1, cursor.start - 1)
                        /\ cursor.filter = 2 => ScanEmpty(1, base.high) /\ ScanEmpty(2, cursor.start - 1)
  /\ pc = "zero" => ScanEmpty(1, base.high) /\ ScanEmpty(2, base.high)
  /\ pc \in {"last", "publications"} \cup ListPhases => Unpublished
  /\ pc \in {"publications"} \cup ListPhases => got.last = Counter(base.high)
  /\ pc = "publications" =>
       logs = Events({"feedback"}, base.mid + 1, IF cursor.start <= base.high THEN cursor.start - 1 ELSE base.high)
\* The publications that were observed, and those that are left.
Listed ==
  /\ IsASeq(left) /\ IsASeq(got.slots)
  /\ Len(got.slots) + Len(left) = Len(Listing)
  /\ \A i \in DOMAIN left : left[i] = Listing[Len(got.slots) + i]
  /\ \A i \in DOMAIN got.slots : got.slots[i] = Stated(i)
Listening ==
  /\ pc \in ListPhases => Listed
  /\ pc \in SlotPhases \cup {"receipts"} => left # <<>>
  /\ pc = "slot" => got.nth = Len(got.slots)
  /\ pc = "receipts" => got.nth = Len(got.slots) /\ Counter(Head(left).at) = got.nth + 1
  /\ pc \in SlotPhases => /\ got.nth = Len(got.slots) + 1 /\ got.slot = Head(left).at /\ got.slotOwn = TRUE
                          /\ Counter(got.slot) = got.nth /\ story[got.slot] = "feedback" /\ got.slot \in Nat
Concluded ==
  /\ Current /\ pc = "recheck" => CheckpointTruth
  /\ pc = "recheck" => IsASeq(left) /\ (HighIn(left) \/ CheckpointTruth)
CheckpointInv ==
  reader = "checkpoint" =>
    CheckpointShape /\ (Current => Scanning /\ Listening) /\ Concluded /\ CheckpointHolds
ReadersInv ==
  /\ WorldOK /\ Phased /\ ScanInv /\ AuthorityInv /\ EpochInv
  /\ SlotInv /\ ObservationInv /\ PublicationInv /\ CarryInv /\ ActivationInv /\ CheckpointInv

--------------------------------------------------------------------------------
(* Records, sequences, pages and orders. *)

\* A record that is given new values has them, and keeps the others.
LEMMA OverFacts ==
  ASSUME NEW f, NEW g
  PROVE  /\ DOMAIN Over(f, g) = DOMAIN f \cup DOMAIN g
         /\ \A k \in DOMAIN f : Over(f, g)[k] = f[k]
  BY DEF Over

\* A record keeps what it is not given anew.
LEMMA OverKeeps ==
  ASSUME NEW f, NEW g, NEW k \in DOMAIN g, k \notin DOMAIN f
  PROVE  Over(f, g)[k] = g[k]
  BY DEF Over

\* A reader goes on with what it has read.
LEMMA WentFacts ==
  ASSUME NEW p, NEW F, Went(p, F)
  PROVE  /\ pc' = p /\ DOMAIN got' = DOMAIN F \cup DOMAIN got
         /\ \A k \in DOMAIN F : got'[k] = F[k]
         /\ \A k \in DOMAIN got : k \notin DOMAIN F => got'[k] = got[k]
  <1>1. pc' = p /\ got' = Over(F, got)
    BY DEF Went
  <1>2. DOMAIN got' = DOMAIN F \cup DOMAIN got
    BY <1>1, OverFacts
  <1>3. ASSUME NEW k \in DOMAIN F
        PROVE  got'[k] = F[k]
    BY <1>1, OverFacts
  <1>4. ASSUME NEW k \in DOMAIN got, k \notin DOMAIN F
        PROVE  got'[k] = got[k]
    BY <1>1, <1>4, OverKeeps
  <1>5. QED BY <1>1, <1>2, <1>3, <1>4

\* Nothing new leaves everything.
LEMMA NothingFacts ==
  ASSUME NEW p, Went(p, Nothing)
  PROVE  pc' = p /\ DOMAIN got' = DOMAIN got /\ \A k \in DOMAIN got : got'[k] = got[k]
  <1>1. DOMAIN Nothing = {}
    BY DEF Nothing
  <1>2. QED BY <1>1, WentFacts

\* A sequence that grows by one.
LEMMA AppendFacts ==
  ASSUME NEW s, NEW x, IsASeq(s), NEW t, t = Append(s, x)
  PROVE  /\ IsASeq(t) /\ Len(s) \in Nat /\ Len(t) = Len(s) + 1 /\ DOMAIN t = 1..Len(t) /\ DOMAIN s = 1..Len(s)
         /\ t[Len(t)] = x /\ t[Len(s) + 1] = x /\ Len(t) \in DOMAIN t
         /\ \A i \in DOMAIN s : i \in DOMAIN t /\ t[i] = s[i]
         /\ \A i \in DOMAIN t : i \in DOMAIN s \/ i = Len(t)
  <1>1. PICK S : s \in Seq(S)
    BY DEF IsASeq
  <1>2. s \in Seq(S \cup {x}) /\ t \in Seq(S \cup {x})
    BY <1>1
  <1>3. IsASeq(t)
    BY <1>2 DEF IsASeq
  <1>4. QED BY <1>2, <1>3

\* A sequence without its first element.
Rest(s) == Tail(s)

\* What is left of a sequence without its first element.
LEMMA TailFacts ==
  ASSUME NEW s, IsASeq(s), s # <<>>, NEW t, t = Rest(s)
  PROVE  /\ IsASeq(t) /\ Len(s) \in Nat /\ Len(s) > 0 /\ Len(t) = Len(s) - 1 /\ Len(t) \in Nat
         /\ DOMAIN t = 1..Len(t) /\ DOMAIN s = 1..Len(s)
         /\ Head(s) = s[1] /\ 1 \in DOMAIN s
         /\ \A i \in DOMAIN t : i + 1 \in DOMAIN s /\ t[i] = s[i + 1]
         /\ \A i \in DOMAIN s : i = 1 \/ (i - 1 \in DOMAIN t /\ t[i - 1] = s[i])
  <1>1. PICK S : s \in Seq(S)
    BY DEF IsASeq
  <1>2. t \in Seq(S) /\ Len(t) = Len(s) - 1 /\ Len(s) > 0 /\ Len(s) \in Nat
    BY <1>1 DEF Rest
  <1>3. IsASeq(t)
    BY <1>2 DEF IsASeq
  <1>4. \A i \in 1..Len(t) : t[i] = s[i + 1]
    BY <1>1, <1>2 DEF Rest
  <1>5. QED BY <1>1, <1>2, <1>3, <1>4

\* The numbers of a page.
LEMMA PageEndFacts ==
  ASSUME NEW start \in Nat, NEW to \in Nat, start <= to
  PROVE  /\ PageEnd(start, to) \in Nat /\ start <= PageEnd(start, to) /\ PageEnd(start, to) <= to
  BY RegistryAssumption DEF PageEnd

\* A node that has the last block of a page answers with its events.
LEMMA PageIsTrue ==
  ASSUME NEW kinds, NEW a \in Nat, NEW b \in Nat, Own(b), common \in Nat, NEW found \in Page(kinds, a, b)
  PROVE  found = Events(kinds, a, b)
  <1> DEFINE true == {[at |-> h, kind |-> story[h], own |-> TRUE] : h \in {x \in Where(kinds, a, b) : Own(x)}}
  <1> DEFINE strange == {[at |-> h, kind |-> k, own |-> FALSE] :
                           h \in {x \in Heights : a <= x /\ x <= b /\ ~Own(x)}, k \in kinds}
  <1>1. PICK more : more \subseteq strange /\ found = true \cup more
    BY DEF Page
  <1>2. {x \in Heights : a <= x /\ x <= b /\ ~Own(x)} = {}
    BY DEF Own, Heights
  <1>3. strange = {}
    BY <1>2
  <1>4. {x \in Where(kinds, a, b) : Own(x)} = Where(kinds, a, b)
    BY DEF Own, Where, Heights
  <1>5. true = Events(kinds, a, b)
    BY <1>4 DEF Events, Event
  <1>6. QED BY <1>1, <1>3, <1>5

\* Among subsets of a finite set there is one without a smaller one.
LEMMA Smallest ==
  ASSUME NEW S, IsFiniteSet(S), NEW T, T \subseteq SUBSET S, T # {}
  PROVE  \E U \in T : \A V \in T : V \subseteq U => V = U
  <1>1. IsWellFoundedOn(StrictSubsetOrdering(S), FiniteSubsetsOf(S))
    BY FS_StrictSubsetOrderingWellFounded
  <1>2. FiniteSubsetsOf(S) = SUBSET S
    BY FS_FiniteSubsetsOfFinite
  <1>3. PICK U \in T : \A V \in T : ~ (<<V, U>> \in StrictSubsetOrdering(S))
    BY <1>1, <1>2, WFMin
  <1>4. QED BY <1>3 DEF StrictSubsetOrdering

\* Logs, not none, have a last one.
LEMMA LastLog ==
  ASSUME NEW S, IsFiniteSet(S), S # {}, \A x \in S : x.at \in Nat
  PROVE  \E m \in S : \A x \in S : x.at <= m.at
  <1> DEFINE T == {V \in SUBSET S : V # {} /\ ~ \E m \in V : \A x \in V : x.at <= m.at}
  <1>1. SUFFICES ASSUME T # {} PROVE FALSE
    OBVIOUS
  <1>2. PICK U \in T : \A V \in T : V \subseteq U => V = U
    <2>1. T \subseteq SUBSET S
      OBVIOUS
    <2> HIDE DEF T
    <2>2. QED BY <1>1, <2>1, Smallest
  <1>3. PICK x \in U : TRUE
    BY <1>2
  <1>4. U \ {x} \notin T /\ U \ {x} \in SUBSET S
    BY <1>2, <1>3
  <1>5. CASE U \ {x} = {}
    <2>1. \A y \in U : y = x
      BY <1>5
    <2>2. QED BY <1>2, <1>3, <2>1
  <1>6. CASE U \ {x} # {}
    <2>1. PICK m \in U \ {x} : \A y \in U \ {x} : y.at <= m.at
      BY <1>4, <1>6
    <2>2. x.at \in Nat /\ m.at \in Nat
      BY <1>2, <1>3, <2>1
    <2>3. CASE x.at <= m.at
      BY <1>2, <2>1, <2>3
    <2>4. CASE m.at <= x.at
      <3>1. \A y \in U : y.at <= x.at
        BY <1>2, <2>1, <2>2, <2>4
      <3>2. QED BY <1>2, <1>3, <3>1
    <2>5. QED BY <2>2, <2>3, <2>4
  <1>7. QED BY <1>5, <1>6

Ascending(q) == \A i, j \in DOMAIN q : i < j => q[i].at < q[j].at
\* Logs of different blocks can be put in order.
LEMMA Orderable ==
  ASSUME NEW S, IsFiniteSet(S), \A x \in S : x.at \in Nat, \A x, y \in S : x.at = y.at => x = y
  PROVE  \E q \in [1..Cardinality(S) -> S] : Ascending(q)
  <1> DEFINE T == {V \in SUBSET S : ~ \E q \in [1..Cardinality(V) -> V] : Ascending(q)}
  <1>1. SUFFICES ASSUME T # {} PROVE FALSE
    OBVIOUS
  <1>2. PICK U \in T : \A V \in T : V \subseteq U => V = U
    <2>1. T \subseteq SUBSET S
      OBVIOUS
    <2> HIDE DEF T
    <2>2. QED BY <1>1, <2>1, Smallest
  <1>3. U \subseteq S /\ IsFiniteSet(U) /\ ~ \E q \in [1..Cardinality(U) -> U] : Ascending(q)
    BY <1>2, FS_Subset
  <1>4. U # {}
    <2>1. SUFFICES ASSUME U = {} PROVE FALSE
      OBVIOUS
    <2>2. Cardinality(U) = 0
      BY <2>1, FS_EmptySet
    <2>3. [i \in 1..0 |-> i] \in [1..0 -> U] /\ Ascending([i \in 1..0 |-> i])
      BY DEF Ascending
    <2>4. QED BY <1>3, <2>2, <2>3
  <1>5. PICK m \in U : \A x \in U : x.at <= m.at
    BY <1>3, <1>4, LastLog
  <1> DEFINE V == U \ {m}
             n == Cardinality(V)
  <1>6. V \notin T /\ V \in SUBSET S /\ V \subseteq U /\ m \notin V
    BY <1>2, <1>5
  <1>7. Cardinality(U) = n + 1 /\ n \in Nat /\ IsFiniteSet(V)
    <2>1. IsFiniteSet(V) /\ n = Cardinality(U) - 1
      BY <1>3, <1>5, FS_RemoveElement
    <2>2. n \in Nat /\ Cardinality(U) \in Nat
      BY <1>3, <2>1, FS_CardinalityType
    <2>3. QED BY <2>1, <2>2
  <1>8. PICK q \in [1..n -> V] : Ascending(q)
    BY <1>6
  <1> HIDE DEF T, V, n
  <1> DEFINE r == [i \in 1..(n + 1) |-> IF i = n + 1 THEN m ELSE q[i]]
  <1>9. r \in [1..(n + 1) -> U]
    BY <1>5, <1>6, <1>7, <1>8
  <1>10. ASSUME NEW i \in 1..(n + 1), NEW j \in 1..(n + 1), i < j
         PROVE  r[i].at < r[j].at
    <2>1. i \in 1..n /\ r[i] = q[i] /\ q[i] \in V
      BY <1>7, <1>8, <1>10
    <2>2. CASE j = n + 1
      <3>1. r[j] = m /\ q[i].at <= m.at /\ q[i] # m /\ q[i] \in U
        BY <1>5, <1>6, <2>1, <2>2
      <3>2. q[i].at # m.at /\ q[i].at \in Nat /\ m.at \in Nat
        BY <1>3, <1>5, <3>1
      <3>3. QED BY <2>1, <3>1, <3>2
    <2>3. CASE j # n + 1
      <3>1. j \in 1..n /\ r[j] = q[j]
        BY <1>7, <2>3
      <3>2. QED BY <1>8, <1>10, <2>1, <3>1 DEF Ascending
    <2>4. QED BY <2>2, <2>3
  <1>11. Ascending(r)
    BY <1>9, <1>10 DEF Ascending
  <1>12. QED BY <1>3, <1>7, <1>9, <1>11

\* The logs in order: each of them once.
LEMMA InOrderFacts ==
  ASSUME NEW S, IsFiniteSet(S), \A x \in S : x.at \in Nat, \A x, y \in S : x.at = y.at => x = y,
         NEW q, q = InOrder(S)
  PROVE  /\ q \in [1..Cardinality(S) -> S] /\ Cardinality(S) \in Nat /\ IsASeq(q) /\ Len(q) = Cardinality(S)
         /\ Ascending(q) /\ {q[i] : i \in DOMAIN q} = S
  <1>1. q \in [1..Cardinality(S) -> S] /\ Ascending(q)
    <2>1. \E p \in [1..Cardinality(S) -> S] : \A i, j \in DOMAIN p : i < j => p[i].at < p[j].at
      BY Orderable DEF Ascending
    <2>2. QED BY <2>1 DEF InOrder, Ascending
  <1>2. Cardinality(S) \in Nat /\ IsFiniteSet(1..Cardinality(S)) /\ Cardinality(1..Cardinality(S)) = Cardinality(S)
    BY FS_CardinalityType, FS_Interval
  <1>3. q \in Seq(S) /\ Len(q) = Cardinality(S)
    BY <1>1, <1>2
  <1>4. q \in Injection(1..Cardinality(S), S)
    <2>1. ASSUME NEW i \in 1..Cardinality(S), NEW j \in 1..Cardinality(S), q[i] = q[j]
          PROVE  i = j
      <3>1. ~(i < j) /\ ~(j < i)
        BY <1>1, <2>1 DEF Ascending
      <3>2. QED BY <1>2, <3>1
    <2>2. QED BY <1>1, <2>1 DEF Injection, IsInjective
  <1>5. q \in Surjection(1..Cardinality(S), S)
    BY <1>2, <1>4, FS_Injection
  <1>6. {q[i] : i \in DOMAIN q} = S
    BY <1>1, <1>5 DEF Surjection
  <1>7. QED BY <1>1, <1>2, <1>3, <1>6 DEF IsASeq

\* The events of a stretch of the chain can be put in order.
LEMMA EventsFacts ==
  ASSUME NEW kinds, NEW a, NEW b
  PROVE  LET S == Events(kinds, a, b) IN
         /\ IsFiniteSet(S) /\ Cardinality(S) \in Nat
         /\ \A x \in S : x.at \in Nat /\ x.at \in Where(kinds, a, b) /\ x = Event(x.at)
         /\ \A x, y \in S : x.at = y.at => x = y
         /\ \A h \in Where(kinds, a, b) : Event(h) \in S
  <1>1. Where(kinds, a, b) \subseteq 1..Tip
    BY DEF Where, Heights
  <1>2. IsFiniteSet(1..Tip)
    BY RegistryAssumption, FS_Interval
  <1>3. IsFiniteSet(Where(kinds, a, b))
    BY <1>1, <1>2, FS_Subset
  <1> DEFINE f == [h \in Where(kinds, a, b) |-> Event(h)]
  <1>4. f \in Surjection(Where(kinds, a, b), Events(kinds, a, b))
    BY DEF Events, Surjection
  <1>5. IsFiniteSet(Events(kinds, a, b))
    BY <1>3, <1>4, FS_Surjection
  <1>6. Cardinality(Events(kinds, a, b)) \in Nat
    BY <1>5, FS_CardinalityType
  <1>7. \A x \in Events(kinds, a, b) : \E h \in Where(kinds, a, b) : x = Event(h)
    BY DEF Events
  <1>8. \A h \in Where(kinds, a, b) : Event(h).at = h /\ h \in Nat
    BY <1>1, RegistryAssumption DEF Event
  <1>9. \A h \in Where(kinds, a, b) : Event(h) \in Events(kinds, a, b)
    BY DEF Events
  <1>10. QED BY <1>5, <1>6, <1>7, <1>8, <1>9

--------------------------------------------------------------------------------
(* Whose turn it is. *)

\* The readers of an interval.
LEMMA IdentityMoves ==
  ASSUME Phased, IdentityNext
  PROVE  UNCHANGED <<configVars, worldVars>> /\ reader \in {"authority", "epoch", "carry"} /\ Phased'
  <1> USE DEF Phased, Readers, PhasesOf, configVars, worldVars, SnapshotPhases, ScanPhases, ReplayPhases, OriginalPhases, PublicationPhases, SlotPhases, CheckPhases, ActivationPhases, Reading
  <1>1. CASE SnapshotHead
    BY <1>1 DEF SnapshotHead
  <1>2. CASE SnapshotRead
    BY <1>2 DEF SnapshotRead
  <1>3. CASE SnapshotGuard
    BY <1>3 DEF SnapshotGuard, Unknown, Give, Report
  <1>4. CASE Bounds
    BY <1>4 DEF Bounds, Unknown, Give, Report
  <1>5. CASE KnownAt
    BY <1>5 DEF KnownAt, Unknown, Give, Report
  <1>6. CASE ScanPage
    BY <1>6 DEF ScanPage
  <1>7. CASE ScanLog
    BY <1>7 DEF ScanLog
  <1>8. CASE ScanFails
    BY <1>8 DEF ScanFails
  <1>9. CASE ContinuityCollected
    BY <1>9 DEF ContinuityCollected, Unknown, Give, Report
  <1>10. CASE RecheckBoundaries
    BY <1>10 DEF RecheckBoundaries, Unknown, Give, Report
  <1>11. CASE EpochCollected
    BY <1>11 DEF EpochCollected, Unknown, Give, Report
  <1>12. CASE EpochCurrent
    BY <1>12 DEF EpochCurrent, Unknown, Give, Report
  <1>13. CASE EpochRecheck
    BY <1>13 DEF EpochRecheck, Unknown, Give, Report
  <1>14. CASE IdentityReadFails
    BY <1>14 DEF IdentityReadFails, Unknown, Give, Report
  <1>15. QED BY <1>1, <1>2, <1>3, <1>4, <1>5, <1>6, <1>7, <1>8, <1>9, <1>10, <1>11, <1>12, <1>13, <1>14 DEF IdentityNext

\* The readers of a slot.
LEMMA ObservationMoves ==
  ASSUME Phased, ObservationNext
  PROVE  UNCHANGED <<configVars, worldVars>> /\ reader \in {"observation", "checkpoint"} /\ Phased'
  <1> USE DEF Phased, Readers, PhasesOf, configVars, worldVars, SnapshotPhases, ScanPhases, ReplayPhases, OriginalPhases, PublicationPhases, SlotPhases, CheckPhases, ActivationPhases, Reading
  <1>1. CASE ObserveSource
    BY <1>1 DEF ObserveSource, SlotKeeps, Went, ReadFailed
  <1>2. CASE ObserveBasis
    BY <1>2 DEF ObserveBasis, SlotKeeps, Went, ReadFailed
  <1>3. CASE ObserveReceipt
    BY <1>3 DEF ObserveReceipt, SlotKeeps, Went, ReadFailed
  <1>4. CASE ObserveLink
    BY <1>4 DEF ObserveLink, SlotKeeps, Went, ReadFailed
  <1>5. CASE ObserveCounter
    BY <1>5 DEF ObserveCounter, SlotKeeps, Went, ReadFailed
  <1>6. CASE ObserveStorage
    BY <1>6 DEF ObserveStorage, SlotKeeps, Went, ReadFailed
  <1>7. CASE AgainSource
    BY <1>7 DEF AgainSource, SlotKeeps, Went, ReadFailed
  <1>8. CASE AgainObserved
    BY <1>8 DEF AgainObserved, SlotKeeps, Went, ReadFailed
  <1>9. CASE SlotReadFails
    BY <1>9 DEF SlotReadFails, SlotKeeps, Went, ReadFailed
  <1>10. CASE SlotEnds
    BY <1>10 DEF SlotEnds, Report
  <1>11. QED BY <1>1, <1>2, <1>3, <1>4, <1>5, <1>6, <1>7, <1>8, <1>9, <1>10 DEF ObservationNext

\* The readers of a publication.
LEMMA PublicationMoves ==
  ASSUME Phased, PublicationNext
  PROVE  UNCHANGED <<configVars, worldVars>> /\ reader \in {"publication", "carry"} /\ Phased'
  <1> USE DEF Phased, Readers, PhasesOf, configVars, worldVars, SnapshotPhases, ScanPhases, ReplayPhases, OriginalPhases, PublicationPhases, SlotPhases, CheckPhases, ActivationPhases, Reading
  <1>1. CASE PublicationObserved
    BY <1>1 DEF PublicationObserved, SlotKeeps, Went, Returns
  <1>2. CASE PublicationSource
    BY <1>2 DEF PublicationSource, SlotKeeps, Went, Returns
  <1>3. CASE PublicationReceipt
    BY <1>3 DEF PublicationReceipt, SlotKeeps, Went, Returns
  <1>4. CASE PublicationDomain
    BY <1>4 DEF PublicationDomain, SlotKeeps, Went, Returns
  <1>5. CASE PublicationStored
    BY <1>5 DEF PublicationStored, SlotKeeps, Went, Returns
  <1>6. CASE PublicationThrows
    BY <1>6 DEF PublicationThrows, SlotKeeps, Went, Returns
  <1>7. CASE Republished
    BY <1>7 DEF Republished, SlotKeeps, Went, Returns
  <1>8. CASE Reobserved
    BY <1>8 DEF Reobserved, SlotKeeps, Went, Returns
  <1>9. CASE PublicationEnds
    BY <1>9 DEF PublicationEnds, Report
  <1>10. QED BY <1>1, <1>2, <1>3, <1>4, <1>5, <1>6, <1>7, <1>8, <1>9 DEF PublicationNext

\* The reader of a pair.
LEMMA CheckpointMoves ==
  ASSUME Phased, CheckpointNext
  PROVE  UNCHANGED <<configVars, worldVars>> /\ reader \in {"checkpoint"} /\ Phased'
  <1> USE DEF Phased, Readers, PhasesOf, configVars, worldVars, SnapshotPhases, ScanPhases, ReplayPhases, OriginalPhases, PublicationPhases, SlotPhases, CheckPhases, ActivationPhases, Reading
  <1>1. CASE CheckpointHeader
    BY <1>1 DEF CheckpointHeader, CheckpointKeeps, Refuse, Report
  <1>2. CASE Qualify
    BY <1>2 DEF Qualify, CheckpointKeeps, Refuse, Report
  <1>3. CASE Registration
    BY <1>3 DEF Registration, CheckpointKeeps, Refuse, Report
  <1>4. CASE RegistrationProfile
    BY <1>4 DEF RegistrationProfile, CheckpointKeeps, Refuse, Report
  <1>5. CASE UpgradePage
    BY <1>5 DEF UpgradePage, CheckpointKeeps, Refuse, Report
  <1>6. CASE CounterIsZero
    BY <1>6 DEF CounterIsZero, CheckpointKeeps, Refuse, Report
  <1>7. CASE CounterIsLast
    BY <1>7 DEF CounterIsLast, CheckpointKeeps, Refuse, Report
  <1>8. CASE PublicationPage
    BY <1>8 DEF PublicationPage, CheckpointKeeps, Refuse, Report
  <1>9. CASE NextSlot
    BY <1>9 DEF NextSlot, CheckpointKeeps, Refuse, Report
  <1>10. CASE SlotReceipt
    BY <1>10 DEF SlotReceipt, CheckpointKeeps, Refuse, Report
  <1>11. CASE SlotObserved
    BY <1>11 DEF SlotObserved, CheckpointKeeps, Refuse, Report
  <1>12. CASE CheckpointRecheck
    BY <1>12 DEF CheckpointRecheck, CheckpointKeeps, Refuse, Report
  <1>13. CASE CheckpointFails
    BY <1>13 DEF CheckpointFails, CheckpointKeeps, Refuse, Report
  <1>14. QED BY <1>1, <1>2, <1>3, <1>4, <1>5, <1>6, <1>7, <1>8, <1>9, <1>10, <1>11, <1>12, <1>13 DEF CheckpointNext

\* The reader that carries feedback forward.
LEMMA CarryMoves ==
  ASSUME Phased, CarryNext
  PROVE  UNCHANGED <<configVars, worldVars>> /\ reader \in {"carry"} /\ Phased'
  <1> USE DEF Phased, Readers, PhasesOf, configVars, worldVars, SnapshotPhases, ScanPhases, ReplayPhases, OriginalPhases, PublicationPhases, SlotPhases, CheckPhases, ActivationPhases, Reading
  <1>1. CASE OriginalHead
    BY <1>1 DEF OriginalHead, CarryKeeps, Conclude, Report, Went
  <1>2. CASE OriginalSnapshot
    BY <1>2 DEF OriginalSnapshot, CarryKeeps, Conclude, Report, Went
  <1>3. CASE OriginalFails
    BY <1>3 DEF OriginalFails, CarryKeeps, Conclude, Report, Went
  <1>4. CASE RecheckOriginal
    BY <1>4 DEF RecheckOriginal, CarryKeeps, Conclude, Report, Went
  <1>5. CASE Weigh
    BY <1>5 DEF Weigh, CarryKeeps, Conclude, Report, Went
  <1>6. CASE Compose
    BY <1>6 DEF Compose, CarryKeeps, Conclude, Report, Went
  <1>7. CASE ComposeFails
    BY <1>7 DEF ComposeFails, CarryKeeps, Conclude, Report, Went
  <1>8. QED BY <1>1, <1>2, <1>3, <1>4, <1>5, <1>6, <1>7 DEF CarryNext

\* The reader of an activation.
LEMMA ActivationMoves ==
  ASSUME Phased, ActivationNext
  PROVE  UNCHANGED <<configVars, worldVars>> /\ reader \in {"activation"} /\ Phased'
  <1> USE DEF Phased, Readers, PhasesOf, configVars, worldVars, SnapshotPhases, ScanPhases, ReplayPhases, OriginalPhases, PublicationPhases, SlotPhases, CheckPhases, ActivationPhases, Reading
  <1>1. CASE ActivationBases
    BY <1>1 DEF ActivationBases, ActivationKeeps, Keep, Report, Throw, Basis
  <1>2. CASE DeploymentBlock
    BY <1>2 DEF DeploymentBlock, ActivationKeeps, Keep, Report, Throw, Basis
  <1>3. CASE DeploymentRead
    BY <1>3 DEF DeploymentRead, ActivationKeeps, Keep, Report, Throw, Basis
  <1>4. CASE KnownImplementation
    BY <1>4 DEF KnownImplementation, ActivationKeeps, Keep, Report, Throw, Basis
  <1>5. CASE ChangesPage
    BY <1>5 DEF ChangesPage, ActivationKeeps, Keep, Report, Throw, Basis
  <1>6. CASE ChangeLog
    BY <1>6 DEF ChangeLog, ActivationKeeps, Keep, Report, Throw, Basis
  <1>7. CASE EveryBlock
    BY <1>7 DEF EveryBlock, ActivationKeeps, Keep, Report, Throw, Basis
  <1>8. CASE ActivationFails
    BY <1>8 DEF ActivationFails, ActivationKeeps, Keep, Report, Throw, Basis
  <1>9. QED BY <1>1, <1>2, <1>3, <1>4, <1>5, <1>6, <1>7, <1>8 DEF ActivationNext

\* A reorganization only replaces blocks, and readers read on.
LEMMA Reorganizing ==
  ASSUME WorldOK, Reorganize
  PROVE  /\ UNCHANGED <<reader, base, story, pc, noted, left, cursor, logs, got, verdict>>
         /\ common' \in 0..(common - 1) /\ common' \in Nat /\ common \in Nat
         /\ Current' => Current
         /\ \A h \in Int : h <= common' => h <= common
  <1>1. common \in Nat /\ base.high \in Nat
    BY RegistryAssumption DEF WorldOK, Blocks, Heights
  <1>2. /\ UNCHANGED <<reader, base, story, pc, noted, left, cursor, logs, got, verdict>>
        /\ common' \in 0..(common - 1)
    BY DEF Reorganize, configVars, readVars
  <1>3. QED BY <1>1, <1>2 DEF Current, Own

\* The chain and the reader: what is given stays so.
LEMMA WorldKeeps ==
  ASSUME WorldOK, Phased, ReaderNext
  PROVE  WorldOK' /\ Phased' /\ UNCHANGED <<reader, base, story>> /\ common' \in Nat /\ common' <= common
  <1>1. CASE Reorganize
    <2>1. common' \in 0..base'.high /\ common' \in Nat /\ common' <= common
      BY <1>1, Reorganizing, RegistryAssumption DEF WorldOK, Blocks, Heights
    <2>2. QED BY <1>1, <2>1, Reorganizing DEF WorldOK, Phased, Blocks, Heights
  <1>2. CASE UNCHANGED <<configVars, worldVars>> /\ Phased'
    <2>1. UNCHANGED <<reader, base, story, common>>
      BY <1>2 DEF configVars, worldVars
    <2>2. common \in Nat
      BY DEF WorldOK
    <2>3. QED BY <1>2, <2>1, <2>2 DEF WorldOK, Blocks, Heights
  <1>3. QED
    BY <1>1, <1>2, IdentityMoves, ObservationMoves, PublicationMoves, CheckpointMoves, CarryMoves, ActivationMoves
    DEF ReaderNext

--------------------------------------------------------------------------------
(* The interval: its bounds, its pages and logs, and what is looked at again. *)

ScanAt ==
  /\ WorldOK /\ Phased /\ reader \in {"authority", "epoch", "carry"}
  /\ ScanShape /\ Unscanned /\ Bounded /\ Scanned /\ Rechecked

\* The given blocks are heights.
LEMMA BlockFacts ==
  ASSUME WorldOK
  PROVE  /\ base.low \in Nat /\ base.mid \in Nat /\ base.high \in Nat
         /\ base.low \in Heights /\ base.mid \in Heights /\ base.high \in Heights
         /\ base.low > 0 /\ base.mid > 0 /\ base.low <= base.high /\ base.high <= Tip /\ common \in Nat
         /\ base.high > 0 /\ common <= base.high /\ Tip \in Nat /\ base.mid <= Tip
  BY RegistryAssumption DEF WorldOK, Blocks, Heights

\* The bounds, in order.
LEMMA BoundaryFacts ==
  ASSUME WorldOK
  PROVE  /\ Head(Boundaries) \in {base.low, base.high} /\ Boundaries # <<>> /\ Len(Boundaries) \in {1, 2}
         /\ Head(<<base.high>>) = base.high /\ Tail(<<base.high>>) = <<>> /\ <<base.high>> # <<>> /\ Len(<<base.high>>) = 1
         /\ Len(Boundaries) = 1 <=> base.low = base.high
         /\ base.low = base.high => Tail(Boundaries) = <<>> /\ Head(Boundaries) = base.high
         /\ base.low # base.high => Tail(Boundaries) = <<base.high>> /\ Head(Boundaries) = base.low
  BY BlockFacts DEF Boundaries

\* A block that is remembered leaves the others.
LEMMA RememberFacts ==
  ASSUME NEW h, IsASeq(noted), Remember(h), base' = base, WorldOK
  PROVE  /\ IsASeq(noted')
         /\ HighIn(noted) => HighIn(noted')
         /\ (\A i \in DOMAIN noted : noted[i].own = TRUE) /\ Own(h)
              => /\ \A i \in DOMAIN noted' : noted'[i].own = TRUE
                 /\ h = base.high => HighIn(noted')
  <1>1. CASE Noted(h)
    BY <1>1 DEF Remember, HighIn, Noted
  <1>2. CASE ~Noted(h)
    <2>1. PICK x : x = Header(h)
      OBVIOUS
    <2>2. noted' = Append(noted, x) /\ x.at = h /\ x.own = Own(h)
      BY <1>2, <2>1 DEF Remember, Header
    <2> DEFINE t == noted'
    <2>a. t = Append(noted, x)
      BY <2>2
    <2> HIDE DEF t
    <2>3. /\ IsASeq(t) /\ Len(t) \in DOMAIN t /\ t[Len(t)] = x
          /\ \A i \in DOMAIN noted : i \in DOMAIN t /\ t[i] = noted[i]
          /\ \A i \in DOMAIN t : i \in DOMAIN noted \/ i = Len(t)
      BY <2>a, AppendFacts
    <2>4. HighIn(noted) => HighIn(t)
      BY <2>3 DEF HighIn
    <2>5. Own(h) => x.own = TRUE
      BY <2>2 DEF Own
    <2>6. QED BY <2>2, <2>3, <2>4, <2>5 DEF HighIn, t
  <1>3. QED BY <1>1, <1>2

\* Before an interval is read, and after it was, nothing is said of it.
LEMMA ScanRests ==
  ASSUME ScanAt, WorldOK', Phased', IdentityFields \subseteq DOMAIN got', got'.failed \in BOOLEAN, IsASeq(noted'),
         got'.which \in {"basis", "current"},
         pc' \in SnapshotPhases \cup OriginalPhases \cup PublicationPhases \cup {"done", "carry", "compose"},
         pc' \in SnapshotPhases \cup OriginalPhases \cup PublicationPhases =>
           UNCHANGED <<noted, logs>> /\ pc \in SnapshotPhases \cup OriginalPhases \cup PublicationPhases
  PROVE  ScanInv'
  <1> USE DEF SnapshotPhases, OriginalPhases, PublicationPhases
  <1>1. ScanShape'
    BY DEF ScanShape
  <1>2. Unscanned'
    BY DEF Unscanned, ScanAt
  <1>3. Bounded' /\ Scanned' /\ Rechecked'
    BY DEF Bounded, Scanned, Rechecked
  <1>4. QED BY <1>1, <1>2, <1>3 DEF ScanInv

\* A finding is given.
LEMMA GiveFacts ==
  ASSUME NEW finding, Give(finding)
  PROVE  /\ DOMAIN got' = DOMAIN got /\ \A k \in DOMAIN got : k # "epoch" => got'[k] = got[k]
         /\ reader = "carry" => pc' = "carry" /\ verdict' = verdict /\ ("epoch" \in DOMAIN got => got'.epoch = finding)
         /\ reader # "carry" => pc' = "done" /\ verdict' = finding /\ got' = got
  BY DEF Give, Report

\* It ends the reading of the interval.
LEMMA GivingEndsScan ==
  ASSUME ScanAt, WorldOK', Phased', UNCHANGED noted, NEW finding, Give(finding)
  PROVE  ScanInv'
  <1>1. IdentityFields \subseteq DOMAIN got' /\ got'.failed \in BOOLEAN /\ got'.which \in {"basis", "current"}
        /\ IsASeq(noted') /\ pc' \in {"done", "carry"}
    BY GiveFacts DEF ScanAt, ScanShape, IdentityFields
  <1>2. QED BY <1>1, ScanRests DEF SnapshotPhases, OriginalPhases, PublicationPhases

\* A reorganization keeps what was read, and what it still says.
LEMMA ScanReorganized ==
  ASSUME ScanAt, Reorganize
  PROVE  ScanInv'
  <1>1. /\ UNCHANGED <<reader, base, story, pc, noted, left, cursor, logs, got, verdict>>
        /\ Current' => Current
    BY Reorganizing DEF ScanAt
  <1>2. ScanShape' /\ Unscanned'
    BY <1>1 DEF ScanAt, ScanShape, Unscanned
  <1>3. Bounded'
    BY <1>1 DEF ScanAt, Bounded, Boundaries, HighIn
  <1>4. Scanned'
    <2>1. Interval' = Interval
      BY <1>1 DEF Interval, Where
    <2>2. /\ Events(IntervalKinds, base.low + 1, base.high)' = Events(IntervalKinds, base.low + 1, base.high)
          /\ \A h : Event(h)' = Event(h)
      BY <1>1 DEF Events, Event, Where
    <2>3. NextPage' = NextPage /\ Waiting' = Waiting
      BY <1>1 DEF NextPage, PageEnd, Waiting
    <2>4. \A h : (Passed(cursor, h)' <=> Passed(cursor, h)) /\ (Passed(NextPage, h)' <=> Passed(NextPage, h))
      BY <1>1, <2>3 DEF Passed, PageEnd
    <2>5. QED BY <1>1, <2>1, <2>2, <2>3, <2>4 DEF ScanAt, Scanned, ScanTruth
  <1>5. Rechecked'
    BY <1>1 DEF ScanAt, Rechecked, Boundaries, HighIn, ScanTruth, Events, Event, Where
  <1>6. QED BY <1>2, <1>3, <1>4, <1>5 DEF ScanInv

\* The snapshots come before the interval.
LEMMA SnapshotsKeepScan ==
  ASSUME ScanAt, WorldOK', Phased', UNCHANGED <<configVars, worldVars>>, SnapshotHead \/ SnapshotRead \/ SnapshotGuard
  PROVE  ScanInv'
  <1>1. CASE SnapshotHead
    BY <1>1, ScanRests DEF SnapshotHead, ScanAt, ScanShape, SnapshotPhases, IdentityFields
  <1>2. CASE SnapshotRead
    BY <1>2, ScanRests DEF SnapshotRead, ScanAt, ScanShape, SnapshotPhases, IdentityFields
  <1>3. CASE SnapshotGuard
    <2>1. CASE Unknown
      BY <1>3, <2>1, GivingEndsScan DEF SnapshotGuard, Unknown
    <2>2. CASE got' = [got EXCEPT !.which = "current"] /\ pc' = "snapshot head"
      BY <1>3, <2>2, ScanRests DEF SnapshotGuard, ScanAt, ScanShape, SnapshotPhases, IdentityFields
    <2>3. CASE pc' = "bounds" /\ left' = Boundaries /\ UNCHANGED got
      <3>1. noted = <<>> /\ logs = {} /\ UNCHANGED <<noted, logs, base>>
        BY <1>3 DEF SnapshotGuard, ScanAt, Unscanned, SnapshotPhases, configVars
      <3>2. ScanShape' /\ Unscanned'
        BY <2>3, <3>1 DEF ScanAt, ScanShape, Unscanned, SnapshotPhases, OriginalPhases, PublicationPhases
      <3>3. Bounded'
        BY <2>3, <3>1 DEF Bounded, Boundaries
      <3>4. Scanned' /\ Rechecked'
        BY <2>3 DEF Scanned, Rechecked
      <3>5. QED BY <3>2, <3>3, <3>4 DEF ScanInv
    <2>4. QED BY <1>3, <2>1, <2>2, <2>3 DEF SnapshotGuard
  <1>4. QED BY <1>1, <1>2, <1>3

\* Both bounds are the given blocks when they are remembered.
LEMMA BoundsKeepScan ==
  ASSUME ScanAt, WorldOK', Phased', UNCHANGED <<configVars, worldVars>>, Bounds
  PROVE  ScanInv'
  <1>0. /\ pc = "bounds" /\ UNCHANGED <<base, story, common, cursor, logs>> /\ WorldOK /\ base.high \in Nat
        /\ IsASeq(noted) /\ logs = {} /\ (left = Boundaries \/ left = <<base.high>>)
        /\ \A i \in DOMAIN noted : noted[i].own = TRUE
    BY BlockFacts DEF Bounds, ScanAt, ScanShape, Bounded, configVars, worldVars
  <1>1. CASE ~Own(Head(left))
    BY <1>1, GivingEndsScan DEF Bounds, Unknown
  <1>2. CASE Own(Head(left))
    <2>1. /\ Remember(Head(left)) /\ UNCHANGED got
          /\ IF Len(left) = 1 THEN pc' = "implementation" /\ left' = Boundaries
             ELSE left' = Tail(left) /\ UNCHANGED pc
      BY <1>2 DEF Bounds
    <2>2. /\ IsASeq(noted') /\ \A i \in DOMAIN noted' : noted'[i].own = TRUE
          /\ Head(left) = base.high => HighIn(noted')
      BY <1>0, <1>2, <2>1, RememberFacts
    <2>3. pc' \in {"bounds", "implementation"}
      BY <1>0, <2>1
    <2>4. ScanShape' /\ Unscanned'
      BY <2>1, <2>2, <2>3 DEF ScanAt, ScanShape, Unscanned, SnapshotPhases, OriginalPhases, PublicationPhases
    <2>5. Scanned' /\ Rechecked'
      BY <2>3 DEF Scanned, Rechecked
    <2>6. CASE Len(left) = 1
      <3>1. Head(left) = base.high
        BY <1>0, <2>6, BoundaryFacts
      <3>2. HighIn(noted)' /\ Boundaries' = Boundaries /\ pc' = "implementation" /\ left' = Boundaries /\ logs' = {}
        BY <1>0, <2>1, <2>2, <2>6, <3>1 DEF HighIn, Boundaries
      <3>3. Bounded'
        BY <3>2 DEF Bounded
      <3>4. QED BY <2>4, <2>5, <3>3 DEF ScanInv
    <2>7. CASE Len(left) # 1
      <3>1. left' = <<base.high>> /\ pc' = "bounds"
        BY <1>0, <2>1, <2>7, BoundaryFacts
      <3>2. Bounded'
        BY <1>0, <2>2, <3>1 DEF Bounded
      <3>3. QED BY <2>4, <2>5, <3>2 DEF ScanInv
    <2>8. QED BY <2>6, <2>7
  <1>3. QED BY <1>1, <1>2

\* The implementation at the bounds; then the pages begin, with nothing passed.
LEMMA KnownAtKeepsScan ==
  ASSUME ScanAt, WorldOK', Phased', UNCHANGED <<configVars, worldVars>>, KnownAt
  PROVE  ScanInv'
  <1>0. /\ pc = "implementation" /\ UNCHANGED <<base, story, common, noted, logs>> /\ WorldOK
        /\ IsASeq(noted) /\ logs = {} /\ (left = Boundaries \/ left = <<base.high>>) /\ HighIn(noted)
        /\ IdentityFields \subseteq DOMAIN got /\ got.failed \in BOOLEAN /\ got.which \in {"basis", "current"}
    BY DEF KnownAt, ScanAt, ScanShape, Bounded, configVars, worldVars
  <1>1. CASE Unknown
    BY <1>0, <1>1, GivingEndsScan DEF Unknown
  <1>2. ASSUME NEW known, got' = [got EXCEPT !.known = known],
               cursor' = [start |-> base.low + 1, filter |-> 1], left' = <<>>, Head(left) = base.high,
               pc' = (IF base.low = base.high THEN "collected" ELSE "page")
        PROVE  ScanInv'
    <2>1. ScanShape' /\ HighIn(noted)'
      BY <1>0, <1>2, BlockFacts DEF ScanAt, ScanShape, HighIn
    <2>2. Unscanned' /\ Bounded' /\ Rechecked'
      BY <1>2, <2>1 DEF Unscanned, Bounded, Rechecked, SnapshotPhases, OriginalPhases, PublicationPhases
    <2>3. CASE base.low = base.high
      <3>1. Where(IntervalKinds, base.low + 1, base.high) = {}
        BY <2>3, BlockFacts, <1>0 DEF Where, Heights
      <3>2. Events(IntervalKinds, base.low + 1, base.high) = {}
        BY <3>1 DEF Events
      <3>3. ScanTruth'
        BY <1>0, <3>2 DEF ScanTruth, Events, Event, Where
      <3>4. QED BY <1>2, <2>1, <2>2, <2>3, <3>3 DEF Scanned, ScanInv
    <2>4. CASE base.low # base.high
      <3>1. \A h \in Interval : ~ (h < base.low + 1)
        BY <1>0, BlockFacts DEF Interval, Where, Heights
      <3>2. \A h \in Interval' : ~Passed(cursor, h)'
        BY <1>0, <1>2, <3>1 DEF Interval, Where, Passed
      <3>3. QED BY <1>0, <1>2, <2>1, <2>2, <2>4, <3>2 DEF Scanned, ScanInv
    <2>5. QED BY <2>3, <2>4
  <1>3. ASSUME NEW known, got' = [got EXCEPT !.known = known], left' = Tail(left), pc' = "implementation",
               Head(left) # base.high
        PROVE  ScanInv'
    <2>1. left' = <<base.high>>
      BY <1>0, <1>3, BoundaryFacts
    <2>2. ScanShape' /\ HighIn(noted)'
      BY <1>0, <1>3 DEF ScanAt, ScanShape, HighIn
    <2>3. Bounded' /\ Unscanned' /\ Scanned' /\ Rechecked'
      BY <1>0, <1>3, <2>1, <2>2 DEF Bounded, Unscanned, Scanned, Rechecked, SnapshotPhases, OriginalPhases, PublicationPhases
    <2>4. QED BY <2>2, <2>3 DEF ScanInv
  <1>4. QED BY <1>0, <1>1, <1>2, <1>3 DEF KnownAt

\* A failure ends the scan, and is kept.
LEMMA FailingKeepsScan ==
  ASSUME ScanAt, WorldOK', Phased', UNCHANGED <<configVars, worldVars>>, IsASeq(noted'), HighIn(noted) => HighIn(noted'),
         pc \in {"page", "log"}, got' = [got EXCEPT !.failed = TRUE], pc' = "collected"
  PROVE  ScanInv'
  <1>1. base' = base /\ got'.failed = TRUE /\ got'.which = got.which /\ got.which \in {"basis", "current"}
        /\ IdentityFields \subseteq DOMAIN got' /\ HighIn(noted)
    BY DEF ScanAt, ScanShape, Bounded, IdentityFields, configVars
  <1>2. ScanShape' /\ HighIn(noted)'
    BY <1>1 DEF ScanShape, HighIn
  <1>3. QED BY <1>1, <1>2 DEF ScanInv, Unscanned, Bounded, Scanned, Rechecked, SnapshotPhases, OriginalPhases, PublicationPhases

\* The pages before the next one are those before this one and this one.
LEMMA NextPagePasses ==
  ASSUME ScanAt, pc \in {"page", "log"}, NEW h \in Interval, Passed(NextPage, h)
  PROVE  Passed(cursor, h) \/ h \in Where(Filters[cursor.filter], cursor.start, PageEnd(cursor.start, base.high))
  <1>0. /\ cursor \in [start : Nat, filter : 1..3] /\ cursor.start <= base.high /\ base.high \in Nat
        /\ h \in Heights /\ h \in Int /\ h <= base.high /\ story[h] \in IntervalKinds
    BY BlockFacts DEF ScanAt, ScanShape, Interval, Where, Heights
  <1>1. PICK s, e : s = cursor.start /\ e = PageEnd(cursor.start, base.high)
    OBVIOUS
  <1>2. s \in Nat /\ e \in Nat /\ s <= e /\ e <= base.high
    BY <1>0, <1>1, PageEndFacts
  <1>3. Len(Filters) = 3
    BY DEF Filters
  <1>4. CASE cursor.filter < 3
    <2>1. NextPage = [cursor EXCEPT !.filter = cursor.filter + 1]
      BY <1>3, <1>4 DEF NextPage
    <2>2. NextPage.start = s /\ NextPage.filter = cursor.filter + 1
      BY <1>0, <1>1, <2>1
    <2>3. h < s \/ (h <= e /\ \E f \in 1..3 : f < cursor.filter + 1 /\ story[h] \in Filters[f])
      BY <1>1, <2>2 DEF Passed
    <2>4. CASE h < s
      BY <1>1, <2>4 DEF Passed
    <2>5. CASE ~(h < s)
      <3>1. PICK f \in 1..3 : f < cursor.filter + 1 /\ story[h] \in Filters[f]
        BY <2>3, <2>5
      <3>2. f < cursor.filter \/ f = cursor.filter
        BY <1>0, <3>1
      <3>3. s <= h /\ h <= e
        BY <1>0, <1>2, <2>3, <2>5
      <3>4. QED BY <1>0, <1>1, <3>1, <3>2, <3>3 DEF Passed, Where
    <2>6. QED BY <2>4, <2>5
  <1>5. CASE cursor.filter = 3
    <2>1. NextPage = [start |-> e + 1, filter |-> 1]
      BY <1>1, <1>3, <1>5 DEF NextPage
    <2>2. h < e + 1
      <3>1. \A f \in 1..3 : ~(f < 1)
        OBVIOUS
      <3>2. QED BY <2>1, <3>1 DEF Passed
    <2>3. CASE h < s
      BY <1>1, <2>3 DEF Passed
    <2>4. CASE ~(h < s)
      <3>1. PICK f \in 1..3 : story[h] \in Filters[f]
        BY <1>0 DEF IntervalKinds
      <3>2. f < 3 \/ f = 3
        BY <3>1
      <3>3. s <= h /\ h <= e
        BY <1>0, <1>2, <2>2, <2>4
      <3>4. QED BY <1>0, <1>1, <1>5, <3>1, <3>2, <3>3 DEF Passed, Where
    <2>5. QED BY <2>3, <2>4
  <1>6. QED BY <1>0, <1>4, <1>5

\* A page: of a node with the last block, it has what it should.
LEMMA PageKeepsScan ==
  ASSUME ScanAt, WorldOK', Phased', UNCHANGED <<configVars, worldVars>>, ScanPage
  PROVE  ScanInv'
  <1>0. /\ pc = "page" /\ UNCHANGED <<base, story, common, noted, cursor, logs>> /\ WorldOK
        /\ IsASeq(noted) /\ HighIn(noted) /\ IdentityFields \subseteq DOMAIN got /\ got.failed \in BOOLEAN
        /\ got.which \in {"basis", "current"}
        /\ cursor \in [start : Nat, filter : 1..3] /\ base.low < cursor.start /\ cursor.start <= base.high
    BY DEF ScanPage, ScanAt, ScanShape, Bounded, configVars, worldVars
  <1>1. PICK e : e = PageEnd(cursor.start, base.high)
    OBVIOUS
  <1>2. e \in Nat /\ cursor.start <= e /\ e <= base.high /\ base.high \in Nat /\ base.low \in Nat
    BY <1>0, <1>1, PageEndFacts, BlockFacts
  <1>3. PICK K : K = Filters[cursor.filter]
    OBVIOUS
  <1>4. K \subseteq IntervalKinds
    BY <1>0, <1>3 DEF IntervalKinds
  <1>5. PICK found \in Page(K, cursor.start, e) :
          IF Cardinality(logs) + Cardinality(found) > MaxLogs
          THEN got' = [got EXCEPT !.failed = TRUE] /\ pc' = "collected" /\ UNCHANGED left
          ELSE left' = InOrder(found) /\ pc' = "log" /\ UNCHANGED got
    BY <1>1, <1>3 DEF ScanPage
  <1>6. CASE Cardinality(logs) + Cardinality(found) > MaxLogs
    BY <1>0, <1>5, <1>6, FailingKeepsScan
  <1>7. CASE ~(Cardinality(logs) + Cardinality(found) > MaxLogs)
    <2>1. left' = InOrder(found) /\ pc' = "log" /\ UNCHANGED got
      BY <1>5, <1>7
    <2>2. ScanShape' /\ HighIn(noted)'
      BY <1>0, <2>1 DEF ScanShape, HighIn
    <2>3. Unscanned' /\ Bounded' /\ Rechecked'
      BY <2>1, <2>2 DEF Unscanned, Bounded, Rechecked, SnapshotPhases, OriginalPhases, PublicationPhases
    <2>4. ASSUME Current, ~got.failed
          PROVE  /\ IsASeq(left')
                 /\ logs \cup Waiting' \subseteq Events(IntervalKinds, base.low + 1, base.high)
                 /\ \A h \in Interval : Passed(NextPage, h) => Event(h) \in logs \cup Waiting'
      <3>1. Own(e) /\ common \in Nat
        BY <1>0, <1>2, <2>4, BlockFacts DEF Own, Current
      <3>2. found = Events(K, cursor.start, e)
        BY <1>0, <1>2, <3>1, PageIsTrue
      <3>3. IsASeq(left') /\ Waiting' = found
        <4>1. PICK q : q = InOrder(found)
          OBVIOUS
        <4>2. IsASeq(q) /\ {q[i] : i \in DOMAIN q} = found
          BY <3>2, <4>1, EventsFacts, InOrderFacts
        <4>3. QED BY <2>1, <4>1, <4>2 DEF Waiting
      <3>4. Where(K, cursor.start, e) \subseteq Where(IntervalKinds, base.low + 1, base.high)
        BY <1>0, <1>2, <1>4 DEF Where, Heights
      <3>5. found \subseteq Events(IntervalKinds, base.low + 1, base.high)
        BY <3>2, <3>4 DEF Events
      <3>6. /\ logs \subseteq Events(IntervalKinds, base.low + 1, base.high)
            /\ \A h \in Interval : Passed(cursor, h) => Event(h) \in logs
        BY <1>0, <2>4 DEF ScanAt, Scanned
      <3>7. ASSUME NEW h \in Interval, Passed(NextPage, h)
            PROVE  Event(h) \in logs \cup Waiting'
        <4>1. CASE Passed(cursor, h)
          BY <3>6, <3>7, <4>1
        <4>2. CASE h \in Where(K, cursor.start, e)
          BY <3>2, <3>3, <4>2 DEF Events
        <4>3. QED BY <1>0, <1>1, <1>3, <3>7, <4>1, <4>2, NextPagePasses
      <3>8. QED BY <3>3, <3>5, <3>6, <3>7
    <2>5. Scanned'
      <3>1. Interval' = Interval /\ NextPage' = NextPage /\ \A h : Event(h)' = Event(h)
        BY <1>0 DEF Interval, Where, NextPage, PageEnd, Event
      <3>2. Events(IntervalKinds, base.low + 1, base.high)' = Events(IntervalKinds, base.low + 1, base.high)
        BY <1>0 DEF Events, Where, Event
      <3>3. \A h : Passed(NextPage, h)' <=> Passed(NextPage, h)
        BY <1>0, <3>1 DEF Passed, PageEnd
      <3>4. Current' <=> Current
        BY <1>0 DEF Current, Own
      <3>5. QED BY <1>0, <2>1, <2>4, <3>1, <3>2, <3>3, <3>4 DEF Scanned
    <2>6. QED BY <2>2, <2>3, <2>5 DEF ScanInv
  <1>8. QED BY <1>6, <1>7

\* A log is accepted, or the page is done.
LEMMA LogKeepsScan ==
  ASSUME ScanAt, WorldOK', Phased', UNCHANGED <<configVars, worldVars>>, ScanLog
  PROVE  ScanInv'
  <1>0. /\ pc = "log" /\ UNCHANGED <<base, story, common>> /\ WorldOK
        /\ IsASeq(noted) /\ HighIn(noted) /\ IdentityFields \subseteq DOMAIN got /\ got.failed \in BOOLEAN
        /\ got.which \in {"basis", "current"}
        /\ cursor \in [start : Nat, filter : 1..3] /\ base.low < cursor.start /\ cursor.start <= base.high
        /\ base.high \in Nat /\ base.low \in Nat
    BY BlockFacts DEF ScanLog, ScanAt, ScanShape, Bounded, configVars, worldVars
  <1>s. /\ Interval' = Interval /\ \A h : Event(h)' = Event(h)
        /\ Events(IntervalKinds, base.low + 1, base.high)' = Events(IntervalKinds, base.low + 1, base.high)
        /\ Current' <=> Current
    BY <1>0 DEF Interval, Where, Event, Events, Current, Own
  <1>c. ASSUME Current, ~got.failed
        PROVE  /\ IsASeq(left)
               /\ logs \cup Waiting \subseteq Events(IntervalKinds, base.low + 1, base.high)
               /\ \A h \in Interval : Passed(NextPage, h) => Event(h) \in logs \cup Waiting
    BY <1>0, <1>c DEF ScanAt, Scanned
  <1>1. CASE left = <<>>
    <2>1. /\ cursor' = NextPage /\ UNCHANGED <<noted, left, logs, got>>
          /\ pc' = IF NextPage.start > base.high THEN "collected" ELSE "page"
      BY <1>1 DEF ScanLog
    <2>2. PICK s, e : s = cursor.start /\ e = PageEnd(cursor.start, base.high)
      OBVIOUS
    <2>3. s \in Nat /\ e \in Nat /\ s <= e /\ e <= base.high
      BY <1>0, <2>2, PageEndFacts
    <2>4. NextPage \in [start : Nat, filter : 1..3] /\ base.low < NextPage.start
      <3>1. Len(Filters) = 3
        BY DEF Filters
      <3>2. CASE cursor.filter < 3
        BY <1>0, <3>1, <3>2 DEF NextPage
      <3>3. CASE ~(cursor.filter < 3)
        <4>1. NextPage = [start |-> e + 1, filter |-> 1]
          BY <3>1, <3>3, <2>2 DEF NextPage
        <4>2. QED BY <1>0, <2>2, <2>3, <4>1
      <3>4. QED BY <3>2, <3>3
    <2>5. ScanShape' /\ HighIn(noted)'
      BY <1>0, <2>1, <2>4 DEF ScanShape, HighIn
    <2>6. Unscanned' /\ Bounded' /\ Rechecked'
      BY <2>1, <2>5 DEF Unscanned, Bounded, Rechecked, SnapshotPhases, OriginalPhases, PublicationPhases
    <2>7. Waiting = {}
      BY <1>1 DEF Waiting
    <2>8. \A h : Passed(cursor, h)' <=> Passed(NextPage, h)
      BY <1>0, <2>1 DEF Passed, PageEnd
    <2>9. ASSUME Current, ~got.failed, NextPage.start > base.high
          PROVE  ScanTruth
      <3>1. \A h \in Interval : Passed(NextPage, h)
        BY <1>0, <2>4, <2>9 DEF Passed, Interval, Where, Heights
      <3>2. \A h \in Interval : Event(h) \in logs
        BY <1>c, <2>7, <2>9, <3>1
      <3>3. Events(IntervalKinds, base.low + 1, base.high) \subseteq logs
        BY <3>2 DEF Events, Interval
      <3>4. QED BY <1>c, <2>9, <3>3 DEF ScanTruth
    <2>10. Scanned'
      <3>1. ScanTruth' <=> ScanTruth
        BY <1>s, <2>1 DEF ScanTruth
      <3>2. QED BY <1>s, <1>c, <2>1, <2>7, <2>8, <2>9, <3>1 DEF Scanned
    <2>11. QED BY <2>5, <2>6, <2>10 DEF ScanInv
  <1>2. CASE left # <<>>
    <2>1. /\ Remember(Head(left).at) /\ UNCHANGED cursor
          /\ \/ got' = [got EXCEPT !.failed = TRUE] /\ pc' = "collected" /\ UNCHANGED <<left, logs>>
             \/ logs' = logs \cup {Head(left)} /\ left' = Tail(left) /\ UNCHANGED <<got, pc>>
      BY <1>2 DEF ScanLog
    <2>2. IsASeq(noted') /\ HighIn(noted')
      BY <1>0, <2>1, RememberFacts
    <2>3. CASE got' = [got EXCEPT !.failed = TRUE] /\ pc' = "collected"
      BY <1>0, <2>2, <2>3, FailingKeepsScan
    <2>4. CASE logs' = logs \cup {Head(left)} /\ left' = Tail(left) /\ UNCHANGED <<got, pc>>
      <3>1. HighIn(noted)'
        BY <1>0, <2>2 DEF HighIn
      <3>2. ScanShape' /\ Unscanned' /\ Bounded' /\ Rechecked'
        BY <1>0, <2>1, <2>2, <2>4, <3>1
        DEF ScanShape, Unscanned, Bounded, Rechecked, SnapshotPhases, OriginalPhases, PublicationPhases
      <3>3. ASSUME Current, ~got.failed
            PROVE  IsASeq(left') /\ logs' \cup Waiting' = logs \cup Waiting
        <4>1. PICK t : t = Rest(left)
          OBVIOUS
        <4>2. /\ IsASeq(t) /\ Head(left) = left[1] /\ 1 \in DOMAIN left
              /\ \A i \in DOMAIN t : i + 1 \in DOMAIN left /\ t[i] = left[i + 1]
              /\ \A i \in DOMAIN left : i = 1 \/ (i - 1 \in DOMAIN t /\ t[i - 1] = left[i])
          BY <1>2, <1>c, <3>3, <4>1, TailFacts
        <4>3. Waiting' = {t[i] : i \in DOMAIN t}
          BY <2>4, <4>1 DEF Waiting, Rest
        <4>4. Waiting = {t[i] : i \in DOMAIN t} \cup {Head(left)}
          BY <4>2 DEF Waiting
        <4>5. QED BY <2>4, <4>1, <4>2, <4>3, <4>4 DEF Rest
      <3>4. NextPage' = NextPage
        BY <1>0, <2>1 DEF NextPage, PageEnd
      <3>5. \A h : Passed(NextPage, h)' <=> Passed(NextPage, h)
        BY <1>0, <3>4 DEF Passed, PageEnd
      <3>6. Scanned'
        BY <1>0, <1>s, <1>c, <2>4, <3>3, <3>4, <3>5 DEF Scanned
      <3>7. QED BY <3>2, <3>6 DEF ScanInv
    <2>5. QED BY <2>1, <2>3, <2>4
  <1>3. QED BY <1>1, <1>2

\* What was collected is kept until it was looked at again, when it is so.
LEMMA RecheckKeepsScan ==
  ASSUME ScanAt, WorldOK', Phased', UNCHANGED <<configVars, worldVars>>,
         ContinuityCollected \/ RecheckBoundaries \/ EpochCollected \/ EpochCurrent \/ EpochRecheck \/ IdentityReadFails
  PROVE  ScanInv'
  <1>0. /\ UNCHANGED <<base, story, common, noted, logs>> /\ WorldOK /\ IsASeq(noted)
        /\ IdentityFields \subseteq DOMAIN got /\ base.high \in Nat /\ got.failed \in BOOLEAN
        /\ got.which \in {"basis", "current"}
    BY BlockFacts DEF ScanAt, ScanShape, configVars, worldVars, ContinuityCollected, RecheckBoundaries, EpochCollected, EpochCurrent,
       EpochRecheck, IdentityReadFails
  <1>s. /\ Events(IntervalKinds, base.low + 1, base.high)' = Events(IntervalKinds, base.low + 1, base.high)
        /\ (Current' <=> Current) /\ Boundaries' = Boundaries
    BY <1>0 DEF Where, Event, Events, Current, Own, Boundaries
  <1>t. ScanTruth' <=> ScanTruth
    BY <1>0, <1>s DEF ScanTruth
  <1>h. HighIn(noted) => HighIn(noted)'
    BY <1>0 DEF HighIn
  <1>1. ASSUME NEW finding, Give(finding)
        PROVE  ScanInv'
    BY <1>0, <1>1, GivingEndsScan
  <1>q. ASSUME UNCHANGED got, pc' \in {"boundaries", "epoch current", "epoch recheck"},
               pc \in {"collected", "boundaries", "epoch current", "epoch recheck"},
               pc' = "epoch current" => HighIn(noted), Rechecked'
        PROVE  ScanInv'
    <2>1. ScanShape' /\ Unscanned' /\ Bounded'
      BY <1>0, <1>h, <1>q DEF ScanShape, Unscanned, Bounded, SnapshotPhases, OriginalPhases, PublicationPhases
    <2>2. Scanned'
      BY <1>0, <1>s, <1>t, <1>q DEF Scanned, ScanAt
    <2>3. QED BY <1>q, <2>1, <2>2 DEF ScanInv
  <1>2. CASE ContinuityCollected
    <2>1. CASE got.failed
      BY <1>1, <1>2, <2>1 DEF ContinuityCollected, Unknown
    <2>2. CASE ~got.failed
      <3>1. pc = "collected" /\ pc' = "boundaries" /\ left' = Boundaries /\ UNCHANGED got
        BY <1>2, <2>2 DEF ContinuityCollected
      <3>2. QED BY <1>0, <1>q, <1>s, <2>2, <3>1 DEF Rechecked
    <2>3. QED BY <2>1, <2>2
  <1>3. CASE RecheckBoundaries
    <2>0. pc = "boundaries" /\ ~got.failed /\ (left = Boundaries \/ left = <<base.high>> \/ (left = <<>> /\ ScanTruth))
      BY <1>3 DEF RecheckBoundaries, ScanAt, Rechecked
    <2>1. CASE left = <<>>
      BY <1>1, <1>3, <2>1 DEF RecheckBoundaries
    <2>2. CASE left # <<>> /\ ~Own(Head(left))
      BY <1>1, <1>3, <2>2 DEF RecheckBoundaries, Unknown
    <2>3. CASE left # <<>> /\ Own(Head(left))
      <3>1. left' = Tail(left) /\ UNCHANGED <<pc, got>>
        BY <1>3, <2>3 DEF RecheckBoundaries
      <3>2. CASE Head(left) = base.high
        <4>1. Current /\ Tail(left) = <<>>
          BY <1>0, <2>0, <2>3, <3>2, BoundaryFacts DEF Current
        <4>2. ScanTruth
          BY <2>0, <4>1 DEF ScanAt, Scanned
        <4>3. QED BY <1>0, <1>q, <1>t, <2>0, <3>1, <4>1, <4>2 DEF Rechecked
      <3>3. CASE Head(left) # base.high
        <4>1. Tail(left) = <<base.high>>
          BY <1>0, <2>0, <2>3, <3>3, BoundaryFacts
        <4>2. QED BY <1>0, <1>q, <2>0, <3>1, <4>1 DEF Rechecked
      <3>4. QED BY <3>2, <3>3
    <2>4. QED BY <2>1, <2>2, <2>3
  <1>4. CASE EpochCollected
    <2>1. CASE Own(base.low)
      <3>1. pc = "collected" /\ pc' = "epoch current" /\ UNCHANGED got /\ HighIn(noted)
        BY <1>4, <2>1 DEF EpochCollected, ScanAt, Bounded
      <3>2. QED BY <1>q, <3>1 DEF Rechecked
    <2>2. CASE ~Own(base.low)
      BY <1>1, <1>4, <2>2 DEF EpochCollected, Unknown
    <2>3. QED BY <2>1, <2>2
  <1>5. CASE EpochCurrent
    <2>1. CASE Unknown
      BY <1>1, <2>1 DEF Unknown
    <2>2. CASE left' = noted /\ pc' = "epoch recheck" /\ UNCHANGED <<got, verdict>>
      <3>1. pc = "epoch current" /\ HighIn(noted)
        BY <1>5 DEF EpochCurrent, ScanAt, Bounded
      <3>2. HighIn(left)'
        BY <1>0, <2>2, <3>1 DEF HighIn
      <3>3. QED BY <1>0, <1>q, <2>2, <3>1, <3>2 DEF Rechecked
    <2>3. QED BY <1>5, <2>1, <2>2 DEF EpochCurrent
  <1>6. CASE EpochRecheck
    <2>0. pc = "epoch recheck" /\ IsASeq(left) /\ (HighIn(left) \/ got.failed = TRUE \/ ScanTruth)
      BY <1>6 DEF EpochRecheck, ScanAt, Rechecked
    <2>1. CASE left = <<>>
      BY <1>1, <1>6, <2>1 DEF EpochRecheck
    <2>2. CASE left # <<>> /\ Own(Head(left).at) # Head(left).own
      BY <1>1, <1>6, <2>2 DEF EpochRecheck, Unknown
    <2>3. CASE left # <<>> /\ Own(Head(left).at) = Head(left).own
      <3>1. left' = Tail(left) /\ UNCHANGED <<pc, got>>
        BY <1>6, <2>3 DEF EpochRecheck
      <3>2. PICK t : t = Rest(left)
        OBVIOUS
      <3>a. IsASeq(left) /\ left # <<>>
        BY <2>0, <2>3
      <3>3. /\ IsASeq(t) /\ Head(left) = left[1] /\ 1 \in DOMAIN left
            /\ \A i \in DOMAIN left : i = 1 \/ (i - 1 \in DOMAIN t /\ t[i - 1] = left[i])
        BY <3>a, <3>2, TailFacts
      <3>4. HighIn(left) => HighIn(t) \/ Current
        <4>1. SUFFICES ASSUME NEW i \in DOMAIN left, left[i].at = base.high, left[i].own = TRUE
                       PROVE  HighIn(t) \/ Current
          BY DEF HighIn
        <4>2. CASE i = 1
          BY <2>3, <3>3, <4>1, <4>2 DEF Current
        <4>3. CASE i # 1
          BY <3>3, <4>1, <4>3 DEF HighIn
        <4>4. QED BY <4>2, <4>3
      <3>5. Current /\ ~got.failed => ScanTruth
        BY <2>0 DEF ScanAt, Scanned
      <3>6. HighIn(left)' <=> HighIn(t)
        BY <1>0, <3>1, <3>2 DEF HighIn, Rest
      <3>7. QED BY <1>0, <1>q, <1>t, <2>0, <3>1, <3>2, <3>3, <3>4, <3>5, <3>6 DEF Rechecked, Rest
    <2>4. QED BY <2>1, <2>2, <2>3
  <1>7. CASE IdentityReadFails
    BY <1>1, <1>7 DEF IdentityReadFails, Unknown
  <1>8. QED BY <1>2, <1>3, <1>4, <1>5, <1>6, <1>7

\* A publication is read before the interval, beside it.
LEMMA PublicationKeepsScan ==
  ASSUME ScanAt, WorldOK', Phased', UNCHANGED <<configVars, worldVars>>, PublicationNext
  PROVE  ScanInv'
  <1> DEFINE Quiet == /\ UNCHANGED <<noted, logs>> /\ IdentityFields \subseteq DOMAIN got' /\ got'.failed = got.failed
                      /\ got'.which \in {got.which, "current"} /\ pc \in PublicationPhases
                      /\ pc' \in PublicationPhases \cup {"recheck original", "done"}
  <1>1. IdentityFields \subseteq DOMAIN got /\ reader \in {"publication", "carry"}
    BY PublicationMoves DEF ScanAt, ScanShape
  <1>w. ASSUME NEW p \in PublicationPhases, NEW F, Went(p, F), SlotKeeps, pc \in PublicationPhases,
               DOMAIN F \subseteq {"which", "own", "sourceRead", "observedRead", "finding", "revocation"},
               "which" \in DOMAIN F => F.which = "current"
        PROVE  Quiet
    <2>1. pc' = p /\ UNCHANGED <<noted, logs>>
      BY <1>w, WentFacts DEF SlotKeeps
    <2>2. DOMAIN got' = DOMAIN F \cup DOMAIN got
      BY <1>w, WentFacts
    <2>3. got'.failed = got.failed
      BY <1>1, <1>w, WentFacts DEF IdentityFields
    <2>4. got'.which \in {got.which, "current"}
      BY <1>1, <1>w, WentFacts DEF IdentityFields
    <2>5. QED BY <1>1, <1>w, <2>1, <2>2, <2>3, <2>4
  <1>n. DOMAIN Nothing = {}
    BY DEF Nothing
  <1>2. ASSUME PublicationObserved PROVE Quiet
    BY <1>w, <1>n, <1>2 DEF PublicationObserved, PublicationPhases, Over
  <1>3. ASSUME PublicationSource PROVE Quiet
    BY <1>w, <1>n, <1>3 DEF PublicationSource, PublicationPhases, Returns
  <1>4. ASSUME PublicationReceipt PROVE Quiet
    BY <1>w, <1>n, <1>4 DEF PublicationReceipt, PublicationPhases, Returns
  <1>5. ASSUME PublicationDomain PROVE Quiet
    BY <1>w, <1>n, <1>5 DEF PublicationDomain, PublicationPhases, Returns
  <1>6. ASSUME PublicationStored PROVE Quiet
    BY <1>w, <1>n, <1>6 DEF PublicationStored, PublicationPhases, Returns
  <1>7. ASSUME PublicationThrows PROVE Quiet
    BY <1>w, <1>n, <1>7 DEF PublicationThrows, PublicationPhases, Returns
  <1>8. ASSUME Republished PROVE Quiet
    BY <1>w, <1>n, <1>8 DEF Republished, PublicationPhases
  <1>9. ASSUME Reobserved PROVE Quiet
    BY <1>w, <1>n, <1>9 DEF Reobserved, PublicationPhases, Failed
  <1>10. ASSUME PublicationEnds PROVE Quiet
    BY <1>1, <1>10 DEF PublicationEnds, Report, PublicationPhases, IdentityFields
  <1>11. Quiet
    BY <1>2, <1>3, <1>4, <1>5, <1>6, <1>7, <1>8, <1>9, <1>10 DEF PublicationNext
  <1>12. QED BY <1>11, ScanRests DEF ScanAt, ScanShape, OriginalPhases

\* And so is what is carried forward, until its epoch is read.
LEMMA CarryKeepsScan ==
  ASSUME ScanAt, WorldOK', Phased', UNCHANGED <<configVars, worldVars>>, CarryNext
  PROVE  ScanInv'
  <1>0. /\ reader = "carry" /\ IdentityFields \subseteq DOMAIN got /\ UNCHANGED <<base, noted, logs>> /\ IsASeq(noted)
        /\ got.failed \in BOOLEAN /\ got.which \in {"basis", "current"}
    BY CarryMoves DEF ScanAt, ScanShape, configVars, CarryNext, OriginalHead, OriginalSnapshot, OriginalFails,
       RecheckOriginal, Weigh, Compose, ComposeFails, CarryKeeps
  <1>1. ASSUME IdentityFields \subseteq DOMAIN got', got'.failed = got.failed, got'.which = got.which,
               \/ pc \in OriginalPhases /\ pc' \in OriginalPhases \cup PublicationPhases
               \/ pc' \in {"done", "carry", "compose"}
        PROVE  ScanInv'
    BY <1>0, <1>1, ScanRests DEF SnapshotPhases, OriginalPhases, PublicationPhases
  <1>2. CASE OriginalHead
    <2>1. /\ pc \in OriginalPhases /\ pc' \in OriginalPhases \cup PublicationPhases
          /\ IdentityFields \subseteq DOMAIN got' /\ got'.failed = got.failed /\ got'.which = got.which
      <3>1. CASE got.document = "absent" \/ Own(base.low)
        <4>1. Went(pc', Nothing) /\ pc = "original head" /\ pc' \in {"publication", "original snapshot"}
          BY <1>2, <3>1 DEF OriginalHead, Went
        <4>2. QED BY <1>0, <4>1, NothingFacts DEF IdentityFields, OriginalPhases, PublicationPhases
      <3>2. CASE ~(got.document = "absent" \/ Own(base.low))
        BY <1>0, <1>2, <3>2 DEF OriginalHead, Went, Over, OriginalPhases, PublicationPhases, IdentityFields
      <3>3. QED BY <3>1, <3>2
    <2>2. QED BY <1>1, <2>1
  <1>3. CASE OriginalSnapshot
    <2>1. /\ pc \in OriginalPhases /\ pc' \in OriginalPhases \cup PublicationPhases
          /\ IdentityFields \subseteq DOMAIN got' /\ got'.failed = got.failed /\ got'.which = got.which
      BY <1>0, <1>3 DEF OriginalSnapshot, Went, Over, Nothing, OriginalPhases, PublicationPhases, IdentityFields
    <2>2. QED BY <1>1, <2>1
  <1>4. CASE OriginalFails
    <2>1. /\ pc \in OriginalPhases /\ pc' \in OriginalPhases \cup PublicationPhases
          /\ IdentityFields \subseteq DOMAIN got' /\ got'.failed = got.failed /\ got'.which = got.which
      BY <1>0, <1>4 DEF OriginalFails, Went, Over, Nothing, OriginalPhases, PublicationPhases, IdentityFields
    <2>2. QED BY <1>1, <2>1
  <1>5. CASE RecheckOriginal
    <2>0. pc = "recheck original" /\ noted = <<>> /\ logs = {}
      BY <1>5 DEF RecheckOriginal, ScanAt, Unscanned, OriginalPhases
    <2>1. PICK status : \/ Conclude("unknown")
                        \/ Went("bounds", [authority |-> status]) /\ left' = Boundaries
      BY <1>5 DEF RecheckOriginal
    <2>2. CASE Conclude("unknown")
      BY <1>0, <1>1, <2>2 DEF Conclude, Report
    <2>3. CASE Went("bounds", [authority |-> status]) /\ left' = Boundaries
      <3>1. /\ pc' = "bounds" /\ IdentityFields \subseteq DOMAIN got' /\ got'.failed = got.failed
            /\ got'.which = got.which /\ noted' = <<>> /\ logs' = {} /\ Boundaries' = Boundaries
        BY <1>0, <2>0, <2>3 DEF Went, Over, IdentityFields, Boundaries
      <3>2. ScanShape' /\ Unscanned'
        BY <1>0, <3>1 DEF ScanShape, Unscanned, SnapshotPhases, OriginalPhases, PublicationPhases
      <3>3. Bounded' /\ Scanned' /\ Rechecked'
        BY <2>3, <3>1 DEF Bounded, Scanned, Rechecked
      <3>4. QED BY <3>2, <3>3 DEF ScanInv
    <2>4. QED BY <2>1, <2>2, <2>3
  <1>6. CASE Weigh
    <2>1. /\ pc' \in {"done", "compose"} /\ IdentityFields \subseteq DOMAIN got' /\ got'.failed = got.failed
          /\ got'.which = got.which
      BY <1>0, <1>6 DEF Weigh, Conclude, Report, Went, Over, Nothing, IdentityFields
    <2>2. QED BY <1>0, <1>1, <2>1
  <1>7. CASE Compose
    BY <1>0, <1>1, <1>7 DEF Compose, Conclude, Report
  <1>8. CASE ComposeFails
    BY <1>0, <1>1, <1>8 DEF ComposeFails, Conclude, Report
  <1>9. QED BY <1>2, <1>3, <1>4, <1>5, <1>6, <1>7, <1>8 DEF CarryNext

\* Every step keeps what is so of the interval.
LEMMA ScanKeeps ==
  ASSUME WorldOK, Phased, ScanInv, ReaderNext
  PROVE  ScanInv'
  <1>0. WorldOK' /\ Phased' /\ reader' = reader
    BY WorldKeeps
  <1>1. CASE reader \notin {"authority", "epoch", "carry"}
    BY <1>0, <1>1 DEF ScanInv
  <1>2. CASE reader \in {"authority", "epoch", "carry"}
    <2>1. ScanAt
      BY <1>2 DEF ScanAt, ScanInv
    <2>2. CASE Reorganize
      BY <2>1, <2>2, ScanReorganized
    <2>3. CASE IdentityNext
      <3>1. UNCHANGED <<configVars, worldVars>>
        BY <2>3, IdentityMoves
      <3>2. CASE SnapshotHead \/ SnapshotRead \/ SnapshotGuard
        BY <1>0, <2>1, <3>1, <3>2, SnapshotsKeepScan
      <3>3. CASE Bounds
        BY <1>0, <2>1, <3>1, <3>3, BoundsKeepScan
      <3>4. CASE KnownAt
        BY <1>0, <2>1, <3>1, <3>4, KnownAtKeepsScan
      <3>5. CASE ScanPage
        BY <1>0, <2>1, <3>1, <3>5, PageKeepsScan
      <3>6. CASE ScanLog
        BY <1>0, <2>1, <3>1, <3>6, LogKeepsScan
      <3>7. CASE ScanFails
        <4>1. /\ pc \in {"page", "log"} /\ UNCHANGED <<base, noted>> /\ got' = [got EXCEPT !.failed = TRUE]
              /\ pc' = "collected"
          BY <3>7 DEF ScanFails, configVars
        <4>2. IsASeq(noted') /\ (HighIn(noted) => HighIn(noted'))
          BY <2>1, <4>1 DEF ScanAt, ScanShape, HighIn
        <4>3. QED BY <1>0, <2>1, <3>1, <4>1, <4>2, FailingKeepsScan
      <3>8. CASE \/ ContinuityCollected \/ RecheckBoundaries \/ EpochCollected \/ EpochCurrent \/ EpochRecheck
                 \/ IdentityReadFails
        BY <1>0, <2>1, <3>1, <3>8, RecheckKeepsScan
      <3>9. QED BY <2>3, <3>2, <3>3, <3>4, <3>5, <3>6, <3>7, <3>8 DEF IdentityNext
    <2>4. CASE PublicationNext
      BY <1>0, <2>1, <2>4, PublicationMoves, PublicationKeepsScan
    <2>5. CASE CarryNext
      BY <1>0, <2>1, <2>5, CarryMoves, CarryKeepsScan
    <2>6. CASE ObservationNext \/ CheckpointNext \/ ActivationNext
      BY <1>2, <2>6, ObservationMoves, CheckpointMoves, ActivationMoves
    <2>7. QED BY <2>2, <2>3, <2>4, <2>5, <2>6 DEF ReaderNext
  <1>3. QED BY <1>1, <1>2

--------------------------------------------------------------------------------
(* The authority of a request. *)

\* What a block is does not change with the reads, nor with a reorganization.
LEMMA StoryStays ==
  ASSUME UNCHANGED <<base, story>>
  PROVE  /\ \A h : Authority(h)' = Authority(h) /\ (Known(h)' <=> Known(h)) /\ Counter(h)' = Counter(h)
         /\ \A s, h : Revoked(s, h)' <=> Revoked(s, h)
         /\ \A K, a, b : Where(K, a, b)' = Where(K, a, b) /\ Events(K, a, b)' = Events(K, a, b)
         /\ \A K : Between(K)' = Between(K)
  <1>1. ASSUME NEW K, NEW a, NEW b
        PROVE  Where(K, a, b)' = Where(K, a, b) /\ Events(K, a, b)' = Events(K, a, b)
    BY DEF Where, Events, Event
  <1>2. ASSUME NEW K, NEW h
        PROVE  AtMost(K, h)' = AtMost(K, h) /\ LastOf(K, h)' = LastOf(K, h)
    BY DEF AtMost, LastOf, Where
  <1>3. ASSUME NEW h
        PROVE  Authority(h)' = Authority(h) /\ (Known(h)' <=> Known(h)) /\ Counter(h)' = Counter(h)
    BY <1>2 DEF Authority, Known, Counter
  <1>4. ASSUME NEW s, NEW h
        PROVE  Revoked(s, h)' <=> Revoked(s, h)
    BY DEF Revoked, Where
  <1>5. ASSUME NEW K
        PROVE  Between(K)' = Between(K)
    BY DEF Between, Where
  <1>6. QED BY <1>1, <1>3, <1>4, <1>5

\* Without an event between two blocks the agent is the same at both.
LEMMA NothingBetween ==
  ASSUME WorldOK, Between(IntervalKinds) = {}
  PROVE  Authority(base.low) = Authority(base.high)
  <1>1. ASSUME NEW K, K \subseteq IntervalKinds
        PROVE  Where(K, 1, base.low) = Where(K, 1, base.high)
    BY <1>1, BlockFacts DEF Between, Where, Heights
  <1>2. Declarations \subseteq IntervalKinds /\ {"transfer"} \subseteq IntervalKinds
    <2>1. 1 \in 1..3 /\ 2 \in 1..3 /\ Filters[1] = Declarations /\ Filters[2] = {"transfer"}
      BY DEF Filters, Declarations
    <2>2. QED BY <2>1 DEF IntervalKinds
  <1>3. Where({"transfer"}, 1, base.low) = Where({"transfer"}, 1, base.high)
    BY <1>1, <1>2
  <1>4. Where(Declarations, 1, base.low) = Where(Declarations, 1, base.high)
    BY <1>1, <1>2
  <1> DEFINE Latest(s) == IF s = {} THEN 0 ELSE CHOOSE x \in s : \A y \in s : y <= x
  <1>5. \A h : LastOf(Declarations, h) = Latest(Where(Declarations, 1, h))
    BY DEF LastOf
  <1> HIDE DEF Latest
  <1>6. QED BY <1>3, <1>4, <1>5 DEF Authority, AtMost

\* The collected logs are none exactly when nothing happened.
LEMMA LogsAreEvents ==
  ASSUME ScanTruth, NEW K, K \subseteq IntervalKinds
  PROVE  /\ Of(K) = {} <=> Between(K) = {}
         /\ {l.at : l \in Of(K)} = Between(K)
         /\ logs = {} <=> Between(IntervalKinds) = {}
  <1>1. logs = {Event(h) : h \in Between(IntervalKinds)}
    BY DEF ScanTruth, Events, Between
  <1>2. \A h \in Between(IntervalKinds) : Event(h).at = h /\ Event(h).kind = story[h] /\ story[h] \in IntervalKinds
    BY DEF Event, Between, Where
  <1>3. \A h : h \in Between(K) <=> h \in Between(IntervalKinds) /\ story[h] \in K
    BY DEF Between, Where
  <1>4. \A h \in Between(K) : Event(h) \in Of(K) /\ Event(h).at = h
    BY <1>1, <1>2, <1>3 DEF Of
  <1>5. \A l \in Of(K) : l.at \in Between(K)
    BY <1>1, <1>2, <1>3 DEF Of
  <1>6. \A h : h \in {l.at : l \in Of(K)} <=> h \in Between(K)
    BY <1>4, <1>5
  <1>7. QED BY <1>1, <1>4, <1>5, <1>6

\* A finding of the authority is so when the interval was as collected.
LEMMA ContinuityIsTrue ==
  ASSUME WorldOK, ScanTruth, got.basis = Authority(base.low), got.current = Authority(base.high)
  PROVE  /\ Continuity.status = "unchanged" => Between(IntervalKinds) = {} /\ got.current = got.basis
         /\ Continuity.status = "changed" => Between(IntervalKinds) # {}
  <1>1. logs = {} <=> Between(IntervalKinds) = {}
    BY LogsAreEvents
  <1>2. Continuity.status \in {"unknown", "changed", "unchanged"}
    BY DEF Continuity
  <1>3. CASE Continuity.status = "unchanged"
    BY <1>1, <1>3 DEF Continuity
  <1>4. CASE Continuity.status = "changed"
    <2>1. logs # {} \/ got.basis # got.current
      BY <1>4 DEF Continuity
    <2>2. QED BY <1>1, <1>4, <2>1, NothingBetween
  <1>5. QED BY <1>2, <1>3, <1>4

\* The authority reader: every step keeps what is so of its snapshots and its finding.
LEMMA AuthorityKeeps ==
  ASSUME WorldOK, Phased, ScanInv, AuthorityInv, ReaderNext
  PROVE  AuthorityInv'
  <1>0. WorldOK' /\ Phased' /\ UNCHANGED <<reader, base, story>> /\ common' \in Nat /\ common' <= common /\ common \in Nat
    BY WorldKeeps, BlockFacts
  <1> SUFFICES ASSUME reader = "authority"
               PROVE  AuthorityInv'
    BY <1>0 DEF AuthorityInv
  <1>s. /\ \A h : Authority(h)' = Authority(h)
        /\ \A K : Between(K)' = Between(K)
    BY <1>0, StoryStays
  <1>a. /\ got.which \in {"basis", "current"} /\ DOMAIN got = IdentityFields
        /\ pc = "snapshot guard" /\ Own(SnapshotHeight) => got[got.which] = Authority(SnapshotHeight)
        /\ got.which = "current" => got.basis = Authority(base.low)
        /\ pc \in ScanPhases \cup {"boundaries"} => got.which = "current" /\ got.current = Authority(base.high)
        /\ AuthorityHolds
    BY DEF AuthorityInv
  <1>t. ScanAt
    BY DEF ScanInv, ScanAt
  <1>f. "which" \in DOMAIN got /\ "basis" \in DOMAIN got /\ "current" \in DOMAIN got
    BY <1>a DEF IdentityFields
  <1>1. CASE Reorganize
    <2>1. UNCHANGED <<pc, got, verdict>>
      BY <1>1, Reorganizing
    <2>2. SnapshotHeight' = SnapshotHeight /\ SnapshotHeight \in Nat
      BY <1>0, <2>1, BlockFacts DEF SnapshotHeight
    <2>3. Own(SnapshotHeight)' => Own(SnapshotHeight)
      BY <1>0, <2>2 DEF Own
    <2>4. AuthorityHolds'
      BY <1>0, <1>s, <1>a, <2>1 DEF AuthorityHolds
    <2>5. QED BY <1>0, <1>s, <1>a, <2>1, <2>2, <2>3, <2>4 DEF AuthorityInv
  <1>g. ASSUME NEW finding, Give(finding), finding.status \notin {"unchanged", "changed"}
        PROVE  AuthorityInv'
    <2>1. pc' = "done" /\ verdict' = finding /\ got' = got
      BY <1>g, GiveFacts
    <2>2. QED BY <1>0, <1>s, <1>a, <1>g, <2>1 DEF AuthorityInv, AuthorityHolds, ScanPhases
  <1>u. ASSUME Unknown PROVE AuthorityInv'
    BY <1>u, <1>g DEF Unknown
  <1>2. CASE SnapshotHead
    <2>1. /\ got' = [got EXCEPT !.own = Own(SnapshotHeight)] /\ pc' = "snapshot read"
      BY <1>2 DEF SnapshotHead
    <2>2. QED BY <1>0, <1>s, <1>a, <1>f, <2>1 DEF AuthorityInv, AuthorityHolds, ScanPhases
  <1>3. CASE SnapshotRead
    <2>1. PICK value \in Answers(SnapshotHeight, Authority(SnapshotHeight), {Authority(SnapshotHeight), SomeoneElse}) :
            got' = [got EXCEPT ![got.which] = value]
      BY <1>3 DEF SnapshotRead
    <2>2. pc' = "snapshot guard" /\ common' = common
      BY <1>3 DEF SnapshotRead, worldVars
    <2>3. Own(SnapshotHeight) => value = Authority(SnapshotHeight)
      BY <2>1 DEF Answers
    <2>4. /\ DOMAIN got' = DOMAIN got /\ got'.which = got.which /\ got'[got.which] = value
          /\ got.which = "current" => got'.basis = got.basis
      BY <1>a, <1>f, <2>1
    <2>5. SnapshotHeight' = SnapshotHeight /\ (Own(SnapshotHeight)' <=> Own(SnapshotHeight))
      BY <1>0, <2>2, <2>4 DEF SnapshotHeight, Own
    <2>6. QED BY <1>0, <1>s, <1>a, <2>2, <2>3, <2>4, <2>5 DEF AuthorityInv, AuthorityHolds, ScanPhases
  <1>4. CASE SnapshotGuard
    <2>1. CASE ~Own(SnapshotHeight)
      BY <1>4, <1>u, <2>1 DEF SnapshotGuard
    <2>2. CASE Own(SnapshotHeight) /\ got.which = "basis"
      <3>1. got.basis = Authority(base.low)
        BY <1>4, <1>a, <2>2 DEF SnapshotGuard, SnapshotHeight
      <3>2. got' = [got EXCEPT !.which = "current"] /\ pc' = "snapshot head"
        BY <1>4, <2>2 DEF SnapshotGuard
      <3>3. QED BY <1>0, <1>s, <1>a, <1>f, <3>1, <3>2 DEF AuthorityInv, AuthorityHolds, ScanPhases
    <2>3. CASE Own(SnapshotHeight) /\ got.which # "basis"
      <3>1. got.current = Authority(base.high)
        BY <1>4, <1>a, <2>3 DEF SnapshotGuard, SnapshotHeight
      <3>2. got' = got /\ pc' = "bounds"
        BY <1>4, <2>3 DEF SnapshotGuard
      <3>3. QED BY <1>0, <1>s, <1>a, <2>3, <3>1, <3>2 DEF AuthorityInv, AuthorityHolds
    <2>4. QED BY <2>1, <2>2, <2>3
  <1>5. ASSUME pc \in ScanPhases \cup {"boundaries"}, pc' \in ScanPhases \cup {"boundaries"},
               DOMAIN got' = DOMAIN got, got'.which = got.which, got'.basis = got.basis, got'.current = got.current
        PROVE  AuthorityInv'
    BY <1>0, <1>s, <1>a, <1>5 DEF AuthorityInv, AuthorityHolds, ScanPhases
  <1>6. CASE Bounds
    <2>1. CASE Own(Head(left))
      BY <1>5, <1>6, <2>1 DEF Bounds, ScanPhases
    <2>2. CASE ~Own(Head(left))
      BY <1>6, <1>u, <2>2 DEF Bounds
    <2>3. QED BY <2>1, <2>2
  <1>7. CASE KnownAt
    <2>1. CASE Unknown
      BY <1>u, <2>1
    <2>2. ASSUME NEW known, got' = [got EXCEPT !.known = known], pc' \in {"collected", "page", "implementation"}
          PROVE  AuthorityInv'
      BY <1>5, <1>7, <1>f, <2>2 DEF KnownAt, ScanPhases
    <2>3. QED BY <1>7, <2>1, <2>2 DEF KnownAt
  <1>8. CASE ScanPage \/ ScanLog \/ ScanFails
    <2>1. /\ pc \in {"page", "log"} /\ pc' \in {"page", "log", "collected"}
          /\ UNCHANGED got \/ got' = [got EXCEPT !.failed = TRUE]
      BY <1>8 DEF ScanPage, ScanLog, ScanFails
    <2>2. QED BY <1>5, <1>f, <2>1 DEF ScanPhases
  <1>9. CASE ContinuityCollected
    <2>1. CASE got.failed
      BY <1>9, <1>u, <2>1 DEF ContinuityCollected
    <2>2. CASE ~got.failed
      BY <1>5, <1>9, <2>2 DEF ContinuityCollected, ScanPhases
    <2>3. QED BY <2>1, <2>2
  <1>10. CASE RecheckBoundaries
    <2>1. CASE left = <<>>
      <3>1. Give(Continuity) /\ pc = "boundaries"
        BY <1>10, <2>1 DEF RecheckBoundaries
      <3>2. pc' = "done" /\ verdict' = Continuity /\ got' = got
        BY <3>1, GiveFacts
      <3>3. ScanTruth
        BY <1>t, <2>1, <3>1, BoundaryFacts DEF ScanAt, Rechecked
      <3>4. got.which = "current" /\ got.current = Authority(base.high) /\ got.basis = Authority(base.low)
        BY <1>a, <3>1
      <3>5. /\ verdict'.status = "unchanged" => Between(IntervalKinds) = {} /\ got.current = got.basis
            /\ verdict'.status = "changed" => Between(IntervalKinds) # {}
        BY <3>2, <3>3, <3>4, ContinuityIsTrue
      <3>6. AuthorityHolds'
        BY <1>0, <1>s, <3>2, <3>4, <3>5 DEF AuthorityHolds
      <3>7. QED BY <1>0, <1>s, <1>a, <3>2, <3>4, <3>6 DEF AuthorityInv, ScanPhases
    <2>2. CASE left # <<>> /\ ~Own(Head(left))
      BY <1>10, <1>u, <2>2 DEF RecheckBoundaries
    <2>3. CASE left # <<>> /\ Own(Head(left))
      BY <1>5, <1>10, <2>3 DEF RecheckBoundaries
    <2>4. QED BY <2>1, <2>2, <2>3
  <1>11. CASE IdentityReadFails
    BY <1>11, <1>u DEF IdentityReadFails
  <1>12. CASE EpochCollected \/ EpochCurrent \/ EpochRecheck
    <2>1. pc \notin PhasesOf("authority") \/ reader # "authority"
      BY <1>12 DEF EpochCollected, EpochCurrent, EpochRecheck, PhasesOf, SnapshotPhases, ScanPhases
    <2>2. QED BY <2>1 DEF Phased
  <1>13. IdentityNext \/ Reorganize
    BY ObservationMoves, PublicationMoves, CheckpointMoves, CarryMoves, ActivationMoves DEF ReaderNext
  <1>14. QED BY <1>13, <1>1, <1>2, <1>3, <1>4, <1>6, <1>7, <1>8, <1>9, <1>10, <1>11, <1>12 DEF IdentityNext

--------------------------------------------------------------------------------
(* The epoch of an agent. *)

\* What a reader has read it keeps, or reads again.
LEMMA FieldsStay ==
  ASSUME ReaderNext
  PROVE  DOMAIN got \subseteq DOMAIN got'
  <1>w. ASSUME NEW p, NEW F, Went(p, F)
        PROVE  DOMAIN got \subseteq DOMAIN got'
    BY <1>w, WentFacts
  <1>g. ASSUME NEW finding, Give(finding)
        PROVE  DOMAIN got \subseteq DOMAIN got'
    BY <1>g, GiveFacts
  <1>1. CASE Reorganize
    BY <1>1 DEF Reorganize, readVars
  <1>2. CASE IdentityNext
    <2>1. CASE SnapshotHead \/ SnapshotRead \/ ScanPage \/ ScanLog \/ ScanFails
      BY <2>1 DEF SnapshotHead, SnapshotRead, ScanPage, ScanLog, ScanFails
    <2>2. CASE SnapshotGuard \/ Bounds \/ KnownAt
      BY <1>g, <2>2 DEF SnapshotGuard, Bounds, KnownAt, Unknown
    <2>3. CASE ContinuityCollected \/ RecheckBoundaries \/ EpochCollected \/ EpochCurrent \/ EpochRecheck \/ IdentityReadFails
      BY <1>g, <2>3 DEF ContinuityCollected, RecheckBoundaries, EpochCollected, EpochCurrent, EpochRecheck,
         IdentityReadFails, Unknown
    <2>4. QED BY <1>2, <2>1, <2>2, <2>3 DEF IdentityNext
  <1>3. CASE ObservationNext
    BY <1>w, <1>3 DEF ObservationNext, ObserveSource, ObserveBasis, ObserveReceipt, ObserveLink, ObserveCounter,
       ObserveStorage, AgainSource, AgainObserved, SlotReadFails, SlotEnds, ReadFailed
  <1>4. CASE PublicationNext
    BY <1>w, <1>4 DEF PublicationNext, PublicationObserved, PublicationSource, PublicationReceipt, PublicationDomain,
       PublicationStored, PublicationThrows, Republished, Reobserved, PublicationEnds, Returns
  <1>5. CASE CheckpointNext
    <2>1. CASE CheckpointHeader \/ Qualify \/ Registration \/ RegistrationProfile \/ UpgradePage \/ CounterIsZero
      BY <2>1 DEF CheckpointHeader, Qualify, Registration, RegistrationProfile, UpgradePage, CounterIsZero, Refuse
    <2>2. CASE CounterIsLast \/ PublicationPage \/ NextSlot \/ CheckpointRecheck \/ CheckpointFails
      BY <2>2 DEF CounterIsLast, PublicationPage, NextSlot, CheckpointRecheck, CheckpointFails, Refuse
    <2>3. CASE SlotReceipt
      <3>1. CASE UNCHANGED got
        BY <3>1
      <3>2. CASE got' = Over([SlotGot EXCEPT !.which = "current", !.slotOwn = Head(left).own],
                             [got EXCEPT !.slot = Head(left).at, !.nth = @ + 1])
        <4>1. PICK f : f = [SlotGot EXCEPT !.which = "current", !.slotOwn = Head(left).own]
          OBVIOUS
        <4>2. PICK g : g = [got EXCEPT !.slot = Head(left).at, !.nth = @ + 1]
          OBVIOUS
        <4>3. got' = Over(f, g) /\ DOMAIN g = DOMAIN got
          BY <3>2, <4>1, <4>2
        <4>4. QED BY <4>3, OverFacts
      <3>3. QED BY <2>3, <3>1, <3>2 DEF SlotReceipt, Refuse
    <2>4. CASE SlotObserved
      BY <2>4 DEF SlotObserved, Refuse
    <2>5. QED BY <1>5, <2>1, <2>2, <2>3, <2>4 DEF CheckpointNext
  <1>6. CASE CarryNext
    BY <1>w, <1>6 DEF CarryNext, OriginalHead, OriginalSnapshot, OriginalFails, RecheckOriginal, Weigh, Compose,
       ComposeFails, Conclude
  <1>7. CASE ActivationNext
    <2>1. CASE ActivationBases \/ DeploymentBlock \/ DeploymentRead \/ KnownImplementation
      BY <2>1 DEF ActivationBases, DeploymentBlock, DeploymentRead, KnownImplementation, Basis, Throw, Fault
    <2>2. CASE ChangesPage \/ ChangeLog \/ EveryBlock \/ ActivationFails
      BY <2>2 DEF ChangesPage, ChangeLog, EveryBlock, ActivationFails, Basis, Throw, Fault
    <2>3. QED BY <1>7, <2>1, <2>2 DEF ActivationNext
  <1>8. QED BY <1>1, <1>2, <1>3, <1>4, <1>5, <1>6, <1>7 DEF ReaderNext

\* Every identity reader ends by giving a finding: unknown, or of what it collected.
LEMMA IdentityEnds ==
  ASSUME IdentityNext, Phased, reader # "authority", pc' \in {"done", "carry"}
  PROVE  Give([status |-> "unknown"]) \/ (pc = "epoch recheck" /\ left = <<>> /\ Give(Epoch))
  <1> USE DEF Unknown
  <1>1. CASE SnapshotHead \/ SnapshotRead \/ SnapshotGuard
    BY <1>1 DEF SnapshotHead, SnapshotRead, SnapshotGuard
  <1>2. CASE Bounds
    BY <1>2 DEF Bounds
  <1>3. CASE KnownAt
    BY <1>3 DEF KnownAt
  <1>4. CASE ScanPage \/ ScanLog \/ ScanFails
    BY <1>4 DEF ScanPage, ScanLog, ScanFails
  <1>5. CASE ContinuityCollected \/ RecheckBoundaries
    <2>1. pc \notin PhasesOf(reader) \/ reader = "authority"
      BY <1>5 DEF ContinuityCollected, RecheckBoundaries, Phased, Readers, PhasesOf, SnapshotPhases, ScanPhases,
         ReplayPhases, OriginalPhases, PublicationPhases, SlotPhases, CheckPhases, ActivationPhases, Reading
    <2>2. QED BY <2>1 DEF Phased
  <1>6. CASE EpochCollected \/ EpochCurrent
    BY <1>6 DEF EpochCollected, EpochCurrent
  <1>7. CASE EpochRecheck
    BY <1>7 DEF EpochRecheck
  <1>8. CASE IdentityReadFails
    BY <1>8 DEF IdentityReadFails
  <1>9. QED BY <1>1, <1>2, <1>3, <1>4, <1>5, <1>6, <1>7, <1>8 DEF IdentityNext

\* An epoch of the events that happened says what happened.
LEMMA EpochIsTrue ==
  ASSUME got.failed \in BOOLEAN, got.failed = TRUE \/ ScanTruth
  PROVE  EpochTruth(Epoch)
  <1>1. SUFFICES ASSUME ScanTruth, ~got.failed PROVE EpochTruth(Epoch)
    BY DEF EpochTruth, Epoch
  <1>2. /\ Upgrades \subseteq IntervalKinds /\ Breaks \subseteq IntervalKinds
        /\ {"transfer"} \subseteq IntervalKinds /\ {"deauthorize"} \subseteq IntervalKinds /\ {"runtime"} \subseteq IntervalKinds
    <2>1. 1 \in 1..3 /\ 2 \in 1..3 /\ 3 \in 1..3
      OBVIOUS
    <2>2. Filters[1] = {"uri", "runtime", "deauthorize"} /\ Filters[2] = {"transfer"} /\ Filters[3] = {"upgrade", "restore"}
      BY DEF Filters
    <2>3. Filters[1] \cup Filters[2] \cup Filters[3] \subseteq IntervalKinds
      BY <2>1 DEF IntervalKinds
    <2>4. QED BY <2>2, <2>3 DEF Upgrades, Breaks
  <1>3. Of(Upgrades) = {} <=> Between(Upgrades) = {}
    BY <1>1, <1>2, LogsAreEvents
  <1>4. (Of(Breaks) = {} <=> Between(Breaks) = {}) /\ At(Breaks) = Between(Breaks)
    BY <1>1, <1>2, LogsAreEvents DEF At
  <1>5. Of({"transfer"}) = {} <=> Between({"transfer"}) = {}
    BY <1>1, <1>2, LogsAreEvents
  <1>6. Of({"deauthorize"}) = {} <=> Between({"deauthorize"}) = {}
    BY <1>1, <1>2, LogsAreEvents
  <1>7. At({"runtime"}) = Between({"runtime"})
    BY <1>1, <1>2, LogsAreEvents DEF At
  <1> HIDE DEF Of, At, Between, FirstAt, Upgrades, Breaks, ScanTruth
  <1>8. CASE ~got.known \/ Of(Upgrades) # {}
    BY <1>8 DEF EpochTruth, Epoch
  <1>9. CASE ~(~got.known \/ Of(Upgrades) # {})
    <2>1. Epoch = [status |-> IF Of(Breaks) = {} THEN "same" ELSE "retired",
                   transferred |-> Of({"transfer"}) # {}, deauthorized |-> Of({"deauthorize"}) # {},
                   retirement |-> FirstAt(At({"runtime"})), firstBreak |-> FirstAt(At(Breaks))]
      BY <1>1, <1>9 DEF Epoch
    <2>2. /\ (Epoch.status = "same") = (Between(Breaks) = {})
          /\ Epoch.transferred = (Between({"transfer"}) # {})
          /\ Epoch.deauthorized = (Between({"deauthorize"}) # {})
      BY <1>4, <1>5, <1>6, <2>1
    <2>3. /\ Epoch.retirement = FirstAt(Between({"runtime"}))
          /\ Epoch.firstBreak = FirstAt(Between(Breaks))
      BY <1>4, <1>7, <2>1
    <2>4. QED BY <1>3, <1>9, <2>2, <2>3 DEF EpochTruth
  <1>10. QED BY <1>8, <1>9

\* The epoch reader: every step keeps what is so of its finding.
LEMMA EpochKeeps ==
  ASSUME WorldOK, Phased, ScanInv, EpochInv, ReaderNext
  PROVE  EpochInv'
  <1>0. WorldOK' /\ Phased' /\ UNCHANGED <<reader, base, story>>
    BY WorldKeeps
  <1>1. \A e : EpochTruth(e)' <=> EpochTruth(e)
    <2>1. \A K : Between(K)' = Between(K)
      BY <1>0, StoryStays
    <2>2. QED BY <2>1 DEF EpochTruth
  <1>2. reader = "carry" => "epoch" \in DOMAIN got /\ "epoch" \in DOMAIN got'
    BY FieldsStay DEF EpochInv
  <1> SUFFICES ASSUME reader \in {"epoch", "carry"}
               PROVE  EpochInv'
    BY <1>0 DEF EpochInv
  <1>3. ASSUME NEW finding, Give(finding), EpochTruth(finding)
        PROVE  EpochInv'
    <2>1. CASE reader = "carry"
      BY <1>0, <1>1, <1>2, <1>3, <2>1, GiveFacts DEF EpochInv
    <2>2. CASE reader = "epoch"
      BY <1>0, <1>1, <1>3, <2>2, GiveFacts DEF EpochInv
    <2>3. QED BY <2>1, <2>2
  <1>4. CASE Reorganize
    BY <1>0, <1>1, <1>4, Reorganizing DEF EpochInv
  <1>5. CASE IdentityNext
    <2>1. CASE pc' \in {"done", "carry"}
      <3>1. CASE Give([status |-> "unknown"])
        BY <1>3, <3>1 DEF EpochTruth
      <3>2. CASE pc = "epoch recheck" /\ left = <<>> /\ Give(Epoch)
        <4>1. got.failed \in BOOLEAN /\ (got.failed = TRUE \/ ScanTruth)
          <5>1. ~HighIn(left)
            <6>1. left = <<>>
              BY <3>2
            <6>2. DOMAIN left = {}
              BY <6>1
            <6>3. QED BY <6>2 DEF HighIn
          <5>2. QED BY <3>2, <5>1 DEF ScanInv, ScanShape, Rechecked
        <4>2. QED BY <1>3, <3>2, <4>1, EpochIsTrue
      <3>3. QED BY <1>5, <2>1, <3>1, <3>2, IdentityEnds
    <2>2. CASE pc' \notin {"done", "carry"}
      <3>1. pc' # "compose"
        BY <1>5, <2>2 DEF IdentityNext, SnapshotHead, SnapshotRead, SnapshotGuard, Bounds, KnownAt, ScanPage, ScanLog,
           ScanFails, ContinuityCollected, RecheckBoundaries, EpochCollected, EpochCurrent, EpochRecheck,
           IdentityReadFails, Unknown, Give, Report
      <3>2. QED BY <1>0, <1>2, <2>2, <3>1 DEF EpochInv
    <2>3. QED BY <2>1, <2>2
  <1>6. CASE PublicationNext
    <2>1. reader = "carry"
      BY <1>6, PublicationMoves
    <2>2. pc' \notin {"carry", "compose"}
      <3>1. ASSUME NEW p, NEW F, Went(p, F)
            PROVE  pc' = p
        BY <3>1 DEF Went
      <3>2. QED
        BY <1>6, <2>1, <3>1 DEF PublicationNext, PublicationObserved, PublicationSource, PublicationReceipt, PublicationDomain,
           PublicationStored, PublicationThrows, Republished, Reobserved, PublicationEnds, Returns
    <2>3. QED BY <1>0, <1>2, <2>1, <2>2 DEF EpochInv
  <1>7. CASE CarryNext
    <2>1. reader = "carry"
      BY <1>7, CarryMoves
    <2>2. CASE pc' \in {"carry", "compose"}
      <3>1. pc \in {"carry", "compose"} /\ (Went("compose", Nothing) \/ UNCHANGED got)
        BY <1>7, <2>2 DEF CarryNext, OriginalHead, OriginalSnapshot, OriginalFails, RecheckOriginal, Weigh, Compose,
           ComposeFails, Conclude, Report, Went
      <3>2. got'.epoch = got.epoch
        BY <1>2, <2>1, <3>1, NothingFacts
      <3>3. QED BY <1>0, <1>1, <1>2, <2>1, <2>2, <3>1, <3>2 DEF EpochInv
    <2>3. QED BY <1>0, <1>2, <2>1, <2>2 DEF EpochInv
  <1>8. QED
    BY <1>4, <1>5, <1>6, <1>7, ObservationMoves, CheckpointMoves, ActivationMoves DEF ReaderNext

--------------------------------------------------------------------------------
(* The slot of a publication, observed at a given block. *)

\* What is asked of a slot stays.
SlotStays ==
  /\ UNCHANGED <<reader, base, story, common>>
  /\ got'.document = got.document /\ got'.slotOwn = got.slotOwn
  /\ reader = "checkpoint" => got'.slot = got.slot /\ got'.nth = got.nth /\ got'.last = got.last

\* What is asked of the same slot, on the same chain, has the same answer.
LEMMA SlotStaysFacts ==
  ASSUME SlotStays
  PROVE  /\ Source' = Source /\ Observation' = Observation /\ (Current' <=> Current)
         /\ \A h : (Own(h)' <=> Own(h)) /\ (Known(h)' <=> Known(h)) /\ Counter(h)' = Counter(h)
         /\ \A f, r : (Matching(f, r)' <=> Matching(f, r)) /\ (Orphaning(f)' <=> Orphaning(f))
         /\ \A p, s, o, f, r : SlotAt(p, s, o, f, r)' <=> SlotAt(p, s, o, f, r)
         /\ \A p, w, s, o, f, r : PublicationAt(p, w, s, o, f, r)' <=> PublicationAt(p, w, s, o, f, r)
  <1>1. /\ \A h : Authority(h)' = Authority(h) /\ (Known(h)' <=> Known(h)) /\ Counter(h)' = Counter(h)
        /\ \A s, h : Revoked(s, h)' <=> Revoked(s, h)
    BY StoryStays DEF SlotStays
  <1>2. \A h : Own(h)' <=> Own(h)
    BY DEF SlotStays, Own
  <1>3. Source' = Source /\ Observation' = Observation /\ (Current' <=> Current)
    BY DEF SlotStays, Source, Observation, Current, Own
  <1>4. Published' <=> Published
    BY <1>1, <1>3 DEF SlotStays, Published
  <1>5. \A r : RevocationIs(r)' <=> RevocationIs(r)
    BY <1>3, <1>4 DEF RevocationIs, Revoked, Where, SlotStays
  <1>6. \A f, r : Matching(f, r)' <=> Matching(f, r)
    BY <1>4, <1>5 DEF Matching, SlotStays
  <1>7. \A f : Orphaning(f)' <=> Orphaning(f)
    BY <1>2, <1>3 DEF Orphaning, SlotStays
  <1> HIDE DEF Matching, Orphaning, Own, Known, Current, Published, RevocationIs, Source, Observation
  <1>8. ASSUME NEW p, NEW s, NEW o, NEW f, NEW r
        PROVE  SlotAt(p, s, o, f, r)' <=> SlotAt(p, s, o, f, r)
    BY <1>1, <1>3, <1>6, <1>7 DEF SlotAt, SlotStays, SlotPhases, BeforeStorage, Silent
  <1>9. ASSUME NEW p, NEW w, NEW s, NEW o, NEW f, NEW r
        PROVE  PublicationAt(p, w, s, o, f, r)' <=> PublicationAt(p, w, s, o, f, r)
    BY <1>1, <1>2, <1>3, <1>6, <1>7 DEF PublicationAt, SlotStays, PublicationPhases, ScanPhases, ReplayPhases
  <1>10. QED BY <1>1, <1>2, <1>3, <1>6, <1>7, <1>8, <1>9

\* What a step reads anew of a slot, and what it keeps.
LEMMA SlotWent ==
  ASSUME NEW p, NEW F, Went(p, F), SlotKeeps, SlotFields \subseteq DOMAIN got,
         reader = "checkpoint" => {"slot", "nth", "last"} \subseteq DOMAIN got,
         DOMAIN F \cap {"document", "slotOwn", "slot", "nth", "last"} = {}
  PROVE  /\ pc' = p /\ SlotFields \subseteq DOMAIN got' /\ SlotStays
         /\ got'.sourceRead = IF "sourceRead" \in DOMAIN F THEN F.sourceRead ELSE got.sourceRead
         /\ got'.observedRead = IF "observedRead" \in DOMAIN F THEN F.observedRead ELSE got.observedRead
         /\ got'.finding = IF "finding" \in DOMAIN F THEN F.finding ELSE got.finding
         /\ got'.revocation = IF "revocation" \in DOMAIN F THEN F.revocation ELSE got.revocation
         /\ got'.own = IF "own" \in DOMAIN F THEN F.own ELSE got.own
         /\ got'.which = IF "which" \in DOMAIN F THEN F.which ELSE got.which
  <1>1. /\ pc' = p /\ DOMAIN got' = DOMAIN F \cup DOMAIN got
        /\ \A k \in DOMAIN F : got'[k] = F[k]
        /\ \A k \in DOMAIN got : k \notin DOMAIN F => got'[k] = got[k]
    BY WentFacts
  <1>2. UNCHANGED <<reader, base, story, common>>
    BY DEF SlotKeeps, configVars, worldVars
  <1>3. SlotStays
    BY <1>1, <1>2 DEF SlotStays, SlotFields
  <1>4. QED BY <1>1, <1>3 DEF SlotFields

\* A later block has counted no fewer publications.
LEMMA CounterGrows ==
  ASSUME NEW a \in Nat, NEW b \in Nat, a <= b
  PROVE  Counter(a) \in Nat /\ Counter(b) \in Nat /\ Counter(a) <= Counter(b)
  <1>1. Where({"feedback"}, 1, a) \subseteq Where({"feedback"}, 1, b) /\ Where({"feedback"}, 1, b) \subseteq 1..Tip
    BY DEF Where, Heights
  <1>2. IsFiniteSet(Where({"feedback"}, 1, b))
    <2>1. IsFiniteSet(1..Tip)
      BY RegistryAssumption, FS_Interval
    <2>2. QED BY <1>1, <2>1, FS_Subset
  <1>3. QED BY <1>1, <1>2, FS_Subset, FS_CardinalityType DEF Counter, AtMost

\* A reorganization leaves what is said of a slot.
LEMMA SlotReorganized ==
  ASSUME WorldOK, Reorganize
  PROVE  /\ \A f : Orphaning(f) => Orphaning(f)'
         /\ \A f, r : Matching(f, r)' <=> Matching(f, r)
         /\ \A p, s, o, f, r : SlotAt(p, s, o, f, r) => SlotAt(p, s, o, f, r)'
         /\ reader # "checkpoint" =>
              \A p, w, s, o, f, r : PublicationAt(p, w, s, o, f, r) => PublicationAt(p, w, s, o, f, r)'
  <1>1. /\ UNCHANGED <<reader, base, story, pc, got, verdict>> /\ (Current' => Current)
        /\ \A h \in Int : h <= common' => h <= common
    BY Reorganizing
  <1>2. /\ \A h : (Known(h)' <=> Known(h)) /\ Counter(h)' = Counter(h)
        /\ \A s, h : Revoked(s, h)' <=> Revoked(s, h)
    BY <1>1, StoryStays
  <1>3. Source' = Source /\ Observation' = Observation
    BY <1>1 DEF Source, Observation
  <1>4. Published' <=> Published
    BY <1>1, <1>2, <1>3 DEF Published
  <1>5. \A r : RevocationIs(r)' <=> RevocationIs(r)
    BY <1>1, <1>3, <1>4 DEF RevocationIs, Revoked, Where
  <1>6. \A f, r : Matching(f, r)' <=> Matching(f, r)
    BY <1>1, <1>4, <1>5 DEF Matching
  <1>7. reader # "checkpoint" /\ Own(Source)' => Own(Source)
    BY <1>1, <1>3, BlockFacts DEF Own, Source
  <1>8. \A f : Orphaning(f) => Orphaning(f)'
    BY <1>1, <1>7 DEF Orphaning
  <1> HIDE DEF Matching, Orphaning, Own, Known, Current, Published, RevocationIs, Source, Observation
  <1>9. ASSUME NEW p, NEW s, NEW o, NEW f, NEW r, SlotAt(p, s, o, f, r)
        PROVE  SlotAt(p, s, o, f, r)'
    BY <1>1, <1>2, <1>3, <1>6, <1>8, <1>9 DEF SlotAt, SlotPhases, BeforeStorage, Silent
  <1>10. ASSUME NEW p, NEW w, NEW s, NEW o, NEW f, NEW r, PublicationAt(p, w, s, o, f, r), reader # "checkpoint"
        PROVE  PublicationAt(p, w, s, o, f, r)'
    BY <1>1, <1>2, <1>3, <1>6, <1>7, <1>8, <1>10 DEF PublicationAt, PublicationPhases, ScanPhases, ReplayPhases
  <1>11. QED BY <1>6, <1>8, <1>9, <1>10

\* A slot is read further.
LEMMA SlotGoes ==
  ASSUME SlotInv, reader \in {"observation", "checkpoint"}, pc \in SlotPhases,
         reader = "checkpoint" => {"slot", "nth", "last"} \subseteq DOMAIN got,
         NEW p \in SlotPhases, NEW F, Went(p, F), SlotKeeps,
         DOMAIN F \subseteq {"sourceRead", "observedRead", "finding", "revocation"},
         SlotAt(p, IF "sourceRead" \in DOMAIN F THEN F.sourceRead ELSE got.sourceRead,
                IF "observedRead" \in DOMAIN F THEN F.observedRead ELSE got.observedRead,
                IF "finding" \in DOMAIN F THEN F.finding ELSE got.finding,
                IF "revocation" \in DOMAIN F THEN F.revocation ELSE got.revocation)
  PROVE  SlotInv'
  <1>1. SlotFields \subseteq DOMAIN got
    BY DEF SlotInv
  <1>2. /\ pc' = p /\ SlotFields \subseteq DOMAIN got' /\ SlotStays
        /\ got'.sourceRead = IF "sourceRead" \in DOMAIN F THEN F.sourceRead ELSE got.sourceRead
        /\ got'.observedRead = IF "observedRead" \in DOMAIN F THEN F.observedRead ELSE got.observedRead
        /\ got'.finding = IF "finding" \in DOMAIN F THEN F.finding ELSE got.finding
        /\ got'.revocation = IF "revocation" \in DOMAIN F THEN F.revocation ELSE got.revocation
    BY <1>1, SlotWent
  <1>3. PICK s, o, f, r : s = got'.sourceRead /\ o = got'.observedRead /\ f = got'.finding /\ r = got'.revocation
    OBVIOUS
  <1>4. SlotAt(p, s, o, f, r)
    BY <1>2, <1>3
  <1>5. SlotAt(p, s, o, f, r)'
    BY <1>2, <1>4, SlotStaysFacts
  <1>6. SlotAt(pc, got.sourceRead, got.observedRead, got.finding, got.revocation)'
    BY <1>2, <1>3, <1>5
  <1>7. got'.document = "valid" /\ (reader' = "observation" => got'.slotOwn = TRUE)
    BY <1>2 DEF SlotInv, SlotStays
  <1>8. QED BY <1>2, <1>6, <1>7 DEF SlotInv

\* What the checkpoint has read of a slot, the observation of it takes from there.
SlotRead ==
  reader = "checkpoint" =>
    /\ {"slot", "nth", "last"} \subseteq DOMAIN got
    /\ Current => story[got.slot] = "feedback" /\ Counter(got.slot) = got.nth /\ got.last = Counter(base.high)
                  /\ got.slot \in Nat

\* The observation of a slot: every step keeps what is so of its finding.
LEMMA ObservationKeepsSlot ==
  ASSUME WorldOK, Phased, SlotInv, SlotRead, ObservationNext, pc' # "done"
  PROVE  SlotInv'
  <1>0. /\ pc \in SlotPhases /\ reader \in {"observation", "checkpoint"}
        /\ (reader = "checkpoint" => {"slot", "nth", "last"} \subseteq DOMAIN got)
    BY ObservationMoves DEF SlotRead, ObservationNext, ObserveSource, ObserveBasis, ObserveReceipt, ObserveLink,
       ObserveCounter, ObserveStorage, AgainSource, AgainObserved, SlotReadFails, SlotEnds, SlotPhases
  <1> DEFINE s == got.sourceRead
             o == got.observedRead
             f == got.finding
             r == got.revocation
  <1>1. /\ got.document = "valid" /\ (reader = "observation" => got.slotOwn = TRUE)
        /\ SlotAt(pc, s, o, f, r)
    BY <1>0 DEF SlotInv
  <1>2. /\ Current => Own(Observation) /\ (Source <= Observation => Own(Source))
        /\ Current \/ reader # "checkpoint" => Source \in Nat
        /\ Observation \in Nat
    BY <1>0, BlockFacts DEF SlotRead, Current, Own, Source, Observation
  <1>3. DOMAIN Nothing = {}
    BY DEF Nothing
  <1> HIDE DEF s, o, f, r
  <1>n. ASSUME NEW p \in SlotPhases, Went(p, Nothing), SlotKeeps, SlotAt(p, s, o, f, r)
        PROVE  SlotInv'
    BY <1>0, <1>3, <1>n, SlotGoes DEF s, o, f, r
  <1>f. ASSUME NEW p \in SlotPhases, NEW finding, Went(p, Failed(finding)), SlotKeeps,
               SlotAt(p, s, o, IF f = "orphaned" THEN "orphaned" ELSE finding, "unknown")
        PROVE  SlotInv'
    BY <1>0, <1>f, SlotGoes DEF s, o, f, r, Failed
  <1>r. ASSUME NEW finding, ReadFailed(finding), SlotKeeps, pc \in BeforeStorage,
               finding \in {"unavailable", "mismatched", "orphaned"},
               finding = "orphaned" /\ reader # "checkpoint" => ~Own(Source),
               finding = "mismatched" /\ reader # "checkpoint" /\ (Current \/ ~s) => ~Published,
               finding = "mismatched" => o \/ ~s,
               s => (Current \/ reader # "checkpoint" => Source <= Observation)
        PROVE  SlotInv'
    <2>1. f = "unavailable" /\ s \in BOOLEAN /\ o \in BOOLEAN /\ (~s => ~o)
      BY <1>1, <1>r DEF SlotAt, SlotPhases, BeforeStorage
    <2>2. CASE s
      <3>1. SlotAt("again source", s, o, finding, "unknown")
        BY <1>r, <2>1, <2>2 DEF SlotAt, SlotPhases, BeforeStorage, Matching, RevocationIs, Orphaning, Silent
      <3>2. QED BY <1>f, <1>r, <2>1, <2>2, <3>1 DEF ReadFailed, SlotPhases, s
    <2>3. CASE ~s
      <3>1. SlotAt("slot end", s, o, finding, "unknown")
        BY <1>r, <2>1, <2>3 DEF SlotAt, SlotPhases, BeforeStorage, Matching, RevocationIs, Orphaning, Silent
      <3>2. QED BY <1>f, <1>r, <2>1, <2>3, <3>1 DEF ReadFailed, SlotPhases, s
    <2>4. QED BY <2>2, <2>3
  <1>4. CASE ObserveSource
    <2>0. pc = "source" /\ SlotKeeps /\ ~s /\ ~o
      BY <1>1, <1>4 DEF ObserveSource, SlotAt
    <2>1. CASE Source > Observation
      <3>1. ReadFailed("mismatched")
        BY <1>4, <2>1 DEF ObserveSource
      <3>2. reader # "checkpoint" => ~Published
        BY <1>2, <2>1 DEF Published
      <3>3. QED BY <1>r, <2>0, <3>1, <3>2 DEF BeforeStorage
    <2>2. CASE ~(Source > Observation) /\ SourceStands
      <3>1. Went("observed", [sourceRead |-> TRUE])
        BY <1>4, <2>2 DEF ObserveSource
      <3>2. SlotAt("observed", TRUE, o, f, r)
        BY <1>1, <1>2, <2>0, <2>2 DEF SlotAt, SlotPhases, BeforeStorage
      <3>3. QED BY <1>0, <2>0, <3>1, <3>2, SlotGoes DEF o, f, r, SlotPhases
    <2>3. CASE ~(Source > Observation) /\ ~SourceStands
      <3>1. ReadFailed("orphaned")
        BY <1>4, <2>3 DEF ObserveSource
      <3>2. reader # "checkpoint" => ~Own(Source)
        BY <1>0, <1>1, <2>3 DEF SourceStands, Own
      <3>3. QED BY <1>r, <2>0, <3>1, <3>2 DEF BeforeStorage
    <2>4. QED BY <2>1, <2>2, <2>3
  <1>5. CASE ObserveBasis
    <2>0. pc = "observed" /\ SlotKeeps /\ s /\ (Current \/ reader # "checkpoint" => Source <= Observation)
      BY <1>1, <1>5 DEF ObserveBasis, SlotAt, SlotPhases
    <2>1. CASE Own(Observation)
      <3>1. Went("receipt", [observedRead |-> TRUE])
        BY <1>5, <2>1 DEF ObserveBasis
      <3>2. SlotAt("receipt", s, TRUE, f, r)
        BY <1>1, <2>0 DEF SlotAt, SlotPhases, BeforeStorage
      <3>3. QED BY <1>0, <2>0, <3>1, <3>2, SlotGoes DEF s, f, r, SlotPhases
    <2>2. CASE ~Own(Observation)
      <3>1. ReadFailed("unavailable")
        BY <1>5, <2>2 DEF ObserveBasis
      <3>2. QED BY <1>r, <2>0, <3>1 DEF BeforeStorage
    <2>3. QED BY <2>1, <2>2
  <1>6. CASE ObserveReceipt
    <2>0. pc = "receipt" /\ SlotKeeps /\ s /\ o /\ (Current \/ reader # "checkpoint" => Source <= Observation)
      BY <1>1, <1>6 DEF ObserveReceipt, SlotAt, SlotPhases
    <2>1. PICK says \in ReceiptSays :
            CASE says = "event" -> Went("link", Nothing)
              [] says = "no event" -> ReadFailed("mismatched")
              [] OTHER -> ReadFailed("unavailable")
      BY <1>6 DEF ObserveReceipt
    <2>2. CASE says = "event"
      <3>1. Current => story[Source] = "feedback"
        BY <1>2, <2>0, <2>1, <2>2 DEF ReceiptSays, Answers, SlotRead, Source
      <3>2. SlotAt("link", s, o, f, r)
        BY <1>1, <2>0, <3>1 DEF SlotAt, SlotPhases, BeforeStorage
      <3>3. QED BY <1>n, <2>0, <2>1, <2>2, <3>2 DEF SlotPhases
    <2>3. CASE says = "no event"
      <3>1. reader # "checkpoint" /\ Current => ~Published
        BY <1>2, <2>0, <2>1, <2>3 DEF ReceiptSays, Answers, Published
      <3>2. QED BY <1>r, <2>0, <2>1, <2>3, <3>1 DEF BeforeStorage
    <2>4. CASE says # "event" /\ says # "no event"
      <3>1. ReadFailed("unavailable")
        BY <2>1, <2>4
      <3>2. QED BY <1>r, <2>0, <3>1 DEF BeforeStorage
    <2>5. QED BY <2>2, <2>3, <2>4
  <1>7. CASE ObserveLink
    <2>0. pc = "link" /\ SlotKeeps /\ s /\ o /\ (Current \/ reader # "checkpoint" => Source <= Observation)
      BY <1>1, <1>7 DEF ObserveLink, SlotAt, SlotPhases
    <2>1. PICK known \in LinkSays : IF known THEN Went("counter", Nothing) ELSE ReadFailed("mismatched")
      BY <1>7 DEF ObserveLink
    <2>2. Current => known = Known(Observation)
      BY <1>2, <2>1 DEF LinkSays, Answers
    <2>3. CASE known
      <3>1. SlotAt("counter", s, o, f, r)
        BY <1>1, <2>0, <2>2, <2>3 DEF SlotAt, SlotPhases, BeforeStorage
      <3>2. QED BY <1>n, <2>0, <2>1, <2>3, <3>1 DEF SlotPhases
    <2>4. CASE ~known
      <3>1. Current => ~Published
        BY <2>2, <2>4 DEF Published
      <3>2. QED BY <1>r, <2>0, <2>1, <2>4, <3>1 DEF BeforeStorage
    <2>5. QED BY <2>3, <2>4
  <1>8. CASE ObserveCounter
    <2>0. pc = "counter" /\ SlotKeeps /\ s /\ o /\ (Current \/ reader # "checkpoint" => Source <= Observation)
      BY <1>1, <1>8 DEF ObserveCounter, SlotAt, SlotPhases
    <2>1. PICK last \in CounterSays : IF Index <= last THEN Went("storage", Nothing) ELSE ReadFailed("mismatched")
      BY <1>8 DEF ObserveCounter
    <2>2. CASE Index <= last
      <3>1. SlotAt("storage", s, o, f, r)
        BY <1>1, <2>0 DEF SlotAt, SlotPhases, BeforeStorage
      <3>2. QED BY <1>n, <2>0, <2>1, <2>2, <3>1 DEF SlotPhases
    <2>3. CASE ~(Index <= last)
      <3>1. ~(Current /\ reader # "checkpoint")
        <4>1. SUFFICES ASSUME Current, reader # "checkpoint" PROVE FALSE
          OBVIOUS
        <4>2. last = Counter(Observation) /\ Index = Counter(Source)
          BY <1>2, <2>1, <4>1 DEF CounterSays, Answers, Index
        <4>3. QED BY <1>2, <2>0, <2>3, <4>1, <4>2, CounterGrows
      <3>2. QED BY <1>r, <2>0, <2>1, <2>3, <3>1 DEF BeforeStorage
    <2>4. QED BY <2>2, <2>3
  <1>9. CASE ObserveStorage
    <2>0. /\ pc = "storage" /\ SlotKeeps /\ s /\ o /\ (Current \/ reader # "checkpoint" => Source <= Observation)
          /\ Current => story[Source] = "feedback" /\ Known(Observation)
      BY <1>1, <1>9 DEF ObserveStorage, SlotAt, SlotPhases
    <2>1. PICK says \in SlotSays :
            IF says = "another" THEN ReadFailed("mismatched")
            ELSE Went("again source", [finding |-> "matched", revocation |-> says])
      BY <1>9 DEF ObserveStorage
    <2>2. says \in {"active", "revoked", "another"}
      BY <2>1 DEF SlotSays, Answers
    <2>3. Current => says = IF Revoked(Source, Observation) THEN "revoked" ELSE "active"
      BY <1>2, <2>1 DEF SlotSays, Answers
    <2>4. CASE says = "another"
      <3>1. ~Current
        BY <2>3, <2>4
      <3>2. QED BY <1>r, <2>0, <2>1, <2>4, <3>1 DEF BeforeStorage
    <2>5. CASE says # "another"
      <3>1. Went("again source", [finding |-> "matched", revocation |-> says])
        BY <2>1, <2>5
      <3>2. Current => Matching("matched", says)
        <4>1. SUFFICES ASSUME Current PROVE Matching("matched", says)
          OBVIOUS
        <4>2. Published /\ says # "unknown"
          BY <2>0, <2>2, <4>1 DEF Published
        <4>3. (says = "revoked") = Revoked(Source, Observation)
          <5>1. Revoked(Source, Observation) \in BOOLEAN
            BY DEF Revoked
          <5>2. QED BY <2>3, <4>1, <5>1
        <4>4. QED BY <1>1, <4>2, <4>3 DEF Matching, RevocationIs
      <3>3. SlotAt("again source", s, o, "matched", says)
        BY <1>1, <2>0, <3>2 DEF SlotAt, SlotPhases, BeforeStorage, Orphaning
      <3>4. QED BY <1>0, <2>0, <3>1, <3>3, SlotGoes DEF s, o, SlotPhases
    <2>6. QED BY <2>4, <2>5
  <1>10. CASE AgainSource
    <2>0. /\ pc = "again source" /\ SlotKeeps
          /\ Went(IF o THEN "again observed" ELSE "slot end",
                  IF SourceStands THEN Nothing ELSE [finding |-> "orphaned", revocation |-> "unknown"])
      BY <1>10 DEF AgainSource, o
    <2>1. /\ s /\ o \in BOOLEAN /\ (Current \/ reader # "checkpoint" => Source <= Observation)
          /\ Current => Matching(f, r)
          /\ ~o => Silent(f, r)
          /\ s \in BOOLEAN /\ Orphaning(f)
      BY <1>1, <2>0 DEF SlotAt, SlotPhases
    <2>2. PICK p : p = IF o THEN "again observed" ELSE "slot end"
      OBVIOUS
    <2>3. CASE SourceStands
      <3>1. SlotAt(p, s, o, f, r)
        BY <2>1, <2>2 DEF SlotAt, SlotPhases, BeforeStorage, Silent, Matching, RevocationIs
      <3>2. QED BY <1>n, <2>0, <2>2, <2>3, <3>1 DEF SlotPhases
    <2>4. CASE ~SourceStands
      <3>1. reader # "checkpoint" => ~Own(Source)
        BY <1>0, <1>1, <2>4 DEF SourceStands, Own
      <3>2. SlotAt(p, s, o, "orphaned", "unknown")
        BY <2>1, <2>2, <3>1 DEF SlotAt, SlotPhases, BeforeStorage, Silent, Matching, RevocationIs, Orphaning
      <3>3. Went(p, [finding |-> "orphaned", revocation |-> "unknown"]) /\ p \in SlotPhases
        BY <2>0, <2>2, <2>4 DEF SlotPhases
      <3>4. QED BY <1>0, <2>0, <3>2, <3>3, SlotGoes DEF s, o, SlotPhases
    <2>5. QED BY <2>3, <2>4
  <1>11. CASE AgainObserved
    <2>0. /\ pc = "again observed" /\ SlotKeeps
          /\ Went("slot end", IF Own(Observation) THEN Nothing ELSE Failed("unavailable"))
      BY <1>11 DEF AgainObserved
    <2>1. s \in BOOLEAN /\ o \in BOOLEAN /\ Orphaning(f) /\ (Current => Matching(f, r))
      BY <1>1, <2>0 DEF SlotAt
    <2>2. CASE Own(Observation)
      <3>1. SlotAt("slot end", s, o, f, r)
        BY <2>1, <2>2 DEF SlotAt, SlotPhases, BeforeStorage, Current, Observation
      <3>2. QED BY <1>n, <2>0, <2>2, <3>1 DEF SlotPhases
    <2>3. CASE ~Own(Observation)
      <3>1. SlotAt("slot end", s, o, IF f = "orphaned" THEN "orphaned" ELSE "unavailable", "unknown")
        BY <2>1 DEF SlotAt, SlotPhases, BeforeStorage, Matching, RevocationIs, Orphaning
      <3>2. QED BY <1>f, <2>0, <2>3, <3>1 DEF SlotPhases
    <2>4. QED BY <2>2, <2>3
  <1>12. CASE SlotReadFails
    <2>0. SlotKeeps /\ s \in BOOLEAN /\ o \in BOOLEAN /\ Orphaning(f)
      BY <1>1, <1>12 DEF SlotReadFails, SlotAt
    <2>1. CASE Went("slot end", Failed("unavailable"))
      <3>1. SlotAt("slot end", s, o, IF f = "orphaned" THEN "orphaned" ELSE "unavailable", "unknown")
        BY <2>0 DEF SlotAt, SlotPhases, BeforeStorage, Matching, RevocationIs, Orphaning
      <3>2. QED BY <1>f, <2>0, <2>1, <3>1 DEF SlotPhases
    <2>2. CASE pc \in BeforeStorage /\ ReadFailed("unavailable")
      <3>1. s => (Current \/ reader # "checkpoint" => Source <= Observation)
        BY <1>1, <2>2 DEF SlotAt, SlotPhases, BeforeStorage
      <3>2. QED BY <1>r, <2>0, <2>2, <3>1
    <2>3. CASE pc = "again source" /\ o /\ Went("again observed", Failed("unavailable"))
      <3>1. SlotAt("again observed", s, o, IF f = "orphaned" THEN "orphaned" ELSE "unavailable", "unknown")
        BY <1>1, <2>0, <2>3 DEF SlotAt, SlotPhases, BeforeStorage, Matching, RevocationIs, Orphaning
      <3>2. QED BY <1>f, <2>0, <2>3, <3>1 DEF SlotPhases
    <2>4. QED BY <1>12, <2>1, <2>2, <2>3 DEF SlotReadFails, BeforeStorage, o
  <1>13. CASE SlotEnds
    BY <1>13 DEF SlotEnds, Report
  <1>14. QED BY <1>4, <1>5, <1>6, <1>7, <1>8, <1>9, <1>10, <1>11, <1>12, <1>13 DEF ObservationNext

\* The slot that is observed next is yet to be read.
LEMMA ReceiptStartsSlot ==
  ASSUME Phased, SlotReceipt, pc' # "done", UNCHANGED reader
  PROVE  SlotInv' /\ pc' = "source" /\ Own(Head(left).at) = Head(left).own /\ UNCHANGED <<noted, left, cursor, logs, verdict>>
         /\ got'.which = "current" /\ got'.slotOwn = Head(left).own
         /\ \E g : /\ g = [got EXCEPT !.slot = Head(left).at, !.nth = @ + 1] /\ DOMAIN got' = SlotFields \cup DOMAIN got
                   /\ \A k \in DOMAIN got : k \notin SlotFields => got'[k] = g[k]
  <1>1. /\ pc' = "source" /\ Own(Head(left).at) = Head(left).own /\ UNCHANGED <<noted, left, cursor, logs, verdict>>
        /\ got' = Over([SlotGot EXCEPT !.which = "current", !.slotOwn = Head(left).own],
                       [got EXCEPT !.slot = Head(left).at, !.nth = @ + 1])
    BY DEF SlotReceipt, Refuse, Report
  <1>2. PICK f : f = [SlotGot EXCEPT !.which = "current", !.slotOwn = Head(left).own]
    OBVIOUS
  <1>3. PICK g : g = [got EXCEPT !.slot = Head(left).at, !.nth = @ + 1]
    OBVIOUS
  <1>4. /\ DOMAIN f = SlotFields /\ f.document = "valid" /\ f.sourceRead = FALSE /\ f.observedRead = FALSE
        /\ f.finding = "unavailable" /\ f.revocation = "unknown" /\ f.which = "current" /\ f.slotOwn = Head(left).own
    BY <1>2 DEF SlotGot, SlotFields
  <1>5. got' = Over(f, g) /\ DOMAIN g = DOMAIN got
    BY <1>1, <1>2, <1>3
  <1>6. DOMAIN got' = SlotFields \cup DOMAIN got /\ \A k \in SlotFields : got'[k] = f[k]
    <2>1. DOMAIN Over(f, g) = DOMAIN f \cup DOMAIN g /\ \A k \in DOMAIN f : Over(f, g)[k] = f[k]
      BY OverFacts
    <2>2. QED BY <1>4, <1>5, <2>1
  <1>7. \A k \in DOMAIN got : k \notin SlotFields => got'[k] = g[k]
    BY <1>4, <1>5, OverKeeps
  <1>8. /\ got'.document = "valid" /\ got'.sourceRead = FALSE /\ got'.observedRead = FALSE
        /\ got'.finding = "unavailable" /\ got'.revocation = "unknown" /\ got'.which = "current"
        /\ got'.slotOwn = Head(left).own
    BY <1>4, <1>6 DEF SlotFields
  <1>9. ~(reader = "observation")
    BY DEF SlotReceipt, Phased, PhasesOf, SlotPhases
  <1>10. SlotInv'
    BY <1>1, <1>6, <1>8, <1>9 DEF SlotInv, SlotAt, SlotPhases, BeforeStorage, Orphaning
  <1>11. QED BY <1>1, <1>3, <1>6, <1>7, <1>8, <1>10

\* The slot reader: every step keeps what is so of its slot and of its finding.
LEMMA SlotsKeep ==
  ASSUME WorldOK, Phased, SlotInv, ObservationInv, pc \in SlotPhases => SlotRead, ReaderNext
  PROVE  SlotInv' /\ ObservationInv'
  <1>0. WorldOK' /\ Phased' /\ UNCHANGED <<reader, base, story>>
    BY WorldKeeps
  <1>1. CASE Reorganize
    <2>1. UNCHANGED <<pc, got, verdict>> /\ pc # "done"
      BY <1>1, Reorganizing DEF Reorganize
    <2>2. ObservationInv'
      BY <2>1 DEF ObservationInv
    <2>3. PICK s, o, f, r : s = got.sourceRead /\ o = got.observedRead /\ f = got.finding /\ r = got.revocation
      OBVIOUS
    <2>4. SlotAt(pc, s, o, f, r) => SlotAt(pc, s, o, f, r)'
      <3>1. PICK p : p = pc
        OBVIOUS
      <3>2. SlotAt(p, s, o, f, r) => SlotAt(p, s, o, f, r)'
        BY <1>1, SlotReorganized
      <3>3. QED BY <2>1, <3>1, <3>2
    <2>5. SlotInv'
      BY <1>0, <2>1, <2>3, <2>4 DEF SlotInv
    <2>6. QED BY <2>2, <2>5
  <1>2. CASE ObservationNext
    <2>1. reader \in {"observation", "checkpoint"} /\ pc \in SlotPhases
      BY <1>2, ObservationMoves DEF ObservationNext, ObserveSource, ObserveBasis, ObserveReceipt, ObserveLink,
         ObserveCounter, ObserveStorage, AgainSource, AgainObserved, SlotReadFails, SlotEnds, SlotPhases
    <2>2. CASE pc' # "done"
      BY <1>2, <2>1, <2>2, ObservationKeepsSlot DEF ObservationInv
    <2>3. CASE pc' = "done"
      <3>1. SlotEnds
        <4>1. ASSUME NEW p, NEW F, Went(p, F)
              PROVE  pc' = p
          BY <4>1 DEF Went
        <4>2. QED BY <1>2, <2>3, <4>1 DEF ObservationNext, ObserveSource, ObserveBasis, ObserveReceipt, ObserveLink,
                     ObserveCounter, ObserveStorage, AgainSource, AgainObserved, SlotReadFails, ReadFailed
      <3>2. /\ pc = "slot end" /\ reader = "observation" /\ verdict' = [status |-> got.finding, revocation |-> got.revocation]
            /\ UNCHANGED <<got, common>>
        BY <3>1 DEF SlotEnds, Report, worldVars
      <3>3. Matching(got.finding, got.revocation) /\ Orphaning(got.finding) /\ got.document = "valid"
        BY <2>1, <3>2 DEF SlotInv, SlotAt
      <3>4. SlotStays
        BY <1>0, <3>2 DEF SlotStays
      <3>5. PICK f, r : f = got.finding /\ r = got.revocation
        OBVIOUS
      <3>6. Matching(f, r)' /\ Orphaning(f)'
        BY <3>3, <3>4, <3>5, SlotStaysFacts
      <3>7. verdict'.status = f /\ verdict'.revocation = r /\ got'.document = "valid"
        BY <3>2, <3>3, <3>5
      <3>8. SlotsHold'
        BY <1>0, <3>2, <3>6, <3>7 DEF SlotsHold, Matching, Orphaning
      <3>9. QED BY <1>0, <2>3, <3>2, <3>8 DEF SlotInv, ObservationInv, SlotPhases
    <2>4. QED BY <2>2, <2>3
  <1>3. CASE CheckpointNext
    <2>1. reader = "checkpoint"
      BY <1>3, CheckpointMoves
    <2>2. pc' \in SlotPhases => SlotReceipt
      BY <1>3 DEF CheckpointNext, CheckpointHeader, Qualify, Registration, RegistrationProfile, UpgradePage, CounterIsZero,
         CounterIsLast, PublicationPage, NextSlot, SlotObserved, CheckpointRecheck, CheckpointFails, Refuse, Report, SlotPhases
    <2>3. CASE SlotReceipt /\ pc' # "done"
      BY <1>0, <2>1, <2>3, ReceiptStartsSlot DEF ObservationInv
    <2>4. CASE ~(pc' \in SlotPhases)
      BY <1>0, <2>1, <2>4 DEF ObservationInv, SlotInv
    <2>5. QED BY <2>2, <2>3, <2>4 DEF SlotPhases
  <1>4. CASE IdentityNext \/ PublicationNext \/ CarryNext \/ ActivationNext
    BY <1>0, <1>4, IdentityMoves, PublicationMoves, CarryMoves, ActivationMoves DEF SlotInv, ObservationInv
  <1>5. QED BY <1>1, <1>2, <1>3, <1>4 DEF ReaderNext

--------------------------------------------------------------------------------
(* The publication that a document names. *)

\* A publication is read further.
LEMMA PublicationGoes ==
  ASSUME PublicationInv, reader \in {"publication", "carry"}, pc # "done",
         NEW p, NEW F, Went(p, F), SlotKeeps,
         p \notin {"done", "original head", "original snapshot", "publication"},
         DOMAIN F \subseteq {"which", "own", "sourceRead", "observedRead", "finding", "revocation"},
         PublicationAt(p, IF "own" \in DOMAIN F THEN F.own ELSE got.own,
                       IF "sourceRead" \in DOMAIN F THEN F.sourceRead ELSE got.sourceRead,
                       IF "observedRead" \in DOMAIN F THEN F.observedRead ELSE got.observedRead,
                       IF "finding" \in DOMAIN F THEN F.finding ELSE got.finding,
                       IF "revocation" \in DOMAIN F THEN F.revocation ELSE got.revocation)
  PROVE  PublicationInv'
  <1>1. SlotFields \subseteq DOMAIN got /\ got.document \in {"valid", "other", "absent"}
    BY DEF PublicationInv
  <1>2. /\ pc' = p /\ SlotFields \subseteq DOMAIN got' /\ SlotStays
        /\ got'.own = IF "own" \in DOMAIN F THEN F.own ELSE got.own
        /\ got'.sourceRead = IF "sourceRead" \in DOMAIN F THEN F.sourceRead ELSE got.sourceRead
        /\ got'.observedRead = IF "observedRead" \in DOMAIN F THEN F.observedRead ELSE got.observedRead
        /\ got'.finding = IF "finding" \in DOMAIN F THEN F.finding ELSE got.finding
        /\ got'.revocation = IF "revocation" \in DOMAIN F THEN F.revocation ELSE got.revocation
    BY <1>1, SlotWent
  <1>3. PICK w, s, o, f, r : /\ w = got'.own /\ s = got'.sourceRead /\ o = got'.observedRead /\ f = got'.finding
                             /\ r = got'.revocation
    OBVIOUS
  <1>4. PublicationAt(p, w, s, o, f, r)
    BY <1>2, <1>3
  <1>5. PublicationAt(p, w, s, o, f, r)'
    BY <1>2, <1>4, SlotStaysFacts
  <1>6. PublicationAt(pc, got.own, got.sourceRead, got.observedRead, got.finding, got.revocation)'
    BY <1>2, <1>3, <1>5
  <1>7. got'.document \in {"valid", "other", "absent"}
    BY <1>1, <1>2 DEF SlotStays
  <1>8. QED BY <1>2, <1>6, <1>7 DEF PublicationInv

\* A publication is left as it is found.
LEMMA PublicationRests ==
  ASSUME PublicationInv, reader \in {"publication", "carry"}, pc # "done", UNCHANGED <<reader, base, story, common>>,
         NEW p, pc' = p, SlotFields \subseteq DOMAIN got',
         \A k \in SlotFields : got'[k] = got[k],
         p \notin {"done", "original head", "original snapshot", "publication"},
         PublicationAt(p, got.own, got.sourceRead, got.observedRead, got.finding, got.revocation)
  PROVE  PublicationInv'
  <1>1. SlotStays
    BY DEF SlotStays, SlotFields
  <1>2. PICK w, s, o, f, r : /\ w = got'.own /\ s = got'.sourceRead /\ o = got'.observedRead /\ f = got'.finding
                             /\ r = got'.revocation
    OBVIOUS
  <1>3. /\ w = got.own /\ s = got.sourceRead /\ o = got.observedRead /\ f = got.finding
        /\ r = got.revocation /\ got'.document = got.document
    BY <1>2 DEF SlotFields
  <1>4. PublicationAt(p, w, s, o, f, r)
    BY <1>3
  <1>5. PublicationAt(p, w, s, o, f, r)'
    BY <1>1, <1>4, SlotStaysFacts
  <1>6. PublicationAt(pc, got.own, got.sourceRead, got.observedRead, got.finding, got.revocation)'
    BY <1>2, <1>5
  <1>7. QED BY <1>3, <1>6 DEF PublicationInv

\* The publication reader, and its finding.
LEMMA PublicationStepKeeps ==
  ASSUME WorldOK, Phased, PublicationInv, PublicationNext
  PROVE  PublicationInv'
  <1>0. /\ pc \in PublicationPhases /\ reader \in {"publication", "carry"} /\ UNCHANGED <<reader, base, story, common>>
        /\ pc # "done"
    BY PublicationMoves DEF PublicationNext, PublicationObserved, PublicationSource, PublicationReceipt, PublicationDomain,
       PublicationStored, PublicationThrows, Republished, Reobserved, PublicationEnds, PublicationPhases, configVars, worldVars
  <1> DEFINE w == got.own
             s == got.sourceRead
             o == got.observedRead
             f == got.finding
             r == got.revocation
             d == got.document
  <1>1. /\ d \in {"valid", "other", "absent"} /\ PublicationAt(pc, w, s, o, f, r)
        /\ pc = "publication" => Current \/ common < base.mid
        /\ w \in BOOLEAN /\ s \in BOOLEAN /\ o \in BOOLEAN
    BY <1>0 DEF PublicationInv, PublicationAt
  <1>2. /\ Current => Own(Observation) /\ (Source <= Observation => Own(Source))
        /\ Source \in Nat /\ Observation \in Nat /\ Source = base.mid /\ Observation = base.high
        /\ Own(Observation) <=> Current
        /\ Own(Source) \in BOOLEAN /\ Own(Observation) \in BOOLEAN
    BY <1>0, BlockFacts DEF Current, Own, Source, Observation
  <1>3. DOMAIN Nothing = {}
    BY DEF Nothing
  <1>m. \A x \in {"unavailable", "orphaned"} : Matching(x, "unknown")
    BY DEF Matching, RevocationIs
  <1>d. ~Published \/ d = "other" => Matching("mismatched", "unknown")
    BY DEF Matching, RevocationIs
  <1> HIDE DEF w, s, o, f, r, d
  <1>n. ASSUME NEW p, Went(p, Nothing), SlotKeeps, p \notin {"done", "original head", "original snapshot", "publication"},
               PublicationAt(p, w, s, o, f, r)
        PROVE  PublicationInv'
    BY <1>0, <1>3, <1>n, PublicationGoes DEF w, s, o, f, r
  \* Returning from where the source was read: both blocks are looked at again.
  <1>r. ASSUME NEW F, Returns(F), SlotKeeps, DOMAIN F \in {{"finding"}, {"finding", "revocation"}},
               pc \in {"published by", "domain", "stored"},
               F.finding # "orphaned",
               Current => Matching(F.finding, IF "revocation" \in DOMAIN F THEN F.revocation ELSE "unknown")
        PROVE  PublicationInv'
    <2>1. s /\ w /\ o /\ Source <= Observation /\ r = "unknown"
      BY <1>1, <1>r DEF PublicationAt, PublicationPhases
    <2>2. Went("republished", F)
      BY <1>r, <2>1 DEF Returns, s
    <2>3. PICK f2, r2 : f2 = F.finding /\ r2 = IF "revocation" \in DOMAIN F THEN F.revocation ELSE "unknown"
      OBVIOUS
    <2>4. PublicationAt("republished", w, s, o, f2, r2)
      BY <1>1, <1>r, <2>1, <2>3 DEF PublicationAt, PublicationPhases, Orphaning, ScanPhases, ReplayPhases
    <2>5. r2 = IF "revocation" \in DOMAIN F THEN F.revocation ELSE r
      BY <2>1, <2>3
    <2>6. QED BY <1>0, <1>r, <2>2, <2>3, <2>4, <2>5, PublicationGoes DEF w, s, o, r
  <1>4. CASE PublicationObserved
    <2>0. pc = "publication" /\ SlotKeeps /\ ~s /\ ~o /\ f = "unavailable" /\ r = "unknown" /\ (Current \/ common < base.mid)
      BY <1>1, <1>4 DEF PublicationObserved, PublicationAt
    <2>1. PICK seen : seen = [which |-> "current", own |-> Own(Observation), observedRead |-> TRUE]
      OBVIOUS
    <2>2. CASE Source > Observation
      <3>1. PICK F : F = Over([finding |-> "mismatched"], seen)
        OBVIOUS
      <3>2. /\ DOMAIN F = {"which", "own", "observedRead", "finding"} /\ F.finding = "mismatched"
            /\ F.own = Own(Observation) /\ F.observedRead = TRUE
        BY <2>1, <3>1 DEF Over
      <3>3. Went("reobserved", F)
        BY <1>4, <2>1, <2>2, <3>1 DEF PublicationObserved
      <3>4. Matching("mismatched", "unknown")
        BY <1>2, <1>d, <2>2 DEF Published
      <3>5. PublicationAt("reobserved", Own(Observation), s, TRUE, "mismatched", "unknown")
        BY <1>1, <1>2, <3>4 DEF PublicationAt, PublicationPhases, Orphaning, ScanPhases, ReplayPhases
      <3>6. QED BY <1>0, <2>0, <3>2, <3>3, <3>5, PublicationGoes DEF s, r
    <2>3. CASE ~(Source > Observation)
      <3>1. Went("published at", seen)
        BY <1>4, <2>1, <2>3 DEF PublicationObserved
      <3>2. PublicationAt("published at", Own(Observation), s, TRUE, "unavailable", "unknown")
        <4>1. ~Own(Observation) => ~Own(Source)
          BY <1>2, <2>0, BlockFacts DEF Own
        <4>2. QED BY <1>1, <1>2, <2>0, <2>3, <4>1 DEF PublicationAt, PublicationPhases, Orphaning, ScanPhases, ReplayPhases
      <3>3. DOMAIN seen = {"which", "own", "observedRead"} /\ seen.own = Own(Observation) /\ seen.observedRead = TRUE
        BY <2>1
      <3>4. QED BY <1>0, <2>0, <3>1, <3>2, <3>3, PublicationGoes DEF s, f, r
    <2>4. QED BY <2>2, <2>3
  <1>5. CASE PublicationSource
    <2>0. /\ pc = "published at" /\ SlotKeeps /\ ~s /\ o /\ Source <= Observation /\ f = "unavailable" /\ r = "unknown"
          /\ ~w => ~Own(Source)
      BY <1>1, <1>5 DEF PublicationSource, PublicationAt, PublicationPhases
    <2>1. CASE Own(Source)
      <3>1. Went("published by", [sourceRead |-> TRUE])
        BY <1>5, <2>1 DEF PublicationSource
      <3>2. PublicationAt("published by", w, TRUE, o, f, r)
        BY <1>1, <2>0, <2>1 DEF PublicationAt, PublicationPhases, Orphaning, ScanPhases, ReplayPhases
      <3>3. QED BY <1>0, <2>0, <3>1, <3>2, PublicationGoes DEF w, o, f, r
    <2>2. CASE ~Own(Source)
      <3>1. Went("reobserved", [finding |-> "orphaned"])
        BY <1>5, <2>0, <2>2 DEF PublicationSource, Returns, s, o
      <3>2. PublicationAt("reobserved", w, s, o, "orphaned", r)
        BY <1>1, <1>m, <2>0, <2>2 DEF PublicationAt, PublicationPhases, Orphaning, ScanPhases, ReplayPhases
      <3>3. QED BY <1>0, <2>0, <3>1, <3>2, PublicationGoes DEF w, s, o, r
    <2>3. QED BY <2>1, <2>2
  <1>6. CASE PublicationReceipt
    <2>0. /\ pc = "published by" /\ SlotKeeps /\ s /\ w /\ o /\ Source <= Observation /\ f = "unavailable"
          /\ r = "unknown"
      BY <1>1, <1>6 DEF PublicationReceipt, PublicationAt, PublicationPhases
    <2>1. PICK says \in ReceiptSays \ {"no receipt"} :
            IF says = "no event" THEN Returns([finding |-> "mismatched"])
            ELSE Went("domain", IF got.document = "other" THEN [finding |-> "mismatched"] ELSE Nothing)
      BY <1>6 DEF PublicationReceipt
    <2>2. /\ Current => (says = "event" <=> story[Source] = "feedback")
          /\ says \in {"event", "no event"}
      BY <1>0, <1>2, <2>0, <2>1 DEF ReceiptSays, Answers
    <2>3. CASE says = "no event"
      <3>1. Current => Matching("mismatched", "unknown")
        BY <1>d, <2>2, <2>3 DEF Published
      <3>2. QED BY <1>r, <2>0, <2>1, <2>3, <3>1
    <2>4. CASE says # "no event" /\ d = "other"
      <3>1. Went("domain", [finding |-> "mismatched"])
        BY <2>1, <2>4 DEF d
      <3>2. PublicationAt("domain", w, s, o, "mismatched", r)
        BY <1>1, <2>0, <2>2, <2>4 DEF PublicationAt, PublicationPhases, Orphaning, ScanPhases, ReplayPhases, d
      <3>3. QED BY <1>0, <2>0, <3>1, <3>2, PublicationGoes DEF w, s, o, r
    <2>5. CASE says # "no event" /\ d # "other"
      <3>1. Went("domain", Nothing)
        BY <2>1, <2>5 DEF d
      <3>2. PublicationAt("domain", w, s, o, f, r)
        BY <1>1, <2>0, <2>2, <2>5 DEF PublicationAt, PublicationPhases, Orphaning, ScanPhases, ReplayPhases, d
      <3>3. QED BY <1>n, <2>0, <3>1, <3>2
    <2>6. QED BY <2>3, <2>4, <2>5
  <1>7. CASE PublicationDomain
    <2>0. /\ pc = "domain" /\ SlotKeeps /\ s /\ w /\ o /\ Source <= Observation
          /\ f = (IF d = "other" THEN "mismatched" ELSE "unavailable") /\ r = "unknown"
          /\ Current => story[Source] = "feedback"
      BY <1>1, <1>7 DEF PublicationDomain, PublicationAt, PublicationPhases, d
    <2>1. PICK known \in LinkSays : IF known THEN Went("stored", Nothing) ELSE Returns([finding |-> "mismatched"])
      BY <1>7 DEF PublicationDomain
    <2>2. Current => known = Known(Observation)
      BY <1>2, <2>1 DEF LinkSays, Answers
    <2>3. CASE known
      <3>1. PublicationAt("stored", w, s, o, f, r)
        BY <1>1, <2>0, <2>2, <2>3 DEF PublicationAt, PublicationPhases, Orphaning, ScanPhases, ReplayPhases, d
      <3>2. QED BY <1>n, <2>0, <2>1, <2>3, <3>1
    <2>4. CASE ~known
      <3>1. Current => Matching("mismatched", "unknown")
        BY <1>d, <2>2, <2>4 DEF Published
      <3>2. QED BY <1>r, <2>0, <2>1, <2>4, <3>1
    <2>5. QED BY <2>3, <2>4
  <1>8. CASE PublicationStored
    <2>0. /\ pc = "stored" /\ SlotKeeps /\ s /\ w /\ o /\ Source <= Observation
          /\ f = (IF d = "other" THEN "mismatched" ELSE "unavailable") /\ r = "unknown"
          /\ Current => story[Source] = "feedback" /\ Known(Observation)
      BY <1>1, <1>8 DEF PublicationStored, PublicationAt, PublicationPhases, d
    <2>1. PICK last \in CounterSays, says \in SlotSays :
            IF last < Index \/ says = "another" THEN Returns([finding |-> "mismatched"])
            ELSE Returns([finding |-> IF got.document = "valid" THEN "matched" ELSE got.finding, revocation |-> says])
      BY <1>8 DEF PublicationStored
    <2>2. says \in {"active", "revoked", "another"}
      BY <2>1 DEF SlotSays, Answers
    <2>3. Current => says = IF Revoked(Source, Observation) THEN "revoked" ELSE "active"
      BY <1>2, <2>1 DEF SlotSays, Answers
    <2>4. CASE last < Index \/ says = "another"
      <3>1. ~Current
        <4>1. SUFFICES ASSUME Current PROVE FALSE
          OBVIOUS
        <4>2. last = Counter(Observation) /\ Index = Counter(Source)
          BY <1>0, <1>2, <2>1, <4>1 DEF CounterSays, Answers, Index
        <4>3. Counter(Source) \in Nat /\ Counter(Observation) \in Nat /\ Counter(Source) <= Counter(Observation)
          BY <1>2, <2>0, CounterGrows
        <4>4. ~(last < Index)
          BY <4>2, <4>3
        <4>5. says = "another"
          BY <2>4, <4>4
        <4>6. QED BY <2>3, <4>1, <4>5
      <3>2. QED BY <1>r, <2>0, <2>1, <2>4, <3>1
    <2>5. CASE ~(last < Index \/ says = "another")
      <3>1. PICK x : x = IF d = "valid" THEN "matched" ELSE f
        OBVIOUS
      <3>2. Returns([finding |-> x, revocation |-> says])
        BY <2>1, <2>5, <3>1 DEF d, f
      <3>3. Current => Matching(x, says)
        <4>1. SUFFICES ASSUME Current PROVE Matching(x, says)
          OBVIOUS
        <4>2. Published /\ says # "unknown"
          BY <2>0, <2>2, <4>1 DEF Published
        <4>3. (says = "revoked") = Revoked(Source, Observation)
          <5>1. Revoked(Source, Observation) \in BOOLEAN
            BY DEF Revoked
          <5>2. QED BY <2>3, <4>1, <5>1
        <4>4. x = "matched" => d = "valid"
          BY <2>0, <3>1
        <4>5. x = "mismatched" => d = "other"
          BY <2>0, <3>1
        <4>6. QED BY <4>2, <4>3, <4>4, <4>5 DEF Matching, RevocationIs, d
      <3>4. x # "orphaned"
        BY <2>0, <3>1
      <3>5. PICK F : F = [finding |-> x, revocation |-> says]
        OBVIOUS
      <3>6. DOMAIN F = {"finding", "revocation"} /\ F.finding = x /\ F.revocation = says
        BY <3>5
      <3>7. QED BY <1>r, <2>0, <3>2, <3>3, <3>4, <3>5, <3>6
    <2>6. QED BY <2>4, <2>5
  <1>9. CASE PublicationThrows
    <2>0. /\ SlotKeeps /\ pc \in {"publication", "published at", "published by", "domain", "stored"}
          /\ Returns([finding |-> "unavailable", revocation |-> "unknown"])
      BY <1>9 DEF PublicationThrows
    <2>1. PICK F : F = [finding |-> "unavailable", revocation |-> "unknown"]
      OBVIOUS
    <2>2. DOMAIN F = {"finding", "revocation"} /\ F.finding = "unavailable" /\ F.revocation = "unknown"
      BY <2>1
    <2>3. CASE pc \in {"published by", "domain", "stored"}
      BY <1>m, <1>r, <2>0, <2>1, <2>2, <2>3
    <2>4. CASE pc = "published at"
      <3>1. ~s /\ o
        BY <1>1, <2>4 DEF PublicationAt, PublicationPhases
      <3>2. Went("reobserved", F)
        BY <2>0, <2>1, <3>1 DEF Returns, s, o
      <3>3. PublicationAt("reobserved", w, s, o, "unavailable", "unknown")
        BY <1>1, <1>m, <3>1 DEF PublicationAt, PublicationPhases, Orphaning, ScanPhases, ReplayPhases
      <3>4. QED BY <1>0, <2>0, <2>2, <3>2, <3>3, PublicationGoes DEF w, s, o
    <2>5. CASE pc = "publication"
      <3>1. ~s /\ ~o
        BY <1>1, <2>5 DEF PublicationAt
      <3>2. Went("published", F)
        BY <2>0, <2>1, <3>1 DEF Returns, s, o
      <3>3. PublicationAt("published", w, s, o, "unavailable", "unknown")
        BY <1>1, <1>m, <3>1 DEF PublicationAt, PublicationPhases, Orphaning, ScanPhases, ReplayPhases
      <3>4. QED BY <1>0, <2>0, <2>2, <3>2, <3>3, PublicationGoes DEF w, s, o
    <2>6. QED BY <2>0, <2>3, <2>4, <2>5
  <1>10. CASE Republished
    <2>0. pc = "republished" /\ SlotKeeps
      BY <1>10 DEF Republished
    <2>1. s /\ w /\ o /\ Source <= Observation /\ (Current => Matching(f, r)) /\ Orphaning(f)
      BY <1>1, <2>0 DEF PublicationAt, PublicationPhases
    <2>2. ASSUME NEW x \in {"orphaned", "unavailable"}, x = "orphaned" => ~Own(Source),
                 Went("reobserved", [finding |-> x, revocation |-> "unknown"])
          PROVE  PublicationInv'
      <3>1. PublicationAt("reobserved", w, s, o, x, "unknown")
        BY <1>1, <1>m, <2>1, <2>2 DEF PublicationAt, PublicationPhases, Orphaning, ScanPhases, ReplayPhases
      <3>2. PICK F : F = [finding |-> x, revocation |-> "unknown"]
        OBVIOUS
      <3>3. DOMAIN F = {"finding", "revocation"} /\ F.finding = x /\ F.revocation = "unknown"
        BY <3>2
      <3>4. Went("reobserved", F)
        BY <2>2, <3>2
      <3>5. QED BY <1>0, <2>0, <3>1, <3>3, <3>4, PublicationGoes DEF w, s, o
    <2>3. CASE Went("reobserved", Nothing)
      <3>1. PublicationAt("reobserved", w, s, o, f, r)
        BY <1>1, <2>1 DEF PublicationAt, PublicationPhases, ScanPhases, ReplayPhases
      <3>2. QED BY <1>n, <2>0, <2>3, <3>1
    <2>4. \/ Went("reobserved", Nothing)
          \/ ~Own(Source) /\ Went("reobserved", [finding |-> "orphaned", revocation |-> "unknown"])
          \/ Went("reobserved", [finding |-> "unavailable", revocation |-> "unknown"])
      BY <1>10 DEF Republished
    <2>5. QED BY <2>2, <2>3, <2>4
  <1>11. CASE Reobserved
    <2>0. pc = "reobserved" /\ SlotKeeps
      BY <1>11 DEF Reobserved
    <2>1. o /\ (Current => Matching(f, r)) /\ Orphaning(f) /\ (~w => Matching(f, r))
      BY <1>1, <2>0 DEF PublicationAt, PublicationPhases
    <2>2. CASE Own(Observation) = got.own /\ Went("published", Nothing)
      <3>1. Matching(f, r)
        BY <1>1, <1>2, <2>1, <2>2 DEF w
      <3>2. PublicationAt("published", w, s, o, f, r)
        BY <1>1, <2>1, <3>1 DEF PublicationAt, PublicationPhases, ScanPhases, ReplayPhases
      <3>3. QED BY <1>n, <2>0, <2>2, <3>2
    <2>3. CASE Went("published", Failed("unavailable"))
      <3>1. PICK F : F = Failed("unavailable")
        OBVIOUS
      <3>2. PICK x : x = IF f = "orphaned" THEN "orphaned" ELSE "unavailable"
        OBVIOUS
      <3>3. DOMAIN F = {"finding", "revocation"} /\ F.finding = x /\ F.revocation = "unknown"
        BY <3>1, <3>2 DEF Failed, f
      <3>4. Orphaning(x) /\ Matching(x, "unknown")
        BY <1>m, <2>1, <3>2 DEF Orphaning
      <3>5. PublicationAt("published", w, s, o, x, "unknown")
        BY <1>1, <3>4 DEF PublicationAt, PublicationPhases, ScanPhases, ReplayPhases
      <3>6. QED BY <1>0, <2>0, <2>3, <3>1, <3>3, <3>5, PublicationGoes DEF w, s, o
    <2>4. QED BY <1>11, <2>2, <2>3 DEF Reobserved
  <1>12. CASE PublicationEnds
    <2>0. pc = "published" /\ UNCHANGED got
      BY <1>12 DEF PublicationEnds
    <2>1. Matching(f, r) /\ Orphaning(f)
      BY <1>1, <2>0 DEF PublicationAt
    <2>2. CASE reader = "carry"
      <3>1. pc' = "recheck original"
        BY <1>12, <2>2 DEF PublicationEnds
      <3>2. PublicationAt("recheck original", w, s, o, f, r)
        BY <1>1, <2>1 DEF PublicationAt, PublicationPhases, ScanPhases, ReplayPhases
      <3>3. SlotFields \subseteq DOMAIN got' /\ \A k \in SlotFields : got'[k] = got[k]
        BY <1>0, <2>0 DEF PublicationInv
      <3>4. PICK p : p = "recheck original"
        OBVIOUS
      <3>5. PublicationAt(p, got.own, got.sourceRead, got.observedRead, got.finding, got.revocation)
        BY <3>2, <3>4 DEF w, s, o, f, r
      <3>6. pc' = p /\ p \notin {"done", "original head", "original snapshot", "publication"}
        BY <3>1, <3>4
      <3>7. QED BY <1>0, <3>3, <3>5, <3>6, PublicationRests
    <2>3. CASE reader = "publication"
      <3>1. pc' = "done" /\ verdict' = [status |-> f, revocation |-> r]
        BY <1>12, <2>3 DEF PublicationEnds, Report, f, r
      <3>2. SlotStays
        BY <1>0, <2>0, <2>3 DEF SlotStays
      <3>3. PICK f1, r1 : f1 = f /\ r1 = r
        OBVIOUS
      <3>4. Matching(f1, r1)' /\ Orphaning(f1)'
        BY <2>1, <3>2, <3>3, SlotStaysFacts
      <3>5. verdict'.status = f1 /\ verdict'.revocation = r1
        BY <3>1, <3>3
      <3>6. SlotsHold'
        BY <1>0, <2>3, <3>4, <3>5 DEF SlotsHold, Matching, Orphaning
      <3>7. SlotFields \subseteq DOMAIN got' /\ got'.document \in {"valid", "other", "absent"}
        BY <1>0, <2>0 DEF PublicationInv
      <3>8. QED BY <1>0, <2>3, <3>1, <3>6, <3>7 DEF PublicationInv
    <2>4. QED BY <1>0, <2>2, <2>3
  <1>13. QED BY <1>4, <1>5, <1>6, <1>7, <1>8, <1>9, <1>10, <1>11, <1>12 DEF PublicationNext

\* The epoch of the agent is read beside what is known of the publication.
LEMMA IdentityCarries ==
  ASSUME Phased, reader = "carry", IdentityNext
  PROVE  /\ pc \in ScanPhases \cup ReplayPhases /\ pc' \in ScanPhases \cup ReplayPhases \cup {"carry"}
         /\ DOMAIN got' = DOMAIN got /\ UNCHANGED verdict
         /\ \A k \in DOMAIN got : k \notin {"known", "failed", "epoch"} => got'[k] = got[k]
  <1>p. /\ PhasesOf("carry") \cap (SnapshotPhases \cup {"boundaries"}) = {}
        /\ "done" \notin ScanPhases \cup ReplayPhases
    BY DEF PhasesOf, OriginalPhases, PublicationPhases, ScanPhases, ReplayPhases, SnapshotPhases
  <1>g. ASSUME NEW finding, Give(finding), pc \in ScanPhases \cup ReplayPhases
        PROVE  /\ pc' = "carry" /\ DOMAIN got' = DOMAIN got /\ UNCHANGED verdict
               /\ \A k \in DOMAIN got : k \notin {"known", "failed", "epoch"} => got'[k] = got[k]
    BY <1>g, GiveFacts
  <1> DEFINE Quiet == /\ pc' \in ScanPhases \cup ReplayPhases \cup {"carry"}
                      /\ DOMAIN got' = DOMAIN got /\ UNCHANGED verdict
                      /\ \A k \in DOMAIN got : k \notin {"known", "failed", "epoch"} => got'[k] = got[k]
  <1>1. CASE SnapshotHead \/ SnapshotRead \/ SnapshotGuard \/ RecheckBoundaries \/ ContinuityCollected
    <2>1. pc \in SnapshotPhases \cup {"boundaries"} \/ reader # "carry"
      BY <1>1 DEF SnapshotHead, SnapshotRead, SnapshotGuard, RecheckBoundaries, ContinuityCollected, SnapshotPhases
    <2>2. QED BY <1>p, <2>1 DEF Phased
  <1>2. CASE Bounds
    <2>1. pc \in ScanPhases
      BY <1>2 DEF Bounds, ScanPhases
    <2>2. Quiet
      BY <1>2, <1>g, <2>1 DEF Bounds, Unknown, ScanPhases
    <2>3. QED BY <2>1, <2>2
  <1>3. CASE KnownAt
    <2>1. pc \in ScanPhases
      BY <1>3 DEF KnownAt, ScanPhases
    <2>2. CASE Unknown
      BY <1>g, <2>1, <2>2 DEF Unknown
    <2>3. ASSUME NEW known, got' = [got EXCEPT !.known = known], UNCHANGED verdict,
                 pc' \in {"collected", "page", "implementation"}
          PROVE  Quiet
      BY <2>3 DEF ScanPhases
    <2>4. Unknown \/ Quiet
      BY <1>3, <2>3 DEF KnownAt
    <2>5. QED BY <2>1, <2>2, <2>4
  <1>4. CASE ScanPage \/ ScanLog \/ ScanFails
    <2>1. /\ pc \in {"page", "log"} /\ pc' \in {"page", "log", "collected"} /\ UNCHANGED verdict
          /\ UNCHANGED got \/ got' = [got EXCEPT !.failed = TRUE]
      BY <1>4 DEF ScanPage, ScanLog, ScanFails
    <2>2. QED BY <2>1 DEF ScanPhases
  <1>5. CASE EpochCollected \/ EpochCurrent
    <2>1. pc \in ScanPhases \cup ReplayPhases
      BY <1>5 DEF EpochCollected, EpochCurrent, ScanPhases, ReplayPhases
    <2>2. Quiet
      BY <1>5, <1>g, <2>1 DEF EpochCollected, EpochCurrent, Unknown, ReplayPhases
    <2>3. QED BY <2>1, <2>2
  <1>6. CASE EpochRecheck
    <2>1. pc \in ReplayPhases
      BY <1>6 DEF EpochRecheck, ReplayPhases
    <2>2. Quiet
      BY <1>6, <1>g, <2>1 DEF EpochRecheck, Unknown, ReplayPhases
    <2>3. QED BY <2>1, <2>2
  <1>7. CASE IdentityReadFails
    <2>1. pc \in SnapshotPhases \cup {"boundaries"} \cup ScanPhases \cup ReplayPhases
      BY <1>7 DEF IdentityReadFails, SnapshotPhases, ScanPhases, ReplayPhases
    <2>2. pc \in ScanPhases \cup ReplayPhases
      BY <1>p, <2>1 DEF Phased
    <2>3. Quiet
      BY <1>7, <1>g, <2>2 DEF IdentityReadFails, Unknown
    <2>4. QED BY <2>2, <2>3
  <1>8. QED BY <1>1, <1>2, <1>3, <1>4, <1>5, <1>6, <1>7 DEF IdentityNext

\* A publication that is carried forward stays what it was.
LEMMA CarryKeepsPublication ==
  ASSUME WorldOK, Phased, PublicationInv, CarryNext
  PROVE  PublicationInv'
  <1>0. /\ reader = "carry" /\ UNCHANGED <<reader, base, story, common>>
        /\ pc \in {"original head", "original snapshot", "recheck original", "carry", "compose"}
    BY CarryMoves DEF CarryNext, OriginalHead, OriginalSnapshot, OriginalFails, RecheckOriginal, Weigh, Compose,
       ComposeFails, configVars, worldVars
  <1>1. /\ SlotFields \subseteq DOMAIN got /\ got.document \in {"valid", "other", "absent"}
        /\ PublicationAt(pc, got.own, got.sourceRead, got.observedRead, got.finding, got.revocation)
        /\ pc \in {"original head", "original snapshot"} => got.which = "basis" /\ (Current \/ common < base.mid)
    BY <1>0 DEF PublicationInv
  <1>d. ASSUME pc' = "done", UNCHANGED got
        PROVE  PublicationInv'
    BY <1>0, <1>1, <1>d DEF PublicationInv
  <1>w. ASSUME NEW p, NEW F, Went(p, F), DOMAIN F \cap SlotFields = {},
               \/ p \in {"original snapshot", "publication"} /\ pc \in {"original head", "original snapshot"}
               \/ p \in {"bounds", "compose"} /\ pc \in {"recheck original", "carry", "compose"}
        PROVE  PublicationInv'
    <2>1. pc' = p /\ SlotFields \subseteq DOMAIN got' /\ \A k \in SlotFields : got'[k] = got[k]
      <3>1. pc' = p /\ DOMAIN got' = DOMAIN F \cup DOMAIN got
        BY <1>w, WentFacts
      <3>2. \A k \in DOMAIN got : k \notin DOMAIN F => got'[k] = got[k]
        BY <1>w, WentFacts
      <3>3. QED BY <1>1, <1>w, <3>1, <3>2
    <2>2. PublicationAt(p, got.own, got.sourceRead, got.observedRead, got.finding, got.revocation)
      BY <1>1, <1>w DEF PublicationAt, PublicationPhases, ScanPhases, ReplayPhases
    <2>3. CASE p \notin {"done", "original head", "original snapshot", "publication"}
      BY <1>0, <2>1, <2>2, <2>3, PublicationRests
    <2>4. CASE p \in {"original snapshot", "publication"}
      <3>1. got'.which = got.which /\ got'.document = got.document
        BY <2>1 DEF SlotFields
      <3>2. /\ got'.which = "basis" /\ (Current \/ common < base.mid)
        BY <1>1, <1>w, <2>4, <3>1
      <3>3. (Current \/ common < base.mid)'
        BY <1>0, <3>2 DEF Current, Own
      <3>4. SlotStays
        BY <1>0, <2>1, <3>1 DEF SlotStays, SlotFields
      <3>5. PICK v, s, o, f, r : /\ v = got'.own /\ s = got'.sourceRead /\ o = got'.observedRead /\ f = got'.finding
                                 /\ r = got'.revocation
        OBVIOUS
      <3>6. v = got.own /\ s = got.sourceRead /\ o = got.observedRead /\ f = got.finding /\ r = got.revocation
        BY <2>1, <3>5 DEF SlotFields
      <3>7. PublicationAt(p, v, s, o, f, r)
        BY <2>2, <3>6
      <3>8. PublicationAt(p, v, s, o, f, r)'
        BY <3>4, <3>7, SlotStaysFacts
      <3>9. PublicationAt(pc, got.own, got.sourceRead, got.observedRead, got.finding, got.revocation)'
        BY <2>1, <3>5, <3>8
      <3>10. QED BY <1>0, <1>1, <2>1, <3>1, <3>2, <3>3, <3>9 DEF PublicationInv
    <2>5. QED BY <1>w, <2>3, <2>4
  <1>n. DOMAIN Nothing = {}
    BY DEF Nothing
  <1>2. CASE OriginalHead \/ OriginalFails
    BY <1>w, <1>n, <1>2 DEF OriginalHead, OriginalFails, SlotFields
  <1>3. CASE OriginalSnapshot
    BY <1>w, <1>3 DEF OriginalSnapshot, SlotFields
  <1>4. CASE RecheckOriginal
    BY <1>d, <1>w, <1>4 DEF RecheckOriginal, Conclude, Report, SlotFields
  <1>5. CASE Weigh
    BY <1>d, <1>w, <1>n, <1>5 DEF Weigh, Conclude, Report
  <1>6. CASE Compose
    <2>1. CASE UNCHANGED <<pc, got>>
      <3>1. SlotFields \subseteq DOMAIN got' /\ \A k \in SlotFields : got'[k] = got[k]
        BY <1>1, <2>1
      <3>2. PICK p : p = "compose"
        OBVIOUS
      <3>3. pc = p /\ pc' = p /\ p \notin {"done", "original head", "original snapshot", "publication"} /\ pc # "done"
        BY <1>6, <2>1, <3>2 DEF Compose
      <3>4. PublicationAt(p, got.own, got.sourceRead, got.observedRead, got.finding, got.revocation)
        BY <1>1, <3>3
      <3>5. QED BY <1>0, <3>1, <3>3, <3>4, PublicationRests
    <2>2. QED BY <1>d, <1>6, <2>1 DEF Compose, Conclude, Report
  <1>7. CASE ComposeFails
    BY <1>d, <1>7 DEF ComposeFails, Conclude, Report
  <1>8. QED BY <1>2, <1>3, <1>4, <1>5, <1>6, <1>7 DEF CarryNext

\* Every step keeps what is so of a publication.
LEMMA PublicationKeeps ==
  ASSUME WorldOK, Phased, PublicationInv, ReaderNext
  PROVE  PublicationInv'
  <1>0. WorldOK' /\ Phased' /\ UNCHANGED <<reader, base, story>>
    BY WorldKeeps
  <1> SUFFICES ASSUME reader \in {"publication", "carry"}
               PROVE  PublicationInv'
    BY <1>0 DEF PublicationInv
  <1>1. CASE Reorganize
    <2>1. /\ UNCHANGED <<pc, got, verdict>> /\ pc # "done" /\ (got.which = "basis" => common' < base.mid)
          /\ common' < common
      BY <1>1, Reorganizing DEF Reorganize
    <2>2. PICK w, s, o, f, r : /\ w = got.own /\ s = got.sourceRead /\ o = got.observedRead /\ f = got.finding
                               /\ r = got.revocation
      OBVIOUS
    <2>3. PICK p : p = pc
      OBVIOUS
    <2>4. PublicationAt(p, w, s, o, f, r)
      BY <2>1, <2>2, <2>3 DEF PublicationInv
    <2>5. PublicationAt(p, w, s, o, f, r)'
      BY <1>1, <2>4, SlotReorganized
    <2>6. PublicationAt(pc, got.own, got.sourceRead, got.observedRead, got.finding, got.revocation)'
      BY <2>1, <2>2, <2>3, <2>5
    <2>7. QED BY <1>0, <2>1, <2>6 DEF PublicationInv
  <1>2. CASE PublicationNext
    BY <1>2, PublicationStepKeeps
  <1>3. CASE CarryNext
    BY <1>3, CarryKeepsPublication
  <1>4. CASE IdentityNext
    <2>1. reader = "carry" /\ UNCHANGED common
      BY <1>4, IdentityMoves DEF worldVars
    <2>2. /\ pc \in ScanPhases \cup ReplayPhases /\ pc' \in ScanPhases \cup ReplayPhases \cup {"carry"}
          /\ DOMAIN got' = DOMAIN got
          /\ \A k \in DOMAIN got : k \notin {"known", "failed", "epoch"} => got'[k] = got[k]
      BY <1>4, <2>1, IdentityCarries
    <2>3. SlotFields \subseteq DOMAIN got' /\ \A k \in SlotFields : got'[k] = got[k]
      BY <2>1, <2>2 DEF PublicationInv, SlotFields
    <2>4. PICK p : p = pc'
      OBVIOUS
    <2>5. p \notin {"done", "original head", "original snapshot", "publication"} /\ pc # "done"
      BY <2>2, <2>4 DEF ScanPhases, ReplayPhases
    <2>6. PublicationAt(p, got.own, got.sourceRead, got.observedRead, got.finding, got.revocation)
      <3>1. PublicationAt(pc, got.own, got.sourceRead, got.observedRead, got.finding, got.revocation)
        BY <2>1, <2>5 DEF PublicationInv
      <3>2. QED BY <2>2, <2>4, <3>1 DEF PublicationAt, PublicationPhases, ScanPhases, ReplayPhases
    <2>7. QED BY <1>0, <2>1, <2>3, <2>4, <2>5, <2>6, PublicationRests
  <1>5. QED
    BY <1>1, <1>2, <1>3, <1>4, ObservationMoves, CheckpointMoves, ActivationMoves DEF ReaderNext

--------------------------------------------------------------------------------
(* Carried forward. *)

\* Heights, not none, have a first one.
LEMMA FirstHeight ==
  ASSUME NEW S, S \subseteq Heights, S # {}
  PROVE  \E m \in S : \A x \in S : m <= x
  <1> DEFINE Below(m) == {x \in S : x <= m}
             T == {Below(m) : m \in S}
  <1>1. IsFiniteSet(S) /\ T \subseteq SUBSET S /\ T # {} /\ \A x \in S : x \in Int
    <2>1. IsFiniteSet(1..Tip)
      BY RegistryAssumption, FS_Interval
    <2>2. S \subseteq 1..Tip
      BY DEF Heights
    <2>3. IsFiniteSet(S)
      BY <2>1, <2>2, FS_Subset
    <2>4. T \subseteq SUBSET S
      OBVIOUS
    <2>5. T # {}
      OBVIOUS
    <2>6. \A x \in S : x \in Int
      BY <2>2
    <2>7. QED BY <2>3, <2>4, <2>5, <2>6
  <1>2. PICK U \in T : \A V \in T : V \subseteq U => V = U
    <2> HIDE DEF T
    <2>1. QED BY <1>1, Smallest
  <1>3. PICK m \in S : U = Below(m)
    BY <1>2
  <1>4. ASSUME NEW x \in S, ~(m <= x)
        PROVE  FALSE
    <2>1. Below(x) \subseteq Below(m) /\ m \notin Below(x) /\ m \in Below(m)
      BY <1>1, <1>3, <1>4
    <2>2. QED BY <1>2, <1>3, <2>1
  <1>5. QED BY <1>4

\* The first of some heights, or none.
LEMMA FirstAtFacts ==
  ASSUME NEW S, S \subseteq Heights
  PROVE  /\ S = {} => FirstAt(S) = 0
         /\ S # {} => FirstAt(S) \in S /\ FirstAt(S) > 0 /\ \A x \in S : FirstAt(S) <= x
  <1>1. CASE S = {}
    BY <1>1 DEF FirstAt
  <1>2. CASE S # {}
    <2>1. PICK m \in S : \A x \in S : m <= x
      BY <1>2, FirstHeight
    <2>2. FirstAt(S) \in S /\ \A x \in S : FirstAt(S) <= x
      BY <1>2, <2>1 DEF FirstAt
    <2>3. \A x \in S : x > 0
      BY DEF Heights
    <2>4. QED BY <1>2, <2>2, <2>3
  <1>3. QED BY <1>1, <1>2

\* A publication is carried forward exactly when the given chain allows it.
LEMMA EndsBeforeIsTrue ==
  ASSUME WorldOK, NEW e, e.status # "unknown", EpochTruth(e), reader = "carry", Published
  PROVE  EndsBefore(e) <=>
           /\ story[base.mid] = "feedback" /\ base.mid >= base.low
           /\ Between({"runtime"}) # {} /\ Between(Breaks) = Between({"runtime"})
           /\ \A h \in Between(Breaks) : base.mid < h
  <1>1. /\ e.transferred = (Between({"transfer"}) # {}) /\ e.deauthorized = (Between({"deauthorize"}) # {})
        /\ e.retirement = FirstAt(Between({"runtime"}))
    BY DEF EpochTruth
  <1>2. story[base.mid] = "feedback"
    BY DEF Published, Source
  <1>3. \A K : Between(K) \subseteq Heights /\ \A h : h \in Between(K) <=> h \in Between({story[h]}) /\ story[h] \in K
    BY DEF Between, Where
  <1>4. /\ e.retirement > 0 <=> Between({"runtime"}) # {}
        /\ Between({"runtime"}) # {} => /\ e.retirement \in Between({"runtime"})
                                       /\ \A h \in Between({"runtime"}) : e.retirement <= h
    BY <1>1, <1>3, FirstAtFacts
  <1>5. Between(Breaks) = Between({"runtime"}) <=> Between({"transfer"}) = {} /\ Between({"deauthorize"}) = {}
    BY DEF Between, Where, Breaks
  <1>6. base.mid \in Nat /\ base.low \in Nat /\ \A K : \A h \in Between(K) : h \in Nat
    BY <1>3, BlockFacts, RegistryAssumption DEF Heights
  <1>7. ASSUME Between({"runtime"}) # {}
        PROVE  base.mid < e.retirement <=> \A h \in Between({"runtime"}) : base.mid < h
    BY <1>4, <1>6, <1>7
  <1>8. /\ ~e.transferred <=> Between({"transfer"}) = {}
        /\ ~e.deauthorized <=> Between({"deauthorize"}) = {}
    BY <1>1
  <1>9. base.mid >= base.low <=> base.low <= base.mid
    BY <1>6
  <1>10. QED BY <1>2, <1>4, <1>5, <1>7, <1>8, <1>9 DEF EndsBefore

\* What a publication reader reads of it does not touch what else was read.
LEMMA PublicationLeaves ==
  ASSUME PublicationNext
  PROVE  /\ \A k \in DOMAIN got : k \notin {"which", "own", "sourceRead", "observedRead", "finding", "revocation"}
              => got'[k] = got[k]
         /\ pc' # "compose" /\ (reader = "carry" => pc' # "done")
  <1> DEFINE Quiet == /\ \A k \in DOMAIN got : k \notin {"which", "own", "sourceRead", "observedRead", "finding", "revocation"}
                           => got'[k] = got[k]
                      /\ pc' # "compose" /\ pc' # "done"
  <1>w. ASSUME NEW p \in PublicationPhases, NEW F, Went(p, F),
               DOMAIN F \subseteq {"which", "own", "sourceRead", "observedRead", "finding", "revocation"}
        PROVE  Quiet
    BY <1>w, WentFacts DEF PublicationPhases
  <1> HIDE DEF Quiet
  <1>n. DOMAIN Nothing = {}
    BY DEF Nothing
  <1>1. ASSUME PublicationObserved PROVE Quiet
    BY <1>w, <1>1 DEF PublicationObserved, PublicationPhases, Over
  <1>2. ASSUME PublicationSource PROVE Quiet
    BY <1>w, <1>n, <1>2 DEF PublicationSource, PublicationPhases, Returns
  <1>3. ASSUME PublicationReceipt PROVE Quiet
    BY <1>w, <1>n, <1>3 DEF PublicationReceipt, PublicationPhases, Returns
  <1>4. ASSUME PublicationDomain PROVE Quiet
    BY <1>w, <1>n, <1>4 DEF PublicationDomain, PublicationPhases, Returns
  <1>5. ASSUME PublicationStored PROVE Quiet
    BY <1>w, <1>n, <1>5 DEF PublicationStored, PublicationPhases, Returns
  <1>6. ASSUME PublicationThrows PROVE Quiet
    BY <1>w, <1>n, <1>6 DEF PublicationThrows, PublicationPhases, Returns
  <1>7. ASSUME Republished PROVE Quiet
    BY <1>w, <1>n, <1>7 DEF Republished, PublicationPhases
  <1>8. ASSUME Reobserved PROVE Quiet
    BY <1>w, <1>n, <1>8 DEF Reobserved, PublicationPhases, Failed
  <1>9. CASE PublicationEnds
    BY <1>9 DEF PublicationEnds, Report
  <1>10. QED BY <1>1, <1>2, <1>3, <1>4, <1>5, <1>6, <1>7, <1>8, <1>9 DEF PublicationNext, Quiet

\* What is found of the original authority is noted, beside the rest.
LEMMA WentAuthority ==
  ASSUME NEW p, NEW status, Went(p, [authority |-> status])
  PROVE  pc' = p /\ got'.authority = status /\ \A k \in DOMAIN got : k # "authority" => got'[k] = got[k]
  <1>1. PICK F : F = [authority |-> status]
    OBVIOUS
  <1>2. DOMAIN F = {"authority"} /\ F.authority = status /\ Went(p, F)
    BY <1>1
  <1>3. /\ pc' = p /\ \A k \in DOMAIN F : got'[k] = F[k]
        /\ \A k \in DOMAIN got : k \notin DOMAIN F => got'[k] = got[k]
    BY <1>2, WentFacts
  <1>4. QED BY <1>2, <1>3

\* The reader that carries feedback forward: every step keeps what is so of its conclusion.
LEMMA CarryKeepsInv ==
  ASSUME WorldOK, Phased, ScanInv, EpochInv, PublicationInv, CarryInv, ReaderNext
  PROVE  CarryInv'
  <1>0. WorldOK' /\ Phased' /\ UNCHANGED <<reader, base, story>>
    BY WorldKeeps
  <1> SUFFICES ASSUME reader = "carry"
               PROVE  CarryInv'
    BY <1>0 DEF CarryInv
  <1>1. /\ CarryFields \subseteq DOMAIN got /\ CarryFields \subseteq DOMAIN got'
        /\ got.claims \in Claims
        /\ got.authority = "matched" => got.claims # "unsound"
        /\ pc = "compose" => got.claims = "sound" /\ got.finding = "matched" /\ got.epoch.status # "unknown"
        /\ CarryHolds
        /\ "claims" \in DOMAIN got /\ "authority" \in DOMAIN got /\ "document" \in DOMAIN got /\ "finding" \in DOMAIN got
        /\ "epoch" \in DOMAIN got
    BY FieldsStay DEF CarryInv, CarryFields, IdentityFields, SlotFields
  <1>a. ASSUME got'.claims = got.claims, got'.authority \in {got.authority, "mismatched", "unavailable"},
               pc' \notin {"compose", "done"}
        PROVE  CarryInv'
    BY <1>0, <1>1, <1>a DEF CarryInv, CarryHolds
  <1>c. ASSUME NEW status, Conclude(status), status \notin {"qualified", "ineligible"}
        PROVE  CarryInv'
    BY <1>0, <1>1, <1>c DEF CarryInv, CarryHolds, Conclude, Report
  <1>2. CASE Reorganize
    <2>1. UNCHANGED <<pc, got, verdict>> /\ pc # "done"
      BY <1>2, Reorganizing DEF Reorganize
    <2>2. QED BY <1>0, <1>1, <2>1 DEF CarryInv, CarryHolds
  <1>3. CASE PublicationNext
    BY <1>1, <1>3, <1>a, PublicationLeaves
  <1>4. CASE IdentityNext
    <2>1. pc' \notin {"compose", "done"}
      BY <1>4, IdentityCarries DEF ScanPhases, ReplayPhases
    <2>2. got'.claims = got.claims /\ got'.authority = got.authority
      BY <1>1, <1>4, IdentityCarries
    <2>3. QED BY <1>a, <2>1, <2>2
  <1>5. CASE OriginalHead
    <2>1. CASE Went(pc', Nothing)
      BY <1>1, <1>5, <1>a, <2>1, NothingFacts DEF OriginalHead, Went
    <2>2. CASE Went("publication", [authority |-> "mismatched"])
      <3>1. got'.claims = got.claims /\ got'.authority = "mismatched" /\ pc' = "publication"
        BY <1>1, <2>2, WentAuthority
      <3>2. QED BY <1>a, <3>1
    <2>3. QED BY <1>5, <2>1, <2>2 DEF OriginalHead, Went
  <1>6. CASE OriginalSnapshot
    <2>1. PICK F : /\ Went("publication", F)
                   /\ F = IF ~Own(base.low) THEN [authority |-> "mismatched"]
                          ELSE [checked |-> TRUE, authority |-> IF got.claims = "unsound" THEN "mismatched" ELSE "matched"]
      BY <1>6 DEF OriginalSnapshot
    <2>2. /\ "claims" \notin DOMAIN F /\ "authority" \in DOMAIN F
          /\ F.authority = "matched" => got.claims # "unsound"
      BY <2>1
    <2>3. got'.claims = got.claims /\ got'.authority = F.authority /\ pc' = "publication"
      BY <1>1, <2>1, <2>2, WentFacts
    <2>4. QED BY <1>0, <1>1, <2>2, <2>3 DEF CarryInv, CarryHolds
  <1>7. CASE OriginalFails
    <2>1. got'.claims = got.claims /\ got'.authority = "unavailable" /\ pc' = "publication"
      BY <1>1, <1>7, WentAuthority DEF OriginalFails
    <2>2. QED BY <1>a, <2>1
  <1>8. CASE RecheckOriginal
    <2>1. PICK status \in {got.authority, "mismatched", "unavailable"} :
            Conclude("unknown") \/ Went("bounds", [authority |-> status])
      BY <1>8 DEF RecheckOriginal
    <2>2. CASE Conclude("unknown")
      BY <1>c, <2>2
    <2>3. CASE Went("bounds", [authority |-> status])
      <3>1. got'.claims = got.claims /\ got'.authority = status /\ pc' = "bounds"
        BY <1>1, <2>3, WentAuthority
      <3>2. QED BY <1>a, <2>1, <3>1
    <2>4. QED BY <2>1, <2>2, <2>3
  <1>9. CASE Weigh
    <2>1. CASE got.claims = "uncommitted"
      <3>1. pc' = "done" /\ UNCHANGED got /\ verdict' = [status |-> "ineligible"]
        BY <1>9, <2>1 DEF Weigh, Conclude, Report
      <3>2. got'.claims # "sound" /\ verdict'.status # "qualified"
        BY <2>1, <3>1
      <3>3. CarryHolds'
        BY <3>2 DEF CarryHolds
      <3>4. QED BY <1>0, <1>1, <3>1, <3>3 DEF CarryInv
    <2>2. CASE got.claims # "uncommitted" /\ (got.authority # "matched" \/ got.finding # "matched" \/ got.epoch.status = "unknown")
      BY <1>9, <1>c, <2>2 DEF Weigh
    <2>3. CASE got.claims # "uncommitted" /\ got.authority = "matched" /\ got.finding = "matched" /\ got.epoch.status # "unknown"
      <3>1. Went("compose", Nothing)
        BY <1>9, <2>3 DEF Weigh
      <3>2. /\ pc' = "compose" /\ got'.claims = got.claims /\ got'.authority = got.authority /\ got'.finding = got.finding
            /\ got'.epoch = got.epoch
        BY <1>1, <3>1, NothingFacts
      <3>3. got'.claims = "sound"
        BY <1>1, <2>3, <3>2 DEF Claims
      <3>4. QED BY <1>0, <1>1, <2>3, <3>2, <3>3 DEF CarryInv, CarryHolds, Claims
    <2>4. QED BY <2>1, <2>2, <2>3
  <1>10. CASE Compose
    <2>1. pc = "compose" /\ got.claims = "sound" /\ got.finding = "matched" /\ got.epoch.status # "unknown"
      BY <1>1, <1>10 DEF Compose
    <2>2. CASE left = <<>>
      <3>1. EpochTruth(got.epoch)
        BY <2>1 DEF EpochInv
      <3>2. Matching(got.finding, got.revocation)
        BY <2>1 DEF PublicationInv, PublicationAt
      <3>3. Published /\ got.document = "valid"
        BY <2>1, <3>2 DEF Matching
      <3> DEFINE eligible == /\ story[base.mid] = "feedback" /\ base.mid >= base.low
                             /\ Between({"runtime"}) # {} /\ Between(Breaks) = Between({"runtime"})
                             /\ \A h \in Between(Breaks) : base.mid < h
      <3>4. EndsBefore(got.epoch) <=> eligible
        BY <2>1, <3>1, <3>3, EndsBeforeIsTrue
      <3>5. /\ pc' = "done" /\ UNCHANGED got
            /\ verdict'.status = IF EndsBefore(got.epoch) THEN "qualified" ELSE "ineligible"
        BY <1>10, <2>2 DEF Compose, Conclude, Report
      <3>6. eligible' <=> eligible
        BY <1>0, StoryStays
      <3>7. CarryHolds'
        BY <1>0, <2>1, <3>3, <3>4, <3>5, <3>6 DEF CarryHolds
      <3>8. QED BY <1>0, <1>1, <3>5, <3>7 DEF CarryInv
    <2>3. CASE left # <<>> /\ Own(Head(left))
      <3>1. UNCHANGED <<pc, got, verdict>>
        BY <1>10, <2>3 DEF Compose
      <3>2. QED BY <1>0, <1>1, <2>1, <3>1 DEF CarryInv, CarryHolds
    <2>4. CASE left # <<>> /\ ~Own(Head(left))
      BY <1>10, <1>c, <2>4 DEF Compose
    <2>5. QED BY <2>2, <2>3, <2>4
  <1>11. CASE ComposeFails
    BY <1>11, <1>c DEF ComposeFails
  <1>12. QED
    BY <1>2, <1>3, <1>4, <1>5, <1>6, <1>7, <1>8, <1>9, <1>10, <1>11, ObservationMoves, CheckpointMoves, ActivationMoves
    DEF ReaderNext, CarryNext

--------------------------------------------------------------------------------
(* The activation of a registry. *)

\* A block that is remembered leaves the others.
LEMMA BasisFacts ==
  ASSUME NEW h, NEW own, IsASeq(noted), UNCHANGED base,
         noted' = IF Noted(h) THEN noted ELSE Append(noted, [at |-> h, own |-> own])
  PROVE  /\ IsASeq(noted')
         /\ HighIn(noted) => HighIn(noted')
         /\ ~Noted(h) /\ h = base.high /\ own = TRUE => HighIn(noted')
         /\ (\A i \in DOMAIN noted : noted[i].at = h) => \A i \in DOMAIN noted' : noted'[i].at = h
  <1>1. CASE Noted(h)
    BY <1>1 DEF HighIn, Noted
  <1>2. CASE ~Noted(h)
    <2>1. PICK x : x = [at |-> h, own |-> own]
      OBVIOUS
    <2>2. PICK t : t = noted'
      OBVIOUS
    <2>3. t = Append(noted, x) /\ x.at = h /\ x.own = own
      BY <1>2, <2>1, <2>2
    <2>4. /\ IsASeq(t) /\ Len(t) \in DOMAIN t /\ t[Len(t)] = x
          /\ \A i \in DOMAIN noted : i \in DOMAIN t /\ t[i] = noted[i]
          /\ \A i \in DOMAIN t : i \in DOMAIN noted \/ i = Len(t)
      BY <2>3, AppendFacts
    <2>5. HighIn(noted) => HighIn(t)
      BY <2>4 DEF HighIn
    <2>6. h = base.high /\ own = TRUE => HighIn(t)
      BY <2>3, <2>4 DEF HighIn
    <2>7. (\A i \in DOMAIN noted : noted[i].at = h) => \A i \in DOMAIN t : t[i].at = h
      BY <2>3, <2>4
    <2>8. QED BY <2>2, <2>4, <2>5, <2>6, <2>7
  <1>3. QED BY <1>1, <1>2

\* Where the registry is activated as configured, its implementation is the known one from there on.
LEMMA ActivatedIsKnown ==
  ASSUME WorldOK, reader = "activation", AsConfigured, NEW h \in {base.mid, base.high}
  PROVE  Known(h)
  <1> DEFINE S == Where(Changes, 1, h)
  <1>0. /\ base.low \in Nat /\ base.mid \in Nat /\ base.high \in Nat /\ base.low < base.mid /\ base.mid <= base.high
        /\ base.mid \in Heights /\ base.mid > 0
    BY BlockFacts DEF WorldOK
  <1>1. base.mid \in S
    BY <1>0 DEF AsConfigured, Where, Changes
  <1>2. \A y \in S : y <= base.mid
    <2>1. ASSUME NEW y \in S, ~(y <= base.mid)
          PROVE  FALSE
      <3>1. y \in Heights /\ y <= h /\ story[y] \in Changes /\ y \in Int
        BY DEF Where, Heights
      <3>2. y \in Where(Changes, base.low, base.high)
        BY <1>0, <2>1, <3>1 DEF Where
      <3>3. y \in {base.low, base.mid}
        BY <3>2 DEF AsConfigured
      <3>4. QED BY <1>0, <2>1, <3>3
    <2>2. QED BY <2>1
  <1>3. \A x \in S : (\A y \in S : y <= x) => x = base.mid
    <2>1. \A x \in S : x \in Int
      BY DEF Where, Heights
    <2>2. QED BY <1>0, <1>1, <1>2, <2>1
  <1>4. LastOf(Changes, h) = base.mid
    <2>1. (CHOOSE x \in S : \A y \in S : y <= x) = base.mid
      <3> HIDE DEF S
      <3>1. QED BY <1>1, <1>2, <1>3
    <2>2. QED BY <1>1, <2>1 DEF LastOf
  <1>5. QED BY <1>4 DEF Known, Changes, AsConfigured

\* The changes that were seen are the two expected ones exactly when the registry was activated so.
LEMMA SeenIsExpected ==
  ASSUME WorldOK, reader = "activation"
  PROVE  Events(Changes, base.low, base.high) = Expected <=> AsConfigured
  <1>0. /\ base.low \in Nat /\ base.mid \in Nat /\ base.low < base.mid
    BY BlockFacts DEF WorldOK
  <1> DEFINE W == Where(Changes, base.low, base.high)
  <1>1. Events(Changes, base.low, base.high) = {Event(h) : h \in W}
    BY DEF Events
  <1>2. \A h : Event(h).at = h /\ Event(h).kind = story[h]
    BY DEF Event
  <1> HIDE DEF W
  <1>3. ASSUME AsConfigured PROVE {Event(h) : h \in W} = Expected
    <2>1. W = {base.low, base.mid} /\ story[base.low] = "upgrade" /\ story[base.mid] = "restore"
      BY <1>3 DEF AsConfigured, W
    <2>2. Event(base.low) = [at |-> base.low, kind |-> "upgrade", own |-> TRUE]
      BY <2>1 DEF Event
    <2>3. Event(base.mid) = [at |-> base.mid, kind |-> "restore", own |-> TRUE]
      BY <2>1 DEF Event
    <2>4. Expected = {Event(base.low), Event(base.mid)}
      BY <2>2, <2>3 DEF Expected
    <2>5. QED BY <2>1, <2>4
  <1>4. ASSUME {Event(h) : h \in W} = Expected PROVE AsConfigured
    <2>1. PICK a : a = [at |-> base.low, kind |-> "upgrade", own |-> TRUE]
      OBVIOUS
    <2>2. PICK b : b = [at |-> base.mid, kind |-> "restore", own |-> TRUE]
      OBVIOUS
    <2>3. {Event(h) : h \in W} = {a, b}
      BY <1>4, <2>1, <2>2 DEF Expected
    <2>4. a.at = base.low /\ a.kind = "upgrade" /\ b.at = base.mid /\ b.kind = "restore"
      BY <2>1, <2>2
    <2>5. PICK h1 \in W : Event(h1) = a
      BY <2>3
    <2>6. PICK h2 \in W : Event(h2) = b
      BY <2>3
    <2>7. base.low \in W /\ story[base.low] = "upgrade" /\ base.mid \in W /\ story[base.mid] = "restore"
      BY <1>2, <2>4, <2>5, <2>6
    <2>8. \A h \in W : h \in {base.low, base.mid}
      BY <1>2, <2>3, <2>4
    <2>9. QED BY <2>7, <2>8 DEF AsConfigured, W
  <1>5. QED BY <1>1, <1>3, <1>4

\* What is so of a stretch of the chain stays so.
LEMMA AsConfiguredStays ==
  ASSUME UNCHANGED <<base, story>>
  PROVE  /\ AsConfigured' <=> AsConfigured
         /\ \A f : FindingIsTrue(f)' <=> FindingIsTrue(f)
  <1>1. AsConfigured' <=> AsConfigured
    BY DEF AsConfigured, Where
  <1>2. QED BY <1>1 DEF FindingIsTrue

\* A finding ends the reads; every block that was read is looked at again.
LEMMA ThrowKeeps ==
  ASSUME WorldOK, ActivationInv, reader = "activation", UNCHANGED <<reader, base, story, common, verdict>>,
         NEW f \in {"unavailable", "mismatched", "unsupported"}, Throw(f),
         IsASeq(noted'), HighIn(noted') \/ f = "unavailable", Current => FindingIsTrue(f)
  PROVE  ActivationInv'
  <1>1. /\ got' = Fault(f) /\ pc' = "every block" /\ left' = noted'
    BY DEF Throw
  <1>2. {"finding", "gap", "seen"} \subseteq DOMAIN got
    BY DEF ActivationInv
  <1>3. /\ {"finding", "gap", "seen"} \subseteq DOMAIN got' /\ got'.finding \in {f, "unavailable"}
    BY <1>1, <1>2 DEF Fault
  <1>4. FindingIsTrue("unavailable")
    BY DEF FindingIsTrue
  <1>5. Current => FindingIsTrue(got'.finding)
    BY <1>3, <1>4
  <1>6. PICK g : g = got'.finding
    OBVIOUS
  <1>7. FindingIsTrue(g)' <=> FindingIsTrue(g)
    BY AsConfiguredStays
  <1>8. FindingIsTrue(got.finding)' <=> FindingIsTrue(got'.finding)
    BY <1>6, <1>7
  <1>9. HighIn(left') \/ FindingIsTrue(got.finding)'
    <2>1. CASE HighIn(noted')
      BY <1>1, <2>1
    <2>2. CASE f = "unavailable"
      BY <1>3, <1>4, <1>8, <2>2
    <2>3. QED BY <2>1, <2>2
  <1>10. (Current => FindingIsTrue(got.finding))'
    BY <1>5, <1>8 DEF Current, Own
  <1>11. (HighIn(left) \/ FindingIsTrue(got.finding))'
    BY <1>9 DEF HighIn
  <1> HIDE DEF FindingIsTrue, HighIn, Current, IsASeq
  <1>12. QED BY <1>1, <1>3, <1>10, <1>11 DEF ActivationInv, Reading, ActivationHolds

\* The first reads of an activation, of the blocks and receipts that the provenance names.
LEMMA ProvenanceKeeps ==
  ASSUME WorldOK, Phased, ActivationInv, reader = "activation", UNCHANGED <<reader, base, story, common>>,
         ActivationBases \/ DeploymentBlock \/ DeploymentRead \/ KnownImplementation
  PROVE  ActivationInv'
  <1>0. /\ UNCHANGED verdict
        /\ base.low \in Nat /\ base.mid \in Nat /\ base.high \in Nat /\ base.low < base.mid /\ base.mid <= base.high
        /\ base.high > 0 /\ base.low > 0
    BY BlockFacts DEF ActivationBases, DeploymentBlock, DeploymentRead, KnownImplementation, Keep, WorldOK
  <1>1. {"finding", "gap", "seen"} \subseteq DOMAIN got /\ IsASeq(noted)
    BY DEF ActivationInv
  <1>2. (Current' <=> Current) /\ (AsConfigured' <=> AsConfigured) /\ \A f : FindingIsTrue(f)' <=> FindingIsTrue(f)
    BY AsConfiguredStays DEF Current, Own
  <1>3. Current => \A h \in {base.low, base.mid, base.high} : Own(h)
    BY <1>0, BlockFacts DEF Current, Own
  <1>4. FindingIsTrue("unavailable")
    BY DEF FindingIsTrue
  <1>h. (HighIn(noted') <=> HighIn(noted)')
    BY DEF HighIn
  <1>5. CASE ActivationBases
    <2> DEFINE h == Head(left)
    <2>0. /\ pc = "bases" /\ got.finding = "unavailable" /\ got.seen = {} /\ \A i \in DOMAIN noted : noted[i].at = 0
          /\ left = <<0, base.high>> \/ left = <<base.high>>
      BY <1>5 DEF ActivationBases, ActivationInv, Reading
    <2>1. noted' = IF Noted(h) THEN noted ELSE Append(noted, [at |-> h, own |-> TRUE])
      BY <1>5 DEF ActivationBases, Basis
    <2>2. /\ IsASeq(noted') /\ (HighIn(noted) => HighIn(noted'))
          /\ ~Noted(h) /\ h = base.high => HighIn(noted')
          /\ (\A i \in DOMAIN noted : noted[i].at = h) => \A i \in DOMAIN noted' : noted'[i].at = h
      <3> HIDE DEF h
      <3>1. QED BY <1>1, <2>1, BasisFacts
    <2>3. \/ Throw("unavailable")
          \/ IF Len(left) > 1 THEN left' = Tail(left) /\ UNCHANGED <<pc, got>>
             ELSE pc' = "deployed" /\ left' = <<base.low, base.mid>> /\ UNCHANGED got
      BY <1>5 DEF ActivationBases, Basis
    <2>4. CASE Throw("unavailable")
      BY <1>0, <1>4, <2>2, <2>4, ThrowKeeps
    <2>5. CASE left = <<0, base.high>> /\ ~Throw("unavailable")
      <3>1. Len(left) > 1 /\ h = 0 /\ Tail(left) = <<base.high>>
        BY <2>5
      <3>2. left' = <<base.high>> /\ UNCHANGED <<pc, got>> /\ \A i \in DOMAIN noted' : noted'[i].at = 0
        BY <2>0, <2>2, <2>3, <2>5, <3>1
      <3>3. QED BY <1>0, <1>1, <2>0, <2>2, <3>2 DEF ActivationInv, Reading, ActivationHolds
    <2>6. CASE left = <<base.high>> /\ ~Throw("unavailable")
      <3>1. ~(Len(left) > 1) /\ h = base.high
        BY <2>6
      <3>2. pc' = "deployed" /\ left' = <<base.low, base.mid>> /\ UNCHANGED got
        BY <2>3, <2>6, <3>1
      <3>3. ~Noted(h)
        BY <1>0, <2>0, <3>1 DEF Noted
      <3>4. HighIn(noted)'
        BY <1>h, <2>2, <3>1, <3>3
      <3>5. <<base.low, base.mid>> # <<base.mid>>
        BY <1>0
      <3> HIDE DEF HighIn, Current
      <3>6. QED BY <1>0, <1>1, <2>0, <2>2, <3>2, <3>4, <3>5 DEF ActivationInv, Reading, ActivationHolds
    <2>7. QED BY <2>0, <2>4, <2>5, <2>6
  <1>6. CASE DeploymentBlock
    <2> DEFINE h == Head(left)
    <2>0. /\ pc = "deployed" /\ got.finding = "unavailable" /\ got.seen = {} /\ HighIn(noted)
          /\ left = <<base.low, base.mid>> \/ left = <<base.mid>>
          /\ Current /\ left = <<base.mid>> => story[base.low] = "upgrade"
      BY <1>6 DEF DeploymentBlock, ActivationInv, Reading
    <2>1. noted' = IF Noted(h) THEN noted ELSE Append(noted, [at |-> h, own |-> TRUE])
      BY <1>6 DEF DeploymentBlock, Basis
    <2>2. IsASeq(noted') /\ HighIn(noted')
      <3> HIDE DEF h
      <3>1. QED BY <1>1, <2>0, <2>1, BasisFacts
    <2>3. Throw("unavailable") \/ (pc' = "transaction" /\ UNCHANGED <<left, got>>)
      BY <1>6 DEF DeploymentBlock, Basis
    <2>4. CASE Throw("unavailable")
      BY <1>0, <1>4, <2>2, <2>4, ThrowKeeps
    <2>5. CASE pc' = "transaction" /\ UNCHANGED <<left, got>>
      <3>1. HighIn(noted)'
        BY <1>h, <2>2
      <3> HIDE DEF HighIn, Current
      <3>2. QED BY <1>0, <1>1, <1>2, <2>0, <2>2, <2>5, <3>1 DEF ActivationInv, Reading, ActivationHolds
    <2>6. QED BY <2>3, <2>4, <2>5
  <1>7. CASE DeploymentRead
    <2> DEFINE h == Head(left)
               fact == IF story[h] = (IF h = base.low THEN "upgrade" ELSE "restore") THEN "ok" ELSE "mismatched"
    <2>0. /\ pc \in {"transaction", "deployment receipt"} /\ got.finding = "unavailable" /\ got.seen = {} /\ HighIn(noted)
          /\ left = <<base.low, base.mid>> \/ left = <<base.mid>>
          /\ Current /\ left = <<base.mid>> => story[base.low] = "upgrade"
          /\ UNCHANGED noted
      BY <1>7 DEF DeploymentRead, ActivationInv, Reading
    <2>1. PICK says \in Answers(h, IF pc = "transaction" THEN "ok" ELSE fact, {"ok", "mismatched", "unavailable"}) :
            IF says # "ok" THEN Throw(says)
            ELSE /\ IF pc = "transaction" THEN pc' = "deployment receipt" /\ UNCHANGED left
                    ELSE IF Len(left) > 1 THEN pc' = "deployed" /\ left' = Tail(left)
                    ELSE pc' = "known" /\ left' = IF base.mid = base.high THEN <<base.mid>> ELSE <<base.mid, base.high>>
                 /\ UNCHANGED got
      BY <1>7 DEF DeploymentRead
    <2>2. h \in {base.low, base.mid} /\ (h = base.low <=> left = <<base.low, base.mid>>) /\ (h = base.mid <=> left = <<base.mid>>)
      <3>1. CASE left = <<base.low, base.mid>>
        <4>1. h = base.low /\ left # <<base.mid>>
          BY <3>1
        <4>2. QED BY <1>0, <3>1, <4>1
      <3>2. CASE left = <<base.mid>>
        <4>1. h = base.mid /\ left # <<base.low, base.mid>>
          BY <3>2
        <4>2. QED BY <1>0, <3>2, <4>1
      <3>3. QED BY <2>0, <3>1, <3>2
    <2>3. says \in {"ok", "mismatched", "unavailable"}
      BY <2>1 DEF Answers
    <2>4. Current => says = IF pc = "transaction" THEN "ok" ELSE fact
      BY <1>3, <2>1, <2>2 DEF Answers
    <2>5. HighIn(noted') /\ HighIn(noted)' /\ IsASeq(noted')
      BY <1>1, <2>0 DEF HighIn
    <2>6. CASE says # "ok"
      <3>1. Current => ~AsConfigured
        <4>1. SUFFICES ASSUME Current, AsConfigured PROVE FALSE
          OBVIOUS
        <4>2. fact = "mismatched"
          BY <2>4, <2>6, <4>1
        <4>3. QED BY <1>0, <2>2, <4>1, <4>2 DEF AsConfigured
      <3>2. Current => FindingIsTrue(says)
        BY <2>3, <2>6, <3>1 DEF FindingIsTrue
      <3>3. Throw(says)
        BY <2>1, <2>6
      <3>4. PICK f : f = says
        OBVIOUS
      <3>5. f \in {"unavailable", "mismatched", "unsupported"}
        BY <2>3, <2>6, <3>4
      <3>6. Throw(f)
        BY <3>3, <3>4
      <3>7. Current => FindingIsTrue(f)
        BY <3>2, <3>4
      <3>8. QED BY <1>0, <2>5, <3>5, <3>6, <3>7, ThrowKeeps
    <2>7. CASE says = "ok" /\ pc = "transaction"
      <3>1. pc' = "deployment receipt" /\ UNCHANGED <<left, got>>
        BY <2>1, <2>7
      <3> HIDE DEF HighIn, Current
      <3>2. QED BY <1>0, <1>1, <1>2, <2>0, <2>5, <3>1 DEF ActivationInv, Reading, ActivationHolds
    <2>8. CASE says = "ok" /\ pc = "deployment receipt" /\ left = <<base.low, base.mid>>
      <3>1. Current => story[base.low] = "upgrade"
        BY <2>2, <2>4, <2>8
      <3>a. left = <<base.low, base.mid>>
        BY <2>8
      <3>2. Len(left) > 1 /\ Tail(left) = <<base.mid>>
        BY <3>a
      <3>3. pc' = "deployed" /\ left' = <<base.mid>> /\ UNCHANGED got
        BY <2>1, <2>8, <3>2
      <3> HIDE DEF HighIn, Current
      <3>4. QED BY <1>0, <1>1, <1>2, <2>0, <2>5, <3>1, <3>3 DEF ActivationInv, Reading, ActivationHolds
    <2>9. CASE says = "ok" /\ pc = "deployment receipt" /\ left = <<base.mid>>
      <3>1. Current => story[base.low] = "upgrade" /\ story[base.mid] = "restore"
        BY <1>0, <2>0, <2>2, <2>4, <2>9
      <3>a. left = <<base.mid>>
        BY <2>9
      <3>2. ~(Len(left) > 1)
        BY <3>a
      <3>3. pc' = "known" /\ left' = (IF base.mid = base.high THEN <<base.mid>> ELSE <<base.mid, base.high>>) /\ UNCHANGED got
        BY <2>1, <2>9, <3>2
      <3>4. left' \in {<<base.mid, base.high>>, <<base.high>>}
        BY <3>3
      <3> HIDE DEF HighIn, Current
      <3>5. QED BY <1>0, <1>1, <1>2, <2>0, <2>5, <3>1, <3>3, <3>4 DEF ActivationInv, Reading, ActivationHolds
    <2>10. QED BY <2>0, <2>6, <2>7, <2>8, <2>9
  <1>8. CASE KnownImplementation
    <2> DEFINE h == Head(left)
    <2>0. /\ pc = "known" /\ got.finding = "unavailable" /\ got.seen = {} /\ HighIn(noted)
          /\ left \in {<<base.mid, base.high>>, <<base.high>>}
          /\ Current => story[base.low] = "upgrade" /\ story[base.mid] = "restore"
          /\ UNCHANGED noted
      BY <1>8 DEF KnownImplementation, ActivationInv, Reading
    <2>1. \/ FALSE \in Answers(h, Known(h), BOOLEAN) /\ (\E f \in {"unsupported", "mismatched"} : Throw(f))
          \/ /\ left' = Tail(left) /\ UNCHANGED got
             /\ IF Len(left) > 1 THEN UNCHANGED <<pc, cursor>>
                ELSE pc' = "changes" /\ cursor' = [start |-> base.low, filter |-> 1]
      BY <1>8 DEF KnownImplementation
    <2>2. h \in {base.mid, base.high}
      BY <2>0
    <2>3. HighIn(noted') /\ HighIn(noted)' /\ IsASeq(noted')
      BY <1>1, <2>0 DEF HighIn
    <2>4. ASSUME FALSE \in Answers(h, Known(h), BOOLEAN), NEW f \in {"unsupported", "mismatched"}, Throw(f)
          PROVE  ActivationInv'
      <3>1. Current => ~Known(h)
        BY <1>3, <2>2, <2>4 DEF Answers
      <3>2. Current => ~AsConfigured
        BY <2>2, <3>1, ActivatedIsKnown
      <3>3. Current => FindingIsTrue(f)
        BY <2>4, <3>2 DEF FindingIsTrue
      <3> HIDE DEF HighIn, Current, FindingIsTrue, h
      <3>4. QED BY <1>0, <2>3, <2>4, <3>3, ThrowKeeps
    <2>5. CASE /\ left' = Tail(left) /\ UNCHANGED got
               /\ IF Len(left) > 1 THEN UNCHANGED <<pc, cursor>>
                  ELSE pc' = "changes" /\ cursor' = [start |-> base.low, filter |-> 1]
      <3>1. CASE left = <<base.mid, base.high>>
        <4>1. left' = <<base.high>> /\ pc' = "known"
          BY <2>0, <2>5, <3>1
        <4> HIDE DEF HighIn, Current
        <4>2. QED BY <1>0, <1>1, <1>2, <2>0, <2>3, <2>5, <4>1 DEF ActivationInv, Reading, ActivationHolds
      <3>2. CASE left = <<base.high>>
        <4>1. pc' = "changes" /\ cursor' = [start |-> base.low, filter |-> 1] /\ UNCHANGED got
          BY <2>5, <3>2
        <4>2. /\ cursor' \in [start : Nat, filter : {1}] /\ cursor'.start = base.low /\ base.low <= base.high + 1
          BY <1>0, <4>1
        <4>3. Events(Changes, base.low, cursor.start - 1)' = {}
          <5>1. Where(Changes, base.low, base.low - 1) = {}
            BY <1>0 DEF Where, Heights
          <5>2. Events(Changes, base.low, base.low - 1) = {}
            BY <5>1 DEF Events
          <5>3. Events(Changes, base.low, base.low - 1)' = Events(Changes, base.low, base.low - 1)
            BY DEF Events, Event, Where
          <5>4. QED BY <4>2, <5>2, <5>3
        <4>4. /\ {"finding", "gap", "seen"} \subseteq DOMAIN got' /\ got'.finding = "unavailable" /\ got'.seen = {}
          BY <1>1, <2>0, <4>1
        <4>5. Current' => /\ story'[base'.low] = "upgrade" /\ story'[base'.mid] = "restore"
                          /\ got'.seen = Events(Changes, base.low, cursor.start - 1)'
          BY <1>2, <2>0, <4>3, <4>4
        <4>6. (cursor \in [start : Nat, filter : {1}] /\ base.low <= cursor.start /\ cursor.start <= base.high + 1)'
          BY <1>0, <4>2
        <4> HIDE DEF HighIn, Current, Changes, Events
        <4>7. QED BY <2>3, <4>1, <4>4, <4>5, <4>6 DEF ActivationInv, Reading, ActivationHolds
      <3>3. QED BY <2>0, <3>1, <3>2
    <2>6. QED BY <2>1, <2>4, <2>5
  <1>9. QED BY <1>5, <1>6, <1>7, <1>8

\* The two stretches of events are those of both.
LEMMA EventsJoin ==
  ASSUME NEW kinds, NEW a \in Nat, NEW b \in Nat, NEW c \in Nat, a <= b, b <= c + 1
  PROVE  /\ Events(kinds, a, b - 1) \cup Events(kinds, b, c) = Events(kinds, a, c)
         /\ \A x \in Events(kinds, b, c) : x \notin Events(kinds, a, b - 1)
  <1>1. Where(kinds, a, b - 1) \cup Where(kinds, b, c) = Where(kinds, a, c)
    BY DEF Where, Heights
  <1>2. Events(kinds, a, b - 1) \cup Events(kinds, b, c) = Events(kinds, a, c)
    BY <1>1 DEF Events
  <1>3. \A h \in Where(kinds, b, c) : h \notin Where(kinds, a, b - 1)
    BY DEF Where, Heights
  <1>4. \A x \in Events(kinds, b, c) : x.at \in Where(kinds, b, c)
    BY EventsFacts
  <1>5. \A x \in Events(kinds, a, b - 1) : x.at \in Where(kinds, a, b - 1)
    BY EventsFacts
  <1>6. QED BY <1>2, <1>3, <1>4, <1>5

\* A chunk of the changes, or the end of them.
LEMMA ChangesPageKeeps ==
  ASSUME WorldOK, Phased, ActivationInv, reader = "activation", UNCHANGED <<reader, base, story, common>>, ChangesPage
  PROVE  ActivationInv'
  <1>0. /\ UNCHANGED <<noted, verdict>> /\ pc = "changes"
        /\ base.low \in Nat /\ base.high \in Nat /\ common \in Nat
    BY BlockFacts DEF ChangesPage
  <1>1. /\ {"finding", "gap", "seen"} \subseteq DOMAIN got /\ IsASeq(noted) /\ HighIn(noted) /\ got.finding = "unavailable"
        /\ cursor \in [start : Nat, filter : {1}] /\ base.low <= cursor.start /\ cursor.start <= base.high + 1
        /\ Current => /\ story[base.low] = "upgrade" /\ story[base.mid] = "restore"
                      /\ got.seen = Events(Changes, base.low, cursor.start - 1)
    BY <1>0 DEF ActivationInv, Reading
  <1>2. (Current' <=> Current) /\ (AsConfigured' <=> AsConfigured) /\ \A f : FindingIsTrue(f)' <=> FindingIsTrue(f)
    BY AsConfiguredStays DEF Current, Own
  <1>3. HighIn(noted') /\ HighIn(noted)' /\ IsASeq(noted')
    BY <1>0, <1>1 DEF HighIn
  <1>4. CASE cursor.start > base.high
    <2>1. cursor.start - 1 = base.high
      BY <1>0, <1>1, <1>4
    <2>2. Current => (got.seen = Expected <=> AsConfigured)
      BY <1>1, <2>1, SeenIsExpected
    <2>3. CASE got.seen # Expected
      <3>1. Throw("mismatched")
        BY <1>4, <2>3 DEF ChangesPage
      <3>2. Current => FindingIsTrue("mismatched")
        BY <2>2, <2>3 DEF FindingIsTrue
      <3> HIDE DEF HighIn, Current, FindingIsTrue, IsASeq
      <3>3. QED BY <1>0, <1>3, <3>1, <3>2, ThrowKeeps
    <2>4. CASE got.seen = Expected
      <3>1. got' = [got EXCEPT !.finding = "matched"] /\ pc' = "every block" /\ left' = noted
        BY <1>4, <2>4 DEF ChangesPage
      <3>2. {"finding", "gap", "seen"} \subseteq DOMAIN got' /\ got'.finding = "matched"
        BY <1>1, <3>1
      <3>3. (Current => FindingIsTrue(got.finding))'
        BY <1>2, <2>2, <2>4, <3>2 DEF FindingIsTrue
      <3>4. (IsASeq(left) /\ HighIn(left))'
        BY <1>1, <1>3, <3>1 DEF HighIn, IsASeq
      <3> HIDE DEF HighIn, Current, FindingIsTrue, IsASeq
      <3>5. QED BY <1>3, <3>1, <3>2, <3>3, <3>4 DEF ActivationInv, Reading, ActivationHolds
    <2>5. QED BY <2>3, <2>4
  <1>5. CASE ~(cursor.start > base.high)
    <2> DEFINE to == PageEnd(cursor.start, base.high)
    <2>1. PICK found \in Page(Changes, cursor.start, to) :
            IF Cardinality(logs) + Cardinality(found) > MaxLogs
            THEN Throw("unavailable") /\ UNCHANGED <<cursor, logs>>
            ELSE /\ pc' = "change" /\ left' = InOrder(found) /\ logs' = logs \cup found
                 /\ cursor' = [cursor EXCEPT !.start = to + 1] /\ UNCHANGED got
      BY <1>5 DEF ChangesPage
    <2>2. to \in Nat /\ cursor.start \in Nat /\ cursor.start <= to /\ to <= base.high
      BY <1>0, <1>1, <1>5, PageEndFacts
    <2>3. CASE Throw("unavailable")
      <3>1. FindingIsTrue("unavailable")
        BY DEF FindingIsTrue
      <3> HIDE DEF HighIn, Current, FindingIsTrue, IsASeq
      <3>2. QED BY <1>0, <1>3, <2>3, <3>1, ThrowKeeps
    <2>4. CASE /\ pc' = "change" /\ left' = InOrder(found) /\ logs' = logs \cup found
               /\ cursor' = [cursor EXCEPT !.start = to + 1] /\ UNCHANGED got
      <3>1. cursor' \in [start : Nat, filter : {1}] /\ cursor'.start = to + 1
        <4> HIDE DEF to
        <4>1. QED BY <1>1, <2>2, <2>4
      <3>2. base.low <= cursor'.start /\ cursor'.start <= base.high + 1 /\ cursor'.start - 1 = to
        <4> HIDE DEF to
        <4>1. QED BY <1>0, <1>1, <2>2, <3>1
      <3>3. ASSUME Current
            PROVE  /\ IsASeq(left') /\ got'.seen \cup Waiting' = Events(Changes, base.low, cursor.start - 1)'
                   /\ \A i \in DOMAIN left' : left'[i] \notin got'.seen
                   /\ \A i, j \in DOMAIN left' : i < j => left'[i].at < left'[j].at
        <4> DEFINE s == cursor.start
        <4> HIDE DEF to, s
        <4>1. Own(to)
          BY <1>0, <2>2, <3>3 DEF Current, Own
        <4>2. found = Events(Changes, s, to)
          BY <1>0, <2>1, <2>2, <4>1, PageIsTrue DEF s
        <4>3. /\ IsFiniteSet(found) /\ \A x \in found : x.at \in Nat
              /\ \A x, y \in found : x.at = y.at => x = y
          BY <4>2, EventsFacts
        <4>4. PICK q : q = InOrder(found)
          OBVIOUS
        <4>5. IsASeq(q) /\ Ascending(q) /\ {q[i] : i \in DOMAIN q} = found
          BY <4>3, <4>4, InOrderFacts
        <4>6. left' = q
          BY <2>4, <4>4
        <4>0. s \in Nat /\ to \in Nat /\ base.low <= s /\ s <= to + 1
          BY <1>0, <1>1, <2>2 DEF s
        <4>7. /\ Events(Changes, base.low, s - 1) \cup Events(Changes, s, to) = Events(Changes, base.low, to)
              /\ \A x \in Events(Changes, s, to) : x \notin Events(Changes, base.low, s - 1)
          BY <1>0, <4>0, EventsJoin
        <4>8. got'.seen = Events(Changes, base.low, s - 1)
          BY <1>1, <2>4, <3>3 DEF s
        <4>9. Events(Changes, base.low, cursor.start - 1)' = Events(Changes, base.low, to)
          BY <3>2 DEF Events, Event, Where
        <4>10. Waiting' = found
          BY <4>5, <4>6 DEF Waiting
        <4>11. got'.seen \cup Waiting' = Events(Changes, base.low, cursor.start - 1)'
          BY <4>2, <4>7, <4>8, <4>9, <4>10
        <4>12. \A i \in DOMAIN left' : left'[i] \notin got'.seen
          BY <4>2, <4>5, <4>6, <4>7, <4>8
        <4>13. QED BY <4>5, <4>6, <4>11, <4>12 DEF Ascending
      <3>4. UNCHANGED got /\ pc' = "change"
        BY <2>4
      <3>5. (Current =>
              /\ story[base.low] = "upgrade" /\ story[base.mid] = "restore"
              /\ IsASeq(left) /\ got.seen \cup Waiting = Events(Changes, base.low, cursor.start - 1)
              /\ \A i \in DOMAIN left : left[i] \notin got.seen
              /\ \A i, j \in DOMAIN left : i < j => left[i].at < left[j].at)'
        BY <1>1, <1>2, <3>3, <3>4
      <3> HIDE DEF HighIn, Current, FindingIsTrue, IsASeq, to, Waiting, Events
      <3>6. QED BY <1>0, <1>1, <1>3, <3>1, <3>2, <3>4, <3>5 DEF ActivationInv, Reading, ActivationHolds
    <2>5. QED BY <2>1, <2>3, <2>4
  <1>6. QED BY <1>4, <1>5

\* A change that is looked at.
LEMMA ChangeLogKeeps ==
  ASSUME WorldOK, Phased, ActivationInv, reader = "activation", UNCHANGED <<reader, base, story, common>>, ChangeLog
  PROVE  ActivationInv'
  <1>0. /\ UNCHANGED <<verdict, cursor>> /\ pc = "change"
        /\ base.low \in Nat /\ base.high \in Nat /\ common \in Nat
    BY BlockFacts DEF ChangeLog, Keep
  <1>1. /\ {"finding", "gap", "seen"} \subseteq DOMAIN got /\ IsASeq(noted) /\ HighIn(noted) /\ got.finding = "unavailable"
        /\ cursor \in [start : Nat, filter : {1}] /\ base.low <= cursor.start /\ cursor.start <= base.high + 1
        /\ Current => /\ story[base.low] = "upgrade" /\ story[base.mid] = "restore"
                      /\ IsASeq(left) /\ got.seen \cup Waiting = Events(Changes, base.low, cursor.start - 1)
                      /\ \A i \in DOMAIN left : left[i] \notin got.seen
                      /\ \A i, j \in DOMAIN left : i < j => left[i].at < left[j].at
    BY <1>0 DEF ActivationInv, Reading
  <1>2. (Current' <=> Current) /\ (AsConfigured' <=> AsConfigured) /\ \A f : FindingIsTrue(f)' <=> FindingIsTrue(f)
    BY AsConfiguredStays DEF Current, Own
  <1>3. Events(Changes, base.low, cursor.start - 1)' = Events(Changes, base.low, cursor.start - 1)
    BY <1>0 DEF Events, Event, Where
  <1>4. CASE left = <<>>
    <2>1. pc' = "changes" /\ UNCHANGED <<noted, left, got>>
      BY <1>4 DEF ChangeLog
    <2>2. Waiting = {}
      BY <1>4 DEF Waiting
    <2>3. (Current => /\ story[base.low] = "upgrade" /\ story[base.mid] = "restore"
                      /\ got.seen = Events(Changes, base.low, cursor.start - 1))'
      BY <1>1, <1>2, <1>3, <2>1, <2>2
    <2>4. HighIn(noted)'
      BY <1>1, <2>1 DEF HighIn
    <2> HIDE DEF HighIn, Current, FindingIsTrue, IsASeq, Waiting, Events
    <2>5. QED BY <1>0, <1>1, <2>1, <2>3, <2>4 DEF ActivationInv, Reading, ActivationHolds
  <1>5. CASE left # <<>>
    <2>1. PICK log : log = Head(left)
      OBVIOUS
    <2>2. /\ noted' = IF Noted(log.at) THEN noted ELSE Append(noted, [at |-> log.at, own |-> log.own])
          /\ \/ Throw("unavailable")
             \/ log \notin Expected \ got.seen /\ Throw("mismatched")
             \/ /\ log \in Expected \ got.seen
                /\ got' = [got EXCEPT !.seen = @ \cup {log}] /\ left' = Tail(left) /\ UNCHANGED pc
      BY <1>5, <2>1 DEF ChangeLog, Basis
    <2>3. IsASeq(noted') /\ HighIn(noted')
      BY <1>0, <1>1, <2>2, BasisFacts
    <2>4. HighIn(noted)'
      BY <2>3 DEF HighIn
    <2>5. ASSUME Current
          PROVE  /\ log \in got.seen \cup Waiting /\ log \notin got.seen
                 /\ left[1] = log /\ 1 \in DOMAIN left
      <3>1. PICK t : t = Rest(left)
        OBVIOUS
      <3>2. Head(left) = left[1] /\ 1 \in DOMAIN left
        BY <1>1, <1>5, <2>5, <3>1, TailFacts
      <3>3. QED BY <1>1, <2>1, <2>5, <3>2 DEF Waiting
    <2>6. CASE Throw("unavailable")
      <3>1. FindingIsTrue("unavailable")
        BY DEF FindingIsTrue
      <3> HIDE DEF HighIn, Current, FindingIsTrue, IsASeq
      <3>2. QED BY <1>0, <2>3, <2>6, <3>1, ThrowKeeps
    <2>7. CASE log \notin Expected \ got.seen /\ Throw("mismatched")
      <3>1. ASSUME Current PROVE ~AsConfigured
        <4>1. log \notin Expected /\ log \in Events(Changes, base.low, cursor.start - 1)
          BY <1>1, <2>5, <2>7, <3>1
        <4>2. Where(Changes, base.low, cursor.start - 1) \subseteq Where(Changes, base.low, base.high)
          BY <1>0, <1>1 DEF Where, Heights
        <4>3. log \in Events(Changes, base.low, base.high)
          BY <4>1, <4>2 DEF Events
        <4>4. QED BY <4>1, <4>3, SeenIsExpected
      <3>2. Current => FindingIsTrue("mismatched")
        BY <3>1 DEF FindingIsTrue
      <3> HIDE DEF HighIn, Current, FindingIsTrue, IsASeq
      <3>3. QED BY <1>0, <2>3, <2>7, <3>2, ThrowKeeps
    <2>8. CASE got' = [got EXCEPT !.seen = @ \cup {log}] /\ left' = Tail(left) /\ UNCHANGED pc
      <3>1. {"finding", "gap", "seen"} \subseteq DOMAIN got' /\ got'.finding = "unavailable" /\ got'.seen = got.seen \cup {log}
        BY <1>1, <2>8
      <3>2. ASSUME Current
            PROVE  /\ IsASeq(left') /\ got'.seen \cup Waiting' = Events(Changes, base.low, cursor.start - 1)'
                   /\ \A i \in DOMAIN left' : left'[i] \notin got'.seen
                   /\ \A i, j \in DOMAIN left' : i < j => left'[i].at < left'[j].at
        <4>1. PICK t : t = Rest(left)
          OBVIOUS
        <4>2. /\ IsASeq(t) /\ DOMAIN t = 1..Len(t) /\ DOMAIN left = 1..Len(left) /\ Len(t) \in Nat /\ Len(left) \in Nat
              /\ \A i \in DOMAIN t : i + 1 \in DOMAIN left /\ t[i] = left[i + 1]
              /\ \A i \in DOMAIN left : i = 1 \/ (i - 1 \in DOMAIN t /\ t[i - 1] = left[i])
          BY <1>1, <1>5, <3>2, <4>1, TailFacts
        <4>3. left' = t
          BY <2>8, <4>1 DEF Rest
        <4>4. Waiting = {log} \cup {t[i] : i \in DOMAIN t}
          BY <2>5, <3>2, <4>2 DEF Waiting
        <4>5. Waiting' = {t[i] : i \in DOMAIN t}
          BY <4>3 DEF Waiting
        <4>6. got'.seen \cup Waiting' = Events(Changes, base.low, cursor.start - 1)'
          BY <1>1, <1>3, <3>1, <3>2, <4>4, <4>5
        <4>7. \A i \in DOMAIN left : left[i].at \in Nat
          <5>1. \A i \in DOMAIN left : left[i] \in Events(Changes, base.low, cursor.start - 1)
            BY <1>1, <3>2 DEF Waiting
          <5>2. \A x \in Events(Changes, base.low, cursor.start - 1) : x.at \in Nat
            BY EventsFacts
          <5>3. QED BY <5>1, <5>2
        <4>8. \A i, j \in DOMAIN t : i < j => t[i].at < t[j].at
          <5>1. SUFFICES ASSUME NEW i \in DOMAIN t, NEW j \in DOMAIN t, i < j PROVE t[i].at < t[j].at
            OBVIOUS
          <5>2. i \in Nat /\ j \in Nat /\ i + 1 < j + 1
            BY <4>2, <5>1
          <5>3. i + 1 \in DOMAIN left /\ j + 1 \in DOMAIN left /\ t[i] = left[i + 1] /\ t[j] = left[j + 1]
            BY <4>2
          <5>4. left[i + 1].at < left[j + 1].at
            BY <1>1, <3>2, <5>2, <5>3
          <5>5. QED BY <5>3, <5>4
        <4>9. \A i \in DOMAIN t : t[i] \notin got'.seen
          <5>1. SUFFICES ASSUME NEW i \in DOMAIN t PROVE t[i] \notin got'.seen
            OBVIOUS
          <5>2. i \in Nat /\ i > 0 /\ i + 1 \in DOMAIN left /\ t[i] = left[i + 1]
            BY <4>2
          <5>3. left[1].at < left[i + 1].at /\ left[1].at \in Nat
            BY <1>1, <2>5, <3>2, <4>7, <5>2
          <5>4. left[i + 1] # log /\ left[i + 1] \notin got.seen
            BY <1>1, <2>5, <3>2, <4>7, <5>2, <5>3
          <5>5. QED BY <3>1, <5>2, <5>4
        <4>10. QED BY <4>2, <4>3, <4>6, <4>8, <4>9
      <3>3. (Current =>
              /\ story[base.low] = "upgrade" /\ story[base.mid] = "restore"
              /\ IsASeq(left) /\ got.seen \cup Waiting = Events(Changes, base.low, cursor.start - 1)
              /\ \A i \in DOMAIN left : left[i] \notin got.seen
              /\ \A i, j \in DOMAIN left : i < j => left[i].at < left[j].at)'
        BY <1>1, <1>2, <3>2
      <3>4. pc' = "change"
        BY <1>0, <2>8
      <3>5. (cursor \in [start : Nat, filter : {1}] /\ base.low <= cursor.start /\ cursor.start <= base.high + 1)'
        BY <1>0, <1>1
      <3> HIDE DEF HighIn, Current, FindingIsTrue, IsASeq, Waiting, Events
      <3>6. QED BY <2>3, <2>4, <3>1, <3>3, <3>4, <3>5 DEF ActivationInv, Reading, ActivationHolds
    <2>9. QED BY <2>2, <2>6, <2>7, <2>8
  <1>6. QED BY <1>4, <1>5

\* Every block that was read is looked at again, and the finding reported.
LEMMA EveryBlockKeeps ==
  ASSUME WorldOK, Phased, ActivationInv, reader = "activation", UNCHANGED <<reader, base, story, common>>,
         EveryBlock \/ ActivationFails
  PROVE  ActivationInv'
  <1>1. {"finding", "gap", "seen"} \subseteq DOMAIN got /\ IsASeq(noted)
    BY DEF ActivationInv
  <1>1a. pc = "every block" => IsASeq(left) /\ (HighIn(left) \/ FindingIsTrue(got.finding))
    BY DEF ActivationInv
  <1>2. (Current' <=> Current) /\ (AsConfigured' <=> AsConfigured) /\ \A f : FindingIsTrue(f)' <=> FindingIsTrue(f)
    BY AsConfiguredStays DEF Current, Own
  <1>3. FindingIsTrue("unavailable")
    BY DEF FindingIsTrue
  <1>4. UNCHANGED noted
    BY DEF EveryBlock, ActivationFails
  <1>5. ASSUME NEW f, verdict' = [status |-> f], FindingIsTrue(f), pc' = "done",
               got' = got \/ got' = Fault("unavailable")
        PROVE  ActivationInv'
    <2>1. {"finding", "gap", "seen"} \subseteq DOMAIN got'
      BY <1>1, <1>5 DEF Fault
    <2>2. ActivationHolds'
      <3>1. verdict'.status = f
        BY <1>5
      <3>2. FindingIsTrue(f)'
        BY <1>2, <1>5
      <3>3. QED BY <3>1, <3>2 DEF ActivationHolds, FindingIsTrue, AsConfigured
    <2> HIDE DEF HighIn, Current, FindingIsTrue, IsASeq, Waiting, Events, ActivationHolds
    <2>3. IsASeq(noted')
      BY <1>1, <1>4
    <2>4. QED BY <1>5, <2>1, <2>2, <2>3 DEF ActivationInv, Reading
  <1>6. ASSUME got' = Fault("unavailable"), left' = Tail(left), pc = "every block", left # <<>>, UNCHANGED <<pc, verdict>>
        PROVE  ActivationInv'
    <2>1. {"finding", "gap", "seen"} \subseteq DOMAIN got' /\ got'.finding = "unavailable"
      BY <1>1, <1>6 DEF Fault
    <2>2. PICK t : t = Rest(left)
      OBVIOUS
    <2>3. IsASeq(t) /\ left' = t
      BY <1>1a, <1>6, <2>2, TailFacts DEF Rest
    <2>4. FindingIsTrue(got.finding)'
      BY <1>2, <1>3, <2>1
    <2>5. UNCHANGED noted /\ IsASeq(left') /\ pc' = "every block"
      BY <1>4, <1>6, <2>3
    <2> HIDE DEF HighIn, Current, FindingIsTrue, IsASeq, Waiting, Events
    <2>6. QED BY <1>1, <2>1, <2>4, <2>5 DEF ActivationInv, Reading, ActivationHolds
  <1>7. CASE EveryBlock
    <2>1. pc = "every block"
      BY <1>7 DEF EveryBlock
    <2>2. CASE left = <<>>
      <3>1. ~HighIn(left)
        BY <2>2 DEF HighIn
      <3>2. FindingIsTrue(got.finding)
        BY <1>1a, <2>1, <3>1
      <3>3. PICK f : f = got.finding
        OBVIOUS
      <3>4. FindingIsTrue(f) /\ verdict' = [status |-> f] /\ pc' = "done" /\ got' = got
        BY <1>7, <2>2, <3>2, <3>3 DEF EveryBlock, Report
      <3>5. QED BY <1>5, <3>4
    <2>3. CASE left # <<>> /\ Own(Head(left).at) = Head(left).own
      <3>1. left' = Tail(left) /\ UNCHANGED <<pc, verdict, got>>
        BY <1>7, <2>3 DEF EveryBlock
      <3>a. IsASeq(left) /\ left # <<>>
        BY <1>1a, <2>1, <2>3
      <3>2. PICK t : t = Rest(left)
        OBVIOUS
      <3>3. /\ IsASeq(t) /\ Head(left) = left[1]
            /\ \A i \in DOMAIN left : i = 1 \/ (i - 1 \in DOMAIN t /\ t[i - 1] = left[i])
        BY <3>a, <3>2, TailFacts
      <3>4. HighIn(left) => HighIn(t) \/ Current
        BY <2>3, <3>3 DEF HighIn, Current
      <3>5. left' = t
        BY <3>1, <3>2 DEF Rest
      <3>6. HighIn(left)' <=> HighIn(t)
        BY <3>5 DEF HighIn
      <3>7. Current => FindingIsTrue(got.finding)
        BY <2>1 DEF ActivationInv
      <3>8. FindingIsTrue(got.finding)' <=> FindingIsTrue(got.finding)
        BY <3>1, AsConfiguredStays DEF FindingIsTrue
      <3>9. (IsASeq(left) /\ (HighIn(left) \/ FindingIsTrue(got.finding)))'
        <4>1. IsASeq(left')
          BY <3>3, <3>5
        <4>2. QED BY <1>1a, <2>1, <3>4, <3>6, <3>7, <3>8, <4>1
      <3>10. (Current => FindingIsTrue(got.finding))'
        BY <1>2, <3>7, <3>8
      <3> HIDE DEF HighIn, Current, FindingIsTrue, IsASeq, Waiting, Events
      <3>11. QED BY <1>1, <1>4, <2>1, <3>1, <3>9, <3>10 DEF ActivationInv, Reading, ActivationHolds
    <2>4. CASE left # <<>> /\ Own(Head(left).at) # Head(left).own
      <3>1. left' = Tail(left) /\ UNCHANGED <<pc, verdict>> /\ got' = Fault("unavailable")
        BY <1>7, <2>4 DEF EveryBlock
      <3>2. QED BY <1>6, <2>1, <2>4, <3>1
    <2>5. QED BY <2>2, <2>3, <2>4
  <1>8. CASE ActivationFails
    <2>1. CASE pc \in Reading /\ Throw("unavailable") /\ UNCHANGED verdict
      <3>1. IsASeq(noted')
        BY <1>1, <1>4
      <3> HIDE DEF HighIn, Current, FindingIsTrue, IsASeq
      <3>2. QED BY <1>3, <2>1, <3>1, ThrowKeeps
    <2>2. CASE pc = "every block" /\ left # <<>> /\ got' = Fault("unavailable") /\ left' = Tail(left) /\ UNCHANGED <<pc, verdict>>
      BY <1>6, <2>2
    <2>3. CASE Report([status |-> "unavailable"]) /\ got' = Fault("unavailable")
      BY <1>3, <1>5, <2>3 DEF Report
    <2>4. QED BY <1>8, <2>1, <2>2, <2>3 DEF ActivationFails
  <1>9. QED BY <1>7, <1>8

\* While what was read stays, and no block comes back, nothing changes for an activation.
LEMMA ActivationRests ==
  ASSUME ActivationInv, UNCHANGED <<reader, base, story, pc, noted, left, cursor, logs, got, verdict>>, Current' => Current
  PROVE  ActivationInv'
  <1>1. /\ FindingIsTrue(got.finding)' <=> FindingIsTrue(got.finding)
        /\ HighIn(noted)' <=> HighIn(noted)
        /\ HighIn(left)' <=> HighIn(left)
    BY DEF FindingIsTrue, AsConfigured, Where, HighIn
  <1>2. Events(Changes, base.low, cursor.start - 1)' = Events(Changes, base.low, cursor.start - 1) /\ Waiting' = Waiting
    BY DEF Events, Event, Where, Waiting
  <1>3. ActivationHolds' <=> ActivationHolds
    BY DEF ActivationHolds, Where
  <1> HIDE DEF HighIn, Current, FindingIsTrue, IsASeq, Waiting, Events, ActivationHolds
  <1>4. QED BY <1>1, <1>2, <1>3 DEF ActivationInv

\* What an activation has read is true of the given chain as long as its last block stands.
LEMMA ActivationKeepsInv ==
  ASSUME WorldOK, Phased, ActivationInv, ReaderNext
  PROVE  ActivationInv'
  <1>1. CASE Reorganize
    BY <1>1, Reorganizing, ActivationRests
  <1>2. CASE IdentityNext \/ ObservationNext \/ PublicationNext \/ CheckpointNext \/ CarryNext
    <2>1. reader' = reader /\ reader # "activation"
      BY <1>2, IdentityMoves, ObservationMoves, PublicationMoves, CheckpointMoves, CarryMoves DEF configVars
    <2>2. QED BY <2>1 DEF ActivationInv
  <1>3. CASE ActivationNext
    <2>1. reader = "activation" /\ UNCHANGED <<reader, base, story, common>>
      BY <1>3, ActivationMoves DEF configVars, worldVars
    <2>2. CASE ActivationBases \/ DeploymentBlock \/ DeploymentRead \/ KnownImplementation
      BY <2>1, <2>2, ProvenanceKeeps
    <2>3. CASE ChangesPage
      BY <2>1, <2>3, ChangesPageKeeps
    <2>4. CASE ChangeLog
      BY <2>1, <2>4, ChangeLogKeeps
    <2>5. CASE EveryBlock \/ ActivationFails
      BY <2>1, <2>5, EveryBlockKeeps
    <2>6. QED BY <1>3, <2>2, <2>3, <2>4, <2>5 DEF ActivationNext
  <1>4. QED BY <1>1, <1>2, <1>3 DEF ReaderNext

--------------------------------------------------------------------------------
(* The checkpoint of a pair. *)

\* The publications since the zero block, in order.
LEMMA ListingFacts ==
  ASSUME NEW q, q = Listing
  PROVE  /\ IsASeq(q) /\ Len(q) \in Nat /\ DOMAIN q = 1..Len(q)
         /\ \A i \in DOMAIN q : q[i].own = TRUE /\ q[i].at \in Nat /\ story[q[i].at] = "feedback"
  <1>1. PICK S : S = Publications
    OBVIOUS
  <1>2. /\ IsFiniteSet(S) /\ \A x \in S : x.at \in Nat /\ x.at \in Where({"feedback"}, base.mid + 1, base.high) /\ x = Event(x.at)
        /\ \A x, y \in S : x.at = y.at => x = y
    BY <1>1, EventsFacts DEF Publications
  <1>3. q = InOrder(S)
    BY <1>1 DEF Listing
  <1>4. /\ q \in [1..Cardinality(S) -> S] /\ Cardinality(S) \in Nat /\ IsASeq(q) /\ Len(q) = Cardinality(S)
    BY <1>2, <1>3, InOrderFacts
  <1>5. \A x \in S : x.own = TRUE /\ x.at \in Nat /\ story[x.at] = "feedback"
    BY <1>2 DEF Event, Where
  <1>6. DOMAIN q = 1..Len(q) /\ \A i \in DOMAIN q : q[i] \in S
    BY <1>4
  <1>7. QED BY <1>4, <1>5, <1>6

\* What the story says stays so.
LEMMA ListingStays ==
  ASSUME UNCHANGED <<base, story>>
  PROVE  /\ Listing' = Listing /\ \A k : Stated(k)' = Stated(k)
         /\ \A i, b : ScanEmpty(i, b)' <=> ScanEmpty(i, b)
         /\ Unpublished' <=> Unpublished
         /\ \A h : Counter(h)' = Counter(h)
         /\ Registered' = Registered
  <1>1. Listing' = Listing
    BY DEF Listing, Publications, Events, Event, Where
  <1>2. /\ \A h : Counter(h)' = Counter(h)
        /\ \A s, h : Revoked(s, h)' <=> Revoked(s, h)
    BY StoryStays
  <1>3. ASSUME NEW k PROVE Stated(k)' = Stated(k)
    <2>1. PICK a, b : a = Listing[k].at /\ b = base.high
      OBVIOUS
    <2>2. Listing'[k].at = a /\ base'.high = b
      BY <1>1, <2>1
    <2>3. Revoked(a, b)' <=> Revoked(a, b)
      BY <1>2
    <2>4. QED BY <2>1, <2>2, <2>3 DEF Stated
  <1>4. ASSUME NEW i, NEW b PROVE ScanEmpty(i, b)' <=> ScanEmpty(i, b)
    BY DEF ScanEmpty, Scans, Where
  <1>5. Registered' = Registered
    BY DEF Registered
  <1>6. Unpublished' <=> Unpublished
    <2>1. Counter(base.mid)' = Counter(base.mid)
      <3>1. PICK b : b = base.mid
        OBVIOUS
      <3>2. Counter(b)' = Counter(b)
        BY <1>2
      <3>3. QED BY <3>1, <3>2
    <2>2. (ScanEmpty(1, base.high)' <=> ScanEmpty(1, base.high)) /\ (ScanEmpty(2, base.high)' <=> ScanEmpty(2, base.high))
      BY DEF ScanEmpty, Scans, Where
    <2>3. QED BY <1>5, <2>1, <2>2 DEF Unpublished
  <1>7. QED BY <1>1, <1>2, <1>3, <1>4, <1>5, <1>6

\* What the checkpoint keeps when it is refused.
LEMMA RefusingKeeps ==
  ASSUME CheckpointInv, reader = "checkpoint", NEW s \in {"unavailable", "mismatched", "unsupported"}, Refuse(s)
  PROVE  CheckpointInv'
  <1>1. verdict' = [status |-> s] /\ pc' = "done" /\ UNCHANGED <<noted, got>>
    BY DEF Refuse, Report
  <1>2. {"slot", "slotOwn", "nth", "last", "slots"} \subseteq DOMAIN got' /\ IsASeq(noted')
    BY <1>1 DEF CheckpointInv, CheckpointShape
  <1>3. CheckpointShape'
    BY <1>1, <1>2 DEF CheckpointShape, CheckPhases, SlotPhases, BeforePublications
  <1>4. Scanning' /\ Listening' /\ Concluded'
    BY <1>1 DEF Scanning, Listening, Concluded, ListPhases, SlotPhases
  <1>5. CheckpointHolds'
    BY <1>1 DEF CheckpointHolds
  <1>6. QED BY <1>3, <1>4, <1>5 DEF CheckpointInv

\* The blocks, the registration and the profile.
LEMMA CheckpointBegins ==
  ASSUME WorldOK, WorldOK', CheckpointInv, reader = "checkpoint", UNCHANGED <<reader, base, story, common>>,
         CheckpointHeader \/ Qualify \/ Registration \/ RegistrationProfile
  PROVE  CheckpointInv'
  <1> USE DEF BeforePublications, CheckPhases, ListPhases, SlotPhases
  <1>0. /\ base.low \in Nat /\ base.mid \in Nat /\ base.high \in Nat /\ base.low < base.mid /\ base.mid <= base.high
    BY BlockFacts DEF WorldOK
  <1>1. (Current' <=> Current) /\ Registered' = Registered /\ (Current => Own(Registered)) /\ Registered \in Nat
        /\ (HighIn(noted)' <=> HighIn(noted'))
    BY <1>0, BlockFacts DEF Current, Own, Registered, HighIn
  <1>2. /\ {"slot", "slotOwn", "nth", "last", "slots"} \subseteq DOMAIN got /\ IsASeq(noted)
        /\ pc = "headers" => /\ left \in {<<base.low, base.mid, base.high>>, <<base.mid, base.high>>, <<base.high>>}
                             /\ \A i \in DOMAIN noted : noted[i].own = TRUE
        /\ pc \in {"qualify", "registration", "profile"} => HighIn(noted)
        /\ pc \in {"headers", "qualify", "registration", "profile"} => logs = {} /\ got.slots = <<>> /\ got.nth = 0
        /\ Current /\ pc = "profile" => story[Registered] = "register"
    BY DEF CheckpointInv, CheckpointShape, Scanning
  <1>3. CASE CheckpointHeader
    <2>1. pc = "headers" /\ UNCHANGED <<cursor, logs, got>>
      BY <1>3 DEF CheckpointHeader, Refuse
    <2>2. CASE ~Own(Head(left))
      BY <1>3, <2>2, RefusingKeeps DEF CheckpointHeader
    <2>3. CASE Own(Head(left))
      <3>1. /\ Remember(Head(left))
            /\ IF Len(left) > 1 THEN left' = Tail(left) /\ UNCHANGED pc
               ELSE pc' = "qualify" /\ left' = <<base.low, Registered, base.mid, base.high>>
        BY <1>3, <2>3 DEF CheckpointHeader
      <3>2. PICK h : h = Head(left)
        OBVIOUS
      <3>3. Own(h) /\ Remember(h)
        BY <2>3, <3>1, <3>2
      <3>4. IsASeq(noted') /\ (\A i \in DOMAIN noted' : noted'[i].own = TRUE) /\ (h = base.high => HighIn(noted'))
        BY <1>2, <2>1, <3>3, RememberFacts
      <3>5. CASE left = <<base.low, base.mid, base.high>>
        <4>1. Len(left) > 1 /\ Tail(left) = <<base.mid, base.high>>
          BY <3>5
        <4>2. left' = <<base.mid, base.high>> /\ pc' = "headers"
          BY <2>1, <3>1, <4>1
        <4> HIDE DEF HighIn, Current
        <4>3. CheckpointShape'
          BY <1>2, <2>1, <3>4, <4>2 DEF CheckpointShape
        <4>4. QED BY <4>2, <4>3 DEF CheckpointInv, Scanning, Listening, Concluded, CheckpointHolds
      <3>6. CASE left = <<base.mid, base.high>>
        <4>1. Len(left) > 1 /\ Tail(left) = <<base.high>>
          BY <3>6
        <4>2. left' = <<base.high>> /\ pc' = "headers"
          BY <2>1, <3>1, <4>1
        <4> HIDE DEF HighIn, Current
        <4>3. CheckpointShape'
          BY <1>2, <2>1, <3>4, <4>2 DEF CheckpointShape
        <4>4. QED BY <4>2, <4>3 DEF CheckpointInv, Scanning, Listening, Concluded, CheckpointHolds
      <3>7. CASE left = <<base.high>>
        <4>1. ~(Len(left) > 1) /\ h = base.high
          BY <3>2, <3>7
        <4>2. pc' = "qualify"
          BY <3>1, <4>1
        <4> HIDE DEF HighIn, Current
        <4>3. CheckpointShape'
          BY <1>1, <1>2, <2>1, <3>4, <4>1, <4>2 DEF CheckpointShape
        <4>4. QED BY <4>2, <4>3 DEF CheckpointInv, Scanning, Listening, Concluded, CheckpointHolds
      <3>8. QED BY <1>2, <2>1, <3>5, <3>6, <3>7
    <2>4. QED BY <2>2, <2>3
  <1>4. CASE Qualify
    <2>1. pc = "qualify"
      BY <1>4 DEF Qualify
    <2>2. PICK h : h = Head(left)
      OBVIOUS
    <2>3. ASSUME Remember(h), UNCHANGED <<pc, got, logs>>
          PROVE  CheckpointInv'
      <3>1. IsASeq(noted') /\ HighIn(noted')
        BY <1>2, <2>1, <2>3, RememberFacts
      <3> HIDE DEF HighIn, Current
      <3>2. CheckpointShape'
        BY <1>1, <1>2, <2>1, <2>3, <3>1 DEF CheckpointShape
      <3>3. QED BY <2>1, <2>3, <3>2 DEF CheckpointInv, Scanning, Listening, Concluded, CheckpointHolds
    <2>4. ASSUME pc' = "registration" \/ pc' = "qualify", UNCHANGED <<noted, logs, got>>
          PROVE  CheckpointInv'
      <3> HIDE DEF HighIn, Current
      <3>2. CheckpointShape'
        BY <1>1, <1>2, <2>1, <2>4 DEF CheckpointShape, HighIn
      <3>3. QED BY <2>4, <3>2 DEF CheckpointInv, Scanning, Listening, Concluded, CheckpointHolds
    <2>5. \/ Remember(h) /\ UNCHANGED <<pc, got, logs>>
          \/ (pc' = "registration" \/ pc' = "qualify") /\ UNCHANGED <<noted, logs, got>>
          \/ \E s \in {"unavailable", "mismatched", "unsupported"} : Refuse(s)
      BY <1>4, <2>2 DEF Qualify
    <2>6. QED BY <2>3, <2>4, <2>5, RefusingKeeps
  <1>5. CASE Registration
    <2>1. pc = "registration"
      BY <1>5 DEF Registration
    <2>2. PICK ok \in Answers(Registered, story[Registered] = "register", BOOLEAN) :
            IF ok THEN pc' = "profile" /\ UNCHANGED <<noted, left, cursor, logs, got, verdict>>
            ELSE Refuse("mismatched")
      BY <1>5 DEF Registration
    <2>3. CASE ok
      <3>1. Current => story[Registered] = "register"
        BY <1>1, <2>2, <2>3 DEF Answers
      <3>2. pc' = "profile" /\ UNCHANGED <<noted, left, cursor, logs, got, verdict>>
        BY <2>2, <2>3
      <3>3. CheckpointShape'
        BY <1>2, <2>1, <3>2 DEF CheckpointShape, HighIn
      <3> HIDE DEF HighIn, Current, Registered
      <3>4. QED BY <1>1, <3>1, <3>2, <3>3 DEF CheckpointInv, Scanning, Listening, Concluded, CheckpointHolds
    <2>4. QED BY <2>2, <2>3, RefusingKeeps
  <1>6. CASE RegistrationProfile
    <2>1. pc = "profile"
      BY <1>6 DEF RegistrationProfile
    <2>2. CASE pc' = "upgrades" /\ cursor' = [start |-> Scans[1].from, filter |-> 1] /\ UNCHANGED <<noted, left, logs, got, verdict>>
      <3>1. cursor' \in [start : Nat, filter : 1..2] /\ cursor'.filter = 1 /\ cursor'.start = base.low + 1
        BY <1>0, <2>2 DEF Scans
      <3>2. CheckpointShape'
        BY <1>2, <2>1, <2>2, <3>1 DEF CheckpointShape, HighIn
      <3>3. ScanEmpty(1, cursor.start - 1)'
        BY <1>0, <3>1 DEF ScanEmpty, Scans, Where, Heights
      <3> HIDE DEF HighIn, Current, Registered
      <3>4. QED BY <1>1, <1>2, <2>1, <2>2, <3>1, <3>2, <3>3 DEF CheckpointInv, Scanning, Listening, Concluded, CheckpointHolds
    <2>3. QED BY <1>6, <2>2, RefusingKeeps DEF RegistrationProfile
  <1>7. QED BY <1>3, <1>4, <1>5, <1>6

\* Two stretches without an event are one.
LEMMA EmptyJoins ==
  ASSUME NEW kinds, NEW from, NEW a \in Nat, NEW b \in Nat,
         Where(kinds, from, a - 1) = {}, Where(kinds, a, b) = {}
  PROVE  Where(kinds, from, b) = {}
  <1>1. SUFFICES ASSUME NEW h \in Where(kinds, from, b) PROVE FALSE
    OBVIOUS
  <1>2. h \in Heights /\ h \in Int /\ from <= h /\ h <= b /\ story[h] \in kinds
    BY DEF Where, Heights
  <1>3. h <= a - 1 \/ a <= h
    BY <1>2
  <1>4. QED BY <1>2, <1>3 DEF Where

\* An answer without logs, of a node that has the last block, is that there are none.
LEMMA EmptyPage ==
  ASSUME NEW kinds, NEW a \in Nat, NEW b \in Nat, Own(b), common \in Nat, {} \in Page(kinds, a, b)
  PROVE  Where(kinds, a, b) = {}
  <1>1. Events(kinds, a, b) = {}
    BY PageIsTrue
  <1>2. QED BY <1>1 DEF Events

\* The scans of the upgrades and the two counters.
LEMMA CheckpointScans ==
  ASSUME WorldOK, CheckpointInv, reader = "checkpoint", UNCHANGED <<reader, base, story, common>>,
         UpgradePage \/ CounterIsZero \/ CounterIsLast
  PROVE  CheckpointInv'
  <1> USE DEF BeforePublications, CheckPhases, ListPhases, SlotPhases
  <1>0. /\ base.low \in Nat /\ base.mid \in Nat /\ base.high \in Nat /\ base.low < base.mid /\ base.mid <= base.high
        /\ common \in Nat
    BY BlockFacts DEF WorldOK
  <1>1. (Current' <=> Current) /\ Registered' = Registered /\ (HighIn(noted)' <=> HighIn(noted'))
    BY DEF Current, Own, Registered, HighIn
  <1>2. /\ {"slot", "slotOwn", "nth", "last", "slots"} \subseteq DOMAIN got /\ IsASeq(noted)
        /\ pc \in {"upgrades", "zero", "last"} => HighIn(noted) /\ logs = {} /\ got.slots = <<>> /\ got.nth = 0
        /\ pc = "upgrades" => cursor \in [start : Nat, filter : 1..2]
        /\ Current => Scanning
    BY DEF CheckpointInv, CheckpointShape
  <1>3. /\ \A i, b : ScanEmpty(i, b)' <=> ScanEmpty(i, b)
        /\ Unpublished' <=> Unpublished
        /\ \A h : Counter(h)' = Counter(h)
    BY ListingStays
  <1>4. CASE UpgradePage
    <2>0. pc = "upgrades" /\ cursor.start \in Nat /\ cursor.filter \in 1..2
      BY <1>2, <1>4 DEF UpgradePage
    <2>1. Current => /\ story[Registered] = "register"
                     /\ cursor.filter = 1 => ScanEmpty(1, cursor.start - 1)
                     /\ cursor.filter = 2 => ScanEmpty(1, base.high) /\ ScanEmpty(2, cursor.start - 1)
      BY <1>2, <2>0 DEF Scanning
    <2>2. CASE cursor.start > base.high
      <3>1. UNCHANGED <<noted, left, logs, got, verdict>>
        BY <1>4, <2>2 DEF UpgradePage
      <3>2. ASSUME NEW i, ScanEmpty(i, cursor.start - 1) PROVE ScanEmpty(i, base.high)
        BY <1>0, <2>0, <2>2, <3>2 DEF ScanEmpty, Where, Heights
      <3>3. CASE cursor.filter = 1
        <4>1. pc' = "upgrades" /\ cursor' = [start |-> Scans[2].from, filter |-> 2]
          BY <1>4, <2>0, <2>2, <3>3 DEF UpgradePage
        <4>2. cursor' \in [start : Nat, filter : 1..2] /\ cursor'.filter = 2 /\ cursor'.start = base.mid + 1
          BY <1>0, <4>1 DEF Scans
        <4>3. CheckpointShape'
          BY <1>1, <1>2, <2>0, <3>1, <4>1, <4>2 DEF CheckpointShape
        <4>4. ScanEmpty(2, cursor.start - 1)'
          BY <1>0, <4>2 DEF ScanEmpty, Scans, Where, Heights
        <4>5. Current => ScanEmpty(1, base.high)'
          <5>1. Current => ScanEmpty(1, base.high)
            BY <2>1, <3>2, <3>3
          <5>2. ScanEmpty(1, base.high)' <=> ScanEmpty(1, base.high)
            BY DEF ScanEmpty, Scans, Where
          <5>3. QED BY <5>1, <5>2
        <4> HIDE DEF HighIn, Current, Registered, ScanEmpty
        <4>6. QED BY <1>1, <2>1, <4>1, <4>2, <4>3, <4>4, <4>5 DEF CheckpointInv, Scanning, Listening, Concluded, CheckpointHolds
      <3>4. CASE cursor.filter = 2
        <4>1. pc' = "zero"
          BY <1>4, <2>0, <2>2, <3>4 DEF UpgradePage
        <4>2. CheckpointShape'
          BY <1>1, <1>2, <2>0, <3>1, <4>1 DEF CheckpointShape
        <4>3. Current => ScanEmpty(1, base.high) /\ ScanEmpty(2, base.high)
          BY <2>1, <3>2, <3>4
        <4>4. (ScanEmpty(1, base.high)' <=> ScanEmpty(1, base.high)) /\ (ScanEmpty(2, base.high)' <=> ScanEmpty(2, base.high))
          BY DEF ScanEmpty, Scans, Where
        <4> HIDE DEF HighIn, Current, Registered, ScanEmpty
        <4>5. QED BY <1>1, <2>1, <4>1, <4>2, <4>3, <4>4 DEF CheckpointInv, Scanning, Listening, Concluded, CheckpointHolds
      <3>5. QED BY <2>0, <3>3, <3>4
    <2>3. CASE ~(cursor.start > base.high)
      <3>1. PICK found \in Page(Scans[cursor.filter].kinds, cursor.start, PageTo) :
            IF found # {} THEN Refuse("unsupported")
            ELSE cursor' = [cursor EXCEPT !.start = PageTo + 1]
                 /\ UNCHANGED <<pc, noted, left, logs, got, verdict>>
        BY <1>4, <2>3 DEF UpgradePage
      <3>2. PICK to : to = PageTo
        OBVIOUS
      <3>3. to \in Nat /\ cursor.start <= to /\ to <= base.high
        BY <1>0, <2>0, <2>3, <3>2, PageEndFacts DEF PageTo
      <3>4. CASE found = {}
        <4>1. cursor' = [cursor EXCEPT !.start = to + 1] /\ UNCHANGED <<pc, noted, left, logs, got, verdict>>
          BY <3>1, <3>2, <3>4
        <4>2. cursor' \in [start : Nat, filter : 1..2] /\ cursor'.start = to + 1 /\ cursor'.filter = cursor.filter
              /\ cursor'.start - 1 = to
          BY <1>2, <2>0, <3>3, <4>1
        <4>3. CheckpointShape'
          BY <1>1, <1>2, <2>0, <4>1, <4>2 DEF CheckpointShape
        <4>4. ASSUME NEW i, cursor.filter = i, Current, ScanEmpty(i, cursor.start - 1)
              PROVE  ScanEmpty(i, to)
          <5>1. Own(to)
            BY <1>0, <3>3, <4>4 DEF Current, Own
          <5>2. PICK K : K = Scans[i].kinds
            OBVIOUS
          <5>3. {} \in Page(K, cursor.start, to)
            BY <3>1, <3>2, <3>4, <4>4, <5>2
          <5>4. PICK s : s = cursor.start
            OBVIOUS
          <5>5. Where(K, s, to) = {}
            BY <1>0, <2>0, <3>3, <5>1, <5>3, <5>4, EmptyPage
          <5>6. Where(K, Scans[i].from, s - 1) = {}
            BY <4>4, <5>2, <5>4 DEF ScanEmpty
          <5>7. PICK from : from = Scans[i].from
            OBVIOUS
          <5>8. Where(K, from, to) = {}
            BY <2>0, <3>3, <5>4, <5>5, <5>6, <5>7, EmptyJoins
          <5>9. QED BY <5>2, <5>7, <5>8 DEF ScanEmpty
        <4>5. Current => /\ cursor.filter = 1 => ScanEmpty(1, to)
                         /\ cursor.filter = 2 => ScanEmpty(1, base.high) /\ ScanEmpty(2, to)
          BY <2>1, <4>4
        <4>6. (ScanEmpty(1, to)' <=> ScanEmpty(1, to)) /\ (ScanEmpty(2, to)' <=> ScanEmpty(2, to))
          BY <1>3
        <4>7. ScanEmpty(1, base.high)' <=> ScanEmpty(1, base.high)
          BY DEF ScanEmpty, Scans, Where
        <4> HIDE DEF HighIn, Current, Registered, ScanEmpty
        <4>8. Current => Scanning'
          BY <1>1, <2>0, <2>1, <4>1, <4>2, <4>5, <4>6, <4>7 DEF Scanning
        <4>9. pc' = "upgrades"
          BY <2>0, <4>1
        <4>10. QED BY <1>1, <4>3, <4>8, <4>9 DEF CheckpointInv, Listening, Concluded, CheckpointHolds
      <3>5. QED BY <3>1, <3>4, RefusingKeeps
    <2>4. QED BY <2>2, <2>3
  <1>5. CASE CounterIsZero
    <2>1. PICK zero \in Answers(base.mid, Counter(base.mid), 0..1) :
            IF zero # 0 THEN Refuse("unsupported")
            ELSE pc' = "last" /\ UNCHANGED <<noted, left, cursor, logs, got, verdict>>
      BY <1>5 DEF CounterIsZero
    <2>2. CASE zero = 0
      <3>1. pc = "zero" /\ pc' = "last" /\ UNCHANGED <<noted, left, cursor, logs, got, verdict>>
        BY <1>5, <2>1, <2>2 DEF CounterIsZero
      <3>2. CheckpointShape'
        BY <1>1, <1>2, <3>1 DEF CheckpointShape
      <3>3. Current => Counter(base.mid) = 0
        BY <1>0, <2>1, <2>2 DEF Answers, Own, Current
      <3>4. Current => Unpublished
        BY <1>2, <3>1, <3>3 DEF Scanning, Unpublished
      <3> HIDE DEF HighIn, Current, Registered, ScanEmpty, Unpublished
      <3>5. QED BY <1>1, <1>3, <3>1, <3>2, <3>4 DEF CheckpointInv, Scanning, Listening, Concluded, CheckpointHolds
    <2>3. QED BY <2>1, <2>2, RefusingKeeps
  <1>6. CASE CounterIsLast
    <2>1. PICK last \in Answers(base.high, Counter(base.high), 0..(MaxLogs + 1)) :
            IF last > MaxLogs THEN Refuse("unavailable")
            ELSE /\ got' = [got EXCEPT !.last = last]
                 /\ pc' = "publications" /\ cursor' = [start |-> base.mid + 1, filter |-> 1]
                 /\ UNCHANGED <<noted, left, logs, verdict>>
      BY <1>6 DEF CounterIsLast
    <2>2. CASE ~(last > MaxLogs)
      <3>1. pc = "last" /\ got' = [got EXCEPT !.last = last] /\ pc' = "publications"
            /\ cursor' = [start |-> base.mid + 1, filter |-> 1] /\ UNCHANGED <<noted, left, logs, verdict>>
        BY <1>6, <2>1, <2>2 DEF CounterIsLast
      <3>2. cursor' \in [start : Nat, filter : 1..2] /\ cursor'.start = base.mid + 1
        BY <1>0, <3>1
      <3>3. {"slot", "slotOwn", "nth", "last", "slots"} \subseteq DOMAIN got' /\ got'.slots = <<>> /\ got'.nth = 0 /\ got'.last = last
        BY <1>2, <3>1
      <3>4. CheckpointShape'
        <4>1. base'.mid < cursor'.start
          BY <1>0, <3>2
        <4> HIDE DEF HighIn
        <4>2. QED BY <1>1, <1>2, <3>1, <3>2, <3>3, <4>1 DEF CheckpointShape
      <3>5. Current => last = Counter(base.high)
        BY <2>1 DEF Answers, Current
      <3>6. Counter(base.high)' = Counter(base.high)
        <4>1. PICK b : b = base.high
          OBVIOUS
        <4>2. Counter(b)' = Counter(b)
          BY <1>3
        <4>3. QED BY <4>1, <4>2
      <3>7. (logs = Events({"feedback"}, base.mid + 1, IF cursor.start <= base.high THEN cursor.start - 1 ELSE base.high))'
        <4>1. Where({"feedback"}, base.mid + 1, base.mid) = {} /\ ~(base.mid + 1 <= base.high) => base.mid = base.high
          BY <1>0 DEF Where, Heights
        <4>2. Where({"feedback"}, base.mid + 1, base.mid) = {}
          BY <1>0 DEF Where, Heights
        <4>3. (IF cursor'.start <= base.high THEN cursor'.start - 1 ELSE base.high) = base.mid
          BY <1>0, <3>2
        <4>4. Events({"feedback"}, base.mid + 1, IF cursor'.start <= base.high THEN cursor'.start - 1 ELSE base.high) = {}
          BY <4>2, <4>3 DEF Events
        <4>5. logs' = {}
          BY <1>2, <3>1
        <4>6. QED BY <4>4, <4>5 DEF Events, Event, Where
      <3>8. Current => Unpublished
        BY <1>2, <3>1 DEF Scanning
      <3> HIDE DEF HighIn, Current, Registered, ScanEmpty, Unpublished, Events
      <3>9. Current => Scanning'
        BY <1>3, <3>1, <3>3, <3>5, <3>6, <3>7, <3>8 DEF Scanning
      <3>10. QED BY <1>1, <3>1, <3>4, <3>9 DEF CheckpointInv, Listening, Concluded, CheckpointHolds
    <2>3. QED BY <2>1, <2>2, RefusingKeeps
  <1>7. QED BY <1>4, <1>5, <1>6

\* A chunk of the publications, or the end of them.
LEMMA PublicationPageKeeps ==
  ASSUME WorldOK, CheckpointInv, reader = "checkpoint", UNCHANGED <<reader, base, story, common>>, PublicationPage
  PROVE  CheckpointInv'
  <1> USE DEF BeforePublications, CheckPhases, ListPhases, SlotPhases
  <1>0. /\ base.mid \in Nat /\ base.high \in Nat /\ base.mid <= base.high /\ common \in Nat /\ pc = "publications"
    BY BlockFacts DEF WorldOK, PublicationPage
  <1>1. (Current' <=> Current) /\ (HighIn(noted)' <=> HighIn(noted'))
    BY DEF Current, Own, HighIn
  <1>2. /\ {"slot", "slotOwn", "nth", "last", "slots"} \subseteq DOMAIN got /\ IsASeq(noted)
        /\ HighIn(noted) /\ got.slots = <<>> /\ got.nth = 0
        /\ cursor \in [start : Nat, filter : 1..2] /\ base.mid < cursor.start /\ cursor.start \in Nat
    BY <1>0 DEF CheckpointInv, CheckpointShape
  <1>3. Current => /\ Unpublished /\ got.last = Counter(base.high)
                   /\ logs = Events({"feedback"}, base.mid + 1, IF cursor.start <= base.high THEN cursor.start - 1 ELSE base.high)
    BY <1>0 DEF CheckpointInv, Scanning
  <1>4. /\ Unpublished' <=> Unpublished
        /\ Counter(base.high)' = Counter(base.high)
        /\ Listing' = Listing
    <2>1. PICK b : b = base.high
      OBVIOUS
    <2>2. Counter(b)' = Counter(b)
      BY ListingStays
    <2>3. QED BY <2>1, <2>2, ListingStays
  <1>5. CASE cursor.start > base.high
    <2>1. CASE Cardinality(logs) = got.last
      <3>1. pc' = "slot" /\ left' = InOrder(logs) /\ UNCHANGED <<noted, cursor, logs, got, verdict>>
        BY <1>5, <2>1 DEF PublicationPage
      <3>2. CheckpointShape'
        BY <1>1, <1>2, <3>1 DEF CheckpointShape
      <3>3. Current => left' = Listing
        BY <1>0, <1>2, <1>3, <1>5, <3>1 DEF Listing, Publications
      <3>4. Current => Listed'
        <4>1. SUFFICES ASSUME Current PROVE Listed'
          OBVIOUS
        <4>2. PICK q : q = Listing
          OBVIOUS
        <4>3. IsASeq(q) /\ Len(q) \in Nat /\ DOMAIN q = 1..Len(q)
          BY <4>2, ListingFacts
        <4>4. left' = q /\ Listing' = q /\ got'.slots = <<>>
          BY <1>2, <1>4, <3>1, <3>3, <4>1, <4>2
        <4>5. IsASeq(got'.slots) /\ Len(got'.slots) = 0 /\ DOMAIN got'.slots = {}
          BY <4>4 DEF IsASeq
        <4> HIDE DEF IsASeq
        <4>6. /\ Len(got'.slots) + Len(q) = Len(q) /\ \A i \in DOMAIN q : Len(got'.slots) + i = i
          BY <4>3, <4>5
        <4>7. QED BY <4>3, <4>4, <4>5, <4>6 DEF Listed
      <3>5. got'.nth = 0 /\ got'.slots = <<>> /\ Len(<<>>) = 0 /\ got'.last = got.last
        BY <1>2, <3>1
      <3> HIDE DEF HighIn, Current, Unpublished, Listed
      <3>6. Current => Scanning'
        BY <1>3, <1>4, <3>1, <3>5 DEF Scanning
      <3>7. Current => Listening'
        BY <3>1, <3>4, <3>5 DEF Listening
      <3>8. QED BY <1>1, <3>1, <3>2, <3>6, <3>7 DEF CheckpointInv, Concluded, CheckpointHolds
    <2>2. QED BY <1>5, <2>1, RefusingKeeps DEF PublicationPage
  <1>6. CASE ~(cursor.start > base.high)
    <2>1. PICK found \in Page({"feedback"}, cursor.start, PageTo) :
            IF Cardinality(logs) + Cardinality(found) > MaxLogs THEN Refuse("unavailable")
            ELSE /\ cursor' = [cursor EXCEPT !.start = PageTo + 1]
                 /\ logs' = logs \cup found
                 /\ UNCHANGED <<pc, noted, left, got, verdict>>
      BY <1>6 DEF PublicationPage
    <2>2. PICK to, s : to = PageTo /\ s = cursor.start
      OBVIOUS
    <2>3. to \in Nat /\ s \in Nat /\ s <= to /\ to <= base.high /\ base.mid + 1 <= s /\ s <= base.high
      <3>1. s \in Nat /\ base.mid + 1 <= s /\ s <= base.high
        BY <1>0, <1>2, <1>6, <2>2
      <3>2. to = PageEnd(s, base.high)
        BY <2>2 DEF PageTo
      <3>3. QED BY <1>0, <3>1, <3>2, PageEndFacts
    <2>4. CASE /\ cursor' = [cursor EXCEPT !.start = PageTo + 1]
               /\ logs' = logs \cup found
               /\ UNCHANGED <<pc, noted, left, got, verdict>>
      <3>1. cursor' \in [start : Nat, filter : 1..2] /\ cursor'.start = to + 1
        BY <1>2, <2>2, <2>3, <2>4
      <3>2. CheckpointShape'
        <4>1. base'.mid < cursor'.start
          BY <1>0, <2>3, <3>1
        <4> HIDE DEF HighIn
        <4>2. QED BY <1>0, <1>1, <1>2, <2>4, <3>1, <4>1 DEF CheckpointShape
      <3>3. Current => (logs = Events({"feedback"}, base.mid + 1, IF cursor.start <= base.high THEN cursor.start - 1 ELSE base.high))'
        <4>1. SUFFICES ASSUME Current
                       PROVE  logs' = Events({"feedback"}, base.mid + 1, IF cursor.start <= base.high THEN cursor.start - 1 ELSE base.high)'
          OBVIOUS
        <4>2. Own(to)
          BY <1>0, <2>3, <4>1 DEF Current, Own
        <4>3. found \in Page({"feedback"}, s, to)
          BY <2>1, <2>2
        <4>4. found = Events({"feedback"}, s, to)
          BY <1>0, <2>3, <4>2, <4>3, PageIsTrue
        <4>5. PICK a : a = base.mid + 1
          OBVIOUS
        <4>6. a \in Nat /\ a <= s /\ s <= to + 1
          BY <1>0, <2>3, <4>5
        <4>7. Events({"feedback"}, a, s - 1) \cup Events({"feedback"}, s, to) = Events({"feedback"}, a, to)
          BY <2>3, <4>6, EventsJoin
        <4>8. logs = Events({"feedback"}, a, s - 1)
          BY <1>3, <2>2, <2>3, <4>1, <4>5
        <4>9. (IF cursor'.start <= base'.high THEN cursor'.start - 1 ELSE base'.high) = to
          BY <1>0, <2>3, <3>1
        <4>10. Events({"feedback"}, a, to)' = Events({"feedback"}, a, to)
          BY DEF Events, Event, Where
        <4>11. QED BY <2>4, <4>4, <4>5, <4>7, <4>8, <4>9, <4>10
      <3>4. pc' = "publications" /\ got' = got
        BY <1>0, <2>4
      <3> HIDE DEF HighIn, Current, Unpublished, Events
      <3>5. Current => Scanning'
        BY <1>3, <1>4, <3>3, <3>4 DEF Scanning
      <3>6. QED BY <1>1, <3>2, <3>4, <3>5 DEF CheckpointInv, Listening, Concluded, CheckpointHolds
    <2>5. QED BY <2>1, <2>4, RefusingKeeps
  <1>7. QED BY <1>5, <1>6

\* The next publication of the list, or the end of it.
LEMMA NextSlotKeeps ==
  ASSUME WorldOK, WorldOK', CheckpointInv, reader = "checkpoint", UNCHANGED <<reader, base, story, common>>, NextSlot
  PROVE  CheckpointInv'
  <1> USE DEF BeforePublications, CheckPhases, ListPhases, SlotPhases
  <1>0. pc = "slot"
    BY DEF NextSlot
  <1>1. (Current' <=> Current) /\ (HighIn(noted)' <=> HighIn(noted')) /\ (HighIn(left)' <=> HighIn(left'))
    BY DEF Current, Own, HighIn
  <1>2. /\ {"slot", "slotOwn", "nth", "last", "slots"} \subseteq DOMAIN got /\ IsASeq(noted) /\ HighIn(noted)
    BY <1>0 DEF CheckpointInv, CheckpointShape
  <1>3. Current => Unpublished /\ got.last = Counter(base.high) /\ Listed /\ got.nth = Len(got.slots)
    BY <1>0 DEF CheckpointInv, Scanning, Listening
  <1>4. /\ Unpublished' <=> Unpublished
        /\ Counter(base.high)' = Counter(base.high)
        /\ Listing' = Listing /\ \A k : Stated(k)' = Stated(k)
    <2>1. PICK b : b = base.high
      OBVIOUS
    <2>2. Counter(b)' = Counter(b)
      BY ListingStays
    <2>3. QED BY <2>1, <2>2, ListingStays
  <1>5. CASE left = <<>>
    <2>1. pc' = "recheck" /\ left' = noted /\ UNCHANGED <<noted, cursor, logs, got, verdict>>
      BY <1>5 DEF NextSlot
    <2>2. CheckpointShape'
      BY <1>1, <1>2, <2>1 DEF CheckpointShape
    <2>3. Current => CheckpointTruth
      <3>1. SUFFICES ASSUME Current PROVE got.slots = [i \in DOMAIN Listing |-> Stated(i)]
        BY <1>3 DEF CheckpointTruth
      <3>2. PICK t, q : t = got.slots /\ q = Listing
        OBVIOUS
      <3>3. /\ IsASeq(t) /\ Len(t) + Len(left) = Len(q) /\ \A i \in DOMAIN t : t[i] = Stated(i)
        BY <1>3, <3>1, <3>2 DEF Listed
      <3>4. Len(left) = 0
        BY <1>5
      <3>5. Len(t) \in Nat /\ DOMAIN t = 1..Len(t) /\ t = [i \in DOMAIN t |-> t[i]]
        BY <3>3 DEF IsASeq
      <3>6. DOMAIN q = 1..Len(q) /\ Len(q) \in Nat
        BY <3>2, ListingFacts
      <3>7. DOMAIN t = DOMAIN q
        BY <3>3, <3>4, <3>5, <3>6
      <3>8. QED BY <3>2, <3>3, <3>5, <3>7
    <2>4. CheckpointTruth' <=> CheckpointTruth
      <3>1. got' = got
        BY <2>1
      <3> HIDE DEF Unpublished, Listing, Stated
      <3>2. QED BY <1>4, <3>1 DEF CheckpointTruth
    <2>5. IsASeq(left') /\ HighIn(left')
      BY <1>2, <2>1
    <2> HIDE DEF HighIn, Current, CheckpointTruth, IsASeq
    <2>6. Concluded'
      BY <1>1, <2>1, <2>3, <2>4, <2>5 DEF Concluded, IsASeq
    <2>7. QED BY <2>1, <2>2, <2>6 DEF CheckpointInv, Scanning, Listening, CheckpointHolds
  <1>6. CASE left # <<>>
    <2>1. PICK log : log = Head(left)
      OBVIOUS
    <2>2. \/ \E s \in {"unavailable", "mismatched", "unsupported"} : Refuse(s)
          \/ /\ TRUE \in (IF log.own THEN {Counter(log.at) = Len(got.slots) + 1} ELSE BOOLEAN)
             /\ Remember(log.at) /\ pc' = "receipts" /\ UNCHANGED <<left, cursor, logs, got, verdict>>
      BY <1>6, <2>1 DEF NextSlot
    <2>3. CASE /\ TRUE \in (IF log.own THEN {Counter(log.at) = Len(got.slots) + 1} ELSE BOOLEAN)
               /\ Remember(log.at) /\ pc' = "receipts" /\ UNCHANGED <<left, cursor, logs, got, verdict>>
      <3>1. IsASeq(noted') /\ HighIn(noted')
        <4>1. PICK h : h = log.at
          OBVIOUS
        <4>2. Remember(h)
          BY <2>3, <4>1
        <4>3. QED BY <1>2, <4>2, RememberFacts
      <3>2. CheckpointShape'
        BY <1>1, <1>2, <2>3, <3>1 DEF CheckpointShape
      <3>3. ASSUME Current
            PROVE  Counter(log.at) = Len(got.slots) + 1
        <4>1. PICK q : q = Listing
          OBVIOUS
        <4>2. IsASeq(left) /\ IsASeq(got.slots) /\ Len(got.slots) + Len(left) = Len(q)
              /\ \A i \in DOMAIN left : left[i] = q[Len(got.slots) + i]
          BY <1>3, <3>3, <4>1 DEF Listed
        <4>3. PICK t : t = Rest(left)
          OBVIOUS
        <4>4. Head(left) = left[1] /\ 1 \in DOMAIN left /\ Len(left) \in Nat /\ Len(left) > 0
          BY <1>6, <4>2, <4>3, TailFacts
        <4>5. log = q[Len(got.slots) + 1]
          BY <2>1, <4>2, <4>4
        <4>6. Len(got.slots) \in Nat
          BY <4>2 DEF IsASeq
        <4>7. DOMAIN q = 1..Len(q) /\ Len(q) \in Nat /\ \A i \in DOMAIN q : q[i].own = TRUE
          BY <4>1, ListingFacts
        <4>8. Len(got.slots) + 1 \in DOMAIN q
          <5>1. PICK n, m, k : n = Len(got.slots) /\ m = Len(left) /\ k = Len(q)
            OBVIOUS
          <5>2. n \in Nat /\ m \in Nat /\ m > 0 /\ n + m = k /\ DOMAIN q = 1..k /\ k \in Nat
            BY <4>2, <4>4, <4>6, <4>7, <5>1
          <5>3. n + 1 \in 1..k
            BY <5>2
          <5>4. QED BY <5>1, <5>2, <5>3
        <4>9. log.own = TRUE
          BY <4>5, <4>7, <4>8
        <4>10. QED BY <2>3, <4>9
      <3>4. PICK a : a = Head(left).at
        OBVIOUS
      <3>5. Counter(a)' = Counter(a)
        BY ListingStays
      <3>6. Head(left')= Head(left) /\ Counter(Head(left).at)' = Counter(a)
        BY <2>3, <3>4, <3>5
      <3>7. Listed' <=> Listed
        <4>1. left' = left /\ got' = got
          BY <2>3
        <4> HIDE DEF Listing, Stated, IsASeq
        <4>2. QED BY <1>4, <4>1 DEF Listed, IsASeq
      <3> HIDE DEF HighIn, Current, Unpublished, Listed
      <3>8. Current => Scanning'
        BY <1>3, <1>4, <2>3 DEF Scanning
      <3>9. Current => Listening'
        BY <1>3, <1>6, <2>1, <2>3, <3>3, <3>4, <3>6, <3>7 DEF Listening
      <3>10. QED BY <1>1, <2>3, <3>2, <3>8, <3>9 DEF CheckpointInv, Concluded, CheckpointHolds
    <2>4. QED BY <2>2, <2>3, RefusingKeeps
  <1>7. QED BY <1>5, <1>6

\* The receipt of a publication, whose slot is observed next.
LEMMA SlotReceiptKeeps ==
  ASSUME WorldOK, Phased, CheckpointInv, reader = "checkpoint", UNCHANGED <<reader, base, story, common>>, SlotReceipt
  PROVE  CheckpointInv'
  <1> USE DEF BeforePublications, CheckPhases, ListPhases, SlotPhases
  <1>0. pc = "receipts"
    BY DEF SlotReceipt
  <1>1. (Current' <=> Current) /\ (HighIn(noted)' <=> HighIn(noted'))
    BY DEF Current, Own, HighIn
  <1>2. /\ {"slot", "slotOwn", "nth", "last", "slots"} \subseteq DOMAIN got /\ IsASeq(noted) /\ HighIn(noted)
    BY <1>0 DEF CheckpointInv, CheckpointShape
  <1>3. Current => Unpublished /\ got.last = Counter(base.high) /\ Listed /\ got.nth = Len(got.slots)
                   /\ Counter(Head(left).at) = got.nth + 1 /\ left # <<>>
    BY <1>0 DEF CheckpointInv, Scanning, Listening
  <1>4. /\ Unpublished' <=> Unpublished
        /\ Counter(base.high)' = Counter(base.high)
        /\ Listing' = Listing /\ \A k : Stated(k)' = Stated(k)
    <2>1. PICK b : b = base.high
      OBVIOUS
    <2>2. Counter(b)' = Counter(b)
      BY ListingStays
    <2>3. QED BY <2>1, <2>2, ListingStays
  <1>5. CASE pc' = "done"
    <2>1. Own(Head(left).at) # Head(left).own /\ \E s \in {"mismatched", "unavailable"} : Refuse(s)
      BY <1>5 DEF SlotReceipt
    <2>2. QED BY <2>1, RefusingKeeps
  <1>6. CASE pc' # "done"
    <2>1. /\ SlotInv' /\ pc' = "source" /\ UNCHANGED <<noted, left, cursor, logs, verdict>>
          /\ got'.slotOwn = Head(left).own
      BY <1>6, ReceiptStartsSlot
    <2>2. PICK g : /\ g = [got EXCEPT !.slot = Head(left).at, !.nth = @ + 1] /\ DOMAIN got' = SlotFields \cup DOMAIN got
                   /\ \A k \in DOMAIN got : k \notin SlotFields => got'[k] = g[k]
      BY <1>6, ReceiptStartsSlot
    <2>3. /\ {"slot", "slotOwn", "nth", "last", "slots"} \subseteq DOMAIN got'
          /\ got'.slot = Head(left).at /\ got'.nth = got.nth + 1 /\ got'.last = got.last /\ got'.slots = got.slots
      <3>1. g.slot = Head(left).at /\ g.nth = got.nth + 1 /\ g.last = got.last /\ g.slots = got.slots
        BY <1>2, <2>2
      <3>2. QED BY <1>2, <2>2, <3>1 DEF SlotFields
    <2>4. got'.revocation = "unknown"
      <3>1. SlotAt(pc, got.sourceRead, got.observedRead, got.finding, got.revocation)'
        BY <2>1 DEF SlotInv
      <3>2. QED BY <2>1, <3>1 DEF SlotAt, BeforeStorage
    <2>5. CheckpointShape'
      BY <1>1, <1>2, <2>1, <2>3, <2>4 DEF CheckpointShape
    <2>6. ASSUME Current
          PROVE  got'.slotOwn = TRUE /\ got'.slot \in Nat /\ story[got'.slot] = "feedback"
      <3>1. PICK q : q = Listing
        OBVIOUS
      <3>2. IsASeq(left) /\ IsASeq(got.slots) /\ Len(got.slots) + Len(left) = Len(q)
            /\ \A i \in DOMAIN left : left[i] = q[Len(got.slots) + i]
        BY <1>3, <2>6, <3>1 DEF Listed
      <3>3. PICK t : t = Rest(left)
        OBVIOUS
      <3>4. Head(left) = left[1] /\ 1 \in DOMAIN left /\ Len(left) \in Nat /\ Len(left) > 0
        BY <1>3, <2>6, <3>2, <3>3, TailFacts
      <3>5. Head(left) = q[Len(got.slots) + 1]
        BY <3>2, <3>4
      <3>6. Len(got.slots) \in Nat
        BY <3>2 DEF IsASeq
      <3>7. DOMAIN q = 1..Len(q) /\ Len(q) \in Nat
            /\ \A i \in DOMAIN q : q[i].own = TRUE /\ q[i].at \in Nat /\ story[q[i].at] = "feedback"
        BY <3>1, ListingFacts
      <3>8. Len(got.slots) + 1 \in DOMAIN q
        <4>1. PICK n, m, k : n = Len(got.slots) /\ m = Len(left) /\ k = Len(q)
          OBVIOUS
        <4>2. n \in Nat /\ m \in Nat /\ m > 0 /\ n + m = k /\ DOMAIN q = 1..k /\ k \in Nat
          BY <3>2, <3>4, <3>6, <3>7, <4>1
        <4>3. n + 1 \in 1..k
          BY <4>2
        <4>4. QED BY <4>1, <4>2, <4>3
      <3>9. QED BY <2>1, <2>3, <3>5, <3>7, <3>8
    <2>7. PICK a : a = Head(left).at
      OBVIOUS
    <2>8. Counter(a)' = Counter(a)
      BY ListingStays
    <2>9. Counter(got.slot)' = Counter(a) /\ Head(left') = Head(left)
      BY <2>1, <2>3, <2>7, <2>8
    <2>10. Listed' <=> Listed
      <3>1. left' = left /\ got'.slots = got.slots
        BY <2>1, <2>3
      <3> HIDE DEF Listing, Stated
      <3>2. QED BY <1>4, <3>1 DEF Listed, IsASeq
    <2> HIDE DEF HighIn, Current, Unpublished, Listed
    <2>11. Current => Scanning'
      BY <1>3, <1>4, <2>1, <2>3 DEF Scanning
    <2>12. Current => Listening'
      BY <1>3, <2>1, <2>3, <2>6, <2>7, <2>9, <2>10 DEF Listening
    <2>13. QED BY <1>1, <2>1, <2>5, <2>11, <2>12 DEF CheckpointInv, Concluded, CheckpointHolds
  <1>7. QED BY <1>5, <1>6

\* The observation of a slot says what the given chain has of it.
LEMMA ObservedIsStated ==
  ASSUME WorldOK, CheckpointInv, SlotInv, reader = "checkpoint", pc = "slot end", got.finding = "matched", Current
  PROVE  got.revocation = Stated(Len(got.slots) + 1)
  <1>1. SlotAt("slot end", got.sourceRead, got.observedRead, got.finding, got.revocation)
    BY DEF SlotInv, SlotPhases
  <1>2. Matching(got.finding, got.revocation)
    BY <1>1 DEF SlotAt
  <1>3. got.revocation # "unknown" /\ (got.revocation = "revoked") = Revoked(Source, Observation)
    BY <1>2 DEF Matching, RevocationIs
  <1>4. got.revocation \in {"unknown", "active", "revoked"}
    BY DEF CheckpointInv, CheckpointShape, SlotPhases
  <1>5. Listed /\ left # <<>> /\ got.slot = Head(left).at
    BY DEF CheckpointInv, Listening, ListPhases, SlotPhases
  <1>6. Source = got.slot /\ Observation = base.high
    BY DEF Source, Observation
  <1>7. PICK q : q = Listing
    OBVIOUS
  <1>8. IsASeq(left) /\ \A i \in DOMAIN left : left[i] = q[Len(got.slots) + i]
    BY <1>5, <1>7 DEF Listed
  <1>9. PICK t : t = Rest(left)
    OBVIOUS
  <1>10. Head(left) = left[1] /\ 1 \in DOMAIN left
    BY <1>5, <1>8, <1>9, TailFacts
  <1>11. Head(left) = q[Len(got.slots) + 1]
    BY <1>8, <1>10
  <1>12. Stated(Len(got.slots) + 1) = IF Revoked(Source, Observation) THEN "revoked" ELSE "active"
    BY <1>5, <1>6, <1>7, <1>11 DEF Stated
  <1>13. QED BY <1>3, <1>4, <1>12

\* A slot that was observed to match is listed.
LEMMA SlotObservedKeeps ==
  ASSUME WorldOK, Phased, CheckpointInv, SlotInv, reader = "checkpoint", UNCHANGED <<reader, base, story, common>>,
         SlotObserved
  PROVE  CheckpointInv'
  <1> USE DEF BeforePublications, CheckPhases, ListPhases, SlotPhases
  <1>0. pc = "slot end"
    BY DEF SlotObserved
  <1>1. (Current' <=> Current) /\ (HighIn(noted)' <=> HighIn(noted'))
    BY DEF Current, Own, HighIn
  <1>2. /\ {"slot", "slotOwn", "nth", "last", "slots"} \subseteq DOMAIN got /\ IsASeq(noted) /\ HighIn(noted)
    BY <1>0 DEF CheckpointInv, CheckpointShape
  <1>3. Current => Unpublished /\ got.last = Counter(base.high) /\ Listed /\ got.nth = Len(got.slots) + 1 /\ left # <<>>
    BY <1>0 DEF CheckpointInv, Scanning, Listening
  <1>4. /\ Unpublished' <=> Unpublished
        /\ Counter(base.high)' = Counter(base.high)
        /\ Listing' = Listing /\ \A k : Stated(k)' = Stated(k)
    <2>1. PICK b : b = base.high
      OBVIOUS
    <2>2. Counter(b)' = Counter(b)
      BY ListingStays
    <2>3. QED BY <2>1, <2>2, ListingStays
  <1>5. CASE got.finding # "matched"
    <2>1. Refuse(IF got.finding = "mismatched" THEN "mismatched" ELSE "unavailable")
      BY <1>5 DEF SlotObserved
    <2>2. PICK s : s = IF got.finding = "mismatched" THEN "mismatched" ELSE "unavailable"
      OBVIOUS
    <2>3. Refuse(s) /\ s \in {"unavailable", "mismatched", "unsupported"}
      BY <2>1, <2>2
    <2>4. QED BY <2>3, RefusingKeeps
  <1>6. CASE got.finding = "matched"
    <2>1. /\ pc' = "slot" /\ left' = Tail(left) /\ got' = [got EXCEPT !.slots = Append(@, got.revocation)]
          /\ UNCHANGED <<noted, cursor, logs, verdict>>
      BY <1>6 DEF SlotObserved
    <2>2. PICK u, r, v : u = got.slots /\ r = got.revocation /\ v = Append(u, r)
      OBVIOUS
    <2>3. /\ {"slot", "slotOwn", "nth", "last", "slots"} \subseteq DOMAIN got' /\ got'.slots = v
          /\ got'.nth = got.nth /\ got'.last = got.last
      BY <1>2, <2>1, <2>2
    <2>4. CheckpointShape'
      BY <1>1, <1>2, <2>1, <2>3 DEF CheckpointShape
    <2>5. ASSUME Current
          PROVE  Listed' /\ Len(got'.slots) = Len(got.slots) + 1
      <3>1. PICK q : q = Listing
        OBVIOUS
      <3>2. IsASeq(left) /\ IsASeq(u) /\ Len(u) + Len(left) = Len(q)
            /\ (\A i \in DOMAIN left : left[i] = q[Len(u) + i])
            /\ (\A i \in DOMAIN u : u[i] = Stated(i))
        BY <1>3, <2>2, <2>5, <3>1 DEF Listed
      <3>3. PICK t : t = Rest(left)
        OBVIOUS
      <3>4. /\ IsASeq(t) /\ Len(left) \in Nat /\ Len(left) > 0 /\ Len(t) = Len(left) - 1 /\ Len(t) \in Nat
            /\ DOMAIN t = 1..Len(t)
            /\ \A i \in DOMAIN t : i + 1 \in DOMAIN left /\ t[i] = left[i + 1]
        BY <1>3, <2>5, <3>2, <3>3, TailFacts
      <3>5. /\ IsASeq(v) /\ Len(u) \in Nat /\ Len(v) = Len(u) + 1 /\ v[Len(u) + 1] = r
            /\ (\A i \in DOMAIN u : v[i] = u[i])
            /\ \A i \in DOMAIN v : i \in DOMAIN u \/ i = Len(v)
        <4>1. IsASeq(u) /\ v = Append(u, r)
          BY <2>2, <3>2
        <4>2. QED BY <4>1, AppendFacts
      <3>6. r = Stated(Len(u) + 1)
        BY <1>0, <1>6, <2>2, <2>5, ObservedIsStated
      <3>7. left' = t
        BY <2>1, <3>3 DEF Rest
      <3>8. Len(v) + Len(t) = Len(q)
        <4>1. PICK n, m, k, a, b : n = Len(u) /\ m = Len(left) /\ k = Len(q) /\ a = Len(v) /\ b = Len(t)
          OBVIOUS
        <4>2. n \in Nat /\ m \in Nat /\ n + m = k /\ a = n + 1 /\ b = m - 1
          BY <3>2, <3>4, <3>5, <4>1
        <4>3. a + b = k
          BY <4>2
        <4>4. QED BY <4>1, <4>3
      <3>9. \A i \in DOMAIN t : t[i] = q[Len(v) + i]
        <4>1. SUFFICES ASSUME NEW i \in DOMAIN t PROVE t[i] = q[Len(v) + i]
          OBVIOUS
        <4>2. i \in Int /\ t[i] = q[Len(u) + (i + 1)]
          BY <3>2, <3>4
        <4>3. Len(u) + (i + 1) = Len(v) + i
          BY <3>5, <4>2
        <4>4. QED BY <4>2, <4>3
      <3>10. \A i \in DOMAIN v : v[i] = Stated(i)
        BY <3>2, <3>5, <3>6
      <3>11. Listing' = q /\ got'.slots = v /\ \A i : Stated(i)' = Stated(i)
        BY <1>4, <2>3, <3>1
      <3> HIDE DEF Stated, Listing
      <3>12. Listed'
        BY <3>4, <3>5, <3>7, <3>8, <3>9, <3>10, <3>11 DEF Listed, IsASeq
      <3>13. QED BY <2>2, <2>3, <3>5, <3>12
    <2> HIDE DEF HighIn, Current, Unpublished, Listed
    <2>6. Current => Scanning'
      BY <1>3, <1>4, <2>1, <2>3 DEF Scanning
    <2>7. Current => Listening'
      BY <1>3, <2>1, <2>3, <2>5 DEF Listening
    <2>8. QED BY <1>1, <2>1, <2>4, <2>6, <2>7 DEF CheckpointInv, Concluded, CheckpointHolds
  <1>7. QED BY <1>5, <1>6

\* A step of the observation of a slot leaves the list.
LEMMA SlotLeavesList ==
  ASSUME CheckpointInv, reader = "checkpoint", pc \in SlotPhases, SlotKeeps,
         NEW p \in SlotPhases, NEW F, Went(p, F), DOMAIN F \subseteq {"sourceRead", "observedRead", "finding", "revocation"},
         "revocation" \in DOMAIN F => F.revocation \in {"unknown", "active", "revoked"}, "revocation" \in DOMAIN got
  PROVE  CheckpointInv'
  <1>0. UNCHANGED <<reader, base, story, common, noted, left, cursor, logs, verdict>>
    BY DEF SlotKeeps, configVars, worldVars
  <1>1. /\ pc' = p /\ DOMAIN got' = DOMAIN F \cup DOMAIN got
        /\ \A k \in DOMAIN F : got'[k] = F[k]
        /\ \A k \in DOMAIN got : k \notin DOMAIN F => got'[k] = got[k]
    BY WentFacts
  <1>2. /\ {"slot", "slotOwn", "nth", "last", "slots"} \subseteq DOMAIN got /\ IsASeq(noted) /\ HighIn(noted)
        /\ got.revocation \in {"unknown", "active", "revoked"}
    BY DEF CheckpointInv, CheckpointShape
  <1>3. /\ {"slot", "slotOwn", "nth", "last", "slots"} \subseteq DOMAIN got'
        /\ got'.slot = got.slot /\ got'.slotOwn = got.slotOwn /\ got'.nth = got.nth /\ got'.last = got.last
        /\ got'.slots = got.slots /\ got'.revocation \in {"unknown", "active", "revoked"}
    <2>1. {"slot", "slotOwn", "nth", "last", "slots"} \cap DOMAIN F = {}
      OBVIOUS
    <2>2. CASE "revocation" \in DOMAIN F
      BY <1>1, <1>2, <2>1, <2>2
    <2>3. CASE "revocation" \notin DOMAIN F
      BY <1>1, <1>2, <2>1, <2>3
    <2>4. QED BY <2>2, <2>3
  <1>4. Current => /\ Unpublished /\ got.last = Counter(base.high) /\ Listed /\ left # <<>>
                   /\ got.nth = Len(got.slots) + 1 /\ got.slot = Head(left).at /\ got.slotOwn = TRUE
                   /\ Counter(got.slot) = got.nth /\ story[got.slot] = "feedback" /\ got.slot \in Nat
    BY DEF CheckpointInv, Scanning, Listening, ListPhases
  <1>5. /\ Unpublished' <=> Unpublished
        /\ Counter(base.high)' = Counter(base.high)
        /\ Counter(got.slot)' = Counter(got.slot)
        /\ Listing' = Listing /\ \A k : Stated(k)' = Stated(k)
    <2>1. PICK b, c : b = base.high /\ c = got.slot
      OBVIOUS
    <2>2. Counter(b)' = Counter(b) /\ Counter(c)' = Counter(c)
      BY <1>0, ListingStays
    <2>3. QED BY <1>0, <1>3, <2>1, <2>2, ListingStays
  <1>6. (Current' <=> Current) /\ (HighIn(noted)' <=> HighIn(noted))
    BY <1>0 DEF Current, Own, HighIn
  <1>7. Listed' <=> Listed
    <2> HIDE DEF Listing, Stated
    <2>1. QED BY <1>0, <1>3, <1>5 DEF Listed, IsASeq
  <1> USE DEF BeforePublications, CheckPhases, ListPhases, SlotPhases
  <1>8. CheckpointShape'
    BY <1>0, <1>1, <1>2, <1>3, <1>6 DEF CheckpointShape
  <1> HIDE DEF HighIn, Current, Unpublished, Listed
  <1>9. Current => Scanning'
    BY <1>0, <1>1, <1>3, <1>4, <1>5 DEF Scanning
  <1>10. Current => Listening'
    BY <1>0, <1>1, <1>3, <1>4, <1>5, <1>7 DEF Listening
  <1>11. QED BY <1>1, <1>6, <1>8, <1>9, <1>10 DEF CheckpointInv, Concluded, CheckpointHolds

\* The observation of a slot leaves the list.
LEMMA ObservationLeavesList ==
  ASSUME WorldOK, Phased, CheckpointInv, SlotInv, reader = "checkpoint", ObservationNext
  PROVE  CheckpointInv'
  <1>0. pc \in SlotPhases /\ "revocation" \in DOMAIN got /\ "finding" \in DOMAIN got
    <2>1. pc \in SlotPhases
      BY DEF ObservationNext, ObserveSource, ObserveBasis, ObserveReceipt, ObserveLink,
         ObserveCounter, ObserveStorage, AgainSource, AgainObserved, SlotReadFails, SlotEnds, SlotPhases
    <2>2. QED BY <2>1 DEF SlotInv, SlotFields
  <1>1. ASSUME SlotKeeps, NEW p \in SlotPhases, Went(p, Nothing) PROVE CheckpointInv'
    <2>1. DOMAIN Nothing = {}
      BY DEF Nothing
    <2> HIDE DEF Nothing
    <2>2. QED BY <1>0, <1>1, <2>1, SlotLeavesList
  <1>2. ASSUME SlotKeeps, NEW p \in SlotPhases, NEW f, Went(p, Failed(f)) PROVE CheckpointInv'
    <2>1. PICK F : F = Failed(f)
      OBVIOUS
    <2>2. DOMAIN F = {"finding", "revocation"} /\ F.revocation = "unknown"
      BY <2>1 DEF Failed
    <2>3. Went(p, F)
      BY <1>2, <2>1
    <2>4. QED BY <1>0, <1>2, <2>2, <2>3, SlotLeavesList
  <1>3. ASSUME SlotKeeps, NEW f, ReadFailed(f) PROVE CheckpointInv'
    <2>1. CASE got.sourceRead
      BY <1>2, <1>3, <2>1 DEF ReadFailed, SlotPhases
    <2>2. CASE ~got.sourceRead
      BY <1>2, <1>3, <2>2 DEF ReadFailed, SlotPhases
    <2>3. QED BY <2>1, <2>2
  <1>4. ASSUME SlotKeeps, NEW p \in SlotPhases, NEW f, NEW r \in {"unknown", "active", "revoked"},
               Went(p, [finding |-> f, revocation |-> r])
        PROVE CheckpointInv'
    <2>1. PICK F : F = [finding |-> f, revocation |-> r]
      OBVIOUS
    <2>2. DOMAIN F = {"finding", "revocation"} /\ F.revocation = r
      BY <2>1
    <2>3. Went(p, F)
      BY <1>4, <2>1
    <2>4. QED BY <1>0, <1>4, <2>2, <2>3, SlotLeavesList
  <1>5. CASE ObserveSource
    <2>1. SlotKeeps /\ ((\E f : ReadFailed(f)) \/ Went("observed", [sourceRead |-> TRUE]))
      BY <1>5 DEF ObserveSource
    <2>2. CASE Went("observed", [sourceRead |-> TRUE])
      <3>1. "observed" \in SlotPhases
        BY DEF SlotPhases
      <3>2. QED BY <1>0, <2>1, <2>2, <3>1, SlotLeavesList
    <2>3. QED BY <1>3, <2>1, <2>2
  <1>6. CASE ObserveBasis
    <2>1. SlotKeeps /\ ((\E f : ReadFailed(f)) \/ Went("receipt", [observedRead |-> TRUE]))
      BY <1>6 DEF ObserveBasis
    <2>2. CASE Went("receipt", [observedRead |-> TRUE])
      <3>1. "receipt" \in SlotPhases
        BY DEF SlotPhases
      <3>2. QED BY <1>0, <2>1, <2>2, <3>1, SlotLeavesList
    <2>3. QED BY <1>3, <2>1, <2>2
  <1>7. CASE ObserveReceipt
    <2>1. SlotKeeps /\ ((\E f : ReadFailed(f)) \/ Went("link", Nothing))
      BY <1>7 DEF ObserveReceipt
    <2>2. "link" \in SlotPhases
      BY DEF SlotPhases
    <2>3. QED BY <1>1, <1>3, <2>1, <2>2
  <1>8. CASE ObserveLink
    <2>1. SlotKeeps /\ ((\E f : ReadFailed(f)) \/ Went("counter", Nothing))
      BY <1>8 DEF ObserveLink
    <2>2. "counter" \in SlotPhases
      BY DEF SlotPhases
    <2>3. QED BY <1>1, <1>3, <2>1, <2>2
  <1>9. CASE ObserveCounter
    <2>1. SlotKeeps /\ ((\E f : ReadFailed(f)) \/ Went("storage", Nothing))
      BY <1>9 DEF ObserveCounter
    <2>2. "storage" \in SlotPhases
      BY DEF SlotPhases
    <2>3. QED BY <1>1, <1>3, <2>1, <2>2
  <1>10. CASE ObserveStorage
    <2>1. PICK says \in SlotSays :
            IF says = "another" THEN ReadFailed("mismatched")
            ELSE Went("again source", [finding |-> "matched", revocation |-> says])
      BY <1>10 DEF ObserveStorage
    <2>2. says \in {"active", "revoked", "another"} /\ SlotKeeps /\ "again source" \in SlotPhases
      BY <1>10, <2>1 DEF SlotSays, Answers, ObserveStorage, SlotPhases
    <2>3. QED BY <1>3, <1>4, <2>1, <2>2
  <1>11. CASE AgainSource
    <2>1. PICK p : p = IF got.observedRead THEN "again observed" ELSE "slot end"
      OBVIOUS
    <2>2. p \in SlotPhases /\ SlotKeeps /\ "unknown" \in {"unknown", "active", "revoked"}
      BY <1>11, <2>1 DEF SlotPhases, AgainSource
    <2>3. Went(p, IF SourceStands THEN Nothing ELSE [finding |-> "orphaned", revocation |-> "unknown"])
      BY <1>11, <2>1 DEF AgainSource
    <2>4. CASE SourceStands
      BY <1>1, <2>2, <2>3, <2>4
    <2>5. CASE ~SourceStands
      BY <1>4, <2>2, <2>3, <2>5
    <2>6. QED BY <2>4, <2>5
  <1>12. CASE AgainObserved
    <2>1. SlotKeeps /\ "slot end" \in SlotPhases
          /\ Went("slot end", IF Own(Observation) THEN Nothing ELSE Failed("unavailable"))
      BY <1>12 DEF AgainObserved, SlotPhases
    <2>2. CASE Own(Observation)
      BY <1>1, <2>1, <2>2
    <2>3. CASE ~Own(Observation)
      BY <1>2, <2>1, <2>3
    <2>4. QED BY <2>2, <2>3
  <1>13. CASE SlotReadFails
    <2>1. SlotKeeps /\ {"slot end", "again observed"} \subseteq SlotPhases
          /\ \/ Went("slot end", Failed("unavailable"))
             \/ ReadFailed("unavailable")
             \/ Went("again observed", Failed("unavailable"))
      BY <1>13 DEF SlotReadFails, SlotPhases
    <2>2. QED BY <1>2, <1>3, <2>1
  <1>14. ~SlotEnds
    BY DEF SlotEnds
  <1>15. QED BY <1>5, <1>6, <1>7, <1>8, <1>9, <1>10, <1>11, <1>12, <1>13, <1>14 DEF ObservationNext

\* Every block that was read is looked at again.
LEMMA CheckpointRecheckKeeps ==
  ASSUME WorldOK, CheckpointInv, reader = "checkpoint", UNCHANGED <<reader, base, story, common>>, CheckpointRecheck
  PROVE  CheckpointInv'
  <1> USE DEF BeforePublications, CheckPhases, ListPhases, SlotPhases
  <1>0. pc = "recheck" /\ UNCHANGED <<noted, cursor, logs, got>>
    BY DEF CheckpointRecheck, Refuse
  <1>1. (Current' <=> Current) /\ (HighIn(noted)' <=> HighIn(noted'))
    BY DEF Current, Own, HighIn
  <1>2. /\ {"slot", "slotOwn", "nth", "last", "slots"} \subseteq DOMAIN got /\ IsASeq(noted)
    BY DEF CheckpointInv, CheckpointShape
  <1>3. IsASeq(left) /\ (HighIn(left) \/ CheckpointTruth) /\ (Current => CheckpointTruth)
    BY <1>0 DEF CheckpointInv, Concluded
  <1>4. /\ Unpublished' <=> Unpublished
        /\ Listing' = Listing /\ \A k : Stated(k)' = Stated(k)
    BY ListingStays
  <1>5. CheckpointTruth' <=> CheckpointTruth
    <2> HIDE DEF Unpublished, Listing, Stated
    <2>1. QED BY <1>0, <1>4 DEF CheckpointTruth
  <1>6. CASE left = <<>>
    <2>1. pc' = "done" /\ verdict' = [status |-> "matched", slots |-> got.slots]
      BY <1>0, <1>6 DEF CheckpointRecheck, Report
    <2>2. CheckpointTruth
      BY <1>3, <1>6 DEF HighIn
    <2>3. CheckpointShape'
      BY <1>0, <1>2, <2>1 DEF CheckpointShape
    <2>4. verdict'.slots = got'.slots
      BY <1>0, <2>1
    <2>5. CheckpointTruth'
      BY <1>5, <2>2
    <2>6. CheckpointHolds'
      <3>1. /\ (story[Registered] = "register")' /\ (Counter(base.mid) = 0)' /\ ScanEmpty(1, base.high)' /\ ScanEmpty(2, base.high)'
        BY <2>5 DEF CheckpointTruth, Unpublished
      <3>2. (DOMAIN Scans = {1, 2})'
        BY DEF Scans
      <3>3. (\A i \in DOMAIN Scans : Where(Scans[i].kinds, Scans[i].from, base.high) = {})'
        BY <3>1, <3>2 DEF ScanEmpty
      <3>4. (InOrder({[at |-> h, kind |-> "feedback", own |-> TRUE] : h \in Where({"feedback"}, base.mid + 1, base.high)}) = Listing)'
        <4>1. PICK W : W = Where({"feedback"}, base.mid + 1, base.high)'
          OBVIOUS
        <4>2. \A h \in W : story'[h] = "feedback"
          BY <4>1 DEF Where
        <4>3. {[at |-> h, kind |-> "feedback", own |-> TRUE] : h \in W} = {[at |-> h, kind |-> story'[h], own |-> TRUE] : h \in W}
          BY <4>2
        <4>4. Listing' = InOrder({[at |-> h, kind |-> story'[h], own |-> TRUE] : h \in W})
          BY <4>1 DEF Listing, Publications, Events, Event
        <4>5. QED BY <4>1, <4>3, <4>4
      <3>5. verdict'.slots = [i \in DOMAIN Listing |-> Stated(i)]'
        BY <2>4, <2>5 DEF CheckpointTruth
      <3> HIDE DEF Listing, Scans, Registered
      <3>6. QED BY <3>1, <3>3, <3>4, <3>5 DEF CheckpointHolds, Stated
    <2>7. QED BY <2>1, <2>3, <2>6 DEF CheckpointInv, Scanning, Listening, Concluded
  <1>7. CASE left # <<>> /\ Own(Head(left).at) # Head(left).own
    BY <1>7, RefusingKeeps DEF CheckpointRecheck
  <1>8. CASE left # <<>> /\ Own(Head(left).at) = Head(left).own
    <2>1. left' = Tail(left) /\ UNCHANGED <<pc, verdict>>
      BY <1>8 DEF CheckpointRecheck
    <2>2. PICK t : t = Rest(left)
      OBVIOUS
    <2>3. /\ IsASeq(t) /\ Head(left) = left[1]
          /\ \A i \in DOMAIN left : i = 1 \/ (i - 1 \in DOMAIN t /\ t[i - 1] = left[i])
      BY <1>3, <1>8, <2>2, TailFacts
    <2>4. HighIn(left) => HighIn(t) \/ Current
      BY <1>8, <2>3 DEF HighIn, Current
    <2>5. left' = t
      BY <2>1, <2>2 DEF Rest
    <2>6. HighIn(left)' <=> HighIn(t)
      BY <2>5 DEF HighIn
    <2>7. CheckpointShape'
      BY <1>0, <1>2, <2>1 DEF CheckpointShape
    <2>8. IsASeq(left') /\ (HighIn(left)' \/ CheckpointTruth')
      BY <1>3, <1>5, <2>3, <2>4, <2>5, <2>6
    <2> HIDE DEF HighIn, Current, CheckpointTruth, IsASeq
    <2>9. Concluded'
      BY <1>1, <1>3, <1>5, <2>1, <2>8 DEF Concluded, IsASeq
    <2>10. QED BY <1>0, <2>1, <2>7, <2>9 DEF CheckpointInv, Scanning, Listening, CheckpointHolds
  <1>9. QED BY <1>6, <1>7, <1>8

\* While what was read stays, and no block comes back, nothing changes for a checkpoint.
LEMMA CheckpointRests ==
  ASSUME CheckpointInv, reader = "checkpoint" => CheckpointHolds', Current' => Current,
         UNCHANGED <<reader, base, story, pc, noted, left, cursor, logs, got, verdict>>
  PROVE  CheckpointInv'
  <1>1. CheckpointShape' <=> CheckpointShape
    BY DEF CheckpointShape, HighIn, IsASeq
  <1>2. /\ \A i, b : ScanEmpty(i, b)' <=> ScanEmpty(i, b)
        /\ Unpublished' <=> Unpublished
        /\ \A h : Counter(h)' = Counter(h)
        /\ Registered' = Registered /\ Listing' = Listing /\ \A k : Stated(k)' = Stated(k)
    BY ListingStays
  <1>3. PICK b, c, d, e : b = base.high /\ c = cursor.start - 1 /\ d = got.slot /\ e = Head(left).at
    OBVIOUS
  <1>4. /\ ScanEmpty(1, b)' <=> ScanEmpty(1, b)
        /\ ScanEmpty(1, c)' <=> ScanEmpty(1, c)
        /\ ScanEmpty(2, c)' <=> ScanEmpty(2, c)
        /\ ScanEmpty(2, b)' <=> ScanEmpty(2, b)
        /\ Counter(b)' = Counter(b) /\ Counter(d)' = Counter(d) /\ Counter(e)' = Counter(e)
    BY <1>2
  <1>5. /\ (ScanEmpty(1, base.high)' <=> ScanEmpty(1, base.high)) /\ (ScanEmpty(2, base.high)' <=> ScanEmpty(2, base.high))
        /\ (ScanEmpty(1, cursor.start - 1)' <=> ScanEmpty(1, cursor.start - 1))
        /\ (ScanEmpty(2, cursor.start - 1)' <=> ScanEmpty(2, cursor.start - 1))
        /\ Counter(base.high)' = Counter(base.high) /\ Counter(got.slot)' = Counter(got.slot)
        /\ Counter(Head(left).at)' = Counter(Head(left).at)
    BY <1>3, <1>4
  <1>6. Events({"feedback"}, base.mid + 1, IF cursor.start <= base.high THEN cursor.start - 1 ELSE base.high)'
          = Events({"feedback"}, base.mid + 1, IF cursor.start <= base.high THEN cursor.start - 1 ELSE base.high)
    BY DEF Events, Event, Where
  <1> HIDE DEF ScanEmpty, Unpublished, Registered, Listing, Stated, Events, Counter
  <1>7. Scanning' <=> Scanning
    BY <1>2, <1>5, <1>6 DEF Scanning
  <1>8. Listed' <=> Listed
    BY <1>2 DEF Listed, IsASeq
  <1>9. Listening' <=> Listening
    <2> HIDE DEF Listed
    <2>1. QED BY <1>5, <1>8 DEF Listening
  <1>10. CheckpointTruth' <=> CheckpointTruth
    BY <1>2 DEF CheckpointTruth
  <1>11. Concluded => Concluded'
    <2> HIDE DEF CheckpointTruth, Current
    <2>1. QED BY <1>10 DEF Concluded, HighIn, IsASeq
  <1>12. QED BY <1>1, <1>7, <1>9, <1>11 DEF CheckpointInv

\* What a checkpoint has read is true of the given chain as long as its last block stands.
LEMMA CheckpointKeepsInv ==
  ASSUME WorldOK, Phased, SlotInv, CheckpointInv, ReaderNext
  PROVE  CheckpointInv'
  <1>0. WorldOK' /\ UNCHANGED <<reader, base, story>>
    BY WorldKeeps
  <1>1. CASE Reorganize
    <2>1. CheckpointHolds'
      BY <1>1, Reorganizing DEF Reorganize, CheckpointHolds
    <2>2. QED BY <1>1, <2>1, Reorganizing, CheckpointRests
  <1>2. CASE ObservationNext /\ reader = "checkpoint"
    BY <1>2, ObservationLeavesList
  <1>3. CASE CheckpointNext /\ reader = "checkpoint"
    <2>1. UNCHANGED <<reader, base, story, common>>
      BY <1>3, CheckpointMoves DEF configVars, worldVars
    <2>2. CASE CheckpointHeader \/ Qualify \/ Registration \/ RegistrationProfile
      BY <1>0, <1>3, <2>1, <2>2, CheckpointBegins
    <2>3. CASE UpgradePage \/ CounterIsZero \/ CounterIsLast
      BY <1>3, <2>1, <2>3, CheckpointScans
    <2>4. CASE PublicationPage
      BY <1>3, <2>1, <2>4, PublicationPageKeeps
    <2>5. CASE NextSlot
      BY <1>0, <1>3, <2>1, <2>5, NextSlotKeeps
    <2>6. CASE SlotReceipt
      BY <1>3, <2>1, <2>6, SlotReceiptKeeps
    <2>7. CASE SlotObserved
      BY <1>3, <2>1, <2>7, SlotObservedKeeps
    <2>8. CASE CheckpointRecheck
      BY <1>3, <2>1, <2>8, CheckpointRecheckKeeps
    <2>9. CASE CheckpointFails
      BY <1>3, <2>9, RefusingKeeps DEF CheckpointFails
    <2>10. QED BY <1>3, <2>2, <2>3, <2>4, <2>5, <2>6, <2>7, <2>8, <2>9 DEF CheckpointNext
  <1>4. CASE reader # "checkpoint"
    BY <1>0, <1>4 DEF CheckpointInv
  <1>5. CASE reader = "checkpoint" /\ (IdentityNext \/ PublicationNext \/ CarryNext \/ ActivationNext)
    BY <1>5, IdentityMoves, PublicationMoves, CarryMoves, ActivationMoves
  <1>6. QED BY <1>1, <1>2, <1>3, <1>4, <1>5 DEF ReaderNext

--------------------------------------------------------------------------------
(* All of the readers. *)

\* A publication to be carried forward has every field, none of them read.
LEMMA CarryStartFacts ==
  ASSUME CarryStart
  PROVE  /\ CarryFields \subseteq DOMAIN got /\ got.claims \in Claims /\ got.document \in {"valid", "other", "absent"}
         /\ got.which = "basis" /\ got.own = TRUE /\ got.failed = FALSE /\ got.authority = "unavailable"
         /\ got.sourceRead = FALSE /\ got.observedRead = FALSE /\ got.finding = "unavailable" /\ got.revocation = "unknown"
  <1>1. PICK x : x = [authority |-> "unavailable", checked |-> FALSE, claims |-> "sound", epoch |-> [status |-> "none"]]
    OBVIOUS
  <1>2. /\ DOMAIN x = {"authority", "checked", "claims", "epoch"}
        /\ x.authority = "unavailable" /\ x.claims = "sound"
    BY <1>1
  <1>3. PICK y : y = IdentityGot
    OBVIOUS
  <1>4. DOMAIN y = IdentityFields /\ y.failed = FALSE
    BY <1>3 DEF IdentityGot, IdentityFields
  <1>5. PICK s : s = SlotGot
    OBVIOUS
  <1>6. /\ DOMAIN s = SlotFields /\ s.document = "valid" /\ s.which = "basis" /\ s.own = TRUE
        /\ s.sourceRead = FALSE /\ s.observedRead = FALSE /\ s.finding = "unavailable" /\ s.revocation = "unknown"
    BY <1>5 DEF SlotGot, SlotFields
  <1>7. PICK z : z = Over(y, x)
    OBVIOUS
  <1>8. PICK g : g = Over(s, z)
    OBVIOUS
  <1>9. g = CarryGot
    BY <1>1, <1>3, <1>5, <1>7, <1>8 DEF CarryGot
  <1>10. /\ DOMAIN z = IdentityFields \cup {"authority", "checked", "claims", "epoch"}
         /\ z.failed = FALSE
    <2>1. DOMAIN z = DOMAIN y \cup DOMAIN x /\ \A k \in DOMAIN y : z[k] = y[k]
      BY <1>7, OverFacts
    <2>2. QED BY <1>2, <1>4, <2>1 DEF IdentityFields
  <1>11. \A k \in DOMAIN x : k \notin DOMAIN y => z[k] = x[k]
    BY <1>7, OverKeeps
  <1>12. z.authority = "unavailable" /\ z.claims = "sound"
    BY <1>2, <1>4, <1>11 DEF IdentityFields
  <1>13. DOMAIN g = SlotFields \cup DOMAIN z /\ \A k \in SlotFields : g[k] = s[k]
    <2>1. DOMAIN g = DOMAIN s \cup DOMAIN z /\ \A k \in DOMAIN s : g[k] = s[k]
      BY <1>8, OverFacts
    <2>2. QED BY <1>6, <2>1
  <1>14. \A k \in DOMAIN z : k \notin DOMAIN s => g[k] = z[k]
    BY <1>8, OverKeeps
  <1>15. /\ DOMAIN g = CarryFields /\ g.document = "valid" /\ g.which = "basis" /\ g.own = TRUE
         /\ g.sourceRead = FALSE /\ g.observedRead = FALSE /\ g.finding = "unavailable" /\ g.revocation = "unknown"
    <2>1. DOMAIN g = CarryFields
      BY <1>10, <1>13 DEF CarryFields, SlotFields, IdentityFields
    <2>2. QED BY <1>6, <1>13, <2>1 DEF SlotFields
  <1>16. g.failed = FALSE /\ g.authority = "unavailable" /\ g.claims = "sound"
    <2>1. {"failed", "authority", "claims"} \cap SlotFields = {} /\ {"failed", "authority", "claims"} \subseteq DOMAIN z
      BY <1>10 DEF SlotFields, IdentityFields
    <2>2. QED BY <1>6, <1>10, <1>12, <1>14, <2>1
  <1>17. "sound" \in Claims
    BY DEF Claims
  <1>18. \/ \E c \in Claims : got = [g EXCEPT !.claims = c]
         \/ \E d \in {"other", "absent"} : got = [g EXCEPT !.document = d]
    BY <1>9 DEF CarryStart
  <1>19. {"claims", "document"} \subseteq DOMAIN g
    BY <1>15 DEF CarryFields, SlotFields
  <1>20. ASSUME NEW c \in Claims, got = [g EXCEPT !.claims = c]
         PROVE  /\ DOMAIN got = CarryFields /\ got.claims = c /\ got.document = "valid"
                /\ got.which = "basis" /\ got.own = TRUE /\ got.failed = FALSE /\ got.authority = "unavailable"
                /\ got.sourceRead = FALSE /\ got.observedRead = FALSE /\ got.finding = "unavailable" /\ got.revocation = "unknown"
    BY <1>15, <1>16, <1>19, <1>20
  <1>21. ASSUME NEW d \in {"other", "absent"}, got = [g EXCEPT !.document = d]
         PROVE  /\ DOMAIN got = CarryFields /\ got.claims = "sound" /\ got.document = d
                /\ got.which = "basis" /\ got.own = TRUE /\ got.failed = FALSE /\ got.authority = "unavailable"
                /\ got.sourceRead = FALSE /\ got.observedRead = FALSE /\ got.finding = "unavailable" /\ got.revocation = "unknown"
    BY <1>15, <1>16, <1>19, <1>21
  <1>22. QED BY <1>17, <1>18, <1>20, <1>21

\* A slot that is to be observed, or a publication that is to be read, has every field.
LEMMA SlotGotFacts ==
  /\ DOMAIN SlotGot = SlotFields /\ SlotGot.document = "valid" /\ SlotGot.slotOwn = TRUE /\ SlotGot.own = TRUE
  /\ SlotGot.which = "basis"
  /\ SlotGot.sourceRead = FALSE /\ SlotGot.observedRead = FALSE
  /\ SlotGot.finding = "unavailable" /\ SlotGot.revocation = "unknown"
  BY DEF SlotGot, SlotFields

\* Every reader starts with nothing read.
LEMMA ReadersStart ==
  ASSUME ReadersInit
  PROVE  ReadersInv
  <1>0. /\ base \in Blocks /\ story \in [Heights -> EventKinds]
        /\ noted = <<>> /\ logs = {} /\ verdict.status = "none" /\ common = base.high /\ Current
        /\ IsASeq(noted) /\ DOMAIN noted = {} /\ base.high \in Nat /\ common \in 0..base.high
    BY RegistryAssumption DEF ReadersInit, Unread, Current, Own, IsASeq, Blocks, Heights
  <1>1. /\ reader \in Readers /\ pc # "done"
        /\ reader = "authority" => base.mid = base.low
        /\ reader \in {"checkpoint", "activation"} => base.low < base.mid /\ base.mid <= base.high
    BY DEF ReadersInit, Readers, AuthorityStart, EpochStart, ObservationStart, PublicationStart, CheckpointStart, CarryStart,
       ActivationStart
  <1>2. WorldOK
    BY <1>0, <1>1 DEF WorldOK
  <1>3. /\ reader = "authority" => AuthorityStart
        /\ reader = "epoch" => EpochStart
        /\ reader = "observation" => ObservationStart
        /\ reader = "publication" => PublicationStart
        /\ reader = "checkpoint" => CheckpointStart
        /\ reader = "carry" => CarryStart
        /\ reader = "activation" => ActivationStart
    BY DEF ReadersInit
  <1>4. Phased
    <2>1. /\ reader = "authority" => pc = "snapshot head"
          /\ reader = "epoch" => pc = "bounds"
          /\ reader = "observation" => pc = "source"
          /\ reader = "publication" => pc = "publication"
          /\ reader = "checkpoint" => pc = "headers"
          /\ reader = "carry" => pc = "original head"
          /\ reader = "activation" => pc = "bases"
      BY <1>3 DEF AuthorityStart, EpochStart, ObservationStart, PublicationStart, CheckpointStart, CarryStart, ActivationStart
    <2>2. QED BY <1>1, <2>1 DEF Phased, PhasesOf, Readers, SnapshotPhases, ScanPhases, SlotPhases, PublicationPhases, CheckPhases,
                 OriginalPhases, ActivationPhases, Reading
  <1> HIDE DEF Current, IsASeq
  <1>5. CASE reader = "authority"
    <2>1. pc = "snapshot head" /\ got = IdentityGot
      BY <1>3, <1>5 DEF AuthorityStart
    <2>2. DOMAIN got = IdentityFields /\ got.failed = FALSE /\ got.which = "basis"
      BY <2>1 DEF IdentityGot, IdentityFields
    <2>3. ScanInv
      BY <1>0, <2>1, <2>2 DEF ScanInv, ScanShape, Unscanned, Bounded, Scanned, Rechecked
    <2>4. AuthorityInv
      BY <2>1, <2>2 DEF AuthorityInv, ScanPhases, AuthorityHolds
    <2>5. QED BY <1>2, <1>4, <1>5, <2>3, <2>4 DEF ReadersInv, EpochInv, SlotInv, ObservationInv, PublicationInv, CarryInv,
                 ActivationInv, CheckpointInv
  <1>6. CASE reader = "epoch"
    <2>1. pc = "bounds" /\ left = Boundaries /\ got = [IdentityGot EXCEPT !.which = "current"]
      BY <1>3, <1>6 DEF EpochStart
    <2>2. DOMAIN got = IdentityFields /\ got.failed = FALSE /\ got.which = "current"
      BY <2>1 DEF IdentityGot, IdentityFields
    <2>3. ScanInv
      BY <1>0, <2>1, <2>2 DEF ScanInv, ScanShape, Unscanned, Bounded, Scanned, Rechecked, SnapshotPhases, OriginalPhases,
         PublicationPhases
    <2>4. QED BY <1>2, <1>4, <1>6, <2>1, <2>3 DEF ReadersInv, AuthorityInv, EpochInv, SlotInv, ObservationInv, PublicationInv, CarryInv,
                 ActivationInv, CheckpointInv
  <1>7. CASE reader = "observation"
    <2>1. pc = "source" /\ got = [SlotGot EXCEPT !.which = "current"]
      BY <1>3, <1>7 DEF ObservationStart
    <2>2. /\ DOMAIN got = SlotFields /\ got.document = "valid" /\ got.slotOwn = TRUE /\ got.sourceRead = FALSE
          /\ got.observedRead = FALSE /\ got.finding = "unavailable" /\ got.revocation = "unknown"
      BY <2>1, SlotGotFacts DEF SlotFields
    <2>3. SlotInv
      BY <2>1, <2>2 DEF SlotInv, SlotAt, SlotPhases, BeforeStorage, Orphaning
    <2>4. QED BY <1>2, <1>4, <1>7, <2>1, <2>3 DEF ReadersInv, ScanInv, AuthorityInv, EpochInv, ObservationInv, PublicationInv, CarryInv,
                 ActivationInv, CheckpointInv
  <1>8. CASE reader = "publication"
    <2>1. pc = "publication" /\ \E d \in {"valid", "other", "absent"} : got = [SlotGot EXCEPT !.document = d]
      BY <1>3, <1>8 DEF PublicationStart
    <2>2. /\ DOMAIN got = SlotFields /\ got.document \in {"valid", "other", "absent"} /\ got.which = "basis" /\ got.own = TRUE
          /\ got.sourceRead = FALSE /\ got.observedRead = FALSE /\ got.finding = "unavailable" /\ got.revocation = "unknown"
      BY <2>1, SlotGotFacts DEF SlotFields
    <2>3. PublicationInv
      BY <1>0, <2>1, <2>2 DEF PublicationInv, PublicationAt, PublicationPhases, ScanPhases, ReplayPhases, Orphaning
    <2>4. QED BY <1>2, <1>4, <1>8, <2>1, <2>3 DEF ReadersInv, ScanInv, AuthorityInv, EpochInv, SlotInv, ObservationInv, CarryInv,
                 ActivationInv, CheckpointInv
  <1>9. CASE reader = "checkpoint"
    <2>1. pc = "headers" /\ got = CheckpointGot /\ left = <<base.low, base.mid, base.high>>
      BY <1>3, <1>9 DEF CheckpointStart
    <2>2. {"slot", "slotOwn", "nth", "last", "slots"} \subseteq DOMAIN got /\ got.slots = <<>> /\ got.nth = 0
      BY <2>1 DEF CheckpointGot
    <2>3. CheckpointShape
      BY <1>0, <2>1, <2>2 DEF CheckpointShape, CheckPhases, SlotPhases, BeforePublications
    <2>4. CheckpointInv
      BY <2>1, <2>3 DEF CheckpointInv, Scanning, Listening, Concluded, CheckpointHolds, ListPhases, SlotPhases
    <2>5. SlotInv
      BY <2>1 DEF SlotInv, SlotPhases
    <2>6. QED BY <1>2, <1>4, <1>9, <2>4, <2>5 DEF ReadersInv, ScanInv, AuthorityInv, EpochInv, ObservationInv, PublicationInv, CarryInv,
                 ActivationInv
  <1>10. CASE reader = "carry"
    <2>1. pc = "original head"
      BY <1>3, <1>10 DEF CarryStart
    <2>2. /\ CarryFields \subseteq DOMAIN got /\ got.claims \in Claims /\ got.document \in {"valid", "other", "absent"}
          /\ got.which = "basis" /\ got.own = TRUE /\ got.failed = FALSE /\ got.authority = "unavailable"
          /\ got.sourceRead = FALSE /\ got.observedRead = FALSE /\ got.finding = "unavailable" /\ got.revocation = "unknown"
      BY <1>3, <1>10, CarryStartFacts
    <2>3. IdentityFields \subseteq DOMAIN got /\ SlotFields \subseteq DOMAIN got /\ "epoch" \in DOMAIN got
      BY <2>2 DEF CarryFields
    <2>4. ScanInv
      BY <1>0, <2>1, <2>2, <2>3 DEF ScanInv, ScanShape, Unscanned, Bounded, Scanned, Rechecked
    <2>5. PublicationInv
      BY <1>0, <1>10, <2>1, <2>2, <2>3 DEF PublicationInv, PublicationAt, PublicationPhases, ScanPhases, ReplayPhases, Orphaning
    <2>6. CarryInv
      BY <2>1, <2>2 DEF CarryInv, CarryHolds
    <2>7. QED BY <1>2, <1>4, <1>10, <2>1, <2>3, <2>4, <2>5, <2>6 DEF ReadersInv, AuthorityInv, EpochInv, SlotInv, ObservationInv,
                 ActivationInv, CheckpointInv
  <1>11. CASE reader = "activation"
    <2>1. pc = "bases" /\ got = ActivationGot /\ left = <<0, base.high>>
      BY <1>3, <1>11 DEF ActivationStart
    <2>2. {"finding", "gap", "seen"} \subseteq DOMAIN got /\ got.finding = "unavailable" /\ got.seen = {}
      BY <2>1 DEF ActivationGot
    <2>3. ActivationInv
      BY <1>0, <2>1, <2>2 DEF ActivationInv, Reading, ActivationHolds
    <2>4. QED BY <1>2, <1>4, <1>11, <2>3 DEF ReadersInv, ScanInv, AuthorityInv, EpochInv, SlotInv, ObservationInv, PublicationInv, CarryInv,
                 CheckpointInv
  <1>12. QED BY <1>1, <1>5, <1>6, <1>7, <1>8, <1>9, <1>10, <1>11 DEF Readers

\* Every step of a reader keeps what is so of all of them.
LEMMA ReadersKeep ==
  ASSUME ReadersInv, ReaderNext
  PROVE  ReadersInv'
  <1>1. WorldOK /\ Phased /\ ScanInv /\ AuthorityInv /\ EpochInv /\ SlotInv /\ ObservationInv /\ PublicationInv /\ CarryInv
        /\ ActivationInv /\ CheckpointInv
    BY DEF ReadersInv
  <1>2. pc \in SlotPhases => SlotRead
    BY <1>1 DEF SlotRead, CheckpointInv, CheckpointShape, Scanning, Listening, ListPhases
  <1>3. WorldOK' /\ Phased'
    BY <1>1, WorldKeeps
  <1>4. ScanInv'
    BY <1>1, ScanKeeps
  <1>5. AuthorityInv'
    BY <1>1, AuthorityKeeps
  <1>6. EpochInv'
    BY <1>1, EpochKeeps
  <1>7. SlotInv' /\ ObservationInv'
    BY <1>1, <1>2, SlotsKeep
  <1>8. PublicationInv'
    BY <1>1, PublicationKeeps
  <1>9. CarryInv'
    BY <1>1, CarryKeepsInv
  <1>10. ActivationInv'
    BY <1>1, ActivationKeepsInv
  <1>11. CheckpointInv'
    BY <1>1, CheckpointKeepsInv
  <1>12. QED BY <1>3, <1>4, <1>5, <1>6, <1>7, <1>8, <1>9, <1>10, <1>11 DEF ReadersInv

\* A reader that does nothing keeps it.
LEMMA ReadersRest ==
  ASSUME ReadersInv, UNCHANGED chainVars
  PROVE  ReadersInv'
  <1>1. UNCHANGED <<reader, base, story, common, pc, noted, left, cursor, logs, got, verdict>>
    BY DEF chainVars, configVars, worldVars, readVars
  <1>2. (WorldOK' <=> WorldOK) /\ (Phased' <=> Phased)
    BY <1>1 DEF WorldOK, Phased, PhasesOf
  <1>3. /\ Current' <=> Current
        /\ HighIn(noted)' <=> HighIn(noted)
        /\ HighIn(left)' <=> HighIn(left)
        /\ \A h : Own(h)' <=> Own(h)
    BY <1>1 DEF Current, Own, HighIn
  <1>4. /\ \A h : Authority(h)' = Authority(h) /\ (Known(h)' <=> Known(h)) /\ Counter(h)' = Counter(h)
        /\ \A s, h : Revoked(s, h)' <=> Revoked(s, h)
        /\ \A K, a, b : Where(K, a, b)' = Where(K, a, b) /\ Events(K, a, b)' = Events(K, a, b)
        /\ \A K : Between(K)' = Between(K)
    BY <1>1, StoryStays
  <1>5. /\ Listing' = Listing
        /\ \A k : Stated(k)' = Stated(k)
        /\ \A i, b : ScanEmpty(i, b)' <=> ScanEmpty(i, b)
        /\ Unpublished' <=> Unpublished
        /\ Registered' = Registered
    BY <1>1, ListingStays
  <1>6. ScanInv' <=> ScanInv
    <2>1. ScanShape' <=> ScanShape
      BY <1>1 DEF ScanShape, IsASeq
    <2>2. Unscanned' <=> Unscanned
      BY <1>1 DEF Unscanned
    <2>3. Bounded' <=> Bounded
      BY <1>1, <1>3 DEF Bounded, Boundaries
    <2>4. (ScanTruth' <=> ScanTruth) /\ Interval' = Interval /\ Waiting' = Waiting /\ NextPage' = NextPage
      BY <1>1 DEF ScanTruth, Events, Event, Where, Interval, Waiting, NextPage, PageEnd
    <2>5. Scanned' <=> Scanned
      <3>1. Events(IntervalKinds, base.low + 1, base.high)' = Events(IntervalKinds, base.low + 1, base.high)
        BY <1>1 DEF Events, Event, Where
      <3>2. \A c, h : Passed(c, h)' <=> Passed(c, h)
        BY <1>1 DEF Passed, PageEnd
      <3>3. \A h : Event(h)' = Event(h)
        BY <1>1 DEF Event
      <3>4. \A h : Passed(cursor, h)' <=> Passed(cursor, h)
        BY <1>1 DEF Passed, PageEnd
      <3>5. \A h : Passed(NextPage, h)' <=> Passed(NextPage, h)
        BY <1>1, <2>4 DEF Passed, PageEnd
      <3> HIDE DEF Current, ScanTruth, Interval, Waiting, NextPage, Events, Passed, Event
      <3>6. QED BY <1>1, <1>3, <2>4, <3>1, <3>3, <3>4, <3>5 DEF Scanned, IsASeq
    <2>6. Rechecked' <=> Rechecked
      BY <1>1, <1>3, <2>4 DEF Rechecked, Boundaries, IsASeq
    <2> HIDE DEF ScanShape, Unscanned, Bounded, Scanned, Rechecked
    <2>7. QED BY <1>1, <2>1, <2>2, <2>3, <2>5, <2>6 DEF ScanInv
  <1>7. AuthorityInv' <=> AuthorityInv
    <2>1. PICK l, h : l = base.low /\ h = base.high
      OBVIOUS
    <2>2. Authority(l)' = Authority(l) /\ Authority(h)' = Authority(h)
      BY <1>4
    <2>3. /\ Authority(base.low)' = Authority(base.low) /\ Authority(base.high)' = Authority(base.high)
      BY <1>1, <2>1, <2>2
    <2>4. Between(IntervalKinds)' = Between(IntervalKinds)
      BY <1>4
    <2>5. AuthorityHolds' <=> AuthorityHolds
      BY <1>1, <2>3, <2>4 DEF AuthorityHolds
    <2>6. SnapshotHeight' = SnapshotHeight
      BY <1>1 DEF SnapshotHeight
    <2>7. PICK s : s = SnapshotHeight
      OBVIOUS
    <2>8. Authority(s)' = Authority(s) /\ (Own(s)' <=> Own(s))
      BY <1>3, <1>4
    <2>9. /\ Authority(SnapshotHeight)' = Authority(SnapshotHeight)
          /\ Own(SnapshotHeight)' <=> Own(SnapshotHeight)
      BY <2>6, <2>7, <2>8
    <2> HIDE DEF Authority, AuthorityHolds, SnapshotHeight, Own
    <2>10. QED BY <1>1, <2>3, <2>5, <2>9 DEF AuthorityInv
  <1>8. EpochInv' <=> EpochInv
    <2>1. \A e : EpochTruth(e)' <=> EpochTruth(e)
      BY <1>4 DEF EpochTruth
    <2>2. PICK e, v : e = got.epoch /\ v = verdict
      OBVIOUS
    <2>3. (EpochTruth(e)' <=> EpochTruth(e)) /\ (EpochTruth(v)' <=> EpochTruth(v))
      BY <2>1
    <2>4. /\ EpochTruth(got.epoch)' <=> EpochTruth(got.epoch)
          /\ EpochTruth(verdict)' <=> EpochTruth(verdict)
      BY <1>1, <2>2, <2>3
    <2> HIDE DEF EpochTruth
    <2>5. QED BY <1>1, <2>4 DEF EpochInv
  <1>9. SlotStays
    BY <1>1 DEF SlotStays
  <1>10. PICK p, w, s, o, f, r : /\ p = pc /\ w = got.own /\ s = got.sourceRead /\ o = got.observedRead
                                /\ f = got.finding /\ r = got.revocation
    OBVIOUS
  <1>11. /\ SlotAt(p, s, o, f, r)' <=> SlotAt(p, s, o, f, r)
         /\ PublicationAt(p, w, s, o, f, r)' <=> PublicationAt(p, w, s, o, f, r)
    BY <1>9, SlotStaysFacts
  <1>12. SlotsHold' <=> SlotsHold
    <2>1. Source' = Source /\ Observation' = Observation
      BY <1>9, SlotStaysFacts
    <2>2. PICK a, b : a = Source /\ b = Observation
      OBVIOUS
    <2>3. (Known(b)' <=> Known(b)) /\ (Revoked(a, b)' <=> Revoked(a, b)) /\ (Own(a)' <=> Own(a))
      BY <1>3, <1>4
    <2>4. (Known(Observation)' <=> Known(Observation)) /\ (Own(Source)' <=> Own(Source))
          /\ (Revoked(Source, Observation)' <=> Revoked(Source, Observation))
      BY <2>1, <2>2, <2>3
    <2> HIDE DEF Known, Own, Source, Observation
    <2>5. Published' <=> Published
      BY <1>1, <2>1, <2>4 DEF Published
    <2>6. RevocationIs(verdict.revocation)' <=> RevocationIs(verdict.revocation)
      BY <1>1, <2>1, <2>5 DEF RevocationIs, Revoked, Where
    <2>7. QED BY <1>1, <2>4, <2>5, <2>6 DEF SlotsHold
  <1>13. (SlotInv' <=> SlotInv) /\ (ObservationInv' <=> ObservationInv)
    BY <1>1, <1>10, <1>11, <1>12 DEF SlotInv, ObservationInv
  <1>14. PublicationInv' <=> PublicationInv
    BY <1>1, <1>3, <1>10, <1>11, <1>12 DEF PublicationInv
  <1>15. CarryInv' <=> CarryInv
    <2>1. CarryHolds' <=> CarryHolds
      BY <1>1 DEF CarryHolds, Between, Where
    <2>2. QED BY <1>1, <2>1 DEF CarryInv
  <1>16. ActivationInv => ActivationInv'
    BY <1>1, <1>3, ActivationRests
  <1>17. CheckpointInv => CheckpointInv'
    <2>1. CheckpointHolds' <=> CheckpointHolds
      <3>1. PICK m : m = base.mid
        OBVIOUS
      <3>2. Counter(m)' = Counter(m)
        BY <1>4
      <3>3. Counter(base.mid)' = Counter(base.mid)
        BY <1>1, <3>1, <3>2
      <3>4. PICK q : q = InOrder({[at |-> h, kind |-> "feedback", own |-> TRUE] :
                                   h \in Where({"feedback"}, base.mid + 1, base.high)})
        OBVIOUS
      <3>5. q = InOrder({[at |-> h, kind |-> "feedback", own |-> TRUE] :
                           h \in Where({"feedback"}, base.mid + 1, base.high)})'
        BY <1>1, <3>4 DEF Where
      <3>6. (\A i \in DOMAIN Scans : Where(Scans[i].kinds, Scans[i].from, base.high) = {})'
              <=> (\A i \in DOMAIN Scans : Where(Scans[i].kinds, Scans[i].from, base.high) = {})
        BY <1>1 DEF Where, Scans
      <3>7. \A i : Revoked(q[i].at, base.high)' <=> Revoked(q[i].at, base.high)
        BY <1>1 DEF Revoked, Where
      <3>8. [i \in DOMAIN q |-> IF Revoked(q[i].at, base.high)' THEN "revoked" ELSE "active"]
              = [i \in DOMAIN q |-> IF Revoked(q[i].at, base.high) THEN "revoked" ELSE "active"]
        BY <3>7
      <3>9. PICK S, T : S = [i \in DOMAIN q |-> IF Revoked(q[i].at, base.high) THEN "revoked" ELSE "active"]
                        /\ T = (\A i \in DOMAIN Scans : Where(Scans[i].kinds, Scans[i].from, base.high) = {})
        OBVIOUS
      <3>10. CheckpointHolds <=>
               ((reader = "checkpoint" /\ pc = "done" /\ verdict.status = "matched") =>
                  /\ story[Registered] = "register" /\ Counter(base.mid) = 0
                  /\ T
                  /\ verdict.slots = S)
        BY <3>4, <3>9 DEF CheckpointHolds
      <3>11. CheckpointHolds' <=>
               ((reader' = "checkpoint" /\ pc' = "done" /\ verdict'.status = "matched") =>
                  /\ story'[Registered'] = "register" /\ Counter(base.mid)' = 0
                  /\ T
                  /\ verdict'.slots = S)
        BY <3>5, <3>6, <3>8, <3>9 DEF CheckpointHolds
      <3> HIDE DEF CheckpointHolds, Registered
      <3>12. QED BY <1>1, <1>5, <3>3, <3>10, <3>11
    <2>2. QED BY <1>1, <1>3, <2>1, CheckpointRests DEF CheckpointInv
  <1>18. QED BY <1>2, <1>6, <1>7, <1>8, <1>13, <1>14, <1>15, <1>16, <1>17 DEF ReadersInv

\* The inductive invariant of the readers.
THEOREM ReadersInvariance == ReadersSpec => []ReadersInv
  <1>1. ReadersInit => ReadersInv
    BY ReadersStart
  <1>2. ReadersInv /\ [ReaderNext]_chainVars => ReadersInv'
    BY ReadersKeep, ReadersRest
  <1>3. QED BY <1>1, <1>2, PTL DEF ReadersSpec

\* An authority that is reported unchanged had no event in between and is the same at both
\* blocks, and one that is reported changed had one (a2a/authority.ts).
THEOREM AuthorityIsTrue == ReadersSpec => []AuthorityHolds
  <1>1. ReadersInv => AuthorityHolds
    BY DEF ReadersInv, AuthorityInv, AuthorityHolds
  <1>2. QED BY <1>1, ReadersInvariance, PTL

\* An epoch that is reported is the one of the given chain: no break of it is overlooked,
\* none is made up, and the first and the retirement are the first (identity/continuity.ts).
THEOREM EpochIsOfTheChain == ReadersSpec => []EpochHolds
  <1>1. ReadersInv => EpochHolds
    BY DEF ReadersInv, EpochInv, EpochTruth, EpochHolds
  <1>2. QED BY <1>1, ReadersInvariance, PTL

\* A finding about a slot, or about a publication, is about the two given blocks, however
\* the chain is reorganized between the reads (feedback/registryObservation.ts, feedback/publication.ts).
THEOREM SlotsAreTrue == ReadersSpec => []SlotsHold
  <1>1. ReadersInv => SlotsHold
    BY DEF ReadersInv, ObservationInv, PublicationInv, SlotsHold
  <1>2. QED BY <1>1, ReadersInvariance, PTL

\* A publication is carried forward, or said not to be, as the given chain has it
\* (feedback/historicalRead.ts).
THEOREM CarryIsTrue == ReadersSpec => []CarryHolds
  <1>1. ReadersInv => CarryHolds
    BY DEF ReadersInv, CarryInv, CarryHolds
  <1>2. QED BY <1>1, ReadersInvariance, PTL

\* A registry is qualified, or contradicted, as the given chain has it, and never by a
\* reorganization (feedback/reputationActivation.ts).
THEOREM ActivationIsTrue == ReadersSpec => []ActivationHolds
  <1>1. ReadersInv => ActivationHolds
    BY DEF ReadersInv, ActivationInv, ActivationHolds
  <1>2. QED BY <1>1, ReadersInvariance, PTL

\* A checkpoint that matches lists every publication of its pair, in order and with its
\* revocation, and nothing was published before (feedback/pairZeroCheckpoint.ts).
THEOREM CheckpointIsComplete == ReadersSpec => []CheckpointHolds
  <1>1. ReadersInv => CheckpointHolds
    BY DEF ReadersInv, CheckpointInv, CheckpointHolds
  <1>2. QED BY <1>1, ReadersInvariance, PTL

--------------------------------------------------------------------------------
(* The discovery: a lane, its rows and its requests. *)

Steps == {"search", "row", "turn", "observe", "anchor", "chain", "block", "calls", "again",
          "card", "confirm", "done"}
AtRow == Steps \ {"search", "turn", "done"}
Codes == {"request-timeout", "request-budget", "byte-budget", "deadline", "cancelled"}
CallStates == {"none", "open", "sent", "ok", "failed"}
Lanes == [pc : Steps, page : Nat, requests : Nat, exhausted : SUBSET Codes, errors : BOOLEAN,
          available : BOOLEAN, calls : [Parallel -> CallStates]]
Listings == SUBSET [row : Nat, status : {"verified", "rejected", "unavailable"}]
Rowing == [agent : STRING, kind : Kinds]

\* Where a lane is among its rows.
Placed(l, o) ==
  /\ l.pc \in AtRow => l.page \in 1..Len(o)
  /\ l.pc = "search" => l.page = 0 \/ l.page < Len(o)
  /\ l.pc = "done" /\ ~l.errors => l.page >= Len(o)
  /\ l.pc # "calls" => l.calls = NoCalls

\* What a row that has come so far is not.
Suited(l, o) ==
  /\ l.pc \in AtRow \ {"row"} => o[l.page].kind \notin {"unknown", "unfit", "foreign"}
  /\ l.pc \in AtRow \ {"row", "observe"} => o[l.page].kind \notin {"mismatch", "elsewhere", "later"}
  /\ l.pc \in AtRow \ {"row", "observe", "anchor"} => o[l.page].kind # "orphan"
  /\ l.pc = "confirm" => o[l.page].kind = "good"

\* Without errors every row that was passed is listed.
Examined(l, L, o) ==
  ~l.errors => \A i \in 1..Len(o) :
    (i < l.page \/ (i = l.page /\ l.pc \in {"search", "turn", "done"})) => \E c \in L : c.row = i

\* What is listed says of its row what is so.
Truthful(L, o, st) ==
  \A c \in L : /\ c.row \in 1..Len(o)
               /\ c.status = "verified" => o[c.row].kind = "good"
               /\ st /\ c.status = "rejected" => o[c.row].kind # "good"

\* An error, a failed call or an unavailable row has a cause outside of a right lane.
Disturbed(l, t) == t > 0 \/ l.exhausted # {}
Excused(l, L, o, t) ==
  /\ l.pc # "search" /\ ~l.available => Disturbed(l, t)
  /\ l.errors => \/ Disturbed(l, t) \/ Len(o) > PageLimit
                 \/ \E i \in 1..Len(o) : o[i].kind \notin {"good", "unfit"}
  /\ \A i \in Parallel : l.calls[i] = "failed" => Disturbed(l, t)
  /\ \A c \in L : c.status = "unavailable" => Disturbed(l, t)

OneIf(b) == IF b THEN 1 ELSE 0
OpenOf(c) == OneIf(c[1] = "open") + OneIf(c[2] = "open")
\* What was let in is within the reservation.
Within(l) == l.requests + OpenOf(l.calls) <= RequestLimit

LaneOK(l, L, o, t, st) ==
  /\ Placed(l, o) /\ Suited(l, o) /\ Examined(l, L, o) /\ Truthful(L, o, st)
  /\ Excused(l, L, o, t) /\ Within(l)

DiscoveryTypeOK ==
  /\ offers \in Offers /\ stands \in BOOLEAN /\ caller \in {"waits", "cancelled"}
  /\ stage \in {"searching", "ranking", "reported"}
  /\ lane \in [1..2 -> Lanes] /\ listed \in [1..2 -> Listings] /\ troubles \in Nat

LanesOK ==
  \A s \in 1..2 : IF stage = "reported" /\ caller = "cancelled"
                  THEN Within(lane[s]) /\ Placed(lane[s], offers[s])
                       /\ Truthful(listed[s], offers[s], stands)
                       /\ \A c \in listed[s] : c.status # "verified"
                  ELSE LaneOK(lane[s], listed[s], offers[s], troubles, stands)

\* What is so of a report of a discovery in which all is complete.
AllSelected ==
  /\ \A s \in Sides : \A i \in Rows(s) : offers[s][i].kind \in {"good", "unfit"}
  /\ report.selected = UNION {Agents(s, {i \in Rows(s) : offers[s][i].kind = "good"}) : s \in Sides}
Undisturbed ==
  /\ stands /\ troubles = 0
  /\ \A s \in Sides : /\ lane[s].exhausted = {} /\ Len(offers[s]) <= PageLimit
                      /\ \A i \in Rows(s) : offers[s][i].kind \in {"good", "unfit"}
AllComplete == \A s \in Sides : report.origins[s] = "complete"
Composed ==
  stage = "ranking" \/ (stage = "reported" /\ caller = "waits") =>
    /\ (AllComplete /\ report.eligible <= ShortlistLimit) => AllSelected
    /\ (caller = "waits" /\ Undisturbed) => AllComplete
    /\ report.eligible \in Nat
    /\ stage = "reported" => report.status = Overall
Refused ==
  stage = "reported" /\ caller = "cancelled" => report.selected = {} /\ report.status = "unavailable"

DiscoveryInv == DiscoveryTypeOK /\ LanesOK /\ Composed /\ Refused

\* A lane that goes on with its row keeps its claims.
LEMMA RowGoesOn ==
  ASSUME NEW l \in Lanes, NEW m \in Lanes, NEW L \in Listings, NEW o \in Seq(Rowing), NEW st \in BOOLEAN,
         NEW t \in Nat, NEW u \in Nat, t <= u, LaneOK(l, L, o, t, st), m.page = l.page,
         l.exhausted \subseteq m.exhausted, m.requests + OpenOf(m.calls) <= RequestLimit,
         m.available = l.available,
         l.pc \in AtRow, m.pc \in AtRow, m.errors = l.errors, Suited(m, o),
         m.pc # "calls" => m.calls = NoCalls,
         \A i \in Parallel : m.calls[i] = "failed" => Disturbed(m, u)
  PROVE  LaneOK(m, L, o, u, st)
  <1>1. Placed(m, o)
    BY DEF LaneOK, Placed, AtRow, Steps, Lanes
  <1>2. Examined(m, L, o)
    BY DEF LaneOK, Examined, AtRow, Steps, Lanes
  <1>3. Excused(m, L, o, u)
    BY DEF LaneOK, Excused, Disturbed, AtRow, Steps, Lanes
  <1>4. QED BY <1>1, <1>2, <1>3 DEF LaneOK, Within

\* So does a lane that lists the row it was at, and what it lists is so.
LEMMA RowIsListed ==
  ASSUME NEW l \in Lanes, NEW m \in Lanes, NEW L \in Listings, NEW o \in Seq(Rowing), NEW st \in BOOLEAN,
         NEW t \in Nat, NEW u \in Nat, t <= u, LaneOK(l, L, o, t, st), m.page = l.page,
         l.exhausted \subseteq m.exhausted, m.requests + OpenOf(m.calls) <= RequestLimit,
         m.available = l.available,
         l.pc \in AtRow, m.pc = "turn", m.errors = l.errors, m.calls = NoCalls,
         NEW status \in {"verified", "rejected", "unavailable"},
         status = "verified" => o[l.page].kind = "good",
         st /\ status = "rejected" => o[l.page].kind # "good",
         status = "unavailable" => Disturbed(m, u),
         NEW K, K = L \cup {[row |-> l.page, status |-> status]}
  PROVE  K \in Listings /\ LaneOK(m, K, o, u, st)
  <1> DEFINE c == [row |-> l.page, status |-> status]
  <1>1. /\ K \in Listings /\ L \subseteq K /\ c \in K /\ c.row = l.page /\ c.status = status
        /\ \A d \in K : d \in L \/ d = c
    BY DEF Listings, Lanes
  <1> HIDE DEF c
  <1>2. l.page \in 1..Len(o) /\ Placed(m, o)
    BY DEF LaneOK, Placed, AtRow, Steps, Lanes
  <1>3. Suited(m, o)
    BY DEF Suited, AtRow
  <1>4. Examined(m, K, o)
    <2> SUFFICES ASSUME ~m.errors, NEW i \in 1..Len(o), i <= m.page
                 PROVE  \E d \in K : d.row = i
      BY DEF Examined, Lanes
    <2>1. CASE i = l.page
      BY <2>1, <1>1
    <2>2. CASE i < l.page
      BY <2>2, <1>1 DEF LaneOK, Examined
    <2>3. QED BY <2>1, <2>2 DEF Lanes
  <1>5. Truthful(K, o, st)
    BY <1>1, <1>2 DEF LaneOK, Truthful
  <1>6. Excused(m, K, o, u)
    BY <1>1 DEF LaneOK, Excused, Disturbed, AtRow, Steps, Lanes, NoCalls
  <1>7. QED BY <1>1, <1>2, <1>3, <1>4, <1>5, <1>6 DEF LaneOK, Within

\* So does a lane that gives a row up and is blamed for it: the row or a trouble is the cause.
LEMMA RowIsBlamed ==
  ASSUME NEW l \in Lanes, NEW m \in Lanes, NEW L \in Listings, NEW o \in Seq(Rowing), NEW st \in BOOLEAN,
         NEW t \in Nat, NEW u \in Nat, t <= u, LaneOK(l, L, o, t, st), m.page = l.page,
         l.exhausted \subseteq m.exhausted, m.requests + OpenOf(m.calls) <= RequestLimit,
         m.available = l.available,
         l.pc \in AtRow, m.pc = "turn", m.errors, m.calls = NoCalls,
         Disturbed(m, u) \/ o[l.page].kind \notin {"good", "unfit"}
  PROVE  LaneOK(m, L, o, u, st)
  <1>1. Placed(m, o) /\ Suited(m, o) /\ Examined(m, L, o) /\ l.page \in 1..Len(o)
    BY DEF LaneOK, Placed, Suited, Examined, AtRow, Steps, Lanes
  <1>2. Excused(m, L, o, u)
    BY <1>1 DEF LaneOK, Excused, Disturbed, AtRow, Steps, Lanes, NoCalls
  <1>3. QED BY <1>1, <1>2 DEF LaneOK, Within

\* A lane that is stopped may fail more, and claims nothing more.
LEMMA LaneIsStopped ==
  ASSUME NEW l \in Lanes, NEW L \in Listings, NEW o \in Seq(Rowing), NEW t \in Nat, NEW st \in BOOLEAN,
         NEW code \in Codes, LaneOK(l, L, o, t, st)
  PROVE  Exhausted(l, code) \in Lanes /\ LaneOK(Exhausted(l, code), L, o, t, st)
  <1> DEFINE m == Exhausted(l, code)
  <1>1. /\ m \in Lanes /\ m.pc = l.pc /\ m.page = l.page /\ m.requests = l.requests /\ m.calls = l.calls
        /\ m.errors = l.errors /\ m.available = l.available /\ l.exhausted \subseteq m.exhausted
    BY DEF Exhausted, Lanes
  <1> HIDE DEF m
  <1>2. Placed(m, o)
    BY <1>1 DEF LaneOK, Placed
  <1>3. Suited(m, o)
    BY <1>1 DEF LaneOK, Suited
  <1>4. Examined(m, L, o)
    BY <1>1 DEF LaneOK, Examined
  <1>5. Excused(m, L, o, t)
    BY <1>1 DEF LaneOK, Excused, Disturbed, Lanes
  <1>6. QED BY <1>1, <1>2, <1>3, <1>4, <1>5 DEF LaneOK, Within, m

\* The chain loses the block of the observation: less is claimed.
LEMMA LaneIsOrphaned ==
  ASSUME NEW l, NEW L, NEW o, NEW t, NEW st, LaneOK(l, L, o, t, st)
  PROVE  LaneOK(l, L, o, t, FALSE)
  BY DEF LaneOK, Truthful

\* Trouble in one lane is an excuse for the other.
LEMMA LaneIsElsewhere ==
  ASSUME NEW l, NEW L, NEW o, NEW t \in Nat, NEW u \in Nat, t <= u, NEW st, LaneOK(l, L, o, t, st)
  PROVE  LaneOK(l, L, o, u, st)
  BY DEF LaneOK, Excused, Disturbed

\* The calls that wait to be sent, counted.
LEMMA Undispatching ==
  ASSUME NEW c \in [Parallel -> CallStates]
  PROVE  Cardinality({i \in Parallel : c[i] = "open"}) = OpenOf(c)
  <1>1. CASE c[1] = "open" /\ c[2] = "open"
    <2>1. {i \in Parallel : c[i] = "open"} = {1} \cup {2}
      BY <1>1 DEF Parallel
    <2>2. IsFiniteSet({1}) /\ Cardinality({1}) = 1
      BY FS_Singleton
    <2>3. Cardinality({1} \cup {2}) = IF 2 \in {1} THEN Cardinality({1}) ELSE Cardinality({1}) + 1
      BY <2>2, FS_AddElement, Zenon
    <2>4. QED BY <1>1, <2>1, <2>2, <2>3 DEF OpenOf, OneIf
  <1>2. CASE c[1] = "open" /\ c[2] # "open"
    <2>1. {i \in Parallel : c[i] = "open"} = {1}
      BY <1>2 DEF Parallel
    <2>2. Cardinality({1}) = 1
      BY FS_Singleton
    <2>3. QED BY <1>2, <2>1, <2>2 DEF OpenOf, OneIf
  <1>3. CASE c[1] # "open" /\ c[2] = "open"
    <2>1. {i \in Parallel : c[i] = "open"} = {2}
      BY <1>3 DEF Parallel
    <2>2. Cardinality({2}) = 1
      BY FS_Singleton
    <2>3. QED BY <1>3, <2>1, <2>2 DEF OpenOf, OneIf
  <1>4. CASE c[1] # "open" /\ c[2] # "open"
    <2>1. {i \in Parallel : c[i] = "open"} = {}
      BY <1>4 DEF Parallel
    <2>2. QED BY <1>4, <2>1, FS_EmptySet DEF OpenOf, OneIf
  <1>5. QED BY <1>1, <1>2, <1>3, <1>4


--------------------------------------------------------------------------------
(* A step of a lane. *)

\* What a step of the lane s has before it.
LaneAt(s) == DiscoveryInv /\ Searching /\ s \in 1..2

\* What is so of a lane whose turn it is.
LEMMA LaneFacts ==
  ASSUME NEW s, LaneAt(s)
  PROVE  /\ lane[s] \in Lanes /\ listed[s] \in Listings /\ offers[s] \in Seq(Rowing)
         /\ LaneOK(lane[s], listed[s], offers[s], troubles, stands)
         /\ troubles \in Nat /\ stands \in BOOLEAN /\ s \in Sides /\ Sides = 1..2
         /\ lane[s].pc \in AtRow => offers[s][lane[s].page] \in Rowing
         /\ Full(s) <=> (lane[s].requests + OpenOf(lane[s].calls) >= RequestLimit)
  <1>1. /\ lane[s] \in Lanes /\ listed[s] \in Listings /\ offers[s] \in Seq(Rowing)
        /\ LaneOK(lane[s], listed[s], offers[s], troubles, stands)
        /\ troubles \in Nat /\ stands \in BOOLEAN /\ s \in Sides /\ Sides = 1..2
    BY DEF LaneAt, DiscoveryInv, DiscoveryTypeOK, LanesOK, Searching, Offers, Sides, Rowing
  <1>2. lane[s].pc \in AtRow => offers[s][lane[s].page] \in Rowing
    BY <1>1 DEF LaneOK, Placed
  <1>3. lane[s].calls \in [Parallel -> CallStates]
    BY <1>1 DEF Lanes
  <1>4. QED BY <1>1, <1>2, <1>3, Undispatching DEF Full, Undispatched

\* It ends with a lane, and a list, of the kind.
LEMMA LaneMoves ==
  ASSUME NEW s, LaneAt(s), NEW m \in Lanes, NEW K \in Listings, NEW u \in Nat, troubles' = u, troubles <= u,
         lane' = [lane EXCEPT ![s] = m], listed' = [listed EXCEPT ![s] = K],
         LaneOK(m, K, offers[s], u, stands)
  PROVE  DiscoveryInv'
  <1>1. /\ lane' \in [1..2 -> Lanes] /\ listed' \in [1..2 -> Listings]
        /\ lane'[s] = m /\ listed'[s] = K
        /\ \A r \in 1..2 : r # s => lane'[r] = lane[r] /\ listed'[r] = listed[r]
    BY DEF LaneAt, DiscoveryInv, DiscoveryTypeOK
  <1>2. /\ offers' = offers /\ stands' = stands /\ caller' = caller /\ stage' = stage /\ report' = report
        /\ stage = "searching"
    BY DEF LaneAt, Searching
  <1>3. DiscoveryTypeOK'
    BY <1>1, <1>2 DEF DiscoveryTypeOK, LaneAt, DiscoveryInv
  <1>4. ASSUME NEW r \in 1..2, r # s
        PROVE  LaneOK(lane'[r], listed'[r], offers[r], u, stands)
    <2>1. LaneOK(lane[r], listed[r], offers[r], troubles, stands) /\ troubles \in Nat
      BY <1>2 DEF LaneAt, DiscoveryInv, LanesOK, DiscoveryTypeOK
    <2>2. QED BY <2>1, <1>1, <1>4, LaneIsElsewhere
  <1>5. LanesOK'
    BY <1>1, <1>2, <1>4 DEF LanesOK
  <1>6. Composed' /\ Refused'
    BY <1>2 DEF Composed, Refused
  <1>7. QED BY <1>3, <1>5, <1>6 DEF DiscoveryInv

\* A request that is lost leaves the lane disturbed and within its reservation.
LEMMA LostIsDisturbed ==
  ASSUME NEW s, LaneAt(s), NEW l \in Lanes, l.requests = lane[s].requests, l.calls = NoCalls,
         l.exhausted = lane[s].exhausted, lane[s].calls = NoCalls, Lost(s, l)
  PROVE  \E m \in Lanes, u \in Nat :
           /\ lane' = [lane EXCEPT ![s] = m] /\ troubles' = u /\ troubles <= u
           /\ m.pc = l.pc /\ m.page = l.page /\ m.errors = l.errors /\ m.available = l.available
           /\ m.calls = NoCalls /\ l.exhausted \subseteq m.exhausted /\ Disturbed(m, u)
           /\ m.requests + OpenOf(m.calls) <= RequestLimit
  <1>1. troubles \in Nat /\ lane[s].requests + OpenOf(NoCalls) <= RequestLimit /\ OpenOf(NoCalls) = 0
        /\ RequestLimit \in Nat
    BY LaneFacts, DiscoveryAssumption DEF LaneOK, Within, OpenOf, OneIf, NoCalls, Parallel
  <1>2. CASE Refuses(s) /\ Lane(s, l) /\ UNCHANGED troubles
    <2>1. Disturbed(l, troubles)
      BY <1>2 DEF Refuses, Disturbed
    <2> l \in Lanes /\ troubles \in Nat
      BY <1>1
    <2>2. WITNESS l \in Lanes, troubles \in Nat
    <2>3. QED BY <1>1, <1>2, <2>1 DEF Lane
  <1>3. CASE Full(s) /\ Lane(s, Exhausted(l, "request-budget")) /\ UNCHANGED troubles
    <2>1. PICK m : m = Exhausted(l, "request-budget")
      OBVIOUS
    <2>2. /\ m \in Lanes /\ m.pc = l.pc /\ m.page = l.page /\ m.errors = l.errors /\ m.available = l.available
          /\ m.calls = NoCalls /\ l.exhausted \subseteq m.exhausted /\ m.exhausted # {}
          /\ m.requests = lane[s].requests
      BY <2>1 DEF Exhausted, Lanes, Codes
    <2> m \in Lanes /\ troubles \in Nat
      BY <1>1, <2>2
    <2>3. WITNESS m \in Lanes, troubles \in Nat
    <2>4. QED BY <1>1, <1>3, <2>1, <2>2 DEF Lane, Disturbed
  <1>4. CASE ~Full(s) /\ Troubled(s, Charged(l))
    <2>1. PICK m : Lane(s, m) /\ m \in {Charged(l), Exhausted(Charged(l), "request-timeout"),
                                        Exhausted(Charged(l), "byte-budget")}
      BY <1>4 DEF Troubled
    <2>2. lane[s].requests < RequestLimit
      <3>1. ~(lane[s].requests + OpenOf(NoCalls) >= RequestLimit)
        BY <1>4, LaneFacts
      <3>2. QED BY <1>1, <3>1, LaneFacts DEF Lanes
    <2>3. PICK c : c = Charged(l)
      OBVIOUS
    <2>4. /\ c \in Lanes /\ c.pc = l.pc /\ c.page = l.page /\ c.errors = l.errors /\ c.available = l.available
          /\ c.calls = NoCalls /\ c.exhausted = l.exhausted
          /\ c.requests = lane[s].requests + 1
      BY <2>3 DEF Charged, Lanes
    <2>5. m \in {c, Exhausted(c, "request-timeout"), Exhausted(c, "byte-budget")}
      BY <2>1, <2>3
    <2>6. /\ m \in Lanes /\ m.pc = l.pc /\ m.page = l.page /\ m.errors = l.errors /\ m.available = l.available
          /\ m.calls = NoCalls /\ l.exhausted \subseteq m.exhausted
          /\ m.requests = lane[s].requests + 1
      BY <2>4, <2>5 DEF Exhausted, Lanes, Codes
    <2>7. troubles' = troubles + 1
      BY <1>4 DEF Troubled
    <2>8. Disturbed(m, troubles + 1) /\ troubles + 1 \in Nat
      BY <1>1 DEF Disturbed
    <2>9. m.requests + OpenOf(m.calls) <= RequestLimit
      BY <1>1, <2>2, <2>6, LaneFacts DEF Lanes
    <2> m \in Lanes /\ troubles + 1 \in Nat
      BY <2>6, <2>8
    <2>10. WITNESS m \in Lanes, troubles + 1 \in Nat
    <2>11. QED BY <1>1, <2>1, <2>6, <2>7, <2>8, <2>9 DEF Lane
  <1>5. QED BY <1>2, <1>3, <1>4 DEF Lost


\* A lane that is given a new pc, and a charge.
LEMMA ToFacts ==
  ASSUME NEW s, LaneAt(s), NEW step \in Steps
  PROVE  /\ To(s, step) \in Lanes
         /\ LET l == To(s, step) IN
            /\ l.pc = step /\ l.page = lane[s].page /\ l.requests = lane[s].requests
            /\ l.exhausted = lane[s].exhausted /\ l.errors = lane[s].errors
            /\ l.available = lane[s].available /\ l.calls = lane[s].calls
  BY LaneFacts DEF To, Lanes

\* A request that is charged changes the count alone.
LEMMA ChargedFacts ==
  ASSUME NEW l \in Lanes
  PROVE  /\ Charged(l) \in Lanes
         /\ LET c == Charged(l) IN
            /\ c.pc = l.pc /\ c.page = l.page /\ c.requests = l.requests + 1
            /\ c.exhausted = l.exhausted /\ c.errors = l.errors
            /\ c.available = l.available /\ c.calls = l.calls
  BY DEF Charged, Lanes

\* Blame changes the errors alone.
LEMMA BlamedFacts ==
  ASSUME NEW l \in Lanes
  PROVE  /\ Blamed(l) \in Lanes
         /\ LET c == Blamed(l) IN
            /\ c.pc = l.pc /\ c.page = l.page /\ c.requests = l.requests
            /\ c.exhausted = l.exhausted /\ c.errors = TRUE
            /\ c.available = l.available /\ c.calls = l.calls
  BY DEF Blamed, Lanes

\* An answer leaves room for its request.
LEMMA RoomForAnswer ==
  ASSUME NEW s, LaneAt(s), lane[s].calls = NoCalls, Answered(s)
  PROVE  /\ lane[s].requests + 1 + OpenOf(NoCalls) <= RequestLimit
         /\ lane[s].requests + OpenOf(NoCalls) <= RequestLimit
         /\ troubles' = troubles
  <1>1. OpenOf(NoCalls) = 0 /\ lane[s].requests \in Nat /\ RequestLimit \in Nat
    BY LaneFacts, DiscoveryAssumption DEF OpenOf, OneIf, NoCalls, Parallel, Lanes
  <1>2. ~(lane[s].requests + OpenOf(NoCalls) >= RequestLimit)
    BY LaneFacts DEF Answered
  <1>3. QED BY <1>1, <1>2 DEF Answered

\* There are no calls but in their phase.
LEMMA CallsRest ==
  ASSUME NEW s, LaneAt(s), lane[s].pc # "calls"
  PROVE  lane[s].calls = NoCalls
  BY LaneFacts DEF LaneOK, Placed

\* Without calls the lane is within its reservation.
LEMMA Resting ==
  ASSUME NEW s, LaneAt(s)
  PROVE  lane[s].requests + OpenOf(NoCalls) <= RequestLimit
  <1>1. OpenOf(NoCalls) = 0 /\ lane[s].requests \in Nat /\ RequestLimit \in Nat
    BY LaneFacts, DiscoveryAssumption DEF OpenOf, OneIf, NoCalls, Parallel, Lanes
  <1>2. lane[s].requests + OpenOf(lane[s].calls) <= RequestLimit /\ OpenOf(lane[s].calls) \in Nat
    BY LaneFacts DEF LaneOK, Within, OpenOf, OneIf
  <1>3. QED BY <1>1, <1>2

\* An answer with which the lane goes on in its row.
LEMMA Proceeding ==
  ASSUME NEW s, LaneAt(s), lane[s].pc \in AtRow \ {"calls"}, NEW step \in AtRow, Answered(s), Proceeds(s, step),
         \A m \in Lanes : m.pc = step /\ m.page = lane[s].page => Suited(m, offers[s])
  PROVE  DiscoveryInv'
  <1>1. PICK m : m = Charged(To(s, step))
    OBVIOUS
  <1>2. lane[s].calls = NoCalls
    BY CallsRest
  <1>3. step \in Steps /\ To(s, step) \in Lanes
    BY ToFacts DEF AtRow
  <1>4. /\ m \in Lanes /\ m.pc = step /\ m.page = lane[s].page /\ m.requests = lane[s].requests + 1
        /\ m.exhausted = lane[s].exhausted /\ m.errors = lane[s].errors
        /\ m.available = lane[s].available /\ m.calls = NoCalls
    BY <1>1, <1>2, <1>3, ToFacts, ChargedFacts
  <1>5. lane' = [lane EXCEPT ![s] = m] /\ listed' = [listed EXCEPT ![s] = listed[s]] /\ troubles' = troubles
    BY <1>1, RoomForAnswer, <1>2, LaneFacts DEF Proceeds, Lane, LaneAt, DiscoveryInv, DiscoveryTypeOK
  <1>6. m.requests + OpenOf(m.calls) <= RequestLimit
    BY <1>2, <1>4, RoomForAnswer
  <1>7. \A i \in Parallel : m.calls[i] # "failed"
    BY <1>4 DEF NoCalls
  <1>8. LaneOK(m, listed[s], offers[s], troubles, stands)
    BY <1>4, <1>6, <1>7, LaneFacts, RowGoesOn
  <1>9. troubles \in Nat /\ troubles <= troubles
    BY LaneFacts
  <1>10. QED BY <1>4, <1>5, <1>8, <1>9, LaneFacts, LaneMoves

\* An answer that settles the row.
LEMMA Settling ==
  ASSUME NEW s, LaneAt(s), lane[s].pc \in AtRow \ {"calls"}, Answered(s), NEW status \in {"verified", "rejected"},
         Settles(s, status),
         status = "verified" => Offered(s).kind = "good",
         stands /\ status = "rejected" => Offered(s).kind # "good"
  PROVE  DiscoveryInv'
  <1>1. PICK m : m = Charged(To(s, "turn"))
    OBVIOUS
  <1>2. lane[s].calls = NoCalls
    BY CallsRest
  <1>3. "turn" \in Steps /\ To(s, "turn") \in Lanes
    BY ToFacts DEF Steps
  <1>4. /\ m \in Lanes /\ m.pc = "turn" /\ m.page = lane[s].page /\ m.requests = lane[s].requests + 1
        /\ m.exhausted = lane[s].exhausted /\ m.errors = lane[s].errors
        /\ m.available = lane[s].available /\ m.calls = NoCalls
    BY <1>1, <1>2, <1>3, ToFacts, ChargedFacts
  <1>5. PICK K : K = listed[s] \cup {[row |-> lane[s].page, status |-> status]}
    OBVIOUS
  <1>6. lane' = [lane EXCEPT ![s] = m] /\ listed' = [listed EXCEPT ![s] = K] /\ troubles' = troubles
    BY <1>1, <1>5, RoomForAnswer, <1>2, LaneFacts DEF Settles, List, Lane, LaneAt, DiscoveryInv, DiscoveryTypeOK
  <1>7. m.requests + OpenOf(m.calls) <= RequestLimit
    BY <1>2, <1>4, RoomForAnswer
  <1>8. troubles \in Nat /\ troubles <= troubles
    BY LaneFacts
  <1>9. K \in Listings /\ LaneOK(m, K, offers[s], troubles, stands)
    <2>1. /\ lane[s] \in Lanes /\ listed[s] \in Listings /\ offers[s] \in Seq(Rowing) /\ stands \in BOOLEAN
          /\ LaneOK(lane[s], listed[s], offers[s], troubles, stands)
      BY LaneFacts
    <2>2. /\ status = "verified" => offers[s][lane[s].page].kind = "good"
          /\ stands /\ status = "rejected" => offers[s][lane[s].page].kind # "good"
          /\ status \in {"verified", "rejected", "unavailable"}
          /\ status = "unavailable" => Disturbed(m, troubles)
      BY DEF Offered
    <2>3. QED BY <1>4, <1>5, <1>7, <1>8, <2>1, <2>2, RowIsListed
  <1>10. QED BY <1>4, <1>6, <1>8, <1>9, LaneFacts, LaneMoves

\* A row that is settled without a request.
LEMMA Giving ==
  ASSUME NEW s, LaneAt(s), lane[s].pc \in AtRow, NEW m \in Lanes, NEW u \in Nat, troubles' = u, troubles <= u,
         lane' = [lane EXCEPT ![s] = m], m.pc = "turn", m.page = lane[s].page, m.calls = NoCalls,
         m.errors = lane[s].errors, m.available = lane[s].available, lane[s].exhausted \subseteq m.exhausted,
         m.requests + OpenOf(m.calls) <= RequestLimit,
         NEW status \in {"rejected", "unavailable"}, List(s, status),
         status = "rejected" => Offered(s).kind # "good",
         status = "unavailable" => Disturbed(m, u)
  PROVE  DiscoveryInv'
  <1>1. PICK K : K = listed[s] \cup {[row |-> lane[s].page, status |-> status]}
    OBVIOUS
  <1>2. listed' = [listed EXCEPT ![s] = K]
    BY <1>1, LaneFacts DEF List, LaneAt, DiscoveryInv, DiscoveryTypeOK
  <1>3. K \in Listings /\ LaneOK(m, K, offers[s], u, stands)
    <2>1. /\ lane[s] \in Lanes /\ listed[s] \in Listings /\ offers[s] \in Seq(Rowing) /\ stands \in BOOLEAN
          /\ LaneOK(lane[s], listed[s], offers[s], troubles, stands) /\ troubles \in Nat
      BY LaneFacts
    <2>2. /\ status = "verified" => offers[s][lane[s].page].kind = "good"
          /\ stands /\ status = "rejected" => offers[s][lane[s].page].kind # "good"
          /\ status \in {"verified", "rejected", "unavailable"}
          /\ status = "unavailable" => Disturbed(m, u)
      BY DEF Offered
    <2>3. QED BY <1>1, <2>1, <2>2, RowIsListed
  <1>4. QED BY <1>2, <1>3, LaneMoves

\* A row that is given up with blame.
LEMMA Blaming ==
  ASSUME NEW s, LaneAt(s), lane[s].pc \in AtRow, NEW m \in Lanes, NEW u \in Nat, troubles' = u, troubles <= u,
         lane' = [lane EXCEPT ![s] = m], m.pc = "turn", m.page = lane[s].page, m.calls = NoCalls,
         m.errors, m.available = lane[s].available, lane[s].exhausted \subseteq m.exhausted,
         m.requests + OpenOf(m.calls) <= RequestLimit, UNCHANGED listed,
         Disturbed(m, u) \/ Offered(s).kind \notin {"good", "unfit"}
  PROVE  DiscoveryInv'
  <1>1. listed' = [listed EXCEPT ![s] = listed[s]]
    BY LaneFacts DEF LaneAt, DiscoveryInv, DiscoveryTypeOK
  <1>2. LaneOK(m, listed[s], offers[s], u, stands)
    BY LaneFacts, RowIsBlamed DEF Offered
  <1>3. QED BY <1>1, <1>2, LaneFacts, LaneMoves

\* A call of the two changes.
LEMMA Dialing ==
  ASSUME NEW s, LaneAt(s), lane[s].pc = "calls", NEW m \in Lanes, NEW u \in Nat, troubles' = u, troubles <= u,
         lane' = [lane EXCEPT ![s] = m], UNCHANGED listed, m.pc \in {"calls", "again"}, m.page = lane[s].page,
         m.errors = lane[s].errors, m.available = lane[s].available, lane[s].exhausted \subseteq m.exhausted,
         m.requests + OpenOf(m.calls) <= RequestLimit,
         m.pc # "calls" => m.calls = NoCalls,
         \A i \in Parallel : m.calls[i] = "failed" => Disturbed(m, u)
  PROVE  DiscoveryInv'
  <1>1. listed' = [listed EXCEPT ![s] = listed[s]]
    BY LaneFacts DEF LaneAt, DiscoveryInv, DiscoveryTypeOK
  <1>2. Suited(m, offers[s])
    BY LaneFacts DEF LaneOK, Suited, AtRow, Steps
  <1>3. lane[s].pc \in AtRow /\ m.pc \in AtRow
    BY DEF AtRow, Steps
  <1>4. LaneOK(m, listed[s], offers[s], u, stands)
    BY <1>2, <1>3, LaneFacts, RowGoesOn
  <1>5. QED BY <1>1, <1>4, LaneFacts, LaneMoves


\* The search of the Index, answered or failed.
LEMMA SearchingKeeps ==
  ASSUME NEW s, LaneAt(s), SearchAnswers(s) \/ SearchFails(s)
  PROVE  DiscoveryInv'
  <1>0. /\ lane[s].pc = "search" /\ listed' = [listed EXCEPT ![s] = listed[s]] /\ lane[s].calls = NoCalls
        /\ troubles \in Nat /\ troubles <= troubles
    BY LaneFacts, CallsRest DEF SearchAnswers, SearchFails, LaneAt, DiscoveryInv, DiscoveryTypeOK
  <1>1. CASE SearchAnswers(s)
    <2> DEFINE step == IF lane[s].page < Len(offers[s]) THEN "row" ELSE "turn"
    <2>1. step \in Steps
      BY DEF Steps
    <2>2. PICK c : c = Charged(To(s, step))
      OBVIOUS
    <2>3. /\ c \in Lanes /\ c.pc = step /\ c.page = lane[s].page /\ c.requests = lane[s].requests + 1
          /\ c.exhausted = lane[s].exhausted /\ c.errors = lane[s].errors
          /\ c.available = lane[s].available /\ c.calls = NoCalls
      BY <1>0, <2>1, <2>2, ToFacts, ChargedFacts
    <2> HIDE DEF step
    <2>4. PICK m : m = [c EXCEPT !.available = TRUE, !.page = c.page + 1]
      OBVIOUS
    <2>5. /\ m \in Lanes /\ m.pc = step /\ m.page = lane[s].page + 1 /\ m.requests = lane[s].requests + 1
          /\ m.exhausted = lane[s].exhausted /\ m.errors = lane[s].errors
          /\ m.available = TRUE /\ m.calls = NoCalls
      <3>1. /\ m.pc = c.pc /\ m.page = c.page + 1 /\ m.requests = c.requests /\ m.exhausted = c.exhausted
            /\ m.errors = c.errors /\ m.available = TRUE /\ m.calls = c.calls
        BY <2>3, <2>4 DEF Lanes
      <3>2. c.page + 1 \in Nat
        BY <2>3 DEF Lanes
      <3>3. m \in Lanes
        BY <2>3, <2>4, <3>2 DEF Lanes
      <3>4. QED BY <2>3, <3>1, <3>3
    <2>6. lane' = [lane EXCEPT ![s] = m]
      BY <1>1, <2>2, <2>4 DEF SearchAnswers, Lane, step
    <2>7. /\ m.requests + OpenOf(m.calls) <= RequestLimit /\ troubles' = troubles
      BY <1>0, <1>1, <2>5, RoomForAnswer DEF SearchAnswers
    <2>8. /\ lane[s].page \in Nat /\ Len(offers[s]) \in Nat
          /\ lane[s].page = 0 \/ lane[s].page < Len(offers[s])
      BY <1>0, LaneFacts DEF LaneOK, Placed, Lanes
    <2>9. Placed(m, offers[s])
      BY <2>5, <2>8 DEF Placed, AtRow, Steps, step
    <2>10. Suited(m, offers[s])
      BY <2>5 DEF Suited, AtRow, Steps, step
    <2>11. Examined(m, listed[s], offers[s])
      <3>1. SUFFICES ASSUME ~lane[s].errors, NEW i \in 1..Len(offers[s]),
                            i < m.page \/ (i = m.page /\ m.pc \in {"search", "turn", "done"})
                     PROVE  i <= lane[s].page
        BY <1>0, <2>5, <2>8, LaneFacts DEF LaneOK, Examined
      <3>2. CASE lane[s].page < Len(offers[s])
        BY <3>1, <3>2, <2>5, <2>8 DEF step
      <3>3. CASE ~(lane[s].page < Len(offers[s]))
        BY <3>3, <2>8
      <3>4. QED BY <3>2, <3>3
    <2>12. Excused(m, listed[s], offers[s], troubles)
      BY <2>5, LaneFacts DEF LaneOK, Excused, Disturbed, NoCalls, step
    <2>13. LaneOK(m, listed[s], offers[s], troubles, stands)
      BY <2>7, <2>9, <2>10, <2>11, <2>12, LaneFacts DEF LaneOK, Within
    <2>14. QED BY <1>0, <2>5, <2>6, <2>7, <2>13, LaneFacts, LaneMoves
  <1>2. CASE SearchFails(s)
    <2>1. "done" \in Steps /\ Lost(s, Blamed(To(s, "done")))
      BY <1>2 DEF Steps, SearchFails
    <2>a. PICK d, b : d = To(s, "done") /\ b = Blamed(d)
      OBVIOUS
    <2>b. /\ d \in Lanes /\ d.pc = "done" /\ d.page = lane[s].page /\ d.requests = lane[s].requests
          /\ d.exhausted = lane[s].exhausted /\ d.available = lane[s].available /\ d.calls = NoCalls
      BY <1>0, <2>1, <2>a, ToFacts
    <2>2. b = Blamed(To(s, "done"))
      BY <2>a
    <2>3. /\ b \in Lanes /\ b.pc = "done" /\ b.page = lane[s].page /\ b.requests = lane[s].requests
          /\ b.exhausted = lane[s].exhausted /\ b.errors = TRUE
          /\ b.available = lane[s].available /\ b.calls = NoCalls
      BY <2>a, <2>b, BlamedFacts
    <2>4. PICK m \in Lanes, u \in Nat :
           /\ lane' = [lane EXCEPT ![s] = m] /\ troubles' = u /\ troubles <= u
           /\ m.pc = b.pc /\ m.page = b.page /\ m.errors = b.errors /\ m.available = b.available
           /\ m.calls = NoCalls /\ b.exhausted \subseteq m.exhausted /\ Disturbed(m, u)
           /\ m.requests + OpenOf(m.calls) <= RequestLimit
      BY <1>0, <2>1, <2>2, <2>3, LostIsDisturbed
    <2>5. Placed(m, offers[s]) /\ Suited(m, offers[s]) /\ Examined(m, listed[s], offers[s])
      BY <2>3, <2>4 DEF Placed, Suited, Examined, AtRow, Steps
    <2>6. Excused(m, listed[s], offers[s], u)
      BY <2>4 DEF Excused
    <2>7. LaneOK(m, listed[s], offers[s], u, stands)
      BY <2>4, <2>5, <2>6, LaneFacts DEF LaneOK, Within
    <2>8. QED BY <1>0, <2>4, <2>7, LaneFacts, LaneMoves
  <1>3. QED BY <1>1, <1>2

\* The end of a row: the next row, the next search, or the end.
LEMMA TurningKeeps ==
  ASSUME NEW s, LaneAt(s), Turn(s)
  PROVE  DiscoveryInv'
  <1>0. /\ lane[s].pc = "turn" /\ listed' = [listed EXCEPT ![s] = listed[s]] /\ lane[s].calls = NoCalls
        /\ troubles \in Nat /\ troubles <= troubles
        /\ lane[s].page \in Nat /\ Len(offers[s]) \in Nat
    BY LaneFacts, CallsRest DEF Turn, LaneAt, DiscoveryInv, DiscoveryTypeOK, Lanes
  <1>1. ASSUME NEW m \in Lanes, NEW u \in Nat, lane' = [lane EXCEPT ![s] = m], troubles' = u, troubles <= u,
               m.pc \in {"done", "search"}, m.page = lane[s].page, m.requests = lane[s].requests,
               m.exhausted = lane[s].exhausted, lane[s].errors => m.errors, m.available = lane[s].available,
               m.calls = NoCalls,
               m.pc = "done" /\ ~m.errors => m.page >= Len(offers[s]),
               m.pc = "search" => m.page < Len(offers[s]),
               m.errors => lane[s].errors \/ Disturbed(m, u) \/ Len(offers[s]) > PageLimit
        PROVE  DiscoveryInv'
    <2>1. Placed(m, offers[s]) /\ Suited(m, offers[s])
      BY <1>1 DEF Placed, Suited, AtRow, Steps
    <2>2. Examined(m, listed[s], offers[s])
      BY <1>0, <1>1, LaneFacts DEF LaneOK, Examined, Lanes
    <2>3. \A i \in Parallel : m.calls[i] # "failed"
      BY <1>1 DEF NoCalls
    <2>4. Excused(m, listed[s], offers[s], u)
      BY <1>0, <1>1, <2>3, LaneFacts DEF LaneOK, Excused, Disturbed
    <2>5. m.requests + OpenOf(m.calls) <= RequestLimit
      BY <1>1, Resting
    <2>6. LaneOK(m, listed[s], offers[s], u, stands)
      BY <2>1, <2>2, <2>4, <2>5, LaneFacts DEF LaneOK, Within
    <2>7. QED BY <1>0, <1>1, <2>6, LaneFacts, LaneMoves
  <1>2. PICK d, e, f : d = To(s, "done") /\ e = Blamed(d) /\ f = To(s, "search")
    OBVIOUS
  <1>3. "done" \in Steps /\ "search" \in Steps
    BY DEF Steps
  <1>4. /\ d \in Lanes /\ d.pc = "done" /\ d.page = lane[s].page /\ d.requests = lane[s].requests
        /\ d.exhausted = lane[s].exhausted /\ d.errors = lane[s].errors
        /\ d.available = lane[s].available /\ d.calls = NoCalls
    BY <1>0, <1>2, <1>3, ToFacts
  <1>5. /\ e \in Lanes /\ e.pc = "done" /\ e.page = lane[s].page /\ e.requests = lane[s].requests
        /\ e.exhausted = lane[s].exhausted /\ e.errors = TRUE
        /\ e.available = lane[s].available /\ e.calls = NoCalls
    BY <1>2, <1>4, BlamedFacts
  <1>6. /\ f \in Lanes /\ f.pc = "search" /\ f.page = lane[s].page /\ f.requests = lane[s].requests
        /\ f.exhausted = lane[s].exhausted /\ f.errors = lane[s].errors
        /\ f.available = lane[s].available /\ f.calls = NoCalls
    BY <1>0, <1>2, <1>3, ToFacts
  <1>7. CASE ~(lane[s].page < Len(offers[s])) /\ Lane(s, d) /\ UNCHANGED troubles
    <2>1. d.page >= Len(offers[s])
      BY <1>0, <1>4, <1>7
    <2>2. lane' = [lane EXCEPT ![s] = d] /\ troubles' = troubles
      BY <1>7 DEF Lane
    <2>3. d.pc # "search" /\ d.pc \in {"done", "search"}
      BY <1>4
    <2>4. lane[s].errors => d.errors
      BY <1>4
    <2>5. d.errors => lane[s].errors
      BY <1>4
    <2>6. QED BY <1>0, <1>1, <1>4, <2>1, <2>2, <2>3, <2>4, <2>5
  <1>8. CASE /\ lane[s].page < Len(offers[s]) /\ lane[s].page = PageLimit /\ Lane(s, e) /\ UNCHANGED troubles
    BY <1>0, <1>1, <1>5, <1>8 DEF Lane
  <1>9. CASE troubles' = troubles + 1 /\ Lane(s, e)
    <2>1. troubles + 1 \in Nat /\ troubles <= troubles + 1 /\ Disturbed(e, troubles + 1)
      BY <1>0 DEF Disturbed
    <2>2. QED BY <1>1, <1>5, <1>9, <2>1 DEF Lane
  <1>10. CASE lane[s].page < Len(offers[s]) /\ Lane(s, f) /\ UNCHANGED troubles
    BY <1>0, <1>1, <1>6, <1>10 DEF Lane
  <1>11. QED BY <1>2, <1>7, <1>8, <1>9, <1>10 DEF Turn


\* The row's own reads.
LEMMA ReadingKeeps ==
  ASSUME NEW s, LaneAt(s),
         \/ ExamineOffer(s) \/ Observed(s) \/ Anchored(s) \/ ChainRead(s) \/ BlockRead(s)
         \/ ReadAgain(s) \/ CardRead(s) \/ Confirmed(s)
  PROVE  DiscoveryInv'
  <1>0. /\ lane[s].pc \in AtRow \ {"calls"} /\ Suited(lane[s], offers[s]) /\ Offered(s) \in Rowing
        /\ lane[s].calls = NoCalls
    <2>1. lane[s].pc \in {"row", "observe", "anchor", "chain", "block", "again", "card", "confirm"}
      BY DEF ExamineOffer, Observed, Anchored, ChainRead, BlockRead, ReadAgain, CardRead, Confirmed, Replied
    <2>2. lane[s].pc \in AtRow \ {"calls"}
      BY <2>1 DEF AtRow, Steps
    <2>3. QED BY <2>2, LaneFacts, CallsRest DEF LaneOK, Offered
  <1>1. ASSUME NEW step \in AtRow, Answered(s), Proceeds(s, step),
               step # "row" => Offered(s).kind \notin {"unknown", "unfit", "foreign"},
               step \notin {"row", "observe"} => Offered(s).kind \notin {"mismatch", "elsewhere", "later"},
               step \notin {"row", "observe", "anchor"} => Offered(s).kind # "orphan",
               step = "confirm" => Offered(s).kind = "good"
        PROVE  DiscoveryInv'
    <2>1. \A m \in Lanes : m.pc = step /\ m.page = lane[s].page => Suited(m, offers[s])
      BY <1>1 DEF Suited, Offered
    <2>2. QED BY <1>0, <1>1, <2>1, Proceeding
  <1>2. CASE ExamineOffer(s)
    <2>0. /\ lane[s].pc = "row" /\ UNCHANGED troubles /\ troubles \in Nat /\ troubles <= troubles
          /\ "turn" \in Steps /\ "observe" \in Steps
      BY <1>2, LaneFacts DEF ExamineOffer, Steps
    <2>1. PICK l, b, w : l = To(s, "turn") /\ b = Blamed(l) /\ w = To(s, "observe")
      OBVIOUS
    <2>2. /\ l \in Lanes /\ l.pc = "turn" /\ l.page = lane[s].page /\ l.requests = lane[s].requests
          /\ l.exhausted = lane[s].exhausted /\ l.errors = lane[s].errors
          /\ l.available = lane[s].available /\ l.calls = NoCalls
      BY <1>0, <2>0, <2>1, ToFacts
    <2>3. /\ b \in Lanes /\ b.pc = "turn" /\ b.page = lane[s].page /\ b.requests = lane[s].requests
          /\ b.exhausted = lane[s].exhausted /\ b.errors = TRUE
          /\ b.available = lane[s].available /\ b.calls = NoCalls
      BY <2>1, <2>2, BlamedFacts
    <2>4. /\ w \in Lanes /\ w.pc = "observe" /\ w.page = lane[s].page /\ w.requests = lane[s].requests
          /\ w.exhausted = lane[s].exhausted /\ w.errors = lane[s].errors
          /\ w.available = lane[s].available /\ w.calls = NoCalls
      BY <1>0, <2>0, <2>1, ToFacts
    <2>5. CASE Offered(s).kind = "unknown" /\ Lane(s, b) /\ UNCHANGED listed
      BY <1>0, <2>0, <2>3, <2>5, Blaming, Resting DEF Lane
    <2>6. CASE Offered(s).kind \in {"unfit", "foreign"} /\ Lane(s, l) /\ List(s, "rejected")
      BY <1>0, <2>0, <2>2, <2>6, Giving, Resting DEF Lane
    <2>7. CASE /\ Offered(s).kind \notin {"unknown", "unfit", "foreign"}
               /\ Lane(s, w) /\ UNCHANGED listed
      <3>1. Suited(w, offers[s]) /\ w.pc \in AtRow
        BY <2>4, <2>7 DEF Suited, Offered, AtRow, Steps
      <3>2. \A i \in Parallel : w.calls[i] # "failed"
        BY <2>4 DEF NoCalls
      <3>3. LaneOK(w, listed[s], offers[s], troubles, stands)
        BY <1>0, <2>0, <2>4, <3>1, <3>2, LaneFacts, RowGoesOn, Resting
      <3>4. lane' = [lane EXCEPT ![s] = w] /\ listed' = [listed EXCEPT ![s] = listed[s]]
        BY <2>7 DEF Lane, LaneAt, DiscoveryInv, DiscoveryTypeOK
      <3>5. QED BY <2>0, <2>4, <3>3, <3>4, LaneFacts, LaneMoves
    <2>8. QED BY <1>2, <2>1, <2>5, <2>6, <2>7 DEF ExamineOffer
  <1>3. CASE Observed(s)
    <2>0. /\ lane[s].pc = "observe" /\ Answered(s) /\ UNCHANGED troubles /\ troubles \in Nat /\ troubles <= troubles
          /\ "turn" \in Steps
      BY <1>3, LaneFacts DEF Observed, Steps, Answered
    <2>1. PICK d, l, b, w : d = To(s, "turn") /\ l = Charged(d) /\ b = Blamed(l) /\ w = [l EXCEPT !.pc = "anchor"]
      OBVIOUS
    <2>a. /\ d \in Lanes /\ d.pc = "turn" /\ d.page = lane[s].page /\ d.requests = lane[s].requests
          /\ d.exhausted = lane[s].exhausted /\ d.errors = lane[s].errors
          /\ d.available = lane[s].available /\ d.calls = NoCalls
      BY <1>0, <2>0, <2>1, ToFacts
    <2>2. /\ l \in Lanes /\ l.pc = "turn" /\ l.page = lane[s].page /\ l.requests = lane[s].requests + 1
          /\ l.exhausted = lane[s].exhausted /\ l.errors = lane[s].errors
          /\ l.available = lane[s].available /\ l.calls = NoCalls
      BY <2>a, <2>1, ChargedFacts
    <2>3. /\ b \in Lanes /\ b.pc = "turn" /\ b.page = lane[s].page /\ b.requests = lane[s].requests + 1
          /\ b.exhausted = lane[s].exhausted /\ b.errors = TRUE
          /\ b.available = lane[s].available /\ b.calls = NoCalls
      BY <2>1, <2>2, BlamedFacts
    <2>4. /\ w \in Lanes /\ w.pc = "anchor" /\ w.page = lane[s].page /\ w.requests = lane[s].requests + 1
          /\ w.exhausted = lane[s].exhausted /\ w.errors = lane[s].errors
          /\ w.available = lane[s].available /\ w.calls = NoCalls
      BY <2>2, <2>1 DEF Lanes, Steps
    <2>b. lane[s].requests + 1 + OpenOf(NoCalls) <= RequestLimit
      BY <1>0, <2>0, RoomForAnswer
    <2>5. CASE Offered(s).kind = "mismatch" /\ Lane(s, b) /\ UNCHANGED listed
      BY <1>0, <2>0, <2>3, <2>5, <2>b, Blaming DEF Lane
    <2>6. CASE Offered(s).kind \in {"elsewhere", "later"} /\ Lane(s, l) /\ List(s, "rejected")
      BY <1>0, <2>0, <2>2, <2>6, <2>b, Giving DEF Lane
    <2>7. CASE /\ Offered(s).kind \notin {"mismatch", "elsewhere", "later"}
               /\ Lane(s, w) /\ UNCHANGED listed
      <3>1. Suited(w, offers[s]) /\ w.pc \in AtRow
        BY <1>0, <2>0, <2>4, <2>7 DEF Suited, Offered, AtRow, Steps
      <3>2. \A i \in Parallel : w.calls[i] # "failed"
        BY <2>4 DEF NoCalls
      <3>3. LaneOK(w, listed[s], offers[s], troubles, stands)
        BY <1>0, <2>0, <2>b, <2>4, <3>1, <3>2, LaneFacts, RowGoesOn
      <3>4. lane' = [lane EXCEPT ![s] = w] /\ listed' = [listed EXCEPT ![s] = listed[s]]
        BY <2>7 DEF Lane, LaneAt, DiscoveryInv, DiscoveryTypeOK
      <3>5. QED BY <2>0, <2>4, <3>3, <3>4, LaneFacts, LaneMoves
    <2>8. QED BY <1>3, <2>1, <2>5, <2>6, <2>7 DEF Observed
  <1>4. CASE Anchored(s)
    <2>1. lane[s].pc = "anchor" /\ Answered(s) /\ "chain" \in AtRow
      BY <1>4 DEF Anchored, Replied, AtRow, Steps
    <2>2. CASE Offered(s).kind # "orphan" /\ Proceeds(s, "chain")
      BY <1>0, <1>1, <2>1, <2>2 DEF Suited, Offered, AtRow, Steps
    <2>3. CASE (Offered(s).kind = "orphan" \/ ~stands) /\ Settles(s, "rejected")
      BY <1>0, <2>1, <2>3, Settling
    <2>4. QED BY <1>4, <2>2, <2>3 DEF Anchored
  <1>5. CASE ChainRead(s)
    <2>1. lane[s].pc = "chain" /\ Answered(s) /\ "block" \in AtRow /\ Proceeds(s, "block")
      BY <1>5 DEF ChainRead, Replied, AtRow, Steps
    <2>2. QED BY <1>0, <1>1, <2>1 DEF Suited, Offered, AtRow, Steps
  <1>6. CASE BlockRead(s)
    <2>1. lane[s].pc = "block" /\ Answered(s) /\ "calls" \in AtRow /\ Proceeds(s, "calls")
      BY <1>6 DEF BlockRead, Replied, AtRow, Steps
    <2>2. QED BY <1>0, <1>1, <2>1 DEF Suited, Offered, AtRow, Steps
  <1>7. CASE ReadAgain(s)
    <2>1. lane[s].pc = "again" /\ Answered(s) /\ "card" \in AtRow
      BY <1>7 DEF ReadAgain, Replied, AtRow, Steps
    <2>2. CASE stands /\ Proceeds(s, "card")
      BY <1>0, <1>1, <2>1, <2>2 DEF Suited, Offered, AtRow, Steps
    <2>3. CASE ~stands /\ Settles(s, "rejected")
      BY <1>0, <2>1, <2>3, Settling
    <2>4. QED BY <1>7, <2>2, <2>3 DEF ReadAgain
  <1>8. CASE CardRead(s)
    <2>1. lane[s].pc = "card" /\ Answered(s) /\ "confirm" \in AtRow
      BY <1>8 DEF CardRead, Replied, AtRow, Steps
    <2>2. CASE Offered(s).kind # "false" /\ Proceeds(s, "confirm")
      <3>1. Offered(s).kind \notin {"unknown", "unfit", "foreign", "mismatch", "elsewhere", "later", "orphan", "false"}
        BY <1>0, <2>1, <2>2 DEF Suited, Offered, AtRow, Steps
      <3>2. Offered(s).kind = "good"
        BY <1>0, <3>1 DEF Rowing, Kinds
      <3>3. QED BY <1>1, <2>1, <2>2, <3>1, <3>2
    <2>3. CASE Offered(s).kind = "false" /\ Settles(s, "rejected")
      BY <1>0, <2>1, <2>3, Settling
    <2>4. QED BY <1>8, <2>2, <2>3 DEF CardRead
  <1>9. CASE Confirmed(s)
    <2>1. lane[s].pc = "confirm" /\ Answered(s) /\ Offered(s).kind = "good"
      BY <1>0, <1>9 DEF Confirmed, Replied, Suited, Offered
    <2>2. CASE stands /\ Settles(s, "verified")
      BY <1>0, <2>1, <2>2, Settling
    <2>3. CASE ~stands /\ Settles(s, "rejected")
      BY <1>0, <2>1, <2>3, Settling
    <2>4. QED BY <1>9, <2>2, <2>3 DEF Confirmed
  <1>10. QED BY <1>2, <1>3, <1>4, <1>5, <1>6, <1>7, <1>8, <1>9

\* A read of a row that is lost.
LEMMA LosingKeeps ==
  ASSUME NEW s, LaneAt(s), ObservationLost(s) \/ AgainLost(s) \/ CandidateLost(s)
  PROVE  DiscoveryInv'
  <1>1. lane[s].pc \in AtRow \ {"calls"} /\ "turn" \in Steps
    BY DEF ObservationLost, AgainLost, CandidateLost, AtRow, Steps
  <1>2. lane[s].calls = NoCalls
    BY <1>1, CallsRest
  <1>3. PICK d, b : d = To(s, "turn") /\ b = Blamed(d)
    OBVIOUS
  <1>4. /\ d \in Lanes /\ d.pc = "turn" /\ d.page = lane[s].page /\ d.requests = lane[s].requests
        /\ d.exhausted = lane[s].exhausted /\ d.errors = lane[s].errors
        /\ d.available = lane[s].available /\ d.calls = NoCalls
    BY <1>1, <1>2, <1>3, ToFacts
  <1>5. /\ b \in Lanes /\ b.pc = "turn" /\ b.page = lane[s].page /\ b.requests = lane[s].requests
        /\ b.exhausted = lane[s].exhausted /\ b.errors = TRUE
        /\ b.available = lane[s].available /\ b.calls = NoCalls
    BY <1>3, <1>4, BlamedFacts
  <1>6. CASE ObservationLost(s)
    <2>1. PICK m \in Lanes, u \in Nat :
           /\ lane' = [lane EXCEPT ![s] = m] /\ troubles' = u /\ troubles <= u
           /\ m.pc = b.pc /\ m.page = b.page /\ m.errors = b.errors /\ m.available = b.available
           /\ m.calls = NoCalls /\ b.exhausted \subseteq m.exhausted /\ Disturbed(m, u)
           /\ m.requests + OpenOf(m.calls) <= RequestLimit
      BY <1>2, <1>3, <1>5, <1>6, LostIsDisturbed DEF ObservationLost
    <2>2. m.errors /\ UNCHANGED listed
      BY <1>5, <1>6, <2>1 DEF ObservationLost
    <2>3. QED BY <1>1, <1>5, <2>1, <2>2, Blaming
  <1>7. CASE AgainLost(s) \/ CandidateLost(s)
    <2>1. PICK m \in Lanes, u \in Nat :
           /\ lane' = [lane EXCEPT ![s] = m] /\ troubles' = u /\ troubles <= u
           /\ m.pc = d.pc /\ m.page = d.page /\ m.errors = d.errors /\ m.available = d.available
           /\ m.calls = NoCalls /\ d.exhausted \subseteq m.exhausted /\ Disturbed(m, u)
           /\ m.requests + OpenOf(m.calls) <= RequestLimit
      BY <1>2, <1>3, <1>4, <1>7, LostIsDisturbed DEF AgainLost, CandidateLost
    <2>2. List(s, "unavailable")
      BY <1>7 DEF AgainLost, CandidateLost
    <2>3. QED BY <1>1, <1>4, <2>1, <2>2, Giving
  <1>8. QED BY <1>6, <1>7


\* A call that changes its state changes nothing else of the lane.
LEMMA CallFacts ==
  ASSUME NEW s, LaneAt(s), NEW i \in Parallel, NEW state \in CallStates
  PROVE  LET c == Call(s, i, state) IN
         /\ c \in Lanes /\ c.pc = lane[s].pc /\ c.page = lane[s].page /\ c.requests = lane[s].requests
         /\ c.exhausted = lane[s].exhausted /\ c.errors = lane[s].errors
         /\ c.available = lane[s].available /\ c.calls = [lane[s].calls EXCEPT ![i] = state]
  <1>1. PICK l \in Lanes : l = lane[s]
    BY LaneFacts
  <1>2. PICK k : k = [l.calls EXCEPT ![i] = state]
    OBVIOUS
  <1>3. k \in [Parallel -> CallStates]
    BY <1>2 DEF Lanes
  <1>4. PICK c : c = [l EXCEPT !.calls = k]
    OBVIOUS
  <1>5. /\ c \in Lanes /\ c.pc = l.pc /\ c.page = l.page /\ c.requests = l.requests
        /\ c.exhausted = l.exhausted /\ c.errors = l.errors
        /\ c.available = l.available /\ c.calls = k
    BY <1>3, <1>4 DEF Lanes
  <1>6. Call(s, i, state) = c
    BY <1>1, <1>2, <1>4 DEF Call
  <1>7. QED BY <1>1, <1>2, <1>5, <1>6

\* How many calls then wait.
LEMMA OpenOfCall ==
  ASSUME NEW c \in [Parallel -> CallStates], NEW i \in Parallel, NEW state \in CallStates,
         NEW k, k = [c EXCEPT ![i] = state]
  PROVE  /\ OpenOf(k) = OpenOf(c) - OneIf(c[i] = "open") + OneIf(state = "open")
         /\ \A j \in Parallel : k[j] = IF j = i THEN state ELSE c[j]
         /\ OpenOf(c) \in Nat /\ OpenOf(k) \in Nat
  BY DEF OpenOf, OneIf, Parallel

\* The two calls.
LEMMA CallingKeeps ==
  ASSUME NEW s, LaneAt(s), NEW i \in Parallel,
         OpenCall(s, i) \/ SendCall(s, i) \/ CallAnswered(s, i) \/ CallLost(s, i)
  PROVE  DiscoveryInv'
  <1>1. /\ lane[s].pc = "calls" /\ UNCHANGED listed /\ ~CallFailed(s)
        /\ troubles \in Nat /\ troubles <= troubles
        /\ lane[s].calls \in [Parallel -> CallStates] /\ lane[s].requests \in Nat /\ RequestLimit \in Nat
        /\ lane[s].requests + OpenOf(lane[s].calls) <= RequestLimit
        /\ lane[s].exhausted \subseteq Codes
    BY LaneFacts, DiscoveryAssumption
       DEF OpenCall, SendCall, CallAnswered, CallLost, Calling, Lanes, LaneOK, Within
  <1>2. ASSUME NEW state \in CallStates, NEW m \in Lanes, NEW u \in Nat, NEW c, c = Call(s, i, state),
               lane' = [lane EXCEPT ![s] = m], troubles' = u, troubles <= u,
               m.pc = c.pc, m.page = c.page, m.errors = c.errors, m.available = c.available, m.calls = c.calls,
               c.exhausted \subseteq m.exhausted,
               m.requests - lane[s].requests + OneIf(state = "open") <= OneIf(lane[s].calls[i] = "open")
                 \/ (m.requests = lane[s].requests /\ lane[s].calls[i] # "open"
                     /\ lane[s].requests + OpenOf(lane[s].calls) + 1 <= RequestLimit),
               state = "failed" => Disturbed(m, u)
        PROVE  DiscoveryInv'
    <2>1. /\ c.pc = lane[s].pc /\ c.page = lane[s].page /\ c.exhausted = lane[s].exhausted
          /\ c.errors = lane[s].errors /\ c.available = lane[s].available
          /\ c.calls = [lane[s].calls EXCEPT ![i] = state]
      BY <1>2, CallFacts
    <2>2. /\ OpenOf(c.calls) = OpenOf(lane[s].calls) - OneIf(lane[s].calls[i] = "open") + OneIf(state = "open")
          /\ \A j \in Parallel : c.calls[j] = IF j = i THEN state ELSE lane[s].calls[j]
          /\ OpenOf(lane[s].calls) \in Nat /\ OpenOf(c.calls) \in Nat
      BY <1>1, <2>1, OpenOfCall
    <2>3. m.requests + OpenOf(m.calls) <= RequestLimit
      <3>1. m.requests \in Nat
        BY <1>2 DEF Lanes
      <3>2. QED BY <1>1, <1>2, <2>2, <3>1 DEF OneIf
    <2>4. \A j \in Parallel : m.calls[j] = "failed" => Disturbed(m, u)
      BY <1>1, <1>2, <2>2 DEF CallFailed
    <2>5. QED BY <1>1, <1>2, <2>1, <2>3, <2>4, Dialing
  <1>3. CASE OpenCall(s, i)
    <2>1. /\ lane[s].calls[i] = "none" /\ troubles' = troubles
          /\ Lane(s, IF Refuses(s) THEN Call(s, i, "failed")
                     ELSE IF Full(s) THEN Exhausted(Call(s, i, "failed"), "request-budget")
                     ELSE Call(s, i, "open"))
      BY <1>3 DEF OpenCall
    <2>2. PICK c, k, e : c = Call(s, i, "failed") /\ k = Call(s, i, "open") /\ e = Exhausted(c, "request-budget")
      OBVIOUS
    <2>3. "failed" \in CallStates /\ "open" \in CallStates
      BY DEF CallStates
    <2>a. c = Call(s, i, "failed")
      BY <2>2
    <2>b. c \in Lanes /\ c.requests = lane[s].requests /\ c.exhausted = lane[s].exhausted
      <3>1. "failed" \in CallStates
        BY <2>3
      <3>2. QED BY <2>a, <3>1, CallFacts
    <2>c. k = Call(s, i, "open")
      BY <2>2
    <2>d. k \in Lanes /\ k.requests = lane[s].requests
      BY <2>c, <2>3, CallFacts
    <2>4. c \in Lanes /\ k \in Lanes /\ c.requests = lane[s].requests /\ k.requests = lane[s].requests
          /\ c.exhausted = lane[s].exhausted
      BY <2>b, <2>d
    <2>5. CASE Refuses(s)
      <3>1. lane' = [lane EXCEPT ![s] = c]
        BY <2>1, <2>2, <2>5 DEF Lane
      <3>2. Disturbed(c, troubles)
        BY <2>4, <2>5 DEF Refuses, Disturbed
      <3>3. c.requests - lane[s].requests + OneIf("failed" = "open") <= OneIf(lane[s].calls[i] = "open")
        BY <1>1, <2>1, <2>4 DEF OneIf
      <3>4. QED BY <1>1, <1>2, <2>1, <2>2, <2>3, <2>4, <3>1, <3>2, <3>3
    <2>6. CASE ~Refuses(s) /\ Full(s)
      <3>1. lane' = [lane EXCEPT ![s] = e]
        BY <2>1, <2>2, <2>6 DEF Lane
      <3>2. /\ e \in Lanes /\ e.pc = c.pc /\ e.page = c.page /\ e.errors = c.errors /\ e.available = c.available
            /\ e.calls = c.calls /\ c.exhausted \subseteq e.exhausted /\ e.requests = lane[s].requests
            /\ e.exhausted # {}
        BY <2>2, <2>4 DEF Exhausted, Lanes, Codes
      <3>3. Disturbed(e, troubles)
        BY <3>2 DEF Disturbed
      <3>4. e.requests - lane[s].requests + OneIf("failed" = "open") <= OneIf(lane[s].calls[i] = "open")
        BY <1>1, <2>1, <3>2 DEF OneIf
      <3>5. QED BY <1>1, <1>2, <2>1, <2>2, <2>3, <3>1, <3>2, <3>3, <3>4
    <2>7. CASE ~Refuses(s) /\ ~Full(s)
      <3>1. lane' = [lane EXCEPT ![s] = k]
        BY <2>1, <2>2, <2>7 DEF Lane
      <3>2. lane[s].requests + OpenOf(lane[s].calls) + 1 <= RequestLimit
        <4>1. ~(lane[s].requests + OpenOf(lane[s].calls) >= RequestLimit)
          BY <2>7, LaneFacts
        <4>2. OpenOf(lane[s].calls) \in Nat
          BY DEF OpenOf, OneIf
        <4>3. QED BY <1>1, <4>1, <4>2
      <3>3. QED BY <1>1, <1>2, <2>1, <2>2, <2>3, <2>4, <3>1, <3>2
    <2>8. QED BY <2>5, <2>6, <2>7
  <1>4. CASE SendCall(s, i)
    <2>1. /\ lane[s].calls[i] = "open" /\ troubles' = troubles
          /\ Lane(s, IF Refuses(s) THEN Call(s, i, "failed") ELSE Charged(Call(s, i, "sent")))
      BY <1>4 DEF SendCall
    <2>2. PICK c, k, e : c = Call(s, i, "failed") /\ k = Call(s, i, "sent") /\ e = Charged(k)
      OBVIOUS
    <2>3. "failed" \in CallStates /\ "sent" \in CallStates
      BY DEF CallStates
    <2>a. c = Call(s, i, "failed")
      BY <2>2
    <2>b. c \in Lanes /\ c.requests = lane[s].requests /\ c.exhausted = lane[s].exhausted
      <3>1. "failed" \in CallStates
        BY <2>3
      <3>2. QED BY <2>a, <3>1, CallFacts
    <2>c. k = Call(s, i, "sent")
      BY <2>2
    <2>d. k \in Lanes /\ k.requests = lane[s].requests
      BY <2>c, <2>3, CallFacts
    <2>4. c \in Lanes /\ k \in Lanes /\ c.requests = lane[s].requests /\ k.requests = lane[s].requests
          /\ c.exhausted = lane[s].exhausted
      BY <2>b, <2>d
    <2>5. CASE Refuses(s)
      <3>1. lane' = [lane EXCEPT ![s] = c]
        BY <2>1, <2>2, <2>5 DEF Lane
      <3>2. Disturbed(c, troubles)
        BY <2>4, <2>5 DEF Refuses, Disturbed
      <3>3. c.requests - lane[s].requests + OneIf("failed" = "open") <= OneIf(lane[s].calls[i] = "open")
        BY <1>1, <2>1, <2>4 DEF OneIf
      <3>4. QED BY <1>1, <1>2, <2>1, <2>2, <2>3, <2>4, <3>1, <3>2, <3>3
    <2>6. CASE ~Refuses(s)
      <3>1. lane' = [lane EXCEPT ![s] = e]
        BY <2>1, <2>2, <2>6 DEF Lane
      <3>2. /\ e \in Lanes /\ e.pc = k.pc /\ e.page = k.page /\ e.errors = k.errors /\ e.available = k.available
            /\ e.calls = k.calls /\ k.exhausted \subseteq e.exhausted /\ e.requests = lane[s].requests + 1
        BY <2>2, <2>4, ChargedFacts
      <3>3. e.requests - lane[s].requests + OneIf("sent" = "open") <= OneIf(lane[s].calls[i] = "open")
        BY <1>1, <2>1, <3>2 DEF OneIf
      <3>4. QED BY <1>1, <1>2, <2>1, <2>2, <2>3, <3>1, <3>2, <3>3
    <2>7. QED BY <2>5, <2>6
  <1>5. CASE CallAnswered(s, i)
    <2>1. lane[s].calls[i] = "sent" /\ troubles' = troubles /\ Lane(s, Call(s, i, "ok"))
      BY <1>5 DEF CallAnswered
    <2>2. PICK k : k = Call(s, i, "ok")
      OBVIOUS
    <2>3. "ok" \in CallStates
      BY DEF CallStates
    <2>4. k \in Lanes /\ k.requests = lane[s].requests /\ lane' = [lane EXCEPT ![s] = k]
      BY <2>1, <2>2, <2>3, CallFacts DEF Lane
    <2>5. k.requests - lane[s].requests + OneIf("ok" = "open") <= OneIf(lane[s].calls[i] = "open")
      BY <1>1, <2>1, <2>4 DEF OneIf
    <2>6. QED BY <1>1, <1>2, <2>1, <2>2, <2>3, <2>4, <2>5
  <1>6. CASE CallLost(s, i)
    <2>1. PICK c : c = Call(s, i, "failed")
      OBVIOUS
    <2>2. "failed" \in CallStates
      BY DEF CallStates
    <2>3. c \in Lanes /\ c.requests = lane[s].requests /\ c.exhausted = lane[s].exhausted
      BY <2>1, <2>2, CallFacts
    <2>4. lane[s].calls[i] = "sent"
      BY <1>6 DEF CallLost
    <2>5. CASE Aborted(s) /\ UNCHANGED troubles /\ Lane(s, c)
      <3>1. Disturbed(c, troubles)
        BY <2>3, <2>5 DEF Aborted, Disturbed
      <3>2. c.requests - lane[s].requests + OneIf("failed" = "open") <= OneIf(lane[s].calls[i] = "open")
        BY <1>1, <2>3, <2>4 DEF OneIf
      <3>3. lane' = [lane EXCEPT ![s] = c] /\ troubles' = troubles
        BY <2>5 DEF Lane
      <3>4. QED BY <1>1, <1>2, <2>1, <2>2, <2>3, <3>1, <3>2, <3>3
    <2>6. CASE Troubled(s, c)
      <3>1. PICK m : Lane(s, m) /\ m \in {c, Exhausted(c, "request-timeout"), Exhausted(c, "byte-budget")}
        BY <2>6 DEF Troubled
      <3>2. troubles' = troubles + 1
        BY <2>6 DEF Troubled
      <3>3. /\ m \in Lanes /\ m.pc = c.pc /\ m.page = c.page /\ m.errors = c.errors /\ m.available = c.available
            /\ m.calls = c.calls /\ c.exhausted \subseteq m.exhausted /\ m.requests = lane[s].requests
        BY <2>3, <3>1 DEF Exhausted, Lanes, Codes
      <3>4. Disturbed(m, troubles + 1) /\ troubles + 1 \in Nat /\ troubles <= troubles + 1
        BY <1>1 DEF Disturbed
      <3>5. m.requests - lane[s].requests + OneIf("failed" = "open") <= OneIf(lane[s].calls[i] = "open")
        BY <1>1, <2>4, <3>3 DEF OneIf
      <3>6. lane' = [lane EXCEPT ![s] = m]
        BY <3>1 DEF Lane
      <3>7. QED BY <1>1, <1>2, <2>1, <2>2, <3>2, <3>3, <3>4, <3>5, <3>6
    <2>7. QED BY <1>6, <2>1, <2>5, <2>6 DEF CallLost
  <1>7. QED BY <1>3, <1>4, <1>5, <1>6

\* The end of the calls.
LEMMA HangingUpKeeps ==
  ASSUME NEW s, LaneAt(s), CallsFail(s) \/ CallsReturn(s)
  PROVE  DiscoveryInv'
  <1>1. /\ lane[s].pc = "calls" /\ troubles' = troubles /\ troubles \in Nat /\ troubles <= troubles
        /\ lane[s].pc \in AtRow /\ lane[s] \in Lanes
    BY LaneFacts DEF CallsFail, CallsReturn, Calling, AtRow, Steps
  <1>2. NoCalls \in [Parallel -> CallStates]
    BY DEF NoCalls, CallStates
  <1>3. CASE CallsFail(s)
    <2>0. PICK l \in Lanes : l = lane[s]
      BY <1>1
    <2>1. PICK m : m = [l EXCEPT !.pc = "turn", !.calls = NoCalls]
      OBVIOUS
    <2>2. "turn" \in Steps
      BY DEF Steps
    <2>3. /\ m \in Lanes /\ m.pc = "turn" /\ m.page = lane[s].page /\ m.requests = lane[s].requests
          /\ m.exhausted = lane[s].exhausted /\ m.errors = lane[s].errors /\ m.available = lane[s].available
          /\ m.calls = NoCalls
      <3>1. /\ m.pc = "turn" /\ m.page = l.page /\ m.requests = l.requests
            /\ m.exhausted = l.exhausted /\ m.errors = l.errors /\ m.available = l.available
            /\ m.calls = NoCalls
        BY <2>1 DEF Lanes
      <3>2. m \in Lanes
        BY <1>2, <2>1, <2>2 DEF Lanes
      <3>3. QED BY <2>0, <3>1, <3>2
    <2>4. Disturbed(m, troubles)
      BY <1>3, <2>3, LaneFacts DEF CallsFail, CallFailed, LaneOK, Excused, Disturbed
    <2>5. lane' = [lane EXCEPT ![s] = m] /\ List(s, "unavailable")
      BY <1>3, <2>0, <2>1 DEF CallsFail, Lane
    <2>6. QED BY <1>1, <2>3, <2>4, <2>5, Giving, Resting
  <1>4. CASE CallsReturn(s)
    <2>0. PICK l \in Lanes : l = lane[s]
      BY <1>1
    <2>1. PICK m : m = [l EXCEPT !.pc = "again", !.calls = NoCalls]
      OBVIOUS
    <2>2. "again" \in Steps
      BY DEF Steps
    <2>3. /\ m \in Lanes /\ m.pc = "again" /\ m.page = lane[s].page /\ m.requests = lane[s].requests
          /\ m.exhausted = lane[s].exhausted /\ m.errors = lane[s].errors /\ m.available = lane[s].available
          /\ m.calls = NoCalls
      <3>1. /\ m.pc = "again" /\ m.page = l.page /\ m.requests = l.requests
            /\ m.exhausted = l.exhausted /\ m.errors = l.errors /\ m.available = l.available
            /\ m.calls = NoCalls
        BY <2>1 DEF Lanes
      <3>2. m \in Lanes
        BY <1>2, <2>1, <2>2 DEF Lanes
      <3>3. QED BY <2>0, <3>1, <3>2
    <2>4. lane' = [lane EXCEPT ![s] = m] /\ UNCHANGED listed
      BY <1>4, <2>0, <2>1 DEF CallsReturn, Calling, Lane
    <2>5. \A j \in Parallel : m.calls[j] # "failed"
      BY <2>3 DEF NoCalls
    <2>6. QED BY <1>1, <2>3, <2>4, <2>5, Dialing, Resting
  <1>5. QED BY <1>3, <1>4


--------------------------------------------------------------------------------
(* What is not a step of a lane. *)

\* The two Indexes offer finitely many agents.
LEMMA FewAgents ==
  ASSUME NEW s \in 1..2, offers \in Offers
  PROVE  LET G == {offers[s][i].agent : i \in 1..Len(offers[s])} IN
         IsFiniteSet(G) /\ G \subseteq STRING
  <1>1. offers[s] \in Seq(Rowing) /\ Len(offers[s]) \in Nat
    BY DEF Offers, Rowing
  <1>2. IsFiniteSet(1..Len(offers[s]))
    BY <1>1, FS_Interval
  <1>3. PICK G : G = {offers[s][i].agent : i \in 1..Len(offers[s])}
    OBVIOUS
  <1>4. PICK f : f = [i \in 1..Len(offers[s]) |-> offers[s][i].agent]
    OBVIOUS
  <1>5. f \in Surjection(1..Len(offers[s]), G)
    BY <1>3, <1>4 DEF Surjection
  <1>6. IsFiniteSet(G)
    BY <1>2, <1>5, FS_Surjection
  <1>7. \A i \in 1..Len(offers[s]) : offers[s][i] \in Rowing
    BY <1>1
  <1>8. QED BY <1>3, <1>6, <1>7 DEF Rowing

\* What both lanes verified is a finite set of agents.
LEMMA VerifiedIsFinite ==
  ASSUME DiscoveryTypeOK, \A s \in 1..2 : Truthful(listed[s], offers[s], stands)
  PROVE  IsFiniteSet(Verified) /\ Verified \subseteq STRING
  <1> DEFINE G(s) == {offers[s][i].agent : i \in 1..Len(offers[s])}
  <1>1. IsFiniteSet(G(1)) /\ IsFiniteSet(G(2)) /\ G(1) \subseteq STRING /\ G(2) \subseteq STRING
    BY FewAgents DEF DiscoveryTypeOK
  <1>2. Sides = 1..2
    BY DEF Sides, DiscoveryTypeOK, Offers
  <1>3. ASSUME NEW s \in 1..2
        PROVE  Agents(s, {c.row : c \in {x \in listed[s] : x.status = "verified"}}) \subseteq G(s)
    BY DEF Agents, Truthful
  <1>4. Verified \subseteq G(1) \cup G(2)
    BY <1>2, <1>3 DEF Verified
  <1>5. IsFiniteSet(G(1) \cup G(2))
    BY <1>1, FS_Union
  <1>6. IsFiniteSet(Verified)
    BY <1>4, <1>5, FS_Subset
  <1>7. QED BY <1>1, <1>4, <1>6

\* A shortlist that is not longer than the limit leaves nobody out.
LEMMA NobodyLeftOut ==
  ASSUME NEW E, IsFiniteSet(E), NEW chosen,
         chosen \in kSubset(Min({Cardinality(E), ShortlistLimit}), E)
  PROVE  /\ Cardinality(E) \in Nat /\ chosen \subseteq E
         /\ Cardinality(E) <= ShortlistLimit => chosen = E
  <1>1. Cardinality(E) \in Nat /\ ShortlistLimit \in Nat
    BY FS_CardinalityType, DiscoveryAssumption
  <1>2. chosen \subseteq E /\ Cardinality(chosen) = Min({Cardinality(E), ShortlistLimit})
    BY DEF kSubset
  <1>3. ASSUME Cardinality(E) <= ShortlistLimit
        PROVE  chosen = E
    <2>1. \A y \in {Cardinality(E), ShortlistLimit} : Cardinality(E) =< y
      BY <1>1, <1>3
    <2>2. \A x \in {Cardinality(E), ShortlistLimit} :
            (\A y \in {Cardinality(E), ShortlistLimit} : x =< y) => x = Cardinality(E)
      BY <1>1, <1>3
    <2>3. Min({Cardinality(E), ShortlistLimit}) = Cardinality(E)
      BY <2>1, <2>2 DEF Min
    <2>4. QED BY <1>2, <2>3, FS_Subset
  <1>4. QED BY <1>1, <1>2, <1>3


\* The deadline, the caller and a replaced block.
LEMMA StoppingKeeps ==
  ASSUME DiscoveryInv, Deadline \/ CallerCancels \/ ObservationReplaced
  PROVE  DiscoveryInv'
  <1>0. Sides = 1..2 /\ "deadline" \in Codes /\ "cancelled" \in Codes
    BY DEF DiscoveryInv, DiscoveryTypeOK, Offers, Sides, Codes
  <1>1. ASSUME NEW code \in Codes, StopAll(code), stage = "searching", UNCHANGED <<offers, stands, stage, listed, troubles, report>>,
               caller' \in {"waits", "cancelled"}
        PROVE  DiscoveryInv'
    <2>1. ASSUME NEW s \in 1..2
          PROVE  /\ Exhausted(lane[s], code) \in Lanes
                 /\ LaneOK(Exhausted(lane[s], code), listed[s], offers[s], troubles, stands)
      <3>1. /\ lane[s] \in Lanes /\ listed[s] \in Listings /\ offers[s] \in Seq(Rowing)
            /\ LaneOK(lane[s], listed[s], offers[s], troubles, stands) /\ troubles \in Nat /\ stands \in BOOLEAN
        BY <1>1 DEF DiscoveryInv, DiscoveryTypeOK, LanesOK, Offers, Rowing
      <3>2. QED BY <1>1, <3>1, LaneIsStopped
    <2>2. lane' = [s \in 1..2 |-> Exhausted(lane[s], code)]
      BY <1>0, <1>1 DEF StopAll
    <2>3. lane' \in [1..2 -> Lanes] /\ \A s \in 1..2 : lane'[s] = Exhausted(lane[s], code)
      BY <2>1, <2>2
    <2>4. DiscoveryTypeOK'
      BY <1>1, <2>3 DEF DiscoveryInv, DiscoveryTypeOK
    <2>5. LanesOK'
      BY <1>1, <2>1, <2>3 DEF LanesOK
    <2>6. Composed' /\ Refused'
      BY <1>1 DEF Composed, Refused
    <2>7. QED BY <2>4, <2>5, <2>6 DEF DiscoveryInv
  <1>2. CASE Deadline
    <2>1. StopAll("deadline") /\ stage = "searching" /\ UNCHANGED <<offers, stands, stage, listed, troubles, report>>
          /\ caller' = caller
      BY <1>2 DEF Deadline, Searching
    <2>2. QED BY <1>0, <1>1, <2>1 DEF DiscoveryInv, DiscoveryTypeOK
  <1>3. CASE CallerCancels
    <2>0. caller' = "cancelled" /\ UNCHANGED <<offers, stands, stage, listed, troubles, report>> /\ stage # "reported"
      BY <1>3 DEF CallerCancels
    <2>1. CASE stage = "searching"
      <3>1. StopAll("cancelled")
        BY <1>3, <2>1 DEF CallerCancels
      <3>2. QED BY <1>0, <1>1, <2>0, <2>1, <3>1
    <2>2. CASE stage # "searching"
      <3>1. UNCHANGED lane
        BY <1>3, <2>2 DEF CallerCancels
      <3>2. stage = "ranking"
        BY <2>0, <2>2 DEF DiscoveryInv, DiscoveryTypeOK
      <3>3. DiscoveryTypeOK'
        BY <2>0, <3>1 DEF DiscoveryInv, DiscoveryTypeOK
      <3>4. LanesOK'
        BY <2>0, <3>1, <3>2 DEF DiscoveryInv, LanesOK
      <3>5. Composed'
        <4>1. AllComplete' = AllComplete /\ AllSelected' = AllSelected
          BY <2>0 DEF AllComplete, AllSelected, Sides, Rows, Agents
        <4>2. QED BY <2>0, <3>2, <4>1 DEF DiscoveryInv, Composed
      <3>6. Refused'
        BY <2>0, <3>2 DEF Refused
      <3>7. QED BY <3>3, <3>4, <3>5, <3>6 DEF DiscoveryInv
    <2>3. QED BY <2>1, <2>2
  <1>4. CASE ObservationReplaced
    <2>1. stage = "searching" /\ stands' = FALSE /\ UNCHANGED <<offers, caller, stage, lane, listed, troubles, report>>
      BY <1>4 DEF ObservationReplaced
    <2>2. DiscoveryTypeOK'
      BY <2>1 DEF DiscoveryInv, DiscoveryTypeOK
    <2>3. ASSUME NEW s \in 1..2
          PROVE  LaneOK(lane[s], listed[s], offers[s], troubles, FALSE)
      BY <2>1, LaneIsOrphaned DEF DiscoveryInv, LanesOK
    <2>4. LanesOK'
      BY <2>1, <2>3 DEF LanesOK
    <2>5. Composed' /\ Refused'
      BY <2>1 DEF Composed, Refused
    <2>6. QED BY <2>2, <2>4, <2>5 DEF DiscoveryInv
  <1>5. QED BY <1>2, <1>3, <1>4

\* Every row of a lane that is done without errors, and was not stopped, is listed.
LEMMA DisposingKeeps ==
  ASSUME DiscoveryInv, Disposes
  PROVE  DiscoveryInv'
  <1>0. /\ stage = "searching" /\ stage' = "ranking" /\ UNCHANGED <<offers, stands, caller, lane, listed, troubles>>
        /\ Sides = 1..2
    BY DEF Disposes, DiscoveryInv, DiscoveryTypeOK, Offers, Sides
  <1>1. ASSUME NEW s \in 1..2
        PROVE  /\ lane[s].pc = "done" /\ lane[s] \in Lanes /\ offers[s] \in Seq(Rowing)
               /\ Len(offers[s]) \in Nat /\ Rows(s) = 1..Len(offers[s])
               /\ LaneOK(lane[s], listed[s], offers[s], troubles, stands)
               /\ listed[s] \in Listings
    BY <1>0 DEF Disposes, DiscoveryInv, DiscoveryTypeOK, LanesOK, Offers, Rowing, Rows
  <1>2. PICK E : E = IF caller = "cancelled" THEN {} ELSE Verified
    OBVIOUS
  <1>3. PICK chosen \in kSubset(Min({Cardinality(E), ShortlistLimit}), E) :
          report' = [report EXCEPT !.selected = chosen, !.eligible = Cardinality(E),
                                   !.origins = [s \in Sides |-> OriginStatus(s)]]
    BY <1>2 DEF Disposes
  <1>4. IsFiniteSet(E)
    <2>1. \A s \in 1..2 : Truthful(listed[s], offers[s], stands)
      BY <1>1 DEF LaneOK
    <2>2. QED BY <1>2, <2>1, VerifiedIsFinite, FS_EmptySet DEF DiscoveryInv
  <1>5. /\ Cardinality(E) \in Nat /\ chosen \subseteq E
        /\ Cardinality(E) <= ShortlistLimit => chosen = E
    BY <1>4, <1>3, NobodyLeftOut
  <1>6. PICK ori : ori = [s \in Sides |-> OriginStatus(s)]
    OBVIOUS
  <1>7. DiscoveryTypeOK'
    BY <1>0 DEF DiscoveryInv, DiscoveryTypeOK
  <1>8. LanesOK'
    BY <1>0 DEF DiscoveryInv, LanesOK
  <1>9. Refused'
    BY <1>0 DEF Refused
  <1>10. report'.selected = chosen /\ report'.eligible = Cardinality(E) /\ report'.origins = ori
    BY <1>3, <1>6 DEF DiscoveryInv, DiscoveryTypeOK
  <1>11. AllComplete' <=> \A s \in 1..2 : OriginStatus(s) = "complete"
    BY <1>0, <1>6, <1>10 DEF AllComplete, Sides
  <1>12. ASSUME AllComplete', report'.eligible <= ShortlistLimit
         PROVE  AllSelected'
    <2>1. ASSUME NEW s \in 1..2
          PROVE  /\ caller # "cancelled" /\ ~lane[s].errors /\ lane[s].exhausted = {}
                 /\ \A c \in listed[s] : c.status = "verified" \/ offers[s][c.row].kind = "unfit"
      BY <1>11, <1>12 DEF OriginStatus
    <2>2. ASSUME NEW s \in 1..2, NEW i \in Rows(s)
          PROVE  \E c \in listed[s] : c.row = i
      <3>1. lane[s].page >= Len(offers[s]) /\ lane[s].page \in Nat
        BY <1>1, <2>1 DEF LaneOK, Placed, Lanes
      <3>2. i < lane[s].page \/ i = lane[s].page
        BY <3>1, <1>1, <2>2
      <3>3. QED BY <1>1, <2>1, <2>2, <3>2 DEF LaneOK, Examined
    <2>3. ASSUME NEW s \in 1..2, NEW c \in listed[s]
          PROVE  /\ c.row \in Rows(s)
                 /\ c.status = "verified" => offers[s][c.row].kind = "good"
      BY <1>1 DEF LaneOK, Truthful
    <2>4. ASSUME NEW s \in 1..2, NEW i \in Rows(s)
          PROVE  offers[s][i].kind \in {"good", "unfit"}
      BY <2>1, <2>2, <2>3
    <2>5. ASSUME NEW s \in 1..2
          PROVE  {c.row : c \in {x \in listed[s] : x.status = "verified"}}
                   = {i \in Rows(s) : offers[s][i].kind = "good"}
      <3>1. ASSUME NEW i \in Rows(s), offers[s][i].kind = "good"
            PROVE  \E c \in listed[s] : c.status = "verified" /\ c.row = i
        BY <2>1, <2>2, <3>1
      <3>2. ASSUME NEW c \in listed[s], c.status = "verified"
            PROVE  c.row \in Rows(s) /\ offers[s][c.row].kind = "good"
        BY <2>3, <3>2
      <3>a. \A i \in {c.row : c \in {x \in listed[s] : x.status = "verified"}} :
              \E c \in listed[s] : c.status = "verified" /\ c.row = i
        OBVIOUS
      <3>b. \A i : i \in {c.row : c \in {x \in listed[s] : x.status = "verified"}}
              <=> i \in {j \in Rows(s) : offers[s][j].kind = "good"}
        BY <3>1, <3>2, <3>a
      <3>3. QED BY <3>b
    <2>6. Verified = UNION {Agents(s, {i \in Rows(s) : offers[s][i].kind = "good"}) : s \in 1..2}
      <3> DEFINE F(s) == Agents(s, {c.row : c \in {x \in listed[s] : x.status = "verified"}})
                 G(s) == Agents(s, {i \in Rows(s) : offers[s][i].kind = "good"})
      <3>1. \A s \in 1..2 : F(s) = G(s)
        BY <2>5
      <3>2. Verified = UNION {F(s) : s \in 1..2}
        BY <1>0 DEF Verified
      <3> HIDE DEF F, G
      <3>3. UNION {F(s) : s \in 1..2} = UNION {G(s) : s \in 1..2}
        BY <3>1
      <3>4. QED BY <3>2, <3>3 DEF G
    <2>7. chosen = Verified
      BY <1>2, <1>5, <1>10, <1>12, <2>1
    <2>8. QED BY <1>0, <1>10, <2>4, <2>6, <2>7 DEF AllSelected, Sides, Rows, Agents
  <1>13. ASSUME caller' = "waits", Undisturbed'
         PROVE  AllComplete'
    <2>1. ASSUME NEW s \in 1..2
          PROVE  OriginStatus(s) = "complete"
      <3>1. /\ stands /\ troubles = 0 /\ caller = "waits" /\ lane[s].exhausted = {} /\ Len(offers[s]) <= PageLimit
            /\ \A i \in Rows(s) : offers[s][i].kind \in {"good", "unfit"}
        BY <1>0, <1>13 DEF Undisturbed, Sides, Rows
      <3>2. ~Disturbed(lane[s], troubles)
        BY <3>1 DEF Disturbed
      <3>3. lane[s].available
        BY <1>1, <3>2 DEF LaneOK, Excused
      <3>4. ~lane[s].errors
        <4>1. PageLimit \in Nat
          BY DiscoveryAssumption
        <4>2. ~(Len(offers[s]) > PageLimit)
          BY <1>1, <3>1, <4>1
        <4>3. QED BY <1>1, <3>1, <3>2, <4>2 DEF LaneOK, Excused
      <3>5. ASSUME NEW c \in listed[s], c.status # "verified"
            PROVE  offers[s][c.row].kind = "unfit"
        <4>1. c.status = "rejected"
          BY <1>1, <3>2, <3>5 DEF LaneOK, Excused, Listings
        <4>2. QED BY <1>1, <3>1, <4>1 DEF LaneOK, Truthful
      <3>6. QED BY <3>1, <3>3, <3>4, <3>5 DEF OriginStatus
    <2>2. QED BY <1>11, <2>1
  <1>14. Composed'
    BY <1>0, <1>5, <1>10, <1>12, <1>13 DEF Composed
  <1>15. QED BY <1>7, <1>8, <1>9, <1>14 DEF DiscoveryInv

\* The report, or nothing for a caller that has left.
LEMMA ReportingKeeps ==
  ASSUME DiscoveryInv, Reports
  PROVE  DiscoveryInv'
  <1>0. /\ stage = "ranking" /\ stage' = "reported" /\ UNCHANGED <<offers, stands, caller, lane, troubles>>
        /\ Sides = 1..2 /\ caller \in {"waits", "cancelled"}
    BY DEF Reports, DiscoveryInv, DiscoveryTypeOK, Offers, Sides
  <1>1. CASE caller = "waits"
    <2>1. UNCHANGED listed /\ report' = [report EXCEPT !.status = Overall]
      BY <1>1 DEF Reports
    <2>2. PICK o : o = Overall
      OBVIOUS
    <2>3. /\ report'.selected = report.selected /\ report'.eligible = report.eligible
          /\ report'.origins = report.origins /\ report'.status = o
      BY <2>1, <2>2 DEF DiscoveryInv, DiscoveryTypeOK
    <2>4. DiscoveryTypeOK'
      BY <1>0, <2>1, <2>3 DEF DiscoveryInv, DiscoveryTypeOK
    <2>5. LanesOK'
      BY <1>0, <1>1, <2>1 DEF DiscoveryInv, LanesOK
    <2>a. AllComplete' <=> AllComplete
      BY <1>0, <2>3 DEF AllComplete, Sides
    <2>b. AllSelected' <=> AllSelected
      BY <1>0, <2>3 DEF AllSelected, Sides, Rows, Agents
    <2>c. Overall' = Overall
      BY <1>0, <2>3 DEF Overall, Sides
    <2>d. Undisturbed' <=> Undisturbed
      BY <1>0 DEF Undisturbed, Sides, Rows
    <2>6. /\ (AllComplete' <=> AllComplete) /\ (AllSelected' <=> AllSelected) /\ Overall' = Overall
          /\ (Undisturbed' <=> Undisturbed)
      BY <2>a, <2>b, <2>c, <2>d
    <2>7. Composed'
      BY <1>0, <1>1, <2>2, <2>3, <2>6 DEF DiscoveryInv, Composed
    <2>8. Refused'
      BY <1>0, <1>1 DEF Refused
    <2>9. QED BY <2>4, <2>5, <2>7, <2>8 DEF DiscoveryInv
  <1>2. CASE caller = "cancelled"
    <2>1. /\ report'.selected = {} /\ report'.status = "unavailable"
          /\ listed' = [s \in 1..2 |-> {IF c.status = "verified" THEN [c EXCEPT !.status = "unavailable"] ELSE c :
                                         c \in listed[s]}]
      BY <1>0, <1>2 DEF Reports
    <2>2. ASSUME NEW s \in 1..2
          PROVE  /\ listed'[s] \in Listings /\ Truthful(listed'[s], offers[s], stands)
                 /\ \A c \in listed'[s] : c.status # "verified"
      <3>1. Truthful(listed[s], offers[s], stands) /\ listed[s] \in Listings
        BY <1>0 DEF DiscoveryInv, DiscoveryTypeOK, LanesOK, LaneOK
      <3>2. ASSUME NEW d \in listed'[s]
            PROVE  /\ d \in [row : Nat, status : {"rejected", "unavailable"}]
                   /\ \E c \in listed[s] : c.row = d.row /\ (d.status = "rejected" => c.status = "rejected")
        <4>1. PICK c \in listed[s] : d = IF c.status = "verified" THEN [c EXCEPT !.status = "unavailable"] ELSE c
          BY <2>1
        <4>2. c \in [row : Nat, status : {"verified", "rejected", "unavailable"}]
          BY <3>1, <4>1 DEF Listings
        <4>3. CASE c.status = "verified"
          BY <4>1, <4>2, <4>3
        <4>4. CASE c.status # "verified"
          BY <4>1, <4>2, <4>4
        <4>5. QED BY <4>3, <4>4
      <3>3. listed'[s] \in Listings
        BY <3>2 DEF Listings
      <3>4. QED BY <3>1, <3>2, <3>3 DEF Truthful
    <2>3. DiscoveryTypeOK'
      BY <1>0, <2>1, <2>2 DEF DiscoveryInv, DiscoveryTypeOK
    <2>4. \A s \in 1..2 : Within(lane[s]) /\ Placed(lane[s], offers[s])
      BY <1>0 DEF DiscoveryInv, LanesOK, LaneOK
    <2>5. LanesOK'
      BY <1>0, <1>2, <2>2, <2>4 DEF LanesOK
    <2>6. Composed' /\ Refused'
      BY <1>0, <1>2, <2>1 DEF Composed, Refused
    <2>7. QED BY <2>3, <2>5, <2>6 DEF DiscoveryInv
  <1>3. QED BY <1>0, <1>1, <1>2

\* A discovery starts with nothing read.
LEMMA DiscoveryStarts ==
  ASSUME offers \in Offers, DiscoveryStart
  PROVE  DiscoveryInv
  <1>1. Sides = 1..2 /\ RequestLimit \in Nat
    BY DiscoveryAssumption DEF Offers, Sides
  <1>2. /\ FirstLane \in Lanes /\ FirstLane.pc = "search" /\ FirstLane.page = 0 /\ FirstLane.requests = 0
        /\ FirstLane.calls = NoCalls /\ FirstLane.errors = FALSE
    BY DEF FirstLane, Lanes, Steps, NoCalls, CallStates
  <1>3. ASSUME NEW s \in 1..2
        PROVE  lane[s] = FirstLane /\ listed[s] = {} /\ LaneOK(FirstLane, {}, offers[s], 0, TRUE)
    <2>1. lane[s] = FirstLane /\ listed[s] = {} /\ Len(offers[s]) \in Nat
      BY <1>1 DEF DiscoveryStart, Offers
    <2>2. Placed(FirstLane, offers[s]) /\ Suited(FirstLane, offers[s])
      BY <1>2 DEF Placed, Suited, AtRow
    <2>3. Examined(FirstLane, {}, offers[s]) /\ Truthful({}, offers[s], TRUE)
      BY <1>2, <2>1 DEF Examined, Truthful
    <2>4. Excused(FirstLane, {}, offers[s], 0)
      BY <1>2 DEF Excused, NoCalls
    <2>5. Within(FirstLane)
      BY <1>1, <1>2 DEF Within, OpenOf, OneIf, NoCalls, Parallel
    <2>6. QED BY <2>1, <2>2, <2>3, <2>4, <2>5 DEF LaneOK
  <1>4. /\ stage = "searching" /\ stands = TRUE /\ troubles = 0 /\ caller = "waits"
    BY DEF DiscoveryStart
  <1>5. DiscoveryTypeOK
    BY <1>1, <1>2, <1>4 DEF DiscoveryTypeOK, DiscoveryStart, Listings
  <1>6. LanesOK
    BY <1>3, <1>4 DEF LanesOK
  <1>7. Composed /\ Refused
    BY <1>4 DEF Composed, Refused
  <1>8. QED BY <1>5, <1>6, <1>7 DEF DiscoveryInv

\* Every step of the discovery keeps the invariant.
LEMMA DiscoverySteps ==
  ASSUME DiscoveryInv, [DiscoveryNext]_discoveryVars
  PROVE  DiscoveryInv'
  <1>0. Sides = 1..2
    BY DEF DiscoveryInv, DiscoveryTypeOK, Offers, Sides
  <1>1. CASE UNCHANGED discoveryVars
    <2>1. /\ UNCHANGED offers /\ UNCHANGED stands /\ UNCHANGED caller /\ UNCHANGED stage /\ UNCHANGED lane
          /\ UNCHANGED listed /\ UNCHANGED troubles /\ UNCHANGED report
      BY <1>1 DEF discoveryVars
    <2>2. DiscoveryTypeOK' /\ LanesOK' /\ Refused'
      BY <2>1 DEF DiscoveryInv, DiscoveryTypeOK, LanesOK, Refused
    <2>3. Composed'
      BY <2>1 DEF DiscoveryInv, Composed, AllComplete, AllSelected, Overall, Undisturbed, Sides, Rows, Agents
    <2>4. QED BY <2>2, <2>3 DEF DiscoveryInv
  <1>2. ASSUME NEW s \in Sides,
               \/ SearchAnswers(s) \/ SearchFails(s) \/ ExamineOffer(s) \/ Observed(s)
               \/ ObservationLost(s) \/ Turn(s)
               \/ Anchored(s) \/ ChainRead(s) \/ BlockRead(s) \/ CallsFail(s) \/ CallsReturn(s)
               \/ ReadAgain(s) \/ AgainLost(s) \/ CardRead(s) \/ Confirmed(s) \/ CandidateLost(s)
        PROVE  DiscoveryInv'
    <2>1. LaneAt(s)
      BY <1>0, <1>2 DEF LaneAt, SearchAnswers, SearchFails, ExamineOffer, Observed, ObservationLost, Turn, Anchored,
                        ChainRead, BlockRead, CallsFail, CallsReturn, ReadAgain, AgainLost, CardRead, Confirmed,
                        CandidateLost, Replied, Calling
    <2>2. QED BY <1>2, <2>1, SearchingKeeps, TurningKeeps, ReadingKeeps, LosingKeeps, HangingUpKeeps
  <1>3. ASSUME NEW s \in Sides, NEW i \in Parallel,
               OpenCall(s, i) \/ SendCall(s, i) \/ CallAnswered(s, i) \/ CallLost(s, i)
        PROVE  DiscoveryInv'
    <2>1. LaneAt(s)
      BY <1>0, <1>3 DEF LaneAt, OpenCall, SendCall, CallAnswered, CallLost, Calling
    <2>2. QED BY <1>3, <2>1, CallingKeeps
  <1>4. QED BY <1>1, <1>2, <1>3, StoppingKeeps, DisposingKeeps, ReportingKeeps DEF DiscoveryNext

\* The invariant, by induction over the steps.
LEMMA DiscoveryInvariance == DiscoverySpec => []DiscoveryInv
  <1>1. offers \in Offers /\ DiscoveryStart => DiscoveryInv
    BY DiscoveryStarts
  <1>2. DiscoveryInv /\ [DiscoveryNext]_discoveryVars => DiscoveryInv'
    BY DiscoverySteps
  <1>3. QED BY <1>1, <1>2, PTL DEF DiscoverySpec

\* No lane sends more requests than its reservation, those that wait included
\* (RankedDiscovery.DiscoveryBudget).
THEOREM DiscoveryBudgetHolds == DiscoverySpec => []DiscoveryBudget
  <1>1. ASSUME DiscoveryInv
        PROVE  DiscoveryBudget
    <2>1. Sides = 1..2
      BY <1>1 DEF DiscoveryInv, DiscoveryTypeOK, Offers, Sides
    <2>2. ASSUME NEW s \in 1..2
          PROVE  Within(lane[s]) /\ lane[s].calls \in [Parallel -> CallStates]
      BY <1>1 DEF DiscoveryInv, DiscoveryTypeOK, LanesOK, LaneOK, Lanes
    <2>3. QED BY <2>1, <2>2, Undispatching DEF DiscoveryBudget, Undispatched, Within
  <1>2. QED BY <1>1, DiscoveryInvariance, PTL

\* What a discovery reports is so, and a discovery that nothing disturbed is complete
\* (RankedDiscovery.DiscoveryHolds).
THEOREM DiscoveryIsComplete == DiscoverySpec => []DiscoveryHolds
  <1>1. ASSUME DiscoveryInv
        PROVE  DiscoveryHolds
    <2>0. Sides = 1..2 /\ caller \in {"waits", "cancelled"}
      BY <1>1 DEF DiscoveryInv, DiscoveryTypeOK, Offers, Sides
    <2>1. CancelledGetsNothing
      BY <1>1, <2>0 DEF CancelledGetsNothing, Reported, DiscoveryInv, Refused, LanesOK
    <2>2. RightIsNotRejected
      BY <1>1, <2>0 DEF RightIsNotRejected, DiscoveryInv, LanesOK, LaneOK, Truthful
    <2>3. ASSUME Reported, report.status = "complete"
          PROVE  AllComplete /\ report.eligible <= ShortlistLimit /\ caller = "waits"
      <3>1. caller = "waits"
        BY <1>1, <2>0, <2>3 DEF Reported, DiscoveryInv, Refused
      <3>2. Overall = "complete" /\ report.eligible \in Nat
        BY <1>1, <2>3, <3>1 DEF Reported, DiscoveryInv, Composed
      <3>3. ~(report.eligible > ShortlistLimit) /\ AllComplete
        BY <3>2 DEF Overall, AllComplete
      <3>4. QED BY <3>1, <3>2, <3>3, DiscoveryAssumption
    <2>4. CompleteIsAll
      BY <1>1, <2>3 DEF CompleteIsAll, Reported, DiscoveryInv, Composed, AllSelected
    <2>5. UndisturbedIsComplete
      <3>1. SUFFICES ASSUME Reported, stands, caller = "waits", troubles = 0, report.eligible <= ShortlistLimit,
                            \A s \in Sides : /\ lane[s].exhausted = {} /\ Len(offers[s]) <= PageLimit
                                             /\ \A i \in Rows(s) : offers[s][i].kind \in {"good", "unfit"}
                     PROVE  report.status = "complete"
        BY DEF UndisturbedIsComplete
      <3>2. AllComplete /\ report.status = Overall /\ report.eligible \in Nat
        BY <1>1, <3>1 DEF Reported, DiscoveryInv, Composed, Undisturbed
      <3>3. ~(report.eligible > ShortlistLimit)
        BY <3>1, <3>2, DiscoveryAssumption
      <3>4. QED BY <2>0, <3>2, <3>3 DEF Overall, AllComplete
    <2>6. QED BY <2>1, <2>2, <2>4, <2>5 DEF DiscoveryHolds
  <1>2. QED BY <1>1, DiscoveryInvariance, PTL
================================================================================
