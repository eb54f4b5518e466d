------------------------------ MODULE RankingProofs ------------------------------
(***************************************************************************)
(* Theorems about a ranking, for every value of the constants: its read     *)
(* budget, for any requests, reservations, permits and chunks; its          *)
(* coverage, for any publications, pairs and limits, whatever the Indexes   *)
(* answer and whenever the observation is replaced; and what it says of a   *)
(* service, for any documents, bundles, revocations and reads that fail.    *)
(*                                                                         *)
(* A coverage is complete because its counters, read while the observation  *)
(* stood, are those of the chain, what is authenticated is of its pair, and *)
(* the last look finds the observation standing, so that it stood at every  *)
(* read before.  Two workers accuse nobody because a slot with the number   *)
(* of a publication is that publication, and Settle looks it up again.      *)
(*                                                                         *)
(* A qualified score is true because no review is missing or misplaced by a *)
(* bundle that it did not commit to, an anchor that                         *)
(* is understood is a document with its own bundle at its first publication *)
(* (an earlier one would be compared as well, and be the anchor), and every *)
(* document that counts has an anchor.  So the anchors are those documents, *)
(* and the latest of a pair, its retirement and its verdict are theirs.     *)
(***************************************************************************)
EXTENDS RankingBudget, Coverage, RankingEvidence, FiniteSetTheorems, SequenceTheorems,
        WellFoundedInduction, TLAPS

--------------------------------------------------------------------------------
(* The read budget: its inductive invariant.                               *)

\* Only an exchange pays, and it is open until its lease is closed.
PaidAreOpen == \A r \in dispatched : request[r] \in {"reading", "closing"}

\* A request waits once in the queue, and only while it is queued.
QueueIsQueued ==
  /\ \A i \in 1..Len(queue) : request[queue[i]] = "queued"
  /\ \A i, j \in 1..Len(queue) : queue[i] = queue[j] => i = j

\* Reservations and LanesIsolated, separately for calls and bytes.
CallsFit == \A l \in Lanes : calls[l] + Cardinality(Pending(l)) <= CallLimit[l]
BytesFit == \A p \in Pools : bytes[p] <= ByteLimit[p]
CallsStopped == \A l \in Lanes : <<l, "calls">> \in stopped => calls[l] = CallLimit[l]
BytesStopped == \A p \in Pools : p \in stopped => bytes[p] + MaxChunk > ByteLimit[p]

\* The pump that follows dispose stays at the head of the queue until it is empty,
\* and afterwards nothing is queued.
Settling ==
  /\ disposal = "stopping" => scan = 1
  /\ disposal \in {"draining", "done"} => queue = <<>> /\ scan \in {0, 1}
  /\ disposal = "done" => Active = {}

IInv == /\ TypeOK /\ PaidAreOpen /\ QueueIsQueued /\ CallsFit /\ BytesFit
        /\ CallsStopped /\ BytesStopped /\ Settling

Step(r) == Open(r) \/ Cancel(r) \/ Dispatch(r) \/ Read(r) \/ Abort(r) \/ Ends(r) \/ Close(r)

--------------------------------------------------------------------------------
(* Type correctness.                                                       *)

\* Removing an element of a sequence leaves the other elements in their order.
LEMMA RemoveAtType ==
  ASSUME NEW S, NEW s \in Seq(S), NEW i \in 1..Len(s)
  PROVE  /\ RemoveAt(s, i) \in Seq(S)
         /\ Len(RemoveAt(s, i)) = Len(s) - 1
         /\ \A j \in 1..Len(s) - 1 :
              RemoveAt(s, i)[j] = IF j < i THEN s[j] ELSE s[j + 1]
<1> DEFINE before == SubSeq(s, 1, i - 1)
           after == SubSeq(s, i + 1, Len(s))
<1>1. Len(s) \in Nat /\ \A j \in 1..Len(s) : s[j] \in S
  BY ElementOfSeq, LenProperties
<1>2. /\ before \in Seq(S) /\ Len(before) = i - 1
      /\ \A j \in 1..i - 1 : before[j] = s[j]
  <2>1. \A j \in 1..i - 1 : s[j] \in S
    BY <1>1
  <2>2. /\ before \in Seq(S) /\ Len(before) = IF 1 <= i - 1 THEN i - 1 - 1 + 1 ELSE 0
        /\ \A j \in 1..i - 1 - 1 + 1 : before[j] = s[1 + j - 1]
    BY <2>1, SubSeqProperties
  <2> HIDE DEF before
  <2> QED BY <1>1, <2>2
<1>3. /\ after \in Seq(S) /\ Len(after) = Len(s) - i
      /\ \A j \in 1..Len(s) - i : after[j] = s[i + j]
  <2>1. \A j \in i + 1..Len(s) : s[j] \in S
    BY <1>1
  <2>2. /\ after \in Seq(S)
        /\ Len(after) = IF i + 1 <= Len(s) THEN Len(s) - (i + 1) + 1 ELSE 0
        /\ \A j \in 1..Len(s) - (i + 1) + 1 : after[j] = s[i + 1 + j - 1]
    BY <1>1, <2>1, SubSeqProperties
  <2> HIDE DEF after
  <2> QED BY <1>1, <2>2
<1>4. RemoveAt(s, i) = before \o after
  BY DEF RemoveAt
<1> HIDE DEF before, after
<1>5. /\ before \o after \in Seq(S)
      /\ Len(before \o after) = Len(before) + Len(after)
      /\ \A j \in 1..Len(before) + Len(after) : (before \o after)[j] =
           IF j <= Len(before) THEN before[j] ELSE after[j - Len(before)]
  BY <1>2, <1>3, ConcatProperties
<1> QED BY <1>1, <1>2, <1>3, <1>4, <1>5

\* The initial state is well typed.
LEMMA InitType == Init => TypeOK
<1> SUFFICES ASSUME Init PROVE TypeOK
  OBVIOUS
<1>1. queue \in Seq(Requests)
  BY EmptySeq DEF Init
<1> QED BY <1>1 DEF Init, TypeOK

\* A step of a request keeps the types.
LEMMA RequestType ==
  ASSUME TypeOK, NEW r \in Requests, Step(r)
  PROVE  TypeOK'
<1>1. Lane[r] \in Lanes /\ Kind[r] \in Kinds /\ MaxChunk \in Nat
  BY BudgetAssumption
<1> USE DEF To, charges
<1>2. CASE Open(r)
  <2>1. queue' \in Seq(Requests)
    <3>1. queue \in Seq(Requests) /\ Append(queue, r) \in Seq(Requests)
      BY AppendProperties DEF TypeOK
    <3>2. queue' = queue \/ queue' = Append(queue, r)
      BY <1>2 DEF Open
    <3> QED BY <3>1, <3>2
  <2>2. request' \in [Requests -> {"idle", "queued", "leased", "reading", "closing", "refused"}]
    BY <1>2 DEF Open, TypeOK
  <2>3. stopped' \in SUBSET (Lanes \X (Kinds \cup {"calls"}))
    BY <1>1, <1>2 DEF Open, TypeOK
  <2>4. scan' \in Nat /\ UNCHANGED <<dispatched, aborted, calls, bytes, halted, disposal>>
    BY <1>2 DEF Open, TypeOK
  <2> QED BY <2>1, <2>2, <2>3, <2>4 DEF TypeOK
<1>3. CASE Cancel(r)
  <2>1. queue' \in Seq(Requests)
    BY <1>3, RemoveAtType DEF Cancel, TypeOK
  <2> QED BY <1>3, <2>1 DEF Cancel, TypeOK
<1>4. CASE Dispatch(r)
  <2>1. calls' \in [Lanes -> Nat]
    <3>1. calls[Lane[r]] + 1 \in Nat
      BY <1>1 DEF TypeOK
    <3> QED BY <1>4, <3>1 DEF Dispatch, TypeOK
  <2>2. /\ request' \in [Requests -> {"idle", "queued", "leased", "reading", "closing", "refused"}]
        /\ dispatched' \in SUBSET Requests
    BY <1>4 DEF Dispatch, TypeOK
  <2> QED BY <1>4, <2>1, <2>2 DEF Dispatch, TypeOK
<1>5. CASE Read(r)
  <2>1. Active \subseteq Requests
    BY DEF Active
  <2>2. bytes' \in [Pools -> Nat]
    <3>1. \A n \in 1..MaxChunk : bytes[<<Lane[r], Kind[r]>>] + n \in Nat
      BY <1>1 DEF TypeOK, Pools
    <3> QED BY <1>5, <3>1 DEF Read, TypeOK
  <2>3. stopped' \in SUBSET (Lanes \X (Kinds \cup {"calls"}))
    BY <1>1, <1>5 DEF Read, Exhausts, TypeOK
  <2>4. aborted' \in SUBSET Requests
    BY <1>5, <2>1 DEF Read, Exhausts, TypeOK
  <2> QED BY <1>5, <2>2, <2>3, <2>4 DEF Read, TypeOK
<1>6. CASE Abort(r)
  BY <1>6 DEF Abort, TypeOK
<1>7. CASE Ends(r)
  BY <1>7 DEF Ends, TypeOK
<1>8. CASE Close(r)
  BY <1>8 DEF Close, TypeOK
<1> QED BY <1>2, <1>3, <1>4, <1>5, <1>6, <1>7, <1>8 DEF Step

\* A step of the pump or of the batch keeps the types.
LEMMA BatchType ==
  ASSUME TypeOK, Pump \/ PumpEnds \/ Halt \/ Dispose \/ ChargeBundle
  PROVE  TypeOK'
<1>1. Active \subseteq Requests
  BY DEF Active
<1> USE DEF To, charges
<1>2. CASE Pump
  <2>1. queue[scan] \in Requests
    BY <1>2, ElementOfSeq DEF Pump, TypeOK
  <2>2. queue' \in Seq(Requests)
    BY <1>2, RemoveAtType DEF Pump, TypeOK
  <2> QED BY <1>2, <2>1, <2>2 DEF Pump, TypeOK
<1>3. CASE PumpEnds
  BY <1>3 DEF PumpEnds, TypeOK
<1>4. CASE Halt
  BY <1>1, <1>4 DEF Halt, Stops, TypeOK
<1>5. CASE Dispose
  BY <1>1, <1>5 DEF Dispose, Stops, TypeOK
<1>6. CASE ChargeBundle
  <2>1. bytes' \in [Pools -> Nat]
    <3>1. \A n \in 1..MaxChunk : bytes[<<"shared", "rpc">>] + n \in Nat
      BY BudgetAssumption DEF TypeOK, Pools, Lanes, Kinds
    <3> QED BY <1>6, <3>1 DEF ChargeBundle, TypeOK
  <2>2. stopped' \in SUBSET (Lanes \X (Kinds \cup {"calls"}))
    BY <1>6 DEF ChargeBundle, Exhausts, TypeOK, Lanes, Kinds
  <2>3. aborted' \in SUBSET Requests
    BY <1>1, <1>6 DEF ChargeBundle, Exhausts, TypeOK
  <2> QED BY <1>6, <2>1, <2>2, <2>3 DEF ChargeBundle, TypeOK
<1> QED BY <1>2, <1>3, <1>4, <1>5, <1>6

--------------------------------------------------------------------------------
(* Calls.                                                                  *)

\* Leases that have not paid can be counted.
LEMMA PendingFinite ==
  ASSUME NEW l
  PROVE  IsFiniteSet(Pending(l)) /\ Cardinality(Pending(l)) \in Nat
<1>1. Pending(l) \in SUBSET Requests /\ IsFiniteSet(Requests)
  BY BudgetAssumption DEF Pending, Active
<1> QED BY <1>1, FS_Subset, FS_CardinalityType

\* A step that makes no call and opens no lease keeps the calls within reservations.
LEMMA NoLeaseFits ==
  ASSUME TypeOK, CallsFit, calls' = calls,
         \A l \in Lanes : Pending(l)' \subseteq Pending(l)
  PROVE  CallsFit'
<1> SUFFICES ASSUME NEW l \in Lanes
             PROVE  calls[l] + Cardinality(Pending(l)') <= CallLimit[l]
  BY DEF CallsFit
<1>1. Cardinality(Pending(l)') <= Cardinality(Pending(l)) /\ IsFiniteSet(Pending(l)')
  BY PendingFinite, FS_Subset
<1>2. Cardinality(Pending(l)') \in Nat /\ Cardinality(Pending(l)) \in Nat
  BY <1>1, PendingFinite, FS_CardinalityType
<1>3. calls[l] \in Nat /\ CallLimit[l] \in Nat
  BY BudgetAssumption DEF TypeOK
<1>4. calls[l] + Cardinality(Pending(l)) <= CallLimit[l]
  BY DEF CallsFit
<1> QED BY <1>1, <1>2, <1>3, <1>4

\* A dispatch pays for a lease that was counted.
LEMMA DispatchFits ==
  ASSUME TypeOK, PaidAreOpen, CallsFit, NEW r \in Requests, Dispatch(r)
  PROVE  CallsFit'
<1>1. CASE calls' = calls
  <2>1. \A l \in Lanes : Pending(l)' \subseteq Pending(l)
    BY <1>1 DEF Dispatch, To, In, Pending, Active, TypeOK
  <2> QED BY <1>1, <2>1, NoLeaseFits
<1>2. CASE calls' # calls
  <2>1. /\ r \in Pending(Lane[r])
        /\ calls' = [calls EXCEPT ![Lane[r]] = @ + 1]
        /\ \A l \in Lanes : Pending(l)' = Pending(l) \ {r}
    BY <1>2 DEF Dispatch, PaidAreOpen, To, In, Pending, Active, TypeOK
  <2> SUFFICES ASSUME NEW l \in Lanes
               PROVE  calls'[l] + Cardinality(Pending(l)') <= CallLimit[l]
    BY DEF CallsFit
  <2>2. calls[l] \in Nat /\ CallLimit[l] \in Nat /\ Cardinality(Pending(l)) \in Nat
        /\ calls[l] + Cardinality(Pending(l)) <= CallLimit[l]
    BY PendingFinite, BudgetAssumption DEF TypeOK, CallsFit
  <2>3. CASE l = Lane[r]
    <3>1. Cardinality(Pending(l)') = Cardinality(Pending(l)) - 1
      BY <2>1, <2>3, PendingFinite, FS_RemoveElement
    <3>2. calls'[l] = calls[l] + 1
      BY <2>1, <2>3 DEF TypeOK
    <3> QED BY <2>2, <3>1, <3>2
  <2>4. CASE l # Lane[r]
    <3>1. Pending(l)' = Pending(l)
      BY <2>1, <2>4 DEF Pending
    <3>2. calls'[l] = calls[l]
      BY <2>1, <2>4 DEF TypeOK
    <3> QED BY <2>2, <3>1, <3>2
  <2> QED BY <2>3, <2>4
<1> QED BY <1>1, <1>2

\* The steps of a request keep what is paid and what is reserved.
LEMMA RequestCalls ==
  ASSUME TypeOK, PaidAreOpen, CallsFit, NEW r \in Requests, Step(r)
  PROVE  PaidAreOpen' /\ CallsFit'
<1> USE DEF To, In, Pending, Active
<1>1. CASE Open(r)
  <2>1. PaidAreOpen' /\ calls' = calls /\ \A l \in Lanes : Pending(l)' \subseteq Pending(l)
    BY <1>1 DEF Open, PaidAreOpen, TypeOK
  <2> QED BY <2>1, NoLeaseFits
<1>2. CASE Cancel(r)
  <2>1. PaidAreOpen' /\ calls' = calls /\ \A l \in Lanes : Pending(l)' \subseteq Pending(l)
    BY <1>2 DEF Cancel, PaidAreOpen, TypeOK, charges
  <2> QED BY <2>1, NoLeaseFits
<1>3. CASE Dispatch(r)
  <2>1. PaidAreOpen'
    BY <1>3 DEF Dispatch, PaidAreOpen, TypeOK
  <2> QED BY <1>3, <2>1, DispatchFits
<1>4. CASE Read(r)
  <2>1. PaidAreOpen' /\ calls' = calls /\ \A l \in Lanes : Pending(l)' \subseteq Pending(l)
    BY <1>4 DEF Read, PaidAreOpen, TypeOK
  <2> QED BY <2>1, NoLeaseFits
<1>5. CASE Abort(r)
  <2>1. PaidAreOpen' /\ calls' = calls /\ \A l \in Lanes : Pending(l)' \subseteq Pending(l)
    BY <1>5 DEF Abort, PaidAreOpen, charges
  <2> QED BY <2>1, NoLeaseFits
<1>6. CASE Ends(r)
  <2>1. PaidAreOpen' /\ calls' = calls /\ \A l \in Lanes : Pending(l)' \subseteq Pending(l)
    BY <1>6 DEF Ends, PaidAreOpen, TypeOK, charges
  <2> QED BY <2>1, NoLeaseFits
<1>7. CASE Close(r)
  <2>1. PaidAreOpen' /\ calls' = calls /\ \A l \in Lanes : Pending(l)' \subseteq Pending(l)
    BY <1>7 DEF Close, PaidAreOpen, TypeOK, charges
  <2> QED BY <2>1, NoLeaseFits
<1> QED BY <1>1, <1>2, <1>3, <1>4, <1>5, <1>6, <1>7 DEF Step

\* A pump leases within the reservations only, and leases each request once.
LEMMA PumpCalls ==
  ASSUME TypeOK, PaidAreOpen, QueueIsQueued, CallsFit, Pump
  PROVE  PaidAreOpen' /\ CallsFit'
<1> DEFINE r == queue[scan]
<1> USE DEF To, In, charges
<1>1. r \in Requests /\ request[r] = "queued" /\ r \notin dispatched /\ Lane[r] \in Lanes
  BY ElementOfSeq, BudgetAssumption DEF Pump, TypeOK, QueueIsQueued, PaidAreOpen
<1>2. /\ dispatched' = dispatched /\ calls' = calls
      /\ \/ request' = request
         \/ Fails(r) /\ request' = [request EXCEPT ![r] = "refused"]
         \/ ~Fails(r) /\ request' = [request EXCEPT ![r] = "leased"]
  BY DEF Pump
<1> HIDE DEF r
<1>3. PaidAreOpen'
  BY <1>1, <1>2 DEF PaidAreOpen, TypeOK
<1>4. CASE request' = request \/ request' = [request EXCEPT ![r] = "refused"]
  <2>1. \A l \in Lanes : Pending(l)' \subseteq Pending(l)
    BY <1>1, <1>2, <1>4 DEF Pending, Active, TypeOK
  <2> QED BY <1>2, <1>3, <2>1, NoLeaseFits
<1>5. CASE ~Fails(r) /\ request' = [request EXCEPT ![r] = "leased"]
  <2> SUFFICES ASSUME NEW l \in Lanes
               PROVE  calls[l] + Cardinality(Pending(l)') <= CallLimit[l]
    BY <1>2, <1>3 DEF CallsFit
  <2>1. Pending(l)' = IF l = Lane[r] THEN Pending(l) \cup {r} ELSE Pending(l)
    BY <1>1, <1>2, <1>5 DEF Pending, Active, TypeOK
  <2>2. calls[l] \in Nat /\ CallLimit[l] \in Nat /\ Cardinality(Pending(l)) \in Nat
        /\ calls[l] + Cardinality(Pending(l)) <= CallLimit[l]
    BY PendingFinite, BudgetAssumption DEF TypeOK, CallsFit
  <2>3. CASE l = Lane[r]
    <3>1. ~(calls[l] + Cardinality(Pending(l)) >= CallLimit[l])
      BY <1>5, <2>3 DEF Fails, Overbooked
    <3>2. Cardinality(Pending(l) \cup {r}) <= Cardinality(Pending(l)) + 1
          /\ Cardinality(Pending(l) \cup {r}) \in Nat
      BY <2>2, PendingFinite, FS_AddElement
    <3> QED BY <2>1, <2>2, <2>3, <3>1, <3>2
  <2>4. CASE l # Lane[r]
    BY <2>1, <2>2, <2>4
  <2> QED BY <2>3, <2>4
<1> QED BY <1>2, <1>4, <1>5

\* The steps of the batch neither pay for a call nor open a lease.
LEMMA BatchCalls ==
  ASSUME TypeOK, PaidAreOpen, CallsFit, PumpEnds \/ Halt \/ Dispose \/ ChargeBundle
  PROVE  PaidAreOpen' /\ CallsFit'
<1>1. calls' = calls /\ request' = request /\ dispatched' = dispatched
  BY DEF PumpEnds, Halt, Dispose, Stops, ChargeBundle, charges
<1>2. PaidAreOpen' /\ \A l \in Lanes : Pending(l)' \subseteq Pending(l)
  BY <1>1 DEF PaidAreOpen, Pending, Active, In
<1> QED BY <1>1, <1>2, NoLeaseFits

--------------------------------------------------------------------------------
(* The queue.                                                              *)

\* Taking a request out of the queue and giving it another place keeps the queue's
\* requests queued, each once.
LEMMA TakenOut ==
  ASSUME TypeOK, QueueIsQueued, NEW i \in 1..Len(queue), NEW place,
         queue' = RemoveAt(queue, i),
         request' = [request EXCEPT ![queue[i]] = place]
  PROVE  QueueIsQueued'
<1>1. queue \in Seq(Requests) /\ Len(queue) \in Nat
      /\ \A j \in 1..Len(queue) : queue[j] \in Requests
  BY ElementOfSeq, LenProperties DEF TypeOK
<1>2. /\ Len(queue') = Len(queue) - 1
      /\ \A j \in 1..Len(queue) - 1 :
           queue'[j] = IF j < i THEN queue[j] ELSE queue[j + 1]
  BY <1>1, RemoveAtType
<1>3. \A j \in 1..Len(queue') : queue'[j] # queue[i] /\ request[queue'[j]] = "queued"
  BY <1>1, <1>2 DEF QueueIsQueued
<1>4. \A j \in 1..Len(queue') : request'[queue'[j]] = "queued"
  <2>1. \A q \in Requests : q # queue[i] => request'[q] = request[q]
    BY DEF TypeOK
  <2>2. \A j \in 1..Len(queue') : queue'[j] \in Requests
    BY <1>1, <1>2
  <2> QED BY <1>3, <2>1, <2>2
<1>5. \A j, k \in 1..Len(queue') : queue'[j] = queue'[k] => j = k
  BY <1>1, <1>2 DEF QueueIsQueued
<1> QED BY <1>4, <1>5 DEF QueueIsQueued

\* The place of a request that is not queued does not matter to the queue.
LEMMA Elsewhere ==
  ASSUME TypeOK, QueueIsQueued, NEW r \in Requests, request[r] # "queued", NEW place,
         queue' = queue, request' = request \/ request' = [request EXCEPT ![r] = place]
  PROVE  QueueIsQueued'
<1>1. \A i \in 1..Len(queue) : queue[i] \in Requests /\ queue[i] # r
  BY ElementOfSeq DEF TypeOK, QueueIsQueued
<1>2. \A q \in Requests : q # r => request'[q] = request[q]
  BY DEF TypeOK
<1> QED BY <1>1, <1>2 DEF QueueIsQueued

\* A request that opens is queued behind the others, and is not among them.
LEMMA OpenQueues ==
  ASSUME TypeOK, QueueIsQueued, NEW r \in Requests, Open(r)
  PROVE  QueueIsQueued'
<1>1. request[r] # "queued"
  BY DEF Open, In
<1>2. CASE queue' = queue
  <2>1. request' = [request EXCEPT ![r] = "refused"]
        \/ request' = [request EXCEPT ![r] = "queued"]
    BY DEF Open, To
  <2> QED BY <1>1, <1>2, <2>1, Elsewhere
<1>3. CASE queue' = Append(queue, r) /\ request' = [request EXCEPT ![r] = "queued"]
  <2>1. queue \in Seq(Requests) /\ Len(queue) \in Nat
        /\ \A j \in 1..Len(queue) : queue[j] \in Requests /\ queue[j] # r
    BY <1>1, ElementOfSeq, LenProperties DEF TypeOK, QueueIsQueued
  <2>2. Len(queue') = Len(queue) + 1 /\ queue'[Len(queue) + 1] = r
        /\ \A j \in 1..Len(queue) : queue'[j] = queue[j]
    BY <1>3, <2>1, AppendProperties
  <2>3. request'[r] = "queued" /\ \A q \in Requests : q # r => request'[q] = request[q]
    BY <1>3 DEF TypeOK
  <2>4. \A j \in 1..Len(queue') : request'[queue'[j]] = "queued"
    BY <2>1, <2>2, <2>3 DEF QueueIsQueued
  <2>5. \A j, k \in 1..Len(queue') : queue'[j] = queue'[k] => j = k
    BY <2>1, <2>2 DEF QueueIsQueued
  <2> QED BY <2>4, <2>5 DEF QueueIsQueued
<1> QED BY <1>2, <1>3 DEF Open, To

\* Every step keeps the queue in order.
LEMMA QueueStep ==
  ASSUME TypeOK, QueueIsQueued, Next
  PROVE  QueueIsQueued'
<1> USE DEF To, In, charges
<1>1. ASSUME NEW r \in Requests, Step(r)
      PROVE  QueueIsQueued'
  <2>1. CASE Open(r)
    BY <2>1, OpenQueues
  <2>2. CASE Cancel(r)
    BY <2>2, TakenOut DEF Cancel
  <2>3. CASE Dispatch(r)
    BY <2>3, Elsewhere DEF Dispatch
  <2>4. CASE Read(r)
    BY <2>4, Elsewhere DEF Read
  <2>5. CASE Abort(r)
    BY <2>5 DEF Abort, QueueIsQueued
  <2>6. CASE Ends(r)
    BY <2>6, Elsewhere DEF Ends
  <2>7. CASE Close(r)
    BY <2>7, Elsewhere DEF Close
  <2> QED BY <1>1, <2>1, <2>2, <2>3, <2>4, <2>5, <2>6, <2>7 DEF Step
<1>2. CASE Pump
  <2>1. CASE Waits(queue[scan])
    BY <1>2, <2>1 DEF Pump, QueueIsQueued
  <2>2. CASE ~Waits(queue[scan])
    BY <1>2, <2>2, TakenOut DEF Pump
  <2> QED BY <2>1, <2>2
<1>3. CASE PumpEnds \/ Halt \/ Dispose \/ ChargeBundle
  BY <1>3 DEF PumpEnds, Halt, Dispose, ChargeBundle, QueueIsQueued
<1> QED BY <1>1, <1>2, <1>3 DEF Next, Step

--------------------------------------------------------------------------------
(* Pools that are stopped.                                                 *)

\* The pools, one by one.
LEMMA PoolList ==
  Pools = {<<"shared", "rpc">>, <<"shared", "index">>, <<"index-a", "rpc">>,
           <<"index-a", "index">>, <<"index-b", "rpc">>, <<"index-b", "index">>}
BY DEF Pools, Lanes, Kinds

\* What is admitted fits; what is not finds its own pool too full for it, for a total
\* without borrowing is only exceeded by the pool that is charged.
LEMMA OverIsOwn ==
  ASSUME TypeOK, BytesFit, NEW l \in Lanes, NEW k \in Kinds, NEW n \in 1..MaxChunk
  PROVE  /\ ~OverBytes(l, k, n) => bytes[<<l, k>>] + n <= ByteLimit[<<l, k>>]
         /\ OverBytes(l, k, n) => bytes[<<l, k>>] + MaxChunk > ByteLimit[<<l, k>>]
<1>1. <<l, k>> \in Pools
  BY DEF Pools
<1>2. \A p \in Pools : bytes[p] \in Nat /\ ByteLimit[p] \in Nat /\ bytes[p] <= ByteLimit[p]
  BY BudgetAssumption DEF TypeOK, BytesFit
<1>3. MaxChunk \in Nat /\ n \in Nat /\ n <= MaxChunk
  BY BudgetAssumption
<1>4. ASSUME Total(bytes) + n > Total(ByteLimit)
      PROVE  bytes[<<l, k>>] + n > ByteLimit[<<l, k>>]
  BY <1>1, <1>2, <1>3, <1>4, PoolList DEF Total, InLane
<1>5. bytes[<<l, k>>] \in Nat /\ ByteLimit[<<l, k>>] \in Nat
  BY <1>1, <1>2
<1> QED BY <1>3, <1>4, <1>5 DEF OverBytes

\* A lane whose calls are spent has spent its own.
LEMMA SpentIsOwn ==
  ASSUME TypeOK, CallsFit, NEW l \in Lanes, CallsSpent(l)
  PROVE  calls[l] = CallLimit[l]
<1>1. \A m \in Lanes : calls[m] \in Nat /\ CallLimit[m] \in Nat /\ calls[m] <= CallLimit[m]
  <2> SUFFICES ASSUME NEW m \in Lanes
               PROVE  calls[m] \in Nat /\ CallLimit[m] \in Nat /\ calls[m] <= CallLimit[m]
    OBVIOUS
  <2>1. calls[m] + Cardinality(Pending(m)) <= CallLimit[m] /\ Cardinality(Pending(m)) \in Nat
    BY PendingFinite DEF CallsFit
  <2>2. calls[m] \in Nat /\ CallLimit[m] \in Nat
    BY BudgetAssumption DEF TypeOK
  <2> QED BY <2>1, <2>2
<1>2. l \in {"shared", "index-a", "index-b"}
  BY DEF Lanes
<1> QED BY <1>1, <1>2 DEF CallsSpent, CallsMade, TotalCalls, Lanes

\* A charge of bytes keeps the pools within their limits and stops only a full one.
LEMMA Charged ==
  ASSUME TypeOK, BytesFit, BytesStopped, NEW l \in Lanes, NEW k \in Kinds,
         NEW n \in 1..MaxChunk,
         \/ OverBytes(l, k, n) /\ stopped' = stopped \cup {<<l, k>>} /\ bytes' = bytes
         \/ /\ ~OverBytes(l, k, n) /\ stopped' = stopped
            /\ bytes' = [bytes EXCEPT ![<<l, k>>] = @ + n]
  PROVE  BytesFit' /\ BytesStopped'
<1>1. <<l, k>> \in Pools
  BY DEF Pools
<1>2. MaxChunk \in Nat /\ n \in Nat
      /\ \A p \in Pools : bytes[p] \in Nat /\ ByteLimit[p] \in Nat
  BY BudgetAssumption DEF TypeOK
<1>3. CASE OverBytes(l, k, n) /\ stopped' = stopped \cup {<<l, k>>} /\ bytes' = bytes
  BY <1>1, <1>3, OverIsOwn DEF BytesFit, BytesStopped
<1>4. CASE ~OverBytes(l, k, n) /\ stopped' = stopped
           /\ bytes' = [bytes EXCEPT ![<<l, k>>] = @ + n]
  <2>1. bytes'[<<l, k>>] = bytes[<<l, k>>] + n
        /\ \A p \in Pools : p # <<l, k>> => bytes'[p] = bytes[p]
    BY <1>1, <1>4 DEF TypeOK
  <2>2. bytes[<<l, k>>] + n <= ByteLimit[<<l, k>>]
    BY <1>4, OverIsOwn
  <2>3. BytesFit'
    BY <2>1, <2>2 DEF BytesFit
  <2>4. \A p \in Pools : bytes'[p] >= bytes[p]
    BY <1>1, <1>2, <2>1
  <2> SUFFICES ASSUME NEW p \in Pools, p \in stopped
               PROVE  bytes'[p] + MaxChunk > ByteLimit[p]
    BY <1>4, <2>3 DEF BytesStopped
  <2>5. bytes[p] + MaxChunk > ByteLimit[p] /\ bytes'[p] >= bytes[p]
    BY <2>4 DEF BytesStopped
  <2>6. bytes[p] \in Nat /\ bytes'[p] \in Nat /\ ByteLimit[p] \in Nat
    BY <1>1, <1>2, <2>1
  <2> QED BY <1>2, <2>5, <2>6
<1> QED BY <1>3, <1>4

\* Every step keeps the bytes within their pools and stops only full ones.
LEMMA BytesStep ==
  ASSUME TypeOK, BytesFit, BytesStopped, Next
  PROVE  BytesFit' /\ BytesStopped'
<1> USE DEF charges
<1>1. ASSUME NEW r \in Requests, Read(r)
      PROVE  BytesFit' /\ BytesStopped'
  <2>1. Lane[r] \in Lanes /\ Kind[r] \in Kinds
    BY BudgetAssumption
  <2>2. PICK n \in 1..MaxChunk :
          \/ OverBytes(Lane[r], Kind[r], n) /\ bytes' = bytes
             /\ stopped' = stopped \cup {<<Lane[r], Kind[r]>>}
          \/ /\ ~OverBytes(Lane[r], Kind[r], n) /\ stopped' = stopped
             /\ bytes' = [bytes EXCEPT ![<<Lane[r], Kind[r]>>] = @ + n]
          \/ UNCHANGED <<bytes, stopped>>
    BY <1>1 DEF Read, Exhausts
  <2>3. CASE UNCHANGED <<bytes, stopped>>
    BY <2>3 DEF BytesFit, BytesStopped
  <2> QED BY <2>1, <2>2, <2>3, Charged
<1>2. CASE ChargeBundle
  <2>1. PICK n \in 1..MaxChunk :
          \/ OverBytes("shared", "rpc", n) /\ bytes' = bytes
             /\ stopped' = stopped \cup {<<"shared", "rpc">>}
          \/ /\ ~OverBytes("shared", "rpc", n) /\ stopped' = stopped
             /\ bytes' = [bytes EXCEPT ![<<"shared", "rpc">>] = @ + n]
    BY <1>2 DEF ChargeBundle, Exhausts
  <2>2. "shared" \in Lanes /\ "rpc" \in Kinds
    BY DEF Lanes, Kinds
  <2> QED BY <2>1, <2>2, Charged
<1>3. ASSUME NEW r \in Requests, Open(r)
      PROVE  BytesFit' /\ BytesStopped'
  <2>1. bytes' = bytes /\ stopped' \subseteq stopped \cup {<<Lane[r], "calls">>}
    BY <1>3 DEF Open
  <2>2. <<Lane[r], "calls">> \notin Pools
    BY DEF Pools, Kinds
  <2> QED BY <2>1, <2>2 DEF BytesFit, BytesStopped
<1>4. CASE UNCHANGED <<bytes, stopped>>
  BY <1>4 DEF BytesFit, BytesStopped
<1>5. \/ UNCHANGED <<bytes, stopped>> \/ ChargeBundle
      \/ \E r \in Requests : Open(r) \/ Read(r)
  BY DEF Next, Cancel, Dispatch, Abort, Ends, Close, Pump, PumpEnds, Halt, Dispose, Stops
<1> QED BY <1>1, <1>2, <1>3, <1>4, <1>5

\* Every step stops the calls only of a lane that has made all of its own.
LEMMA StopStep ==
  ASSUME TypeOK, CallsFit, TypeOK', CallsFit', CallsStopped, Next
  PROVE  CallsStopped'
<1> USE DEF charges
<1>1. ASSUME NEW r \in Requests, Open(r)
      PROVE  CallsStopped'
  <2>1. Lane[r] \in Lanes /\ calls' = calls
    BY <1>1, BudgetAssumption DEF Open
  <2>2. \/ stopped' = stopped
        \/ CallsSpent(Lane[r]) /\ stopped' = stopped \cup {<<Lane[r], "calls">>}
    BY <1>1 DEF Open
  <2> QED BY <2>1, <2>2, SpentIsOwn DEF CallsStopped
<1>2. ASSUME NEW r \in Requests, Dispatch(r)
      PROVE  CallsStopped'
  <2> SUFFICES ASSUME NEW l \in Lanes, <<l, "calls">> \in stopped'
               PROVE  calls'[l] = CallLimit[l]
    BY DEF CallsStopped
  <2>1. calls[l] = CallLimit[l] /\ calls'[l] \in Nat /\ calls[l] \in Nat
    BY <1>2 DEF Dispatch, CallsStopped, TypeOK
  <2>2. calls'[l] >= calls[l]
    <3>1. calls' = calls \/ calls' = [calls EXCEPT ![Lane[r]] = @ + 1]
      BY <1>2 DEF Dispatch
    <3>2. calls[l] + 1 >= calls[l] /\ calls \in [Lanes -> Nat]
      BY <2>1 DEF TypeOK
    <3>3. CASE l = Lane[r]
      BY <2>1, <3>1, <3>2, <3>3
    <3>4. CASE l # Lane[r]
      BY <2>1, <3>1, <3>2, <3>4
    <3> QED BY <3>3, <3>4
  <2>3. calls'[l] <= CallLimit[l]
    <3>1. Cardinality(Pending(l)') \in Nat
      <4>1. Pending(l)' \in SUBSET Requests /\ IsFiniteSet(Requests)
        BY BudgetAssumption DEF Pending, Active
      <4> QED BY <4>1, FS_Subset, FS_CardinalityType
    <3>2. calls'[l] + Cardinality(Pending(l)') <= CallLimit[l]
      BY DEF CallsFit
    <3> QED BY <2>1, <3>1, <3>2
  <2> QED BY <2>1, <2>2, <2>3
<1>3. CASE calls' = calls /\ stopped' \subseteq stopped \cup Pools
  <2>1. \A l \in Lanes : <<l, "calls">> \notin Pools
    BY DEF Pools, Kinds
  <2> QED BY <1>3, <2>1 DEF CallsStopped
<1>4. ASSUME NEW r \in Requests, Read(r)
      PROVE  calls' = calls /\ stopped' \subseteq stopped \cup Pools
  BY <1>4, BudgetAssumption DEF Read, Exhausts, Pools
<1>5. ASSUME ChargeBundle
      PROVE  calls' = calls /\ stopped' \subseteq stopped \cup Pools
  BY <1>5 DEF ChargeBundle, Exhausts, Pools, Lanes, Kinds
<1>6. \/ UNCHANGED <<calls, stopped>> \/ ChargeBundle
      \/ \E r \in Requests : Open(r) \/ Dispatch(r) \/ Read(r)
  BY DEF Next, Cancel, Abort, Ends, Close, Pump, PumpEnds, Halt, Dispose, Stops
<1> QED BY <1>1, <1>2, <1>3, <1>4, <1>5, <1>6

--------------------------------------------------------------------------------
(* Disposal.                                                               *)

\* Nothing is opened, and nothing leased, while the budget is being disposed.
LEMMA SettlingStep ==
  ASSUME TypeOK, Settling, Next
  PROVE  Settling'
<1> USE DEF Quiet, To, In, Active, charges
<1>1. ASSUME NEW r \in Requests, Step(r)
      PROVE  Settling'
  <2>1. CASE Open(r)
    BY <2>1 DEF Open, Checks, Disposed, Settling, TypeOK
  <2>2. CASE Cancel(r)
    <3>1. disposal = "none"
      <4>1. queue # <<>>
        BY <2>2 DEF Cancel
      <4> QED BY <2>2, <4>1 DEF Cancel, Settling, TypeOK
    <3> QED BY <2>2, <3>1 DEF Cancel, Settling
  <2>3. CASE Dispatch(r)
    BY <2>3 DEF Dispatch, Settling, TypeOK
  <2>4. CASE Read(r)
    BY <2>4 DEF Read, Settling, TypeOK
  <2>5. CASE Abort(r)
    BY <2>5 DEF Abort, Settling
  <2>6. CASE Ends(r)
    BY <2>6 DEF Ends, Settling, TypeOK
  <2>7. CASE Close(r)
    BY <2>7 DEF Close, Settling, TypeOK
  <2> QED BY <1>1, <2>1, <2>2, <2>3, <2>4, <2>5, <2>6, <2>7 DEF Step
<1>2. CASE Pump
  <2>1. Len(queue) # 0 /\ disposal' = disposal
    BY <1>2 DEF Pump, TypeOK
  <2>2. disposal \in {"none", "stopping"}
    BY <2>1 DEF Settling, TypeOK
  <2>3. disposal = "stopping" => scan' = scan
    BY <1>2 DEF Pump, Waits, Fails, Disposed
  <2> QED BY <2>1, <2>2, <2>3 DEF Settling
<1>3. CASE PumpEnds
  <2>1. disposal = "none" \/ queue = <<>>
    <3>1. CASE disposal = "stopping"
      <4>1. Len(queue) = 0
        BY <1>3, <3>1, LenProperties DEF PumpEnds, Settling, TypeOK
      <4> QED BY <4>1, EmptySeq DEF TypeOK
    <3> QED BY <3>1 DEF Settling, TypeOK
  <2> QED BY <1>3, <2>1 DEF PumpEnds, Settling, TypeOK
<1>4. CASE Halt
  BY <1>4 DEF Halt, Stops, Settling
<1>5. CASE Dispose
  BY <1>5 DEF Dispose, Stops, Settling
<1>6. CASE ChargeBundle
  BY <1>6 DEF ChargeBundle, Settling
<1> QED BY <1>1, <1>2, <1>3, <1>4, <1>5, <1>6 DEF Next, Step

--------------------------------------------------------------------------------
(* The theorems.                                                           *)

\* The initial state satisfies the inductive invariant.
LEMMA InitInductive == Init => IInv
<1> SUFFICES ASSUME Init PROVE IInv
  OBVIOUS
<1>1. TypeOK
  BY InitType
<1>2. PaidAreOpen /\ QueueIsQueued /\ CallsStopped /\ BytesStopped /\ Settling
  BY EmptySeq DEF Init, PaidAreOpen, QueueIsQueued, CallsStopped, BytesStopped, Settling
<1>3. BytesFit
  BY BudgetAssumption DEF Init, BytesFit
<1>4. CallsFit
  <2> SUFFICES ASSUME NEW l \in Lanes
               PROVE  calls[l] + Cardinality(Pending(l)) <= CallLimit[l]
    BY DEF CallsFit
  <2>1. Pending(l) = {}
    BY DEF Init, Pending, Active, In
  <2> QED BY <2>1, FS_EmptySet, BudgetAssumption DEF Init
<1> QED BY <1>1, <1>2, <1>3, <1>4 DEF IInv

\* Every step preserves it.
LEMMA StepInductive == IInv /\ [Next]_vars => IInv'
<1> SUFFICES ASSUME IInv, [Next]_vars PROVE IInv'
  OBVIOUS
<1> USE DEF IInv
<1>1. CASE Next
  <2>1. TypeOK'
    BY <1>1, RequestType, BatchType DEF Next, Step
  <2>2. PaidAreOpen' /\ CallsFit'
    BY <1>1, RequestCalls, PumpCalls, BatchCalls DEF Next, Step
  <2>3. QueueIsQueued' /\ BytesFit' /\ BytesStopped' /\ Settling'
    BY <1>1, QueueStep, BytesStep, SettlingStep
  <2>4. CallsStopped'
    BY <1>1, <2>1, <2>2, StopStep
  <2> QED BY <2>1, <2>2, <2>3, <2>4
<1>2. CASE UNCHANGED vars
  BY <1>2 DEF vars, charges, TypeOK, PaidAreOpen, QueueIsQueued, CallsFit, BytesFit,
              CallsStopped, BytesStopped, Settling, Pending, Active, In
<1> QED BY <1>1, <1>2

\* The inductive invariant holds throughout.
LEMMA Inductive == Spec => []IInv
BY InitInductive, StepInductive, PTL DEF Spec

\* Every reachable state of the budget is well typed: no count ever goes below zero.
THEOREM TypeCorrect == Spec => []TypeOK
<1>1. IInv => TypeOK
  BY DEF IInv
<1> QED BY <1>1, Inductive, PTL

\* For any reservations, requests and permits, no lane ever makes more calls than it
\* reserved, counts the leases that have yet to pay, nor admits more bytes.
THEOREM ReservationsHold == Spec => []Reservations
<1>1. IInv => Reservations
  BY DEF IInv, CallsFit, BytesFit, Reservations
<1> QED BY <1>1, Inductive, PTL

\* For any reservations, a pool is stopped by its own use only.
THEOREM IsolationHolds == Spec => []LanesIsolated
<1>1. IInv => LanesIsolated
  BY DEF IInv, CallsStopped, BytesStopped, LanesIsolated, Pools
<1> QED BY <1>1, Inductive, PTL

\* For any requests, nothing is open or queued once dispose has resolved.
THEOREM DisposalHolds == Spec => []DisposedIsQuiet
<1>1. IInv => DisposedIsQuiet
  BY DEF IInv, Settling, DisposedIsQuiet
<1> QED BY <1>1, Inductive, PTL

--------------------------------------------------------------------------------
(* The coverage: two workers over the same pairs.                          *)

Settled == {"documents", "fetching", "closing", "close", "done"}
Modes == {"next", "asked", "rows", "reading"}
Codes == {"counter-unavailable", "over-limit", "total-over-limit", "canonical-counter-conflict", "canonical-slot-conflict"}
Excused == {"counter-unavailable", "over-limit", "total-over-limit"}

\* Where a worker is: it has rows of the chain's places, and looks for slots of a pair that
\* has some.
WorkerOK(w) ==
  /\ DOMAIN w = {"pair", "mode", "rows", "cancelled"}
  /\ w.mode \in Modes /\ w.rows \in Seq(Rows)
  /\ w.mode = "reading" => w.rows # <<>>
  /\ w.mode # "next" => last[Pairs[w.pair]] # Unread

CoverageTypeOK ==
  /\ story \in Seq(PairSet) /\ stands \in BOOLEAN
  /\ at \in {"start", "bracket", "counters", "work"} \cup Settled
  /\ last \in [PairSet -> Int] /\ slots \in [PairSet -> SUBSET DOMAIN story]
  /\ faults \in [PairSet -> SUBSET Codes] /\ DOMAIN worker = Indexes

\* What is there of the chain is the chain's while it stands.
CoverageInv ==
  /\ CoverageTypeOK
  /\ at \in {"start", "bracket", "counters"} => worker = [o \in Indexes |-> Idle(1)]
  /\ \A o \in Indexes : WorkerOK(worker[o])
  /\ \A p \in PairSet : slots[p] \subseteq Mine(p)
  /\ basis = "matched" => at = "done" /\ stands
  /\ stands => \A p \in PairSet : /\ last[p] \in {Unread, Cardinality(Mine(p))}
                                  /\ faults[p] \subseteq Excused

\* The publications of a pair are finitely many.
LEMMA PublicationsAreFinite ==
  ASSUME story \in Seq(PairSet), NEW p
  PROVE  IsFiniteSet(Mine(p))
  <1>1. Len(story) \in Nat /\ Mine(p) \in SUBSET (1..Len(story))
    BY DEF Mine
  <1>2. IsFiniteSet(1..Len(story))
    BY <1>1, FS_Interval
  <1>3. QED BY <1>1, <1>2, FS_Subset

\* A publication is the only one of its pair with its number.
LEMMA NumbersDiffer ==
  ASSUME story \in Seq(PairSet), NEW p \in PairSet, NEW i \in Mine(p), NEW j \in Mine(p), Nth(i) = Nth(j)
  PROVE  i = j
  <1>1. /\ DOMAIN story = 1..Len(story) /\ Len(story) \in Nat /\ i \in 1..Len(story) /\ j \in 1..Len(story)
        /\ story[i] = p /\ story[j] = p
    BY DEF Mine
  <1>2. IsFiniteSet(Mine(p))
    BY PublicationsAreFinite
  <1>3. ASSUME NEW a \in Mine(p), NEW b \in Mine(p), a < b
        PROVE  Nth(a) # Nth(b)
    <2> DEFINE A == {k \in Mine(p) : k <= a}
               B == {k \in Mine(p) : k <= b}
    <2>1. /\ story[a] = p /\ story[b] = p /\ a \in Int /\ b \in Int /\ \A k \in Mine(p) : k \in Int
      BY <1>1 DEF Mine
    <2>2. Nth(a) = Cardinality(A) /\ Nth(b) = Cardinality(B)
      BY <2>1 DEF Nth
    <2>9. \A k \in Mine(p) : k <= a => k <= b
      BY <1>3, <2>1
    <2>3. A \subseteq B
      BY <2>9
    <2>4. IsFiniteSet(B)
      BY <1>2, FS_Subset
    <2>7. b \in B /\ ~(b <= a)
      BY <1>3, <2>1
    <2>8. b \notin A
      BY <2>7
    <2>5. Cardinality(A) # Cardinality(B)
      BY <2>3, <2>4, <2>7, <2>8, FS_Subset
    <2>6. QED BY <2>2, <2>5
  <1>4. i \in Int /\ j \in Int
    BY <1>1
  <1>5. QED BY <1>3, <1>4

\* What a pair is sure of is all there is of it when its number is that of the chain.
LEMMA AllOfThem ==
  ASSUME CoverageInv, NEW p \in PairSet, stands, Covered(p)
  PROVE  slots[p] = Mine(p)
  <1>1. IsFiniteSet(Mine(p))
    BY PublicationsAreFinite DEF CoverageInv, CoverageTypeOK
  <1>2. Cardinality(slots[p]) = Cardinality(Mine(p)) /\ slots[p] \subseteq Mine(p)
    BY DEF CoverageInv, Covered, CoveredBy
  <1>3. QED BY <1>1, <1>2, FS_Subset

\* A worker at the beginning of a pair.
LEMMA IdlersAreOK ==
  ASSUME NEW n
  PROVE  WorkerOK(Idle(n)) /\ WorkerOK(Idle(n))'
  <1>1. <<>> \in Seq(Rows) /\ <<>> \in Seq(Rows')
    OBVIOUS
  <1>2. QED BY <1>1 DEF WorkerOK, Idle, Modes

\* At first nothing is known.
LEMMA CoverageStarts ==
  ASSUME story \in Seq(PairSet), stands = TRUE, CoverageInit
  PROVE  CoverageInv
  <1>1. CoverageTypeOK
    BY DEF CoverageInit, CoverageTypeOK, Settled, Unread
  <1>2. \A o \in Indexes : WorkerOK(worker[o])
    <2>1. <<>> \in Seq(Rows)
      OBVIOUS
    <2>2. QED BY <2>1 DEF CoverageInit, WorkerOK, Idle, Modes
  <1>3. QED BY <1>1, <1>2 DEF CoverageInit, CoverageInv, Unread

\* What the workers do not touch stays so, also when the observation is replaced.
LEMMA CoverageRests ==
  ASSUME CoverageInv, UNCHANGED <<story, last, slots, faults, worker>>, stands' \in {stands, FALSE},
         at' \in {at, "bracket", "counters", "work"} \cup Settled,
         at' \in {"start", "bracket", "counters"} => at \in {"start", "bracket", "counters"},
         basis' = "matched" => at' = "done" /\ stands'
  PROVE  CoverageInv'
  <1>1. CoverageTypeOK'
    BY DEF CoverageInv, CoverageTypeOK
  <1>2. \A o \in Indexes : WorkerOK(worker[o])'
    BY DEF CoverageInv, WorkerOK, Rows
  <1>3. \A p \in PairSet : Mine(p)' = Mine(p)
    BY DEF Mine
  <1>4. stands' => stands
    OBVIOUS
  <1>5. \A p \in PairSet : slots'[p] \subseteq Mine(p)'
    BY <1>3 DEF CoverageInv
  <1>6. stands' => \A p \in PairSet : last'[p] \in {Unread, Cardinality(Mine(p)')} /\ faults'[p] \subseteq Excused
    BY <1>3, <1>4 DEF CoverageInv
  <1>7. at' \in {"start", "bracket", "counters"} => worker' = [o \in Indexes |-> Idle(1)]
    BY DEF CoverageInv
  <1>8. QED BY <1>1, <1>2, <1>5, <1>6, <1>7 DEF CoverageInv

\* A worker goes on, and nothing else moves.
LEMMA WorkerMoves ==
  ASSUME CoverageInv, NEW o \in Indexes, NEW w, WorkerOK(w), worker' = [worker EXCEPT ![o] = w],
         at = "work", UNCHANGED <<coverWorld, at, last, slots, faults, basis>>
  PROVE  CoverageInv'
  <1>1. worker'[o] = w /\ DOMAIN worker' = Indexes /\ \A r \in Indexes : r # o => worker'[r] = worker[r]
    BY DEF CoverageInv, CoverageTypeOK
  <1>2. CoverageTypeOK'
    BY <1>1 DEF CoverageInv, CoverageTypeOK, coverWorld
  <1>3. \A r \in Indexes : WorkerOK(worker[r])'
    BY <1>1 DEF CoverageInv, WorkerOK, Rows, coverWorld
  <1>4. \A p \in PairSet : Mine(p)' = Mine(p)
    BY DEF Mine, coverWorld
  <1>5. QED BY <1>2, <1>3, <1>4 DEF CoverageInv, coverWorld

\* A worker that is done with its row.
LEMMA RowsRest ==
  ASSUME NEW o \in Indexes, WorkerOK(worker[o]), worker[o].rows # <<>>, worker[o].mode \in {"rows", "reading"}
  PROVE  /\ WorkerOK(RowRead(o)) /\ RowRead(o).pair = worker[o].pair
         /\ WorkerOK([worker[o] EXCEPT !.rows = Tail(worker[o].rows)])
            \/ worker[o].mode = "reading"
         /\ Row(o) \in Rows
  <1>1. Tail(worker[o].rows) \in Seq(Rows) /\ Head(worker[o].rows) \in Rows
    BY DEF WorkerOK
  <1>2. QED BY <1>1 DEF WorkerOK, RowRead, Row, Modes

\* What an Index answers are rows.
LEMMA HistoriesAreRows ==
  ASSUME NEW rows \in Histories
  PROVE  rows \in Seq(Rows)
  <1>1. PICK n \in 0..MaxRows : rows \in [1..n -> Rows]
    BY DEF Histories
  <1>2. n \in Nat
    BY CoverageAssumption
  <1>3. QED BY <1>1, <1>2

\* The steps of a worker that authenticate nothing.
LEMMA WorkersWalk ==
  ASSUME CoverageInv, NEW o \in Indexes, NextPair(o) \/ History(o) \/ ExamineRow(o) \/ RowRejected(o)
  PROVE  CoverageInv'
  <1>0. WorkerOK(worker[o]) /\ \A n : WorkerOK(Idle(n))
    <2>1. <<>> \in Seq(Rows)
      OBVIOUS
    <2>2. QED BY <2>1 DEF CoverageInv, WorkerOK, Idle, Modes
  <1>1. CASE NextPair(o)
    <2>1. last[Pair(o)] # Unread => WorkerOK([worker[o] EXCEPT !.mode = "asked"])
      BY <1>0 DEF WorkerOK, Pair, Modes
    <2>2. PICK w : WorkerOK(w) /\ worker' = [worker EXCEPT ![o] = w]
      BY <1>0, <1>1, <2>1 DEF NextPair, Goes
    <2>3. QED BY <1>1, <2>2, WorkerMoves DEF NextPair, Works, Keep
  <1>2. CASE History(o)
    <2>1. PICK rows : /\ rows \in Seq(Rows) /\ worker' = [worker EXCEPT ![o] = [worker[o] EXCEPT !.mode = "rows", !.rows = rows]]
      <3>1. PICK rows \in IF worker[o].cancelled THEN {<<>>} ELSE Histories :
              worker' = [worker EXCEPT ![o] = [worker[o] EXCEPT !.mode = "rows", !.rows = rows]]
        BY <1>2 DEF History, Goes
      <3>2. rows \in Seq(Rows)
        <4>1. CASE worker[o].cancelled
          BY <3>1, <4>1
        <4>2. CASE ~worker[o].cancelled
          BY <3>1, <4>2, HistoriesAreRows
        <4>3. QED BY <4>1, <4>2
      <3>3. QED BY <3>1, <3>2
    <2>2. WorkerOK([worker[o] EXCEPT !.mode = "rows", !.rows = rows])
      BY <1>0, <1>2, <2>1 DEF WorkerOK, History, Modes
    <2>3. QED BY <1>2, <2>1, <2>2, WorkerMoves DEF History, Works, Keep
  <1>3. CASE ExamineRow(o)
    <2>1. PICK w : WorkerOK(w) /\ worker' = [worker EXCEPT ![o] = w]
      <3>1. CASE worker[o].rows = <<>>
        BY <1>0, <1>3, <3>1 DEF ExamineRow, Goes
      <3>2. CASE worker[o].rows # <<>> /\ (Row(o).place \in Authenticated \/ Covered(Pair(o)))
        BY <1>0, <1>3, <3>2, RowsRest DEF ExamineRow, Goes
      <3>3. CASE worker[o].rows # <<>> /\ ~(Row(o).place \in Authenticated \/ Covered(Pair(o)))
        <4>1. WorkerOK([worker[o] EXCEPT !.mode = "reading"])
          BY <1>0, <1>3, <3>3 DEF WorkerOK, ExamineRow, Modes
        <4>2. QED BY <1>3, <3>3, <4>1 DEF ExamineRow, Goes
      <3>4. QED BY <3>1, <3>2, <3>3
    <2>2. QED BY <1>3, <2>1, WorkerMoves DEF ExamineRow, Works, Keep
  <1>4. CASE RowRejected(o)
    <2>1. WorkerOK(RowRead(o))
      BY <1>0, <1>4, RowsRest DEF RowRejected, WorkerOK
    <2>2. QED BY <1>4, <2>1, WorkerMoves DEF RowRejected, Works, Keep, Goes
  <1>5. QED BY <1>1, <1>2, <1>3, <1>4

\* A read that matches: the counter of its pair is that of the chain, and a slot that has
\* its number is itself, so that nobody is accused.
LEMMA RowSettles ==
  ASSUME CoverageInv, NEW o \in Indexes, RowMatches(o)
  PROVE  /\ faults' = faults
         /\ \/ slots' = slots
            \/ /\ Pair(o) \in PairSet /\ Row(o).place \in Mine(Pair(o))
               /\ slots' = [slots EXCEPT ![Pair(o)] = @ \cup {Row(o).place}]
  <1> DEFINE p == Pair(o)
             i == Row(o).place
  <1>1. i \in DOMAIN story /\ story[i] = p /\ p \in PairSet /\ i \in Mine(p)
    <2>1. WorkerOK(worker[o]) /\ worker[o].rows # <<>> /\ worker[o].mode = "reading"
      BY DEF CoverageInv, WorkerOK, RowMatches
    <2>2. i \in DOMAIN story
      BY <2>1, RowsRest DEF Rows
    <2>3. story[i] = p
      BY DEF RowMatches, SaysTheSame
    <2>4. story \in Seq(PairSet)
      BY DEF CoverageInv, CoverageTypeOK
    <2>5. QED BY <2>2, <2>3, <2>4 DEF Mine
  <1>2. last[p] = Cardinality(Mine(p))
    BY <1>1 DEF CoverageInv, WorkerOK, RowMatches, Pair
  <1>3. i \notin Authenticated => \A s \in slots[p] : Nth(s) # Nth(i)
    <2>1. slots[p] \subseteq Authenticated /\ slots[p] \subseteq Mine(p)
      BY <1>1 DEF Authenticated, CoverageInv
    <2>2. story \in Seq(PairSet)
      BY DEF CoverageInv, CoverageTypeOK
    <2>3. QED BY <1>1, <2>1, <2>2, NumbersDiffer
  <1>4. Settle(p, i)
    BY DEF RowMatches
  <1>5. CASE i \in Authenticated
    BY <1>2, <1>4, <1>5 DEF Settle
  <1>6. CASE i \notin Authenticated
    BY <1>1, <1>2, <1>3, <1>4, <1>6 DEF Settle
  <1>7. QED BY <1>5, <1>6

\* The slots that are there stay the chain's.
LEMMA RowIsOfItsPair ==
  ASSUME CoverageInv, NEW o \in Indexes, RowMatches(o)
  PROVE  CoverageInv'
  <1>0. /\ story' = story /\ stands' = stands /\ stands /\ at = "work" /\ at' = at /\ last' = last /\ basis' = basis
        /\ faults' = faults /\ 1 - o \in Indexes /\ 1 - o # o
    <2>1. /\ story' = story /\ stands' = stands /\ stands /\ at = "work" /\ at' = at /\ last' = last /\ basis' = basis
      BY DEF RowMatches, Works, Keep, coverWorld
    <2>2. faults' = faults
      BY RowSettles
    <2>3. 1 - o \in Indexes /\ 1 - o # o
      BY DEF Indexes
    <2>4. QED BY <2>1, <2>2, <2>3
  <1>1. \A p \in PairSet : Mine(p)' = Mine(p) /\ Mine(p) \subseteq DOMAIN story
    BY <1>0 DEF Mine
  <1>2. slots' \in [PairSet -> SUBSET DOMAIN story] /\ \A p \in PairSet : slots'[p] \subseteq Mine(p)
    <2>1. slots \in [PairSet -> SUBSET DOMAIN story] /\ \A p \in PairSet : slots[p] \subseteq Mine(p)
      BY DEF CoverageInv, CoverageTypeOK
    <2>2. CASE slots' = slots
      BY <2>1, <2>2
    <2>3. CASE slots' # slots
      <3>1. PICK p, i : p \in PairSet /\ i \in Mine(p) /\ slots' = [slots EXCEPT ![p] = @ \cup {i}]
        BY <2>3, RowSettles
      <3>2. QED BY <1>1, <2>1, <3>1
    <2>4. QED BY <2>2, <2>3
  <1>3. DOMAIN worker' = Indexes /\ \A r \in Indexes : WorkerOK(worker'[r])
    <2>1. WorkerOK(RowRead(o)) /\ WorkerOK(worker[1 - o])
      BY <1>0, RowsRest DEF CoverageInv, WorkerOK, RowMatches
    <2>2. \A x : WorkerOK([worker[1 - o] EXCEPT !.cancelled = x])
      BY <2>1 DEF WorkerOK
    <2>3. PICK x : worker' = [worker EXCEPT ![o] = RowRead(o), ![1 - o].cancelled = x]
      BY <1>0 DEF RowMatches, CoverageInv, CoverageTypeOK
    <2>4. worker'[o] = RowRead(o) /\ worker'[1 - o] = [worker[1 - o] EXCEPT !.cancelled = x] /\ DOMAIN worker' = Indexes
      BY <1>0, <2>3 DEF CoverageInv, CoverageTypeOK
    <2>5. \A r \in Indexes : r = o \/ r = 1 - o
      BY <1>0 DEF Indexes
    <2>6. QED BY <2>1, <2>2, <2>4, <2>5
  <1>4. \A r \in Indexes : WorkerOK(worker[r])'
    BY <1>0, <1>3 DEF WorkerOK, Rows
  <1>5. CoverageTypeOK'
    BY <1>0, <1>2, <1>3 DEF CoverageInv, CoverageTypeOK
  <1>6. QED BY <1>0, <1>1, <1>2, <1>4, <1>5 DEF CoverageInv

\* Before the workers: what is counted while the chain stands is its count.
LEMMA CountersAreTrue ==
  ASSUME CoverageInv, StartKnown \/ StartUnknown \/ Bracket \/ Counter \/ Counted
  PROVE  CoverageInv'
  <1>1. CASE StartUnknown \/ Bracket
    <2>1. UNCHANGED <<story, stands, last, slots, faults, worker>>
      BY <1>1 DEF StartUnknown, Bracket, Stop, Keep, coverWorld
    <2>2. /\ at \in {"start", "bracket"} /\ at' \in {"documents", "counters"} \cup Settled /\ basis' # "matched"
      BY <1>1 DEF StartUnknown, Bracket, Stop, Settled, CoverageInv
    <2>3. QED BY <2>1, <2>2, CoverageRests DEF Settled
  <1>2. CASE StartKnown
    <2>1. /\ story' = story /\ stands' = stands /\ faults' = faults /\ worker' = worker /\ basis' = basis
          /\ at = "start" /\ at' = "bracket"
      BY <1>2 DEF StartKnown, Keep, coverWorld
    <2>2. CASE UNCHANGED <<last, slots>>
      BY <2>1, <2>2, CoverageRests DEF CoverageInv
    <2>3. CASE last' = [p \in PairSet |-> Cardinality(Mine(p))] /\ slots' = [p \in PairSet |-> Mine(p)]
      <3>1. \A p \in PairSet : Mine(p)' = Mine(p) /\ Mine(p) \subseteq DOMAIN story /\ Cardinality(Mine(p)) \in Int
        <4>1. story \in Seq(PairSet)
          BY DEF CoverageInv, CoverageTypeOK
        <4>2. \A p \in PairSet : Cardinality(Mine(p)) \in Int
          BY <4>1, PublicationsAreFinite, FS_CardinalityType
        <4>3. \A p \in PairSet : Mine(p)' = Mine(p) /\ Mine(p) \subseteq DOMAIN story
          BY <2>1 DEF Mine
        <4>4. QED BY <4>2, <4>3
      <3>2. CoverageTypeOK'
        BY <2>1, <2>3, <3>1 DEF CoverageInv, CoverageTypeOK
      <3>3. QED BY <2>1, <2>3, <3>1, <3>2, IdlersAreOK DEF CoverageInv
    <2>4. QED BY <1>2, <2>2, <2>3 DEF StartKnown
  <1>3. CASE Counter
    <2>1. /\ story' = story /\ stands' = stands /\ slots' = slots /\ worker' = worker /\ basis' = basis
          /\ at = "counters" /\ at' = at
      BY <1>3 DEF Counter, Keep, coverWorld
    <2>2. PICK p, n : n \in Int /\ (stands => n \in {Unread, Cardinality(Mine(p))}) /\ Count(p, n)
      <3>1. PICK n \in {Unread} \cup (IF stands THEN {Cardinality(Mine(Pairs[Min(Uncounted)]))} ELSE 0..(Len(story) + 1)) :
                Count(Pairs[Min(Uncounted)], n)
        BY <1>3 DEF Counter
      <3>2. /\ Cardinality(Mine(Pairs[Min(Uncounted)])) \in Int
            /\ story \in Seq(PairSet)
        BY PublicationsAreFinite, FS_CardinalityType DEF CoverageInv, CoverageTypeOK
      <3>3. n \in Int /\ (stands => n \in {Unread, Cardinality(Mine(Pairs[Min(Uncounted)]))})
        BY <3>1, <3>2 DEF Unread
      <3>4. QED BY <3>1, <3>3
    <2>3. /\ last' = [last EXCEPT ![p] = n]
          /\ \E f \in SUBSET Excused : faults' = [faults EXCEPT ![p] = f]
      BY <2>2 DEF Count, Excused
    <2>4. /\ last' \in [PairSet -> Int] /\ faults' \in [PairSet -> SUBSET Codes]
          /\ \A q \in PairSet : last'[q] = last[q] \/ (q = p /\ last'[q] = n)
          /\ \A q \in PairSet : faults'[q] = faults[q] \/ faults'[q] \subseteq Excused
      <3>1. last \in [PairSet -> Int] /\ faults \in [PairSet -> SUBSET Codes]
        BY DEF CoverageInv, CoverageTypeOK
      <3>2. PICK f \in SUBSET Excused : faults' = [faults EXCEPT ![p] = f]
        BY <2>3
      <3>3. f \in SUBSET Codes
        BY <3>2 DEF Excused, Codes
      <3>4. faults' \in [PairSet -> SUBSET Codes] /\ \A q \in PairSet : faults'[q] = faults[q] \/ faults'[q] \subseteq Excused
        BY <3>1, <3>2, <3>3
      <3>5. last' \in [PairSet -> Int] /\ \A q \in PairSet : last'[q] = last[q] \/ (q = p /\ last'[q] = n)
        <4>1. DOMAIN last' = PairSet /\ \A q \in PairSet : last'[q] = IF q = p THEN n ELSE last[q]
          BY <2>3, <3>1
        <4>2. last' = [q \in PairSet |-> last'[q]]
          BY <2>3, <3>1
        <4>3. \A q \in PairSet : last'[q] \in Int
          <5>1. n \in Int /\ \A q \in PairSet : last[q] \in Int
            BY <2>2, <3>1
          <5>2. QED BY <4>1, <5>1
        <4>4. QED BY <4>1, <4>2, <4>3
      <3>6. QED BY <3>4, <3>5
    <2>5. \A q \in PairSet : Mine(q)' = Mine(q)
      BY <2>1 DEF Mine
    <2>6. CoverageTypeOK'
      BY <2>1, <2>4 DEF CoverageInv, CoverageTypeOK
    <2>7. \A r \in Indexes : WorkerOK(worker[r])'
      BY <2>1, IdlersAreOK DEF CoverageInv
    <2>8. QED BY <2>1, <2>2, <2>4, <2>5, <2>6, <2>7 DEF CoverageInv
  <1>4. CASE Counted
    <2>1. /\ story' = story /\ stands' = stands /\ slots' = slots /\ worker' = worker /\ basis' = basis /\ last' = last
          /\ at = "counters" /\ at' \in {"documents", "work"}
      BY <1>4 DEF Counted, Keep, coverWorld
    <2>2. \/ faults' = faults
          \/ faults' = [p \in PairSet |-> faults[p] \cup {"total-over-limit"}]
      BY <1>4 DEF Counted
    <2>3. \A p \in PairSet : Mine(p)' = Mine(p)
      BY <2>1 DEF Mine
    <2>4. /\ faults' \in [PairSet -> SUBSET Codes]
          /\ stands => \A p \in PairSet : faults'[p] \subseteq Excused
      <3>1. faults \in [PairSet -> SUBSET Codes] /\ (stands => \A p \in PairSet : faults[p] \subseteq Excused)
        BY DEF CoverageInv, CoverageTypeOK
      <3>2. CASE faults' = faults
        BY <3>1, <3>2
      <3>3. CASE faults' = [p \in PairSet |-> faults[p] \cup {"total-over-limit"}]
        <4>1. \A p \in PairSet : faults'[p] = faults[p] \cup {"total-over-limit"} /\ faults[p] \subseteq Codes
          BY <3>1, <3>3
        <4>2. \A p \in PairSet : faults'[p] \in SUBSET Codes
          BY <4>1 DEF Codes
        <4>3. faults' \in [PairSet -> SUBSET Codes]
          BY <3>3, <4>2
        <4>4. stands => \A p \in PairSet : faults'[p] \subseteq Excused
          BY <3>1, <4>1 DEF Excused, Codes
        <4>5. QED BY <4>3, <4>4
      <3>4. QED BY <2>2, <3>2, <3>3
    <2>5. CoverageTypeOK'
      BY <2>1, <2>4 DEF CoverageInv, CoverageTypeOK, Settled
    <2>6. \A r \in Indexes : WorkerOK(worker[r])'
      BY <2>1 DEF CoverageInv, WorkerOK, Rows
    <2>7. QED BY <2>1, <2>3, <2>4, <2>5, <2>6 DEF CoverageInv
  <1>5. QED BY <1>1, <1>2, <1>3, <1>4

\* After the workers, and the replacement of the observation.
LEMMA EndIsTrue ==
  ASSUME CoverageInv, Replaced \/ Worked \/ Fetching \/ (\E o \in Indexes : Fetch(o)) \/ Fetched \/ Conclude
  PROVE  CoverageInv'
  <1>1. UNCHANGED <<story, last, slots, faults, worker>> /\ stands' \in {stands, FALSE}
    BY DEF Replaced, Worked, Fetching, Fetch, Fetched, Conclude, Keep, coverWorld
  <1>2. /\ at' \in {at} \cup Settled
        /\ at' \in {"start", "bracket", "counters"} => at \in {"start", "bracket", "counters"}
    BY DEF Replaced, Worked, Fetching, Fetch, Fetched, Conclude, Settled
  <1>3. basis' = "matched" => at' = "done" /\ stands'
    BY DEF Replaced, Worked, Fetching, Fetch, Fetched, Conclude, Keep, coverWorld, CoverageInv
  <1>4. QED BY <1>1, <1>2, <1>3, CoverageRests

\* Every step keeps it.
LEMMA CoverageSteps == CoverageInv /\ [CoverageNext]_coverVars => CoverageInv'
  <1>1. ASSUME CoverageInv, UNCHANGED coverVars
        PROVE  CoverageInv'
    BY <1>1, CoverageRests DEF coverVars, coverWorld, CoverageInv, CoverageTypeOK
  <1>2. ASSUME CoverageInv, CoverageNext
        PROVE  CoverageInv'
    BY <1>2, CountersAreTrue, WorkersWalk, RowIsOfItsPair, EndIsTrue DEF CoverageNext
  <1>3. QED BY <1>1, <1>2

\* The inductive invariant of a coverage.
THEOREM CoverageInvariance == CoverageSpec => []CoverageInv
  BY CoverageStarts, CoverageSteps, PTL DEF CoverageSpec

\* A pair is called complete only with every slot that the chain has, and is not given up
\* because two workers read it (reputation/coverage.ts).
THEOREM CoverageIsComplete == CoverageSpec => []CoverageHolds
  <1>1. ASSUME CoverageInv
        PROVE  CoverageHolds
    <2>1. SlotsComplete
      BY <1>1, AllOfThem DEF SlotsComplete, PairComplete, CoverageInv
    <2>2. NoFalseConflict
      BY <1>1 DEF NoFalseConflict, CoverageInv, Excused
    <2>3. QED BY <2>1, <2>2 DEF CoverageHolds
  <1>2. QED BY <1>1, CoverageInvariance, PTL

--------------------------------------------------------------------------------
(* What is said of a service: that reviews are what a reader makes of the    *)
(* publications, and that a selection of which all is understood is sound.   *)

\* Among subsets of a finite set there is one without a smaller one.
LEMMA SmallestSubset ==
  ASSUME NEW S, IsFiniteSet(S), NEW T, T \subseteq SUBSET S, T # {}
  PROVE  \E U \in T : \A V \in T : V \subseteq U => V = U
<1>1. IsWellFoundedOn(StrictSubsetOrdering(S), FiniteSubsetsOf(S))
  BY FS_StrictSubsetOrderingWellFounded
<1>2. FiniteSubsetsOf(S) = SUBSET S
  BY FS_FiniteSubsetsOfFinite
<1>3. PICK U \in T : \A V \in T : ~ (<<V, U>> \in StrictSubsetOrdering(S))
  BY <1>1, <1>2, WFMin
<1> QED BY <1>3 DEF StrictSubsetOrdering

\* A set of naturals has a least one: the sets of those up to a member have a smallest one.
LEMMA LeastPlace ==
  ASSUME NEW S \in SUBSET Nat, S # {}
  PROVE  \E m \in S : \A x \in S : m <= x
<1>1. PICK top \in S : TRUE
  OBVIOUS
<1> DEFINE Upto(x) == {y \in S : y <= x}
           T == {Upto(x) : x \in Upto(top)}
           Q == 0..top
<1>0. \A y \in S : y \in Nat
  OBVIOUS
<1>2. IsFiniteSet(Q)
  BY <1>0, FS_Interval
<1>3. top \in Upto(top) /\ top \in Nat
  OBVIOUS
<1>4. ASSUME NEW x \in Upto(top)
      PROVE  Upto(x) \subseteq Q /\ x \in Upto(x)
  <2>1. x \in Nat /\ x <= top /\ top \in Nat
    BY <1>0, <1>1
  <2>2. ASSUME NEW y \in Upto(x) PROVE y \in Q
    <3>1. y \in Nat /\ y <= x
      BY <1>0
    <3> QED BY <2>1, <3>1
  <2>3. x \in Upto(x)
    BY <2>1
  <2> HIDE DEF Upto, Q
  <2> QED BY <2>2, <2>3
<1> HIDE DEF Upto, Q
<1>5. T \subseteq SUBSET Q /\ T # {}
  BY <1>3, <1>4
<1> HIDE DEF T
<1>6. PICK U \in T : \A V \in T : V \subseteq U => V = U
  BY <1>2, <1>5, SmallestSubset
<1>7. PICK m \in Upto(top) : U = Upto(m)
  BY <1>6 DEF T
<1>8. m \in S /\ m \in Nat /\ m <= top
  BY DEF Upto
<1>9. ASSUME NEW x \in S, x < m
      PROVE  FALSE
  <2>1. x \in Nat /\ x \in Upto(top)
    BY <1>3, <1>8, <1>9 DEF Upto
  <2>2. Upto(x) \in T
    BY <2>1 DEF T
  <2>3. Upto(x) \subseteq Upto(m)
    <3>1. \A y \in S : y <= x => y <= m
      BY <1>0, <1>8, <1>9, <2>1
    <3> QED BY <3>1 DEF Upto
  <2>4. Upto(x) = Upto(m)
    BY <1>6, <1>7, <2>2, <2>3
  <2>5. m \notin Upto(x)
    BY <1>8, <1>9, <2>1 DEF Upto
  <2> QED BY <1>4, <2>4, <2>5
<1> QED BY <1>8, <1>9

\* The faults of reads while the observation stands, and the epochs that are found.
StandingFaults == {"none", "publication", "authority", "epoch", "throws"}
Epochs == {"unknown", "retired", "same"}
Blind(d, f) == d \in lost \/ f = "throws"
Private(d, f) == Blind(d, f) \/ Legacy(d) \/ Commitment(d) = "matched"

\* What is so of a review of the publication at i that was read with fault f, whatever the
\* loop makes of its history.
ReadAt(r, i, f) ==
  /\ r.at = i /\ r.doc = doc[i] /\ r.aged = (i <= old)
  /\ Blind(doc[i], f) =>
       /\ r.reviewer = None /\ r.interaction = None /\ r.status = "unknown"
  /\ ~Blind(doc[i], f) =>
       /\ r.reviewer = papers[doc[i]].author /\ r.interaction = papers[doc[i]].interaction
       /\ r.rating = Rating[doc[i]]
       /\ r.status = IF Verified(doc[i]) = "valid" /\ f = "authority" THEN "unknown" ELSE Verified(doc[i])
  /\ r.elsewhere <=> Private(doc[i], f) /\ SaysElsewhere(doc[i])
  /\ r.projection = IF f \in {"publication", "throws"} THEN "unknown" ELSE Publication(i)
  /\ r.canonical = IF f \in {"publication", "throws"} \/ Publication(i) = "unknown" THEN "unknown" ELSE "canonical"
  /\ r.revocation = IF f \in {"publication", "throws"} THEN "unknown"
                    ELSE IF i \in revoked THEN "revoked" ELSE "active"

\* The reader writes it so.
LEMMA ReviewIsReadAt ==
  ASSUME NEW i, NEW f \in StandingFaults, NEW e
  PROVE  ReadAt(Review(i, f, e), i, f)
BY DEF ReadAt, Review, Blind, Private, Publication, StandingFaults

\* A review that was judged by what was composed.
JudgedBy(r, found) ==
  found.commitment \in {"matched", "uncommitted"} =>
    /\ r.history = (CASE found.carry = "qualified" -> "committed"
                      [] found.carry = "unknown" -> "unknown"
                      [] OTHER -> "unqualified")
    /\ r.basis = IF found.carry = "qualified" THEN found.at ELSE 0
    /\ found.carry # "unknown" => r.epoch = found.epoch

\* Judging it changes its history, basis and epoch only.
LEMMA JudgedIsReadAt ==
  ASSUME NEW i, NEW f \in StandingFaults, NEW e, NEW r, r = Review(i, f, e)
  PROVE  ReadAt(Judged(r), i, f)
<1> DEFINE j == Judged(r)
<1>1. /\ r = [at |-> r.at, doc |-> r.doc, aged |-> r.aged, reviewer |-> r.reviewer,
              interaction |-> r.interaction, rating |-> r.rating, elsewhere |-> r.elsewhere,
              status |-> r.status, canonical |-> r.canonical, projection |-> r.projection,
              revocation |-> r.revocation, epoch |-> r.epoch, history |-> r.history,
              basis |-> r.basis]
  BY DEF Review
<1>2. ReadAt(r, i, f)
  BY ReviewIsReadAt
<1>4. /\ j.at = r.at /\ j.doc = r.doc /\ j.aged = r.aged /\ j.reviewer = r.reviewer
      /\ j.interaction = r.interaction /\ j.rating = r.rating /\ j.elsewhere = r.elsewhere
      /\ j.status = r.status /\ j.canonical = r.canonical /\ j.projection = r.projection
      /\ j.revocation = r.revocation
  BY <1>1 DEF Judged
<1> HIDE DEF j
<1>6. ReadAt(j, i, f)
  BY <1>2, <1>4 DEF ReadAt
<1> QED BY <1>6 DEF j

\* It is judged by what was composed for its first matched publication.
LEMMA JudgedByFirst ==
  ASSUME NEW i, NEW f \in StandingFaults, NEW e, NEW r, r = Review(i, f, e),
         anchors[doc[i]] # Absent
  PROVE  JudgedBy(Judged(r), anchors[doc[i]])
<1> DEFINE found == anchors[doc[i]]
<1> DEFINE j == Judged(r)
<1>1. /\ r = [at |-> r.at, doc |-> r.doc, aged |-> r.aged, reviewer |-> r.reviewer,
              interaction |-> r.interaction, rating |-> r.rating, elsewhere |-> r.elsewhere,
              status |-> r.status, canonical |-> r.canonical, projection |-> r.projection,
              revocation |-> r.revocation, epoch |-> r.epoch, history |-> r.history,
              basis |-> r.basis]
  BY DEF Review
<1>2. ReadAt(r, i, f)
  BY ReviewIsReadAt
<1>3. found = anchors[r.doc]
  BY <1>2 DEF ReadAt
<1>5. JudgedBy(j, found)
  BY <1>1, <1>3 DEF Judged, JudgedBy
<1> QED BY <1>5

\* Where a document stands is its first publication by its author.
LEMMA StoodIsFirst ==
  ASSUME Published, NEW d, Places(d) # {}
  PROVE  /\ Stood(d) \in Places(d) /\ Stood(d) \in DOMAIN doc /\ Stood(d) \in Nat
         /\ \A i \in Places(d) : Stood(d) <= i
<1>1. Places(d) \subseteq DOMAIN doc /\ DOMAIN doc \subseteq Nat
  BY DEF Published, Places
<1>2. \E m \in Places(d) : \A x \in Places(d) : m <= x
  BY <1>1, LeastPlace
<1>3. Min(Places(d)) \in Places(d) /\ \A x \in Places(d) : Min(Places(d)) <= x
  BY <1>2 DEF Min
<1> QED BY <1>1, <1>3 DEF Stood

\* It is the only place that is before all others.
LEMMA FirstIsStood ==
  ASSUME Published, NEW d, NEW i \in Places(d), \A x \in Places(d) : i <= x
  PROVE  Stood(d) = i
<1>1. Stood(d) \in Places(d) /\ Stood(d) \in Nat /\ Stood(d) <= i /\ i <= Stood(d)
  BY StoodIsFirst
<1>2. i \in Nat
  BY DEF Published, Places
<1> QED BY <1>1, <1>2

\* Reviews, not none, have an earliest one.
LEMMA EarliestIsFirst ==
  ASSUME NEW S, S # {}, \A r \in S : r.at \in Nat
  PROVE  Earliest(S) \in S /\ \A s \in S : Earliest(S).at <= s.at
<1>1. {r.at : r \in S} \in SUBSET Nat /\ {r.at : r \in S} # {}
  OBVIOUS
<1>2. PICK m \in {r.at : r \in S} : \A x \in {r.at : r \in S} : m <= x
  BY <1>1, LeastPlace
<1>3. \E r \in S : \A s \in S : r.at <= s.at
  BY <1>2
<1> QED BY <1>3 DEF Earliest

\* What the reader keeps so far, and what it composed for the first matched publication.
ReviewsRead == \A r \in reviews :
  /\ r.at \in DOMAIN doc /\ r.at < next /\ papers[doc[r.at]].kind # "foreign"
  /\ papers[doc[r.at]].kind = "odd" => r.interaction = None
  /\ \E f \in StandingFaults, e \in Epochs : r = Review(r.at, f, e)
  /\ r.projection = "matched" /\ r.at = Stood(r.doc) =>
       \E f \in StandingFaults : anchors[r.doc] = Composed(r.at, f)
OneEach(rs) == \A r, s \in rs : r.at = s.at => r = s
NoneMissing ==
  ~gap => \A i \in DOMAIN doc \cap seen :
            i < next /\ papers[doc[i]].kind # "foreign" => \E r \in reviews : r.at = i
AnchorsFound ==
  /\ DOMAIN anchors = Docs
  /\ \A d \in Docs : anchors[d] # Absent =>
       \E i \in Places(d), f \in StandingFaults : i < next /\ anchors[d] = Composed(i, f)
ReadingOK == ReviewsRead /\ OneEach(reviews) /\ NoneMissing /\ AnchorsFound

\* What is so of the reviews after the loop, when none is missing.
Whole(rs) ==
  /\ \A r \in rs :
       /\ r.at \in DOMAIN doc /\ papers[doc[r.at]].kind # "foreign"
       /\ papers[doc[r.at]].kind = "odd" => r.interaction = None
       /\ \E f \in StandingFaults : ReadAt(r, r.at, f)
       /\ r.projection = "matched" /\ r.at = Stood(r.doc) =>
            \E f \in StandingFaults : JudgedBy(r, Composed(r.at, f))
  /\ OneEach(rs)
  /\ \A i \in DOMAIN doc : papers[doc[i]].kind # "foreign" => \E r \in rs : r.at = i

\* What is composed is not absent.
LEMMA ComposedIsFound ==
  ASSUME NEW i, NEW f
  PROVE  /\ Composed(i, f) # Absent /\ Composed(i, f).at = i
         /\ Composed(i, f).epoch \in Epochs /\ Composed(i, f).commitment = Commitment(doc[i])
<1>1. Composed(i, f).carry # "absent" /\ Composed(i, f).at = i
      /\ Composed(i, f).epoch \in Epochs /\ Composed(i, f).commitment = Commitment(doc[i])
  BY DEF Composed, Epochs
<1>2. Absent.carry = "absent"
  BY DEF Absent
<1> QED BY <1>1, <1>2

\* The loop judges what it read.
LEMMA LoopIsWhole ==
  ASSUME Published, ReadingOK, complete, ~gap, next \in Nat, next > Len(doc),
         NEW rs, rs = {Judged(r) : r \in reviews}
  PROVE  Whole(rs)
<1>0. DOMAIN doc = 1..Len(doc) /\ Len(doc) \in Nat
  BY DEF Published
<1>1. ASSUME NEW r \in reviews
      PROVE  LET j == Judged(r) IN
             /\ j.at = r.at
             /\ j.at \in DOMAIN doc /\ papers[doc[j.at]].kind # "foreign"
             /\ papers[doc[j.at]].kind = "odd" => j.interaction = None
             /\ \E f \in StandingFaults : ReadAt(j, j.at, f)
             /\ j.projection = "matched" /\ j.at = Stood(j.doc) =>
                  \E f \in StandingFaults : JudgedBy(j, Composed(j.at, f))
  <2> DEFINE j == Judged(r)
  <2>1. PICK f \in StandingFaults, e \in Epochs : r = Review(r.at, f, e)
    BY DEF ReadingOK, ReviewsRead
  <2>2. ReadAt(r, r.at, f)
    BY <2>1, ReviewIsReadAt
  <2>3. ReadAt(j, r.at, f)
    BY <2>1, JudgedIsReadAt
  <2> HIDE DEF j
  <2>4. /\ j.at = r.at /\ j.doc = r.doc /\ j.doc = doc[r.at]
        /\ j.interaction = r.interaction /\ j.projection = r.projection
    BY <2>2, <2>3 DEF ReadAt
  <2>5. /\ r.at \in DOMAIN doc /\ papers[doc[r.at]].kind # "foreign"
        /\ papers[doc[r.at]].kind = "odd" => r.interaction = None
        /\ r.projection = "matched" /\ r.at = Stood(r.doc) =>
             \E g \in StandingFaults : anchors[r.doc] = Composed(r.at, g)
    BY DEF ReadingOK, ReviewsRead
  <2>6. ASSUME j.projection = "matched", j.at = Stood(j.doc)
        PROVE  \E g \in StandingFaults : JudgedBy(j, Composed(j.at, g))
    <3>1. PICK g \in StandingFaults : anchors[r.doc] = Composed(r.at, g)
      BY <2>4, <2>5, <2>6
    <3>2. anchors[doc[r.at]] = Composed(r.at, g) /\ Composed(r.at, g) # Absent
      BY <2>4, <3>1, ComposedIsFound
    <3>3. JudgedBy(j, anchors[doc[r.at]])
      BY <2>1, <3>2, JudgedByFirst DEF j
    <3> QED BY <2>4, <3>2, <3>3
  <2>7. \E g \in StandingFaults : ReadAt(j, j.at, g)
    BY <2>3, <2>4
  <2> QED BY <2>4, <2>5, <2>6, <2>7 DEF j
<1>2. OneEach(rs)
  <2>1. OneEach(reviews)
    BY DEF ReadingOK
  <2>2. ASSUME NEW r \in rs, NEW s \in rs, r.at = s.at
        PROVE  r = s
    <3>1. PICK q \in reviews : r = Judged(q)
      OBVIOUS
    <3>2. PICK p \in reviews : s = Judged(p)
      OBVIOUS
    <3>3. q.at = p.at
      BY <1>1, <2>2, <3>1, <3>2
    <3>4. q = p
      BY <2>1, <3>3 DEF OneEach
    <3> QED BY <3>1, <3>2, <3>4
  <2> QED BY <2>2 DEF OneEach
<1>3. ASSUME NEW i \in DOMAIN doc, papers[doc[i]].kind # "foreign"
      PROVE  \E r \in rs : r.at = i
  <2>1. i \in seen
    BY DEF Published
  <2>2. i < next
    BY <1>0
  <2>3. PICK r \in reviews : r.at = i
    BY <1>3, <2>1, <2>2 DEF ReadingOK, NoneMissing
  <2> QED BY <1>1, <2>3
<1> QED BY <1>1, <1>2, <1>3 DEF Whole

\* What the policy compares.
Compared(rs) == {r \in rs : Relevant(r, Reviewers)}

\* An anchor that tells of its document what is so.
Told(a) ==
  LET d == a.doc IN
  /\ d \in Counting /\ a.at = Stood(d)
  /\ a.reviewer = papers[d].author /\ a.interaction = papers[d].interaction
  /\ a.rating = Rating[d] /\ a.aged = (Stood(d) <= old)
  /\ a.revocation = IF Stood(d) \in revoked THEN "revoked" ELSE "active"
  /\ a.epoch = "unknown" => Legacy(d) /\ ~Retired(a)
  /\ a.epoch # "unknown" => (Retired(a) <=> TrulyRetired(d))

\* An anchor is the earliest of the compared reviews of its document.
LEMMA AnchorIsEarliest ==
  ASSUME Published, NEW rs, Whole(rs), NEW a \in Anchors(Compared(rs))
  PROVE  /\ a \in rs /\ Relevant(a, Reviewers)
         /\ \A s \in Compared(rs) : s.doc = a.doc => a.at <= s.at
<1> DEFINE Of(d) == {r \in Compared(rs) : r.doc = d}
<1>1. PICK d \in {r.doc : r \in Compared(rs)} : a = Earliest(Of(d))
  BY DEF Anchors
<1>2. Of(d) # {}
  BY <1>1
<1>3. \A r \in Of(d) : r.at \in Nat
  <2>1. DOMAIN doc \subseteq Nat
    BY DEF Published
  <2> QED BY <2>1 DEF Whole, Compared
<1> HIDE DEF Of
<1>4. a \in Of(d) /\ \A s \in Of(d) : a.at <= s.at
  BY <1>1, <1>2, <1>3, EarliestIsFirst
<1> QED BY <1>4 DEF Of, Compared

\* There is one for a document.
LEMMA AnchorIsOne ==
  ASSUME NEW rs, NEW a \in Anchors(rs), NEW b \in Anchors(rs), a.doc = b.doc,
         \A r \in rs : r.at \in Nat
  PROVE  a = b
<1> DEFINE Of(d) == {r \in rs : r.doc = d}
<1>1. ASSUME NEW c \in Anchors(rs)
      PROVE  c = Earliest(Of(c.doc))
  <2>1. PICK d \in {r.doc : r \in rs} : c = Earliest(Of(d))
    BY DEF Anchors
  <2>2. Of(d) # {} /\ \A r \in Of(d) : r.at \in Nat
    BY <2>1
  <2> HIDE DEF Of
  <2>3. c \in Of(d)
    BY <2>1, <2>2, EarliestIsFirst
  <2>4. c.doc = d
    BY <2>3 DEF Of
  <2> QED BY <2>1, <2>4
<1> QED BY <1>1

\* What is understood of an anchor: its document is there with its own bundle.
LEMMA ClearAnchor ==
  ASSUME Published, NEW rs, Whole(rs), NEW a \in Anchors(Compared(rs)), ~Unclear(a)
  PROVE  LET d == a.doc IN
         /\ d \in Docs /\ d = doc[a.at] /\ d \notin lost /\ bundles[d] = "own" /\ papers[d].kind \in {"plain", "legacy"}
         /\ a.at \in Places(d) /\ a.projection = "matched" /\ papers[d].author \in Reviewers
         /\ a.reviewer = papers[d].author /\ a.interaction = papers[d].interaction
         /\ a.rating = Rating[d] /\ a.aged = (a.at <= old)
         /\ a.revocation = IF a.at \in revoked THEN "revoked" ELSE "active"
<1> DEFINE d == a.doc
<1>1. a \in rs /\ Relevant(a, Reviewers)
  BY AnchorIsEarliest
<1>2. PICK f \in StandingFaults : ReadAt(a, a.at, f)
  BY <1>1 DEF Whole
<1>3. /\ a.at \in DOMAIN doc /\ papers[doc[a.at]].kind # "foreign"
      /\ papers[doc[a.at]].kind = "odd" => a.interaction = None
  BY <1>1 DEF Whole
<1>4. d = doc[a.at] /\ d \in Docs
  BY <1>2, <1>3 DEF ReadAt, Published
<1>5. /\ a.canonical = "canonical" /\ a.projection = "matched" /\ a.status = "valid"
      /\ ~a.elsewhere /\ a.reviewer \in {None} \cup Reviewers
  <2>1. a.status \in {"unknown", "invalid", "valid"}
    BY <1>2 DEF ReadAt, Verified
  <2> QED BY <1>1, <2>1 DEF Relevant, Unclear, Qualifies
<1>6. f \notin {"publication", "throws"} /\ Publication(a.at) = "matched"
  BY <1>2, <1>5 DEF ReadAt
<1>7. d \notin lost /\ by[a.at] = papers[d].author /\ a.at \in Places(d)
  BY <1>3, <1>4, <1>6 DEF Publication, Places
<1>8. ~Blind(doc[a.at], f)
  BY <1>4, <1>6, <1>7 DEF Blind
<1>9. Verified(d) = "valid"
  BY <1>2, <1>4, <1>5, <1>8 DEF ReadAt
<1>10. bundles[d] \in Bundles
  BY <1>4 DEF Published
<1>11. bundles[d] = "own" /\ papers[d].kind # "unsound"
  BY <1>7, <1>9, <1>10 DEF Verified, Substituted, Bundles
<1>12. Private(d, f)
  BY <1>7, <1>11 DEF Private, Commitment
<1>13. /\ a.reviewer = papers[d].author /\ a.interaction = papers[d].interaction
       /\ a.rating = Rating[d]
       /\ a.elsewhere <=> Private(d, f) /\ SaysElsewhere(d)
  BY <1>2, <1>4, <1>8 DEF ReadAt
<1>14. papers[d].author # None /\ papers[d].interaction # None /\ papers[d].kind \in PaperKinds
  BY <1>4 DEF Published
<1>15. papers[d].kind \in {"plain", "legacy"}
  BY <1>3, <1>4, <1>5, <1>11, <1>12, <1>13, <1>14 DEF PaperKinds, SaysElsewhere
<1>16. papers[d].author \in Reviewers
  BY <1>5, <1>13, <1>14
<1>17. a.aged = (a.at <= old) /\ a.revocation = IF a.at \in revoked THEN "revoked" ELSE "active"
  BY <1>2, <1>6 DEF ReadAt
<1> QED BY <1>4, <1>5, <1>7, <1>11, <1>13, <1>15, <1>16, <1>17

\* A review of what its accepted author published is compared, when nothing condemns it
\* and no other bundle takes it to another city.
LEMMA OwnIsCompared ==
  ASSUME Published, NEW rs, Whole(rs), NEW d \in Docs, NEW i \in Places(d),
         papers[d].kind \in {"plain", "legacy", "odd"}, Legacy(d) => ~Substituted(d),
         papers[d].author \in Reviewers, bundles[d] = "astray" => Misplaced(rs) = {}
  PROVE  \E r \in Compared(rs) : r.at = i /\ r.doc = d
<1>1. i \in DOMAIN doc /\ doc[i] = d /\ by[i] = papers[d].author
  BY DEF Places
<1>2. PICK r \in rs : r.at = i
  BY <1>1 DEF Whole
<1>3. PICK f \in StandingFaults : ReadAt(r, i, f)
  BY <1>2 DEF Whole
<1>4. r.doc = d /\ r.reviewer \in {None} \cup Reviewers
  BY <1>1, <1>3 DEF ReadAt
<1>7. ~r.elsewhere
  <2>1. ASSUME r.elsewhere PROVE FALSE
    <3>1. bundles[d] = "astray" /\ Private(d, f)
      BY <1>1, <1>3, <2>1 DEF ReadAt, SaysElsewhere
    <3>2. Misplaced(rs) = {} /\ Substituted(d) /\ ~Legacy(d)
      BY <3>1 DEF Substituted
    <3>3. Commitment(d) # "matched"
      BY <3>1, <3>2 DEF Commitment
    <3>4. Blind(d, f)
      BY <3>1, <3>2, <3>3 DEF Private
    <3>5. r.reviewer = None
      BY <1>1, <1>3, <3>4 DEF ReadAt
    <3>6. r \in Misplaced(rs)
      BY <1>2, <1>4, <2>1, <3>5 DEF Misplaced
    <3> QED BY <3>2, <3>6
  <2> QED BY <2>1
<1>5. r.projection \in {"unknown", "matched"} /\ r.canonical # "noncanonical"
  BY <1>1, <1>3 DEF ReadAt, Publication
<1>6. r.status # "invalid"
  <2>1. Verified(d) # "invalid"
    BY DEF Verified, Substituted
  <2> QED BY <1>1, <1>3, <2>1 DEF ReadAt
<1> QED BY <1>2, <1>4, <1>5, <1>6, <1>7 DEF Compared, Relevant

\* An anchor that is understood stands where its document does.
LEMMA ClearStands ==
  ASSUME Published, NEW rs, Whole(rs), NEW a \in Anchors(Compared(rs)), ~Unclear(a)
  PROVE  a.at = Stood(a.doc) /\ a.doc \in Counting
<1> DEFINE d == a.doc
<1>1. /\ d \in Docs /\ bundles[d] = "own" /\ papers[d].kind \in {"plain", "legacy"}
      /\ a.at \in Places(d) /\ papers[d].author \in Reviewers
  BY ClearAnchor
<1>2. \A s \in Compared(rs) : s.doc = d => a.at <= s.at
  BY AnchorIsEarliest
<1>4. ~Substituted(d) /\ bundles[d] # "astray"
  BY <1>1 DEF Substituted
<1>3. \A i \in Places(d) : a.at <= i
  BY <1>1, <1>2, <1>4, OwnIsCompared
<1> QED BY <1>1, <1>3, FirstIsStood DEF Counting

\* Its epoch and history say whether it is retired.
LEMMA ClearIsTold ==
  ASSUME Published, NEW rs, Whole(rs), NEW a \in Anchors(Compared(rs)), ~Unclear(a)
  PROVE  Told(a)
<1> DEFINE d == a.doc
<1>1. /\ d \in Docs /\ d = doc[a.at] /\ d \notin lost /\ bundles[d] = "own"
      /\ papers[d].kind \in {"plain", "legacy"}
      /\ a.at \in Places(d) /\ a.projection = "matched"
      /\ a.reviewer = papers[d].author /\ a.interaction = papers[d].interaction
      /\ a.rating = Rating[d] /\ a.aged = (a.at <= old)
      /\ a.revocation = IF a.at \in revoked THEN "revoked" ELSE "active"
  BY ClearAnchor
<1>2. a.at = Stood(d) /\ d \in Counting
  BY ClearStands
<1>3. a \in rs
  BY AnchorIsEarliest
<1>4. PICK g \in StandingFaults : JudgedBy(a, Composed(a.at, g))
  BY <1>1, <1>2, <1>3 DEF Whole
<1>5. a.history # "unknown"
  BY DEF Unclear
<1> DEFINE found == Composed(a.at, g)
<1>6. /\ found.commitment \in {"matched", "uncommitted"}
      /\ found.commitment = "uncommitted" <=> Legacy(d)
  BY <1>1 DEF Composed, Commitment
<1>7. found.carry \in {"unknown", "ineligible", "qualified"}
  BY DEF Composed
<1>8. a.history = (CASE found.carry = "qualified" -> "committed"
                     [] found.carry = "unknown" -> "unknown"
                     [] OTHER -> "unqualified")
      /\ (found.carry # "unknown" => a.epoch = found.epoch)
  BY <1>4, <1>6 DEF JudgedBy
<1>9. found.carry # "unknown" /\ a.epoch = found.epoch
      /\ (a.history = "committed" <=> found.carry = "qualified")
  BY <1>5, <1>7, <1>8
<1>10. g # "publication"
  BY <1>1, <1>9 DEF Composed
<1>11. /\ a.epoch = "unknown" => g = "epoch"
       /\ a.epoch # "unknown" => (a.epoch = "retired" <=> RetiredNow(d))
  BY <1>1, <1>9, <1>10 DEF Composed
<1>12. Legacy(d) => a.history # "committed"
  BY <1>1, <1>9, <1>10 DEF Composed, Commitment
<1>13. ~Legacy(d) => /\ a.epoch # "unknown"
                     /\ a.history = "committed" <=> RetiredNow(d) /\ a.at < retirement
  BY <1>1, <1>9, <1>10 DEF Composed, Commitment
<1>14. a.at \in Nat /\ retirement \in Nat
  BY <1>1 DEF Published, Places
<1>15. a.epoch = "unknown" => Legacy(d) /\ ~Retired(a)
  BY <1>13 DEF Retired
<1>16. a.epoch # "unknown" => (Retired(a) <=> TrulyRetired(d))
  <2>1. CASE Legacy(d)
    BY <1>11, <1>12, <2>1 DEF Retired, TrulyRetired
  <2>2. CASE ~Legacy(d)
    BY <1>2, <1>11, <1>13, <1>14, <2>2 DEF Retired, TrulyRetired
  <2> QED BY <2>1, <2>2
<1> QED BY <1>1, <1>2, <1>15, <1>16 DEF Told

\* Every document that counts has an anchor, when no legacy one was given another's bundle
\* and none was misplaced.
LEMMA CountingIsAnchored ==
  ASSUME Published, NEW rs, Whole(rs), NEW d \in Counting, Legacy(d) => ~Substituted(d),
         Misplaced(rs) = {}
  PROVE  \E a \in Anchors(Compared(rs)) : a.doc = d
<1>1. d \in Docs /\ Places(d) # {} /\ papers[d].kind \in {"plain", "legacy", "odd"}
  BY DEF Counting
<1>2. PICK i \in Places(d) : TRUE
  BY <1>1
<1>3. papers[d].author \in Reviewers
  BY DEF Places, Published
<1>4. PICK r \in Compared(rs) : r.at = i /\ r.doc = d
  BY <1>1, <1>3, OwnIsCompared
<1> DEFINE Of(e) == {q \in Compared(rs) : q.doc = e}
<1>5. d \in {q.doc : q \in Compared(rs)} /\ r \in Of(d)
  BY <1>4
<1>6. Earliest(Of(d)) \in Anchors(Compared(rs))
  BY <1>5 DEF Anchors
<1>7. \A q \in Of(d) : q.at \in Nat
  <2>1. DOMAIN doc \subseteq Nat
    BY DEF Published
  <2> QED BY <2>1 DEF Whole, Compared
<1> HIDE DEF Of
<1>8. Earliest(Of(d)) \in Of(d)
  BY <1>5, <1>7, EarliestIsFirst
<1>9. Earliest(Of(d)).doc = d
  BY <1>8 DEF Of
<1> QED BY <1>6, <1>9

\* Unresolved is what leaves something that is not understood.
LEMMA Resolution ==
  ASSUME NEW rs, NEW A, A = Anchors(Compared(rs)), NEW C, C = Latest(A),
         NEW known, NEW found, found = SelectReviews(rs, Reviewers, known), ~found.unresolved
  PROVE  /\ known
         /\ \A a \in A : ~Unclear(a)
         /\ \A a \in C : Verdict(a) # "unknown"
         /\ found.eligible = {a \in C : Verdict(a) = "counts"}
         /\ found.prior <=> \/ \E a \in A : Retired(a)
                            \/ \E a \in C : Verdict(a) \in {"revoked", "aged"} /\ a.rating < 3
<1> DEFINE unclear == {a \in A : Unclear(a)}
           chosen == {a \in Latest(A \ unclear) : ~\E u \in unclear : PossiblyLater(u, a)}
           Of(verdict) == {a \in chosen : Verdict(a) = verdict}
           uncertain == ~known \/ unclear # {} \/ Of("unknown") # {}
           earlier == \/ \E a \in A \ unclear : Retired(a)
                      \/ \E a \in Of("revoked") \cup Of("aged") : a.rating < 3
           counting == Of("counts")
<1>1. found = [eligible |-> counting, unresolved |-> uncertain, prior |-> earlier]
  BY DEF SelectReviews, Compared
<1>a. /\ found.eligible = Of("counts")
      /\ found.unresolved = (~known \/ unclear # {} \/ Of("unknown") # {})
      /\ found.prior = (\/ \E a \in A \ unclear : Retired(a)
                        \/ \E a \in Of("revoked") \cup Of("aged") : a.rating < 3)
  <2> HIDE DEF Of, unclear, uncertain, earlier, counting
  <2>1. found.eligible = counting /\ found.unresolved = uncertain /\ found.prior = earlier
    BY <1>1
  <2> QED BY <2>1 DEF uncertain, earlier, counting
<1>b. ~(~known \/ unclear # {} \/ Of("unknown") # {})
  <2> HIDE DEF Of, unclear
  <2> QED BY <1>a, Zenon
<1>2. known /\ unclear = {} /\ Of("unknown") = {}
  <2> HIDE DEF Of, unclear
  <2> QED BY <1>b
<1>3. A \ unclear = A
  BY <1>2
<1>c. \A a \in A : ~Unclear(a)
  BY <1>2
<1> HIDE DEF unclear
<1>4. chosen = C
  BY <1>2, <1>3
<1> HIDE DEF chosen
<1>5. /\ Of("counts") = {a \in C : Verdict(a) = "counts"}
      /\ \A a \in C : Verdict(a) # "unknown"
  BY <1>2, <1>4
<1>6. (\E a \in Of("revoked") \cup Of("aged") : a.rating < 3)
        <=> \E a \in C : Verdict(a) \in {"revoked", "aged"} /\ a.rating < 3
  BY <1>4
<1> HIDE DEF Of
<1>7. found.prior <=> (\/ \E a \in A : Retired(a)
                       \/ \E a \in Of("revoked") \cup Of("aged") : a.rating < 3)
  BY <1>3, <1>a, Zenon
<1> QED BY <1>a, <1>c, <1>2, <1>5, <1>6, <1>7, Zenon

\* The publications that count, as votes.
StandingVotes ==
  {[at |-> Stood(d), reviewer |-> papers[d].author, rating |-> Rating[d]] : d \in Standing}

\* When everything is understood, the reviews say what the publications do.
Sound(rs) ==
  LET A == Anchors(Compared(rs))
      C == Latest(A)
  IN (\A a \in A : ~Unclear(a)) /\ (\A a \in C : Verdict(a) # "unknown") /\ Misplaced(rs) = {} =>
     /\ (\A d \in Docs : Legacy(d) => ~Substituted(d)) =>
          Votes({a \in C : Verdict(a) = "counts"}) = StandingVotes
     /\ (\A d \in Docs : ~Legacy(d)) /\ TruePrior =>
          \/ \E a \in A : Retired(a)
          \/ \E a \in C : Verdict(a) \in {"revoked", "aged"} /\ a.rating < 3

\* The verdict of an anchor of which all is understood.
LEMMA ToldVerdict ==
  ASSUME NEW a, Told(a), Verdict(a) # "unknown"
  PROVE  /\ Verdict(a) = "counts" <=>
              Stood(a.doc) \notin revoked /\ ~TrulyRetired(a.doc) /\ ~(Stood(a.doc) <= old)
         /\ Stood(a.doc) \in revoked => Verdict(a) = "revoked"
         /\ Stood(a.doc) <= old /\ ~Retired(a) => Verdict(a) \in {"revoked", "aged"}
<1>1. /\ a.aged = (Stood(a.doc) <= old)
      /\ a.revocation = IF Stood(a.doc) \in revoked THEN "revoked" ELSE "active"
      /\ a.epoch = "unknown" => ~Retired(a)
      /\ a.epoch # "unknown" => (Retired(a) <=> TrulyRetired(a.doc))
  BY DEF Told
<1>2. a.revocation = "revoked" <=> Stood(a.doc) \in revoked
  BY <1>1
<1>3. a.revocation # "unknown"
  BY <1>1
<1>4. a.aged <=> Stood(a.doc) <= old
  BY <1>1
<1> QED BY <1>1, <1>2, <1>3, <1>4 DEF Verdict

\* The reviews after the loop are sound.
LEMMA WholeIsSound ==
  ASSUME Published, NEW rs, Whole(rs)
  PROVE  Sound(rs)
<1> DEFINE A == Anchors(Compared(rs))
           C == Latest(A)
           K == {a \in C : Verdict(a) = "counts"}
<1>1. SUFFICES ASSUME \A a \in A : ~Unclear(a), \A a \in C : Verdict(a) # "unknown",
                      Misplaced(rs) = {}, \A d \in Docs : Legacy(d) => ~Substituted(d)
               PROVE  /\ Votes(K) = StandingVotes
                      /\ (\A d \in Docs : ~Legacy(d)) /\ TruePrior =>
                           \/ \E a \in A : Retired(a)
                           \/ \E a \in C : Verdict(a) \in {"revoked", "aged"} /\ a.rating < 3
  BY DEF Sound
<1>2. ASSUME NEW a \in A
      PROVE  /\ Told(a) /\ a.doc \in Counting /\ a.at = Stood(a.doc)
             /\ a.reviewer = papers[a.doc].author /\ a.interaction = papers[a.doc].interaction
             /\ a.rating = Rating[a.doc]
  <2>1. Told(a)
    BY <1>1, ClearIsTold
  <2> QED BY <2>1 DEF Told
<1>3. ASSUME NEW d \in Counting
      PROVE  \E a \in A : a.doc = d
  BY <1>1, CountingIsAnchored DEF Counting
<1> HIDE DEF A
<1>4. ASSUME NEW a \in C
      PROVE  a \in A /\ a.doc \in LastWords
  <2>1. a \in A
    BY DEF Latest
  <2>2. ASSUME NEW e \in Counting, papers[e].author = papers[a.doc].author,
               papers[e].interaction = papers[a.doc].interaction
        PROVE  Stood(e) <= Stood(a.doc)
    <3>1. PICK b \in A : b.doc = e
      BY <1>3
    <3>2. b.reviewer = a.reviewer /\ b.interaction = a.interaction
      BY <1>2, <2>1, <2>2, <3>1
    <3>3. b.at <= a.at
      BY <3>2 DEF Latest
    <3> QED BY <1>2, <2>1, <3>1, <3>3
  <2> QED BY <1>2, <2>1, <2>2 DEF LastWords
<1>5. ASSUME NEW d \in LastWords
      PROVE  \E a \in C : a.doc = d
  <2>1. d \in Counting
    BY DEF LastWords
  <2>2. PICK a \in A : a.doc = d
    BY <1>3, <2>1
  <2>3. ASSUME NEW b \in A, b.reviewer = a.reviewer, b.interaction = a.interaction
        PROVE  b.at <= a.at
    <3>1. b.doc \in Counting /\ papers[b.doc].author = papers[d].author
          /\ papers[b.doc].interaction = papers[d].interaction
      BY <1>2, <2>2, <2>3
    <3>2. Stood(b.doc) <= Stood(d)
      BY <3>1 DEF LastWords
    <3> QED BY <1>2, <2>2, <3>2
  <2>4. a \in C
    BY <2>2, <2>3 DEF Latest
  <2> QED BY <2>2, <2>4
<1> HIDE DEF C
<1>6. ASSUME NEW a \in C
      PROVE  /\ Told(a) /\ Verdict(a) # "unknown"
             /\ a.doc \in Docs /\ Stood(a.doc) \in Nat /\ old \in Nat
  <2>1. a.doc \in Counting
    BY <1>2, <1>4
  <2>2. a.doc \in Docs /\ Places(a.doc) # {}
    BY <2>1 DEF Counting
  <2>3. Stood(a.doc) \in Nat
    BY <2>2, StoodIsFirst
  <2> QED BY <1>1, <1>2, <1>4, <2>2, <2>3 DEF Published
<1>7. ASSUME NEW a \in C
      PROVE  Verdict(a) = "counts" <=> a.doc \in Standing
  <2>1. Verdict(a) = "counts" <=>
          Stood(a.doc) \notin revoked /\ ~TrulyRetired(a.doc) /\ ~(Stood(a.doc) <= old)
    BY <1>6, ToldVerdict
  <2>2. ~(Stood(a.doc) <= old) <=> Stood(a.doc) > old
    BY <1>6
  <2> QED BY <1>4, <2>1, <2>2 DEF Standing
<1>8. Votes(K) = StandingVotes
  <2>1. ASSUME NEW v \in Votes(K)
        PROVE  v \in StandingVotes
    <3>1. PICK a \in K : v = [at |-> a.at, reviewer |-> a.reviewer, rating |-> a.rating]
      BY <2>1 DEF Votes
    <3>2. a \in A /\ a.doc \in Standing
      BY <1>4, <1>7
    <3>3. v = [at |-> Stood(a.doc), reviewer |-> papers[a.doc].author, rating |-> Rating[a.doc]]
      BY <1>2, <3>1, <3>2
    <3> QED BY <3>2, <3>3 DEF StandingVotes
  <2>2. ASSUME NEW v \in StandingVotes
        PROVE  v \in Votes(K)
    <3>1. PICK d \in Standing : v = [at |-> Stood(d), reviewer |-> papers[d].author, rating |-> Rating[d]]
      BY <2>2 DEF StandingVotes
    <3>2. PICK a \in C : a.doc = d
      BY <1>5 DEF Standing
    <3>3. a \in K
      BY <1>7, <3>2
    <3>4. v = [at |-> a.at, reviewer |-> a.reviewer, rating |-> a.rating]
      BY <1>2, <1>4, <3>1, <3>2
    <3> HIDE DEF K
    <3> QED BY <3>3, <3>4 DEF Votes
  <2> HIDE DEF K
  <2> QED BY <2>1, <2>2
<1>9. ASSUME \A d \in Docs : ~Legacy(d), TruePrior
      PROVE  \/ \E a \in A : Retired(a)
             \/ \E a \in C : Verdict(a) \in {"revoked", "aged"} /\ a.rating < 3
  <2>1. CASE \E d \in Counting : TrulyRetired(d)
    <3>1. PICK d \in Counting : TrulyRetired(d)
      BY <2>1
    <3>2. PICK a \in A : a.doc = d
      BY <1>3
    <3>3. Told(a) /\ d \in Docs
      BY <1>2, <3>2 DEF Counting
    <3>4. Retired(a)
      BY <1>9, <3>1, <3>2, <3>3 DEF Told
    <3> QED BY <3>2, <3>4
  <2>2. CASE \E d \in LastWords : Rating[d] < 3 /\ (Stood(d) \in revoked \/ Stood(d) <= old)
    <3>1. PICK d \in LastWords : Rating[d] < 3 /\ (Stood(d) \in revoked \/ Stood(d) <= old)
      BY <2>2
    <3>2. PICK a \in C : a.doc = d
      BY <1>5
    <3>3. a \in A /\ a.rating < 3
      BY <1>2, <1>4, <3>1, <3>2
    <3>4. Retired(a) \/ Verdict(a) \in {"revoked", "aged"}
      BY <1>6, <3>1, <3>2, ToldVerdict
    <3> QED BY <3>2, <3>3, <3>4
  <2> QED BY <1>9, <2>1, <2>2 DEF TruePrior
<1> QED BY <1>8, <1>9

\* The inductive invariant: until the observation is replaced, reviews are what the reader
\* makes of the publications, and then sound, if none is missing.
EvidenceInv ==
  /\ Published /\ next \in Nat \ {0}
  /\ holds => /\ step \in {"service", "reviews"} => ReadingOK
              /\ step \in {"town", "final"} /\ HistoryComplete => Sound(reviews)
  /\ VerdictIsTrue

\* What was published does not change, and so what a reader makes of it.
LEMMA TruthStays ==
  ASSUME UNCHANGED truthVars
  PROVE  /\ Published' = Published
         /\ \A i, f, e : Review(i, f, e)' = Review(i, f, e)
         /\ \A i, f : Composed(i, f)' = Composed(i, f)
         /\ \A d : Places(d)' = Places(d) /\ Stood(d)' = Stood(d)
         /\ \A rs : Sound(rs)' = Sound(rs)
         /\ TrueScore' = TrueScore /\ TruePrior' = TruePrior
         /\ \A d : Legacy(d)' = Legacy(d) /\ Substituted(d)' = Substituted(d)
         /\ \A rs : Misplaced(rs)' = Misplaced(rs)
<1>1. /\ by' = by /\ doc' = doc /\ papers' = papers /\ retirement' = retirement
      /\ revoked' = revoked /\ old' = old /\ seen' = seen /\ complete' = complete
      /\ lost' = lost /\ bundles' = bundles
  BY DEF truthVars
<1>2. Published' = Published
  BY <1>1 DEF Published, Docs
<1>3. \A i, f, e : Review(i, f, e)' = Review(i, f, e)
  BY <1>1 DEF Review, Legacy, Commitment, Verified, Publication, Substituted, SaysElsewhere
<1>4. \A i, f : Composed(i, f)' = Composed(i, f)
  BY <1>1 DEF Composed, Legacy, Commitment, Verified, Publication, RetiredNow, Substituted
<1>5. \A d : Places(d)' = Places(d) /\ Stood(d)' = Stood(d)
  BY <1>1 DEF Places, Stood
<1>6. /\ \A rs : Sound(rs)' = Sound(rs)
      /\ TrueScore' = TrueScore /\ TruePrior' = TruePrior
      /\ \A d : Legacy(d)' = Legacy(d) /\ Substituted(d)' = Substituted(d)
      /\ \A rs : Misplaced(rs)' = Misplaced(rs)
  <2>1. /\ \A d : Legacy(d)' = Legacy(d) /\ TrulyRetired(d)' = TrulyRetired(d)
        /\ \A d : Substituted(d)' = Substituted(d)
        /\ Counting' = Counting
    BY <1>1, <1>5 DEF Legacy, TrulyRetired, RetiredNow, Counting, Substituted
  <2>6. \A rs : Misplaced(rs)' = Misplaced(rs)
    BY <1>1 DEF Misplaced
  <2>2. LastWords' = LastWords
    BY <1>1, <1>5, <2>1 DEF LastWords
  <2>3. Standing' = Standing
    BY <1>1, <1>5, <2>1, <2>2 DEF Standing
  <2>4. StandingVotes' = StandingVotes /\ TruePrior' = TruePrior
    BY <1>1, <1>5, <2>1, <2>2, <2>3 DEF StandingVotes, TruePrior
  <2>5. TrueScore' = TrueScore
    BY <1>1, <1>5, <2>3 DEF TrueScore
  <2> QED BY <1>1, <2>1, <2>4, <2>5, <2>6 DEF Sound
<1> QED BY <1>1, <1>2, <1>3, <1>4, <1>5, <1>6

\* At the start nothing is read.
LEMMA EvidenceInit == RankingInit => EvidenceInv
<1>1. SUFFICES ASSUME RankingInit PROVE EvidenceInv
  OBVIOUS
<1>2. Published /\ next = 1 /\ step = "service" /\ reviews = {}
      /\ anchors = [d \in Docs |-> Absent]
  BY <1>1 DEF RankingInit, RankingStart
<1>3. ReviewsRead /\ OneEach(reviews)
  BY <1>2 DEF ReviewsRead, OneEach
<1>4. NoneMissing
  <2>1. \A i \in DOMAIN doc : ~(i < next)
    BY <1>2 DEF Published
  <2> QED BY <2>1 DEF NoneMissing
<1>5. AnchorsFound
  BY <1>2 DEF AnchorsFound
<1>6. VerdictIsTrue
  BY <1>2 DEF VerdictIsTrue, QualifiedIsTrue, NewcomerIsNew, Given
<1> QED BY <1>2, <1>3, <1>4, <1>5, <1>6 DEF EvidenceInv, ReadingOK

\* A slot that is passed leaves no gap that matters: it was not authenticated, or it is of
\* another rubric.
LEMMA PassKeepsReading ==
  ASSUME Published, ReadingOK, PassSlot, next \in Nat
  PROVE  ReadingOK'
<1>1. /\ next' = next + 1 /\ UNCHANGED <<truthVars, reviews, anchors, gap>>
      /\ next \notin seen \/ papers[doc[next]].kind = "foreign"
  BY DEF PassSlot
<1>2. /\ Published' = Published
      /\ \A i, f, e : Review(i, f, e)' = Review(i, f, e)
      /\ \A i, f : Composed(i, f)' = Composed(i, f)
      /\ \A d : Places(d)' = Places(d) /\ Stood(d)' = Stood(d)
  BY <1>1, TruthStays
<1>3. doc' = doc /\ papers' = papers /\ seen' = seen
  BY <1>1 DEF truthVars
<1>4. \A i \in DOMAIN doc : i \in Nat /\ (i < next' <=> i < next \/ i = next)
  BY <1>1 DEF Published
<1>5. ReviewsRead'
  <2> SUFFICES ASSUME NEW r \in reviews
               PROVE  /\ r.at \in DOMAIN doc /\ r.at < next' /\ papers[doc[r.at]].kind # "foreign"
                      /\ papers[doc[r.at]].kind = "odd" => r.interaction = None
                      /\ \E f \in StandingFaults, e \in Epochs : r = Review(r.at, f, e)
                      /\ r.projection = "matched" /\ r.at = Stood(r.doc) =>
                           \E f \in StandingFaults : anchors[r.doc] = Composed(r.at, f)
    BY <1>1, <1>2, <1>3 DEF ReviewsRead
  <2> QED BY <1>4 DEF ReadingOK, ReviewsRead
<1>6. OneEach(reviews)'
  BY <1>1 DEF ReadingOK, OneEach
<1>7. NoneMissing'
  BY <1>1, <1>3, <1>4 DEF ReadingOK, NoneMissing
<1>8. AnchorsFound'
  <2> SUFFICES ASSUME NEW d \in Docs, anchors[d] # Absent
               PROVE  \E i \in Places(d), f \in StandingFaults : i < next' /\ anchors[d] = Composed(i, f)
    BY <1>1, <1>2 DEF ReadingOK, AnchorsFound, Docs, Absent
  <2>1. PICK i \in Places(d), f \in StandingFaults : i < next /\ anchors[d] = Composed(i, f)
    BY DEF ReadingOK, AnchorsFound
  <2> QED BY <1>4, <2>1 DEF Places
<1> QED BY <1>5, <1>6, <1>7, <1>8 DEF ReadingOK

\* While the observation stands a read fails, but says nothing that is not so.
LEMMA FaultsStand ==
  ASSUME holds
  PROVE  Faults \subseteq StandingFaults
BY DEF Faults, StandingFaults

\* A slot that is read: its review is what the reader makes of it, and the first matched
\* publication of its document is the one that is composed.
LEMMA ReadKeepsReading ==
  ASSUME Published, ReadingOK, ReadSlot, next \in Nat, holds
  PROVE  ReadingOK'
<1> DEFINE d == doc[next]
<1>1. PICK f \in Faults :
        LET found == IF anchors[d] # Absent THEN anchors[d] ELSE Composed(next, f)
            review == Review(next, f, IF f = "throws" THEN "unknown" ELSE found.epoch)
            odd == papers[d].kind = "odd" /\ review.interaction # None
        IN /\ anchors' = IF review.projection = "matched" THEN [anchors EXCEPT ![d] = found] ELSE anchors
           /\ reviews' = IF odd THEN reviews ELSE reviews \cup {review}
           /\ gap' = (gap \/ odd)
  BY DEF ReadSlot
<1> DEFINE found == IF anchors[d] # Absent THEN anchors[d] ELSE Composed(next, f)
           epoch == IF f = "throws" THEN "unknown" ELSE found.epoch
           review == Review(next, f, epoch)
           odd == papers[d].kind = "odd" /\ review.interaction # None
<1>2. /\ anchors' = IF review.projection = "matched" THEN [anchors EXCEPT ![d] = found] ELSE anchors
      /\ reviews' = IF odd THEN reviews ELSE reviews \cup {review}
      /\ gap' = (gap \/ odd)
  BY <1>1
<1>3. /\ next' = next + 1 /\ UNCHANGED truthVars
      /\ next \in seen /\ papers[d].kind # "foreign"
  BY DEF ReadSlot
<1>4. /\ Published' = Published
      /\ \A i, g, e : Review(i, g, e)' = Review(i, g, e)
      /\ \A i, g : Composed(i, g)' = Composed(i, g)
      /\ \A e : Places(e)' = Places(e) /\ Stood(e)' = Stood(e)
  BY <1>3, TruthStays
<1>5. doc' = doc /\ papers' = papers /\ seen' = seen
  BY <1>3 DEF truthVars
<1>6. /\ next \in DOMAIN doc /\ d \in Docs /\ f \in StandingFaults
      /\ \A i \in DOMAIN doc : i \in Nat /\ (i < next' <=> i < next \/ i = next)
  <2>1. next \in DOMAIN doc /\ d \in Docs
    BY <1>3 DEF Published
  <2>2. f \in StandingFaults
    BY FaultsStand
  <2> QED BY <1>3, <2>1, <2>2 DEF Published
<1>7. \/ anchors[d] = Absent /\ found = Composed(next, f)
      \/ /\ anchors[d] # Absent /\ found = anchors[d]
         /\ \E i \in Places(d), g \in StandingFaults : i < next /\ found = Composed(i, g)
  BY <1>6 DEF ReadingOK, AnchorsFound
<1>8. epoch \in Epochs /\ found # Absent
  <2>1. found.epoch \in Epochs /\ found # Absent
    BY <1>7, ComposedIsFound
  <2> HIDE DEF found
  <2> QED BY <2>1 DEF Epochs
<1> HIDE DEF found, epoch
<1>9. /\ review.at = next /\ review.doc = d
      /\ review.projection = "matched" => next \in Places(d)
  BY <1>6 DEF Review, Publication, Places
<1>10. review.projection = "matched" /\ next = Stood(d) =>
         anchors[d] = Absent
  <2> SUFFICES ASSUME review.projection = "matched", next = Stood(d), anchors[d] # Absent
               PROVE  FALSE
    OBVIOUS
  <2>1. PICK i \in Places(d) : i < next
    BY <1>7
  <2>2. Stood(d) <= i
    BY <2>1, StoodIsFirst
  <2>3. i \in Nat
    BY <1>6 DEF Places
  <2> QED BY <2>1, <2>2, <2>3
<1> DEFINE kept == review
<1>11. kept = Review(next, f, epoch)
  OBVIOUS
<1> HIDE DEF review
<1>12. ASSUME NEW e \in Docs, anchors[e] # Absent
       PROVE  anchors'[e] = anchors[e]
  BY <1>2, <1>7, <1>12 DEF ReadingOK, AnchorsFound
<1>13. ReviewsRead'
  <2> SUFFICES ASSUME NEW r \in reviews'
               PROVE  /\ r.at \in DOMAIN doc /\ r.at < next' /\ papers[doc[r.at]].kind # "foreign"
                      /\ papers[doc[r.at]].kind = "odd" => r.interaction = None
                      /\ \E g \in StandingFaults, e \in Epochs : r = Review(r.at, g, e)
                      /\ r.projection = "matched" /\ r.at = Stood(r.doc) =>
                           \E g \in StandingFaults : anchors'[r.doc] = Composed(r.at, g)
    BY <1>4, <1>5 DEF ReviewsRead
  <2>1. CASE r \in reviews
    <3>1. /\ r.at \in DOMAIN doc /\ r.at < next /\ papers[doc[r.at]].kind # "foreign"
          /\ papers[doc[r.at]].kind = "odd" => r.interaction = None
          /\ \E g \in StandingFaults, e \in Epochs : r = Review(r.at, g, e)
          /\ r.projection = "matched" /\ r.at = Stood(r.doc) =>
               \E g \in StandingFaults : anchors[r.doc] = Composed(r.at, g)
      BY <2>1 DEF ReadingOK, ReviewsRead
    <3>2. r.doc \in Docs
      <4>1. r.doc = doc[r.at]
        BY <3>1 DEF Review
      <4> QED BY <3>1, <4>1 DEF Published
    <3>3. ASSUME r.projection = "matched", r.at = Stood(r.doc)
          PROVE  \E g \in StandingFaults : anchors'[r.doc] = Composed(r.at, g)
      <4>1. PICK g \in StandingFaults : anchors[r.doc] = Composed(r.at, g)
        BY <3>1, <3>3
      <4>2. anchors[r.doc] # Absent
        BY <4>1, ComposedIsFound
      <4> QED BY <1>12, <3>2, <4>1, <4>2
    <3> QED BY <1>6, <3>1, <3>3
  <2>2. CASE r = review /\ ~odd
    <3>1. ASSUME r.projection = "matched", r.at = Stood(r.doc)
          PROVE  anchors'[r.doc] = Composed(r.at, f)
      <4>1. anchors[d] = Absent
        BY <1>9, <1>10, <2>2, <3>1
      <4>2. anchors' = [anchors EXCEPT ![d] = found]
        BY <1>2, <2>2, <3>1
      <4>3. d \in DOMAIN anchors
        BY <1>6 DEF ReadingOK, AnchorsFound
      <4> QED BY <1>7, <1>9, <2>2, <4>1, <4>2, <4>3
    <3>2. r = Review(r.at, f, epoch)
      BY <1>9, <2>2 DEF review
    <3> QED BY <1>3, <1>6, <1>8, <1>9, <2>2, <3>1, <3>2
  <2> QED BY <1>2, <2>1, <2>2
<1>14. OneEach(reviews')
  <2>1. \A r \in reviews : r.at < next /\ r.at \in Nat
    BY <1>6 DEF ReadingOK, ReviewsRead
  <2>2. \A r \in reviews : r.at # review.at
    BY <1>9, <2>1
  <2> QED BY <1>2, <2>2 DEF ReadingOK, OneEach
<1>15. NoneMissing'
  <2> SUFFICES ASSUME ~gap', NEW i \in DOMAIN doc \cap seen, i < next', papers[doc[i]].kind # "foreign"
               PROVE  \E r \in reviews' : r.at = i
    BY <1>5 DEF NoneMissing
  <2>1. ~gap /\ ~odd /\ reviews' = reviews \cup {review}
    BY <1>2
  <2>2. CASE i < next
    BY <2>1, <2>2 DEF ReadingOK, NoneMissing
  <2>3. CASE i = next
    BY <1>9, <2>1, <2>3
  <2> QED BY <1>6, <2>2, <2>3
<1>16. AnchorsFound'
  <2>1. DOMAIN anchors' = Docs
    BY <1>2 DEF ReadingOK, AnchorsFound
  <2> SUFFICES ASSUME NEW e \in Docs, anchors'[e] # Absent
               PROVE  \E i \in Places(e), g \in StandingFaults : i < next' /\ anchors'[e] = Composed(i, g)
    BY <1>4, <2>1 DEF AnchorsFound, Docs, Absent
  <2>2. CASE anchors[e] # Absent
    <3>1. PICK i \in Places(e), g \in StandingFaults : i < next /\ anchors[e] = Composed(i, g)
      BY <2>2 DEF ReadingOK, AnchorsFound
    <3> QED BY <1>6, <1>12, <2>2, <3>1 DEF Places
  <2>3. CASE anchors[e] = Absent
    <3>1. e = d /\ review.projection = "matched" /\ anchors'[e] = found
      BY <1>2, <2>3 DEF ReadingOK, AnchorsFound
    <3> QED BY <1>6, <1>7, <1>9, <2>3, <3>1
  <2> QED BY <2>2, <2>3
<1> QED BY <1>13, <1>14, <1>15, <1>16 DEF ReadingOK

\* The loop is judged when every slot was passed: what is kept is sound, if none is missing.
LEMMA JudgeIsSound ==
  ASSUME Published, ReadingOK, JudgeAll, next \in Nat
  PROVE  HistoryComplete' => Sound(reviews)'
<1> DEFINE judged == {Judged(r) : r \in reviews}
<1>1. /\ next > Len(doc) /\ UNCHANGED truthVars
      /\ reviews' = judged \ Conflicts(judged)
      /\ gap' = (gap \/ Conflicts(judged) # {})
  BY DEF JudgeAll
<1> SUFFICES ASSUME HistoryComplete' PROVE Sound(reviews)'
  OBVIOUS
<1>2. complete /\ ~gap'
  BY <1>1 DEF HistoryComplete, truthVars
<1> HIDE DEF judged
<1>3. ~gap /\ reviews' = judged
  BY <1>1, <1>2
<1>4. Whole(judged)
  BY <1>1, <1>2, <1>3, LoopIsWhole DEF judged
<1>5. Sound(judged)
  BY <1>4, WholeIsSound
<1>6. \A rs : Sound(rs)' = Sound(rs)
  BY <1>1, TruthStays
<1> QED BY <1>3, <1>5, <1>6

\* A candidate is qualified when its selection is resolved, and a newcomer without a prior.
LEMMA CandidateIsSelected ==
  ASSUME NEW rs, NEW known, NEW eligible, NEW permitted,
         NEW found, found = SelectReviews(rs, Reviewers, known),
         NEW result, result = Candidate(rs, Reviewers, known, eligible, permitted), result.qualified
  PROVE  /\ ~found.unresolved /\ result.score = Score(Votes(found.eligible))
         /\ result.view = "newcomer" => result.score = None /\ ~found.prior
<1> DEFINE score == Score(Votes(found.eligible))
<1>1. /\ result.qualified = ~found.unresolved
      /\ result.score = IF found.unresolved THEN None ELSE score
      /\ result.view = (CASE ~eligible -> "excluded"
                          [] eligible /\ ~permitted -> "explore"
                          [] eligible /\ permitted /\ found.unresolved -> "unresolved"
                          [] eligible /\ permitted /\ ~found.unresolved /\ score # None -> "rated"
                          [] OTHER -> IF found.prior THEN "unassessed" ELSE "newcomer")
  BY DEF Candidate
<1>2. ~found.unresolved
  BY <1>1
<1>3. result.score = score
  BY <1>1, <1>2
<1> HIDE DEF score
<1>4. result.view = "newcomer" => score = None /\ ~found.prior
  BY <1>1, <1>2
<1> QED BY <1>2, <1>3, <1>4 DEF score

\* What is reported is what the sound reviews say.
LEMMA ReportIsTrue ==
  ASSUME EvidenceInv, Finish
  PROVE  VerdictIsTrue'
<1>1. UNCHANGED truthVars /\ step = "final"
      /\ \/ report' = [snapshot |-> "unavailable"]
         \/ report' = IF holds THEN [snapshot |-> "matched", result |-> Result] ELSE [snapshot |-> "changed"]
  BY DEF Finish
<1>2. SUFFICES ASSUME Given', Misplaced(reviews)' = {} PROVE VerdictIsTrue'
  BY DEF VerdictIsTrue, QualifiedIsTrue, NewcomerIsNew
<1>3. holds /\ report'.result = Result /\ Result.qualified
  <2>1. report'.snapshot = "matched" /\ report'.result.qualified
    BY <1>2 DEF Given
  <2> QED BY <1>1, <2>1
<1> DEFINE A == Anchors(Compared(reviews))
           C == Latest(A)
           found == SelectReviews(reviews, Reviewers, HistoryComplete)
           result == Result
<1>4. /\ ~found.unresolved /\ result.score = Score(Votes(found.eligible))
      /\ result.view = "newcomer" => result.score = None /\ ~found.prior
  <2>1. result = Candidate(reviews, Reviewers, HistoryComplete, profile = "valid", admitted)
    BY DEF Result
  <2> HIDE DEF found, result
  <2> QED BY <1>3, <2>1, CandidateIsSelected DEF found, result
<1>5. /\ HistoryComplete
      /\ \A a \in A : ~Unclear(a)
      /\ \A a \in C : Verdict(a) # "unknown"
      /\ found.eligible = {a \in C : Verdict(a) = "counts"}
      /\ found.prior <=> \/ \E a \in A : Retired(a)
                         \/ \E a \in C : Verdict(a) \in {"revoked", "aged"} /\ a.rating < 3
  <2> HIDE DEF found, A, C
  <2> QED BY <1>4, Resolution DEF found, A, C
<1>6. Sound(reviews)
  BY <1>1, <1>3, <1>5 DEF EvidenceInv
<1>12. Misplaced(reviews) = {}
  <2>1. reviews' = reviews
    BY DEF Finish, foundVars
  <2> QED BY <1>1, <1>2, <2>1, TruthStays
<1>7. /\ (\A d \in Docs : Legacy(d) => ~Substituted(d)) => Votes(found.eligible) = StandingVotes
      /\ (\A d \in Docs : ~Legacy(d)) /\ TruePrior => found.prior
  <2> HIDE DEF found
  <2> QED BY <1>5, <1>6, <1>12 DEF Sound
<1> HIDE DEF found, A, C
<1>8. /\ TrueScore = Score(StandingVotes)
  BY DEF TrueScore, StandingVotes
<1>9. (\A d \in Docs : Legacy(d) => ~Substituted(d)) => result.score = TrueScore
  BY <1>4, <1>7, <1>8
<1>10. result.view = "newcomer" /\ (\A d \in Docs : ~Legacy(d)) => ~TruePrior /\ TrueScore = None
  BY <1>4, <1>7, <1>9
<1>11. /\ TrueScore' = TrueScore /\ TruePrior' = TruePrior
       /\ (\A d \in Docs : Legacy(d)' = Legacy(d) /\ Substituted(d)' = Substituted(d)) /\ Docs' = Docs
       /\ report'.result = result
  BY <1>1, <1>3, TruthStays DEF result
<1> QED BY <1>9, <1>10, <1>11 DEF VerdictIsTrue, QualifiedIsTrue, NewcomerIsNew

\* Every step keeps it.
LEMMA EvidenceStep == EvidenceInv /\ [RankingNext]_rankVars => EvidenceInv'
<1> SUFFICES ASSUME EvidenceInv, [RankingNext]_rankVars PROVE EvidenceInv'
  OBVIOUS
<1>1. Published /\ next \in Nat \ {0} /\ VerdictIsTrue
  BY DEF EvidenceInv
<1>2. UNCHANGED truthVars => Published' = Published /\ \A rs : Sound(rs)' = Sound(rs)
  BY TruthStays
<1>3. (UNCHANGED <<truthVars, reviews, gap>>) => /\ HistoryComplete' = HistoryComplete
                                              /\ Sound(reviews)' = Sound(reviews)
  BY <1>2 DEF HistoryComplete, truthVars
<1>4. ASSUME UNCHANGED truthVars, UNCHANGED <<next, reviews, anchors, gap>>, ReadingOK
      PROVE  ReadingOK'
  <2>1. /\ doc' = doc /\ papers' = papers /\ seen' = seen
        /\ \A i, f, e : Review(i, f, e)' = Review(i, f, e)
        /\ \A i, f : Composed(i, f)' = Composed(i, f)
        /\ \A d : Places(d)' = Places(d) /\ Stood(d)' = Stood(d)
    BY <1>4, TruthStays DEF truthVars
  <2>2. ReviewsRead'
    BY <1>4, <2>1 DEF ReadingOK, ReviewsRead
  <2>3. OneEach(reviews)' /\ NoneMissing'
    BY <1>4, <2>1 DEF ReadingOK, OneEach, NoneMissing
  <2>4. AnchorsFound'
    BY <1>4, <2>1 DEF ReadingOK, AnchorsFound, Docs, Absent
  <2> QED BY <2>2, <2>3, <2>4 DEF ReadingOK
<1>5. CASE Reorganized
  <2>1. UNCHANGED truthVars /\ holds' = FALSE /\ step' = step /\ step # "reported" /\ next' = next
    BY <1>5 DEF Reorganized, foundVars
  <2>2. VerdictIsTrue'
    BY <2>1 DEF VerdictIsTrue, QualifiedIsTrue, NewcomerIsNew, Given
  <2> QED BY <1>1, <1>2, <2>1, <2>2 DEF EvidenceInv
<1>6. CASE ReadService
  <2>1. /\ UNCHANGED truthVars /\ UNCHANGED <<next, reviews, anchors, gap>> /\ holds' = holds
        /\ step = "service" /\ step' = "reviews"
    BY <1>6 DEF ReadService, foundVars
  <2>2. holds => ReadingOK'
    BY <1>4, <2>1 DEF EvidenceInv
  <2>3. VerdictIsTrue'
    BY <2>1 DEF VerdictIsTrue, QualifiedIsTrue, NewcomerIsNew, Given
  <2> QED BY <1>1, <1>2, <2>1, <2>2, <2>3 DEF EvidenceInv
<1>7. CASE PassSlot
  <2>1. UNCHANGED truthVars /\ step = "reviews" /\ step' = step /\ holds' = holds /\ next' = next + 1
    BY <1>7 DEF PassSlot
  <2>2. holds => ReadingOK'
    BY <1>1, <1>7, <2>1, PassKeepsReading DEF EvidenceInv
  <2>3. VerdictIsTrue'
    BY <2>1 DEF VerdictIsTrue, QualifiedIsTrue, NewcomerIsNew, Given
  <2> QED BY <1>1, <1>2, <2>1, <2>2, <2>3 DEF EvidenceInv
<1>8. CASE ReadSlot
  <2>1. UNCHANGED truthVars /\ step = "reviews" /\ step' = step /\ holds' = holds /\ next' = next + 1
    BY <1>8 DEF ReadSlot
  <2>2. holds => ReadingOK'
    BY <1>1, <1>8, <2>1, ReadKeepsReading DEF EvidenceInv
  <2>3. VerdictIsTrue'
    BY <2>1 DEF VerdictIsTrue, QualifiedIsTrue, NewcomerIsNew, Given
  <2> QED BY <1>1, <1>2, <2>1, <2>2, <2>3 DEF EvidenceInv
<1>9. CASE JudgeAll
  <2>1. UNCHANGED truthVars /\ step = "reviews" /\ step' = "town" /\ holds' = holds /\ next' = next
    BY <1>9 DEF JudgeAll
  <2>2. holds => (HistoryComplete' => Sound(reviews)')
    BY <1>1, <1>9, <2>1, JudgeIsSound DEF EvidenceInv
  <2>3. VerdictIsTrue'
    BY <2>1 DEF VerdictIsTrue, QualifiedIsTrue, NewcomerIsNew, Given
  <2> QED BY <1>1, <1>2, <2>1, <2>2, <2>3 DEF EvidenceInv
<1>10. CASE ReadTown
  <2>1. /\ UNCHANGED <<truthVars, reviews, gap>> /\ holds' = holds /\ next' = next
        /\ step = "town" /\ step' = "final"
    BY <1>10 DEF ReadTown, foundVars
  <2>2. VerdictIsTrue'
    BY <2>1 DEF VerdictIsTrue, QualifiedIsTrue, NewcomerIsNew, Given
  <2> QED BY <1>1, <1>2, <1>3, <2>1, <2>2 DEF EvidenceInv
<1>11. CASE Finish
  <2>1. UNCHANGED truthVars /\ step' = "reported" /\ next' = next
    BY <1>11 DEF Finish, foundVars
  <2>2. VerdictIsTrue'
    BY <1>11, ReportIsTrue
  <2> QED BY <1>1, <1>2, <2>1, <2>2 DEF EvidenceInv
<1>12. CASE UNCHANGED rankVars
  <2>1. /\ UNCHANGED truthVars /\ UNCHANGED <<next, reviews, anchors, gap>> /\ holds' = holds
        /\ step' = step /\ report' = report
    BY <1>12 DEF rankVars, foundVars
  <2>2. holds /\ step \in {"service", "reviews"} => ReadingOK'
    BY <1>4, <2>1 DEF EvidenceInv
  <2>3. VerdictIsTrue'
    BY <1>1, <2>1, TruthStays DEF VerdictIsTrue, QualifiedIsTrue, NewcomerIsNew, Given, Docs
  <2> QED BY <1>1, <1>2, <1>3, <2>1, <2>2, <2>3 DEF EvidenceInv
<1> QED BY <1>5, <1>6, <1>7, <1>8, <1>9, <1>10, <1>11, <1>12 DEF RankingNext

\* What is said of a service, in its score or its rank among newcomers, is what the
\* publications of its accepted reviewers say, whatever was published, whichever reads
\* failed and whenever the observation was replaced.
THEOREM VerdictHolds == RankingSpec => []VerdictIsTrue
<1>1. RankingInit => EvidenceInv
  BY EvidenceInit
<1>2. EvidenceInv /\ [RankingNext]_rankVars => EvidenceInv'
  BY EvidenceStep
<1>3. EvidenceInv => VerdictIsTrue
  BY DEF EvidenceInv
<1> QED BY <1>1, <1>2, <1>3, PTL DEF RankingSpec
================================================================================
