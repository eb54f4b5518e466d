---------------------------- MODULE RankingBudget ----------------------------
(***************************************************************************)
(* The read budget of one ranking: RankingReadBudget of                    *)
(* reputation/readBudget.ts with its clients, the bounded fetches of       *)
(* identity/rpcTransport.ts.                                               *)
(*                                                                         *)
(* Three lanes have reservations of calls and bytes that add up to the     *)
(* totals.  A request opens a lease: it queues for one of two permits, of  *)
(* which an index lane can hold one, pays for its call when it is          *)
(* dispatched and for its bytes as they arrive.  The queue is pumped after *)
(* each opening, closing and stop; a pump runs without interruption, which *)
(* is why every other action waits for it, but goes item by item here.     *)
(***************************************************************************)
EXTENDS Integers, SequencesExt

Lanes == {"shared", "index-a", "index-b"}
Kinds == {"rpc", "index"}
Pools == Lanes \X Kinds

CONSTANTS
  Requests,    \* fetches that are repeated without end
  Lane, Kind,  \* of each request
  CallLimit,   \* calls reserved for a lane: 4096, 2048, 2048
  ByteLimit,   \* bytes reserved for a pool: 8 and, for the RPC of an index lane, 4 MiB
  Permits,     \* 2
  QueueLimit,  \* 96
  MaxChunk     \* bound on the bytes of one chunk

TotalCalls == CallLimit["shared"] + CallLimit["index-a"] + CallLimit["index-b"]
InLane(amount, l) == amount[<<l, "rpc">>] + amount[<<l, "index">>]
Total(amount) == InLane(amount, "shared") + InLane(amount, "index-a")
                 + InLane(amount, "index-b")

ASSUME BudgetAssumption ==
  /\ IsFiniteSet(Requests)
  /\ Lane \in [Requests -> Lanes] /\ Kind \in [Requests -> Kinds]
  /\ \A r \in Requests : Lane[r] = "shared" => Kind[r] = "rpc"
  /\ CallLimit \in [Lanes -> Nat] /\ ByteLimit \in [Pools -> Nat]
  /\ ByteLimit[<<"shared", "index">>] = 0
  /\ Permits \in Nat \ {0} /\ QueueLimit \in Nat /\ MaxChunk \in Nat

VARIABLES
  request,     \* where each request is
  dispatched,  \* leases that have paid for their call
  aborted,     \* leases whose signal is aborted
  queue,
  calls,       \* lanes[..].calls
  bytes,       \* lanes[..].indexBytes and rpcBytes
  stopped,     \* pools that are exhausted, <<lane, "calls">> among them
  halted,      \* the batch is cancelled or over its deadline
  disposal,    \* "none", "stopping", "draining" or "done"
  scan         \* position of the pump in the queue, 0 when none runs

charges == <<calls, bytes, stopped>>
vars == <<request, dispatched, aborted, queue, charges, halted, disposal, scan>>

--------------------------------------------------------------------------------
In(r, places) == request[r] \in places
To(r, place) == request' = [request EXCEPT ![r] = place]
Quiet == scan = 0

Active == {r \in Requests : In(r, {"leased", "reading", "closing"})}
Pending(l) == {r \in Active \ dispatched : Lane[r] = l}

Disposed == disposal # "none"

\* check: the batch goes on and the shared lane, which everything needs, is not
\* exhausted.
Checks == /\ ~Disposed /\ ~halted
          /\ <<"shared", "calls">> \notin stopped
          /\ <<"shared", "rpc">> \notin stopped

Stopped(r) == <<Lane[r], "calls">> \in stopped \/ <<Lane[r], Kind[r]>> \in stopped

CallsMade == calls["shared"] + calls["index-a"] + calls["index-b"]

\* laneCheck refuses a call that is over the limits ...
CallsSpent(l) == CallsMade >= TotalCalls \/ calls[l] >= CallLimit[l]

\* Mutant of Overbooked: leases that have not been dispatched are forgotten.
OverbookedByCalls(l) == CallsSpent(l)

\* ... and the pump one that would be over them once all open leases are dispatched.
Overbooked(l) ==
  \/ CallsMade + Cardinality(Active \ dispatched) >= TotalCalls
  \/ calls[l] + Cardinality(Pending(l)) >= CallLimit[l]

\* Mutant of Exhausts: the pool of calls is stopped for bytes.
ExhaustsCalls(l, k) ==
  /\ stopped' = stopped \cup {<<l, "calls">>}
  /\ aborted' = aborted \cup {r \in Active : Lane[r] = l /\ Kind[r] = k}

\* exhaust, for bytes: the pool is stopped and its exchanges are aborted.
Exhausts(l, k) ==
  /\ stopped' = stopped \cup {<<l, k>>}
  /\ aborted' = aborted \cup {r \in Active : Lane[r] = l /\ Kind[r] = k}

OverBytes(l, k, n) == \/ bytes[<<l, k>>] + n > ByteLimit[<<l, k>>]
                      \/ Total(bytes) + n > Total(ByteLimit)

--------------------------------------------------------------------------------
(* Requests.                                                               *)

Open(r) ==
  /\ Quiet
  /\ In(r, {"idle", "refused"})
  /\ \/ /\ ~Checks \/ Stopped(r)
        /\ To(r, "refused")
        /\ UNCHANGED <<queue, stopped, scan>>
     \/ /\ Checks /\ ~Stopped(r) /\ CallsSpent(Lane[r])
        /\ stopped' = stopped \cup {<<Lane[r], "calls">>}
        /\ To(r, "refused")
        /\ UNCHANGED <<queue, scan>>
     \/ /\ Checks /\ ~Stopped(r) /\ ~CallsSpent(Lane[r]) /\ Len(queue) >= QueueLimit
        /\ To(r, "refused")
        /\ UNCHANGED <<queue, stopped, scan>>
     \/ /\ Checks /\ ~Stopped(r) /\ ~CallsSpent(Lane[r]) /\ Len(queue) < QueueLimit
        /\ queue' = Append(queue, r)
        /\ To(r, "queued")
        /\ scan' = 1
        /\ UNCHANGED stopped
  /\ UNCHANGED <<dispatched, aborted, calls, bytes, halted, disposal>>

\* Its caller gives up on a queued request.
Cancel(r) ==
  /\ Quiet
  /\ In(r, {"queued"})
  /\ \E i \in 1..Len(queue) : queue[i] = r /\ queue' = RemoveAt(queue, i)
  /\ To(r, "idle")
  /\ UNCHANGED <<dispatched, aborted, charges, halted, disposal, scan>>

\* The first check of a lease, right before the exchange, pays for the call.
Dispatch(r) ==
  /\ Quiet
  /\ In(r, {"leased"})
  /\ IF Checks /\ r \notin aborted
     THEN /\ To(r, "reading")
          /\ dispatched' = dispatched \cup {r}
          /\ calls' = [calls EXCEPT ![Lane[r]] = @ + 1]
     ELSE /\ To(r, "closing")
          /\ UNCHANGED <<dispatched, calls>>
  /\ UNCHANGED <<aborted, queue, bytes, stopped, halted, disposal, scan>>

Read(r) ==
  /\ Quiet
  /\ In(r, {"reading"})
  /\ \E n \in 1..MaxChunk :
       \/ /\ Checks /\ r \notin aborted /\ ~OverBytes(Lane[r], Kind[r], n)
          /\ bytes' = [bytes EXCEPT ![<<Lane[r], Kind[r]>>] = @ + n]
          /\ UNCHANGED <<request, aborted, stopped>>
       \/ /\ Checks /\ r \notin aborted /\ OverBytes(Lane[r], Kind[r], n)
          /\ Exhausts(Lane[r], Kind[r])
          /\ To(r, "closing")
          /\ UNCHANGED bytes
       \/ /\ ~Checks \/ r \in aborted
          /\ To(r, "closing")
          /\ UNCHANGED <<bytes, aborted, stopped>>
  /\ UNCHANGED <<dispatched, queue, calls, halted, disposal, scan>>

\* The lease's timer or its caller's signal.
Abort(r) ==
  /\ Quiet
  /\ In(r, {"leased", "reading"})
  /\ r \notin aborted
  /\ aborted' = aborted \cup {r}
  /\ UNCHANGED <<request, dispatched, queue, charges, halted, disposal, scan>>

\* The exchange is complete, fails or is aborted; its body is then cancelled.
Ends(r) ==
  /\ Quiet
  /\ In(r, {"leased", "reading"})
  /\ To(r, "closing")
  /\ UNCHANGED <<dispatched, aborted, queue, charges, halted, disposal, scan>>

\* Mutant of Close: the permit is returned and nobody told.
CloseSilently(r) ==
  /\ Quiet
  /\ In(r, {"closing"})
  /\ To(r, "idle")
  /\ dispatched' = dispatched \ {r} /\ aborted' = aborted \ {r}
  /\ UNCHANGED <<queue, charges, halted, disposal, scan>>

Close(r) ==
  /\ Quiet
  /\ In(r, {"closing"})
  /\ To(r, "idle")
  /\ dispatched' = dispatched \ {r} /\ aborted' = aborted \ {r}
  /\ scan' = 1
  /\ UNCHANGED <<queue, charges, halted, disposal>>

--------------------------------------------------------------------------------
(* The pump.                                                               *)

Fails(r) == Disposed \/ halted \/ Stopped(r) \/ Overbooked(Lane[r])

\* One permit at most for an index lane.
Waits(r) ==
  /\ ~Fails(r)
  /\ \/ Cardinality(Active) >= Permits
     \/ Lane[r] # "shared" /\ \E q \in Active : Lane[q] = Lane[r]

Pump ==
  /\ scan \in 1..Len(queue)
  /\ LET r == queue[scan]
     IN \/ /\ Waits(r)
           /\ scan' = scan + 1
           /\ UNCHANGED <<queue, request>>
        \/ /\ ~Waits(r)
           /\ queue' = RemoveAt(queue, scan)
           /\ To(r, IF Fails(r) THEN "refused" ELSE "leased")
           /\ UNCHANGED scan
  /\ UNCHANGED <<dispatched, aborted, charges, halted, disposal>>

\* dispose goes on, or resolves, when no lease is open.
PumpEnds ==
  /\ scan > Len(queue)
  /\ scan' = 0
  /\ disposal' = IF disposal \notin {"stopping", "draining"} THEN disposal
                 ELSE IF Active = {} THEN "done" ELSE "draining"
  /\ UNCHANGED <<request, dispatched, aborted, queue, charges, halted>>

--------------------------------------------------------------------------------
(* The batch.                                                              *)

Stops == /\ halted' = TRUE
         /\ aborted' = aborted \cup Active
         /\ scan' = 1

\* The batch's deadline or the caller's cancellation.
Halt ==
  /\ Quiet
  /\ ~halted
  /\ Stops
  /\ UNCHANGED <<request, dispatched, queue, charges, disposal>>

Dispose ==
  /\ Quiet
  /\ ~Disposed
  /\ Stops
  /\ disposal' = "stopping"
  /\ UNCHANGED <<request, dispatched, queue, charges>>

\* chargeBundle: bytes that a caller has read elsewhere are paid from the shared lane.
ChargeBundle ==
  /\ Quiet
  /\ Checks
  /\ \E n \in 1..MaxChunk :
       IF OverBytes("shared", "rpc", n)
       THEN Exhausts("shared", "rpc") /\ UNCHANGED bytes
       ELSE /\ bytes' = [bytes EXCEPT ![<<"shared", "rpc">>] = @ + n]
            /\ UNCHANGED <<aborted, stopped>>
  /\ UNCHANGED <<request, dispatched, queue, calls, halted, disposal, scan>>

--------------------------------------------------------------------------------
Init ==
  /\ request = [r \in Requests |-> "idle"]
  /\ dispatched = {} /\ aborted = {}
  /\ queue = <<>>
  /\ calls = [l \in Lanes |-> 0]
  /\ bytes = [p \in Pools |-> 0]
  /\ stopped = {}
  /\ halted = FALSE
  /\ disposal = "none"
  /\ scan = 0

Next ==
  \/ \E r \in Requests :
       Open(r) \/ Cancel(r) \/ Dispatch(r) \/ Read(r) \/ Abort(r) \/ Ends(r) \/ Close(r)
  \/ Pump \/ PumpEnds
  \/ Halt \/ Dispose \/ ChargeBundle

Spec == Init /\ [][Next]_vars

\* A lease has a timer of five seconds at most and aborts its exchange, which is then
\* closed; the pump is a loop.  Fairness is strong where a step waits for pumps, which
\* take no time.
Fairness ==
  /\ WF_vars(Pump \/ PumpEnds)
  /\ \A r \in Requests : SF_vars(Ends(r) \/ Close(r))

FairSpec == Spec /\ Fairness

--------------------------------------------------------------------------------
TypeOK ==
  /\ request \in [Requests -> {"idle", "queued", "leased", "reading", "closing", "refused"}]
  /\ dispatched \in SUBSET Requests
  /\ aborted \in SUBSET Requests
  /\ queue \in Seq(Requests)
  /\ calls \in [Lanes -> Nat]
  /\ bytes \in [Pools -> Nat]
  /\ stopped \in SUBSET (Lanes \X (Kinds \cup {"calls"}))
  /\ halted \in BOOLEAN
  /\ disposal \in {"none", "stopping", "draining", "done"}
  /\ scan \in Nat

(* Properties.                                                             *)

\* However leases overlap, are aborted or closed before their dispatch, a lane never
\* makes more calls than it has reserved, nor could by dispatching all open leases, and
\* never admits more bytes.
Reservations ==
  /\ \A l \in Lanes : calls[l] + Cardinality(Pending(l)) <= CallLimit[l]
  /\ \A p \in Pools : bytes[p] <= ByteLimit[p]

\* A pool is stopped by its own use only: no other lane's appetite, and no total, closes
\* a lane that has reserved calls or bytes left ("without borrowing").
LanesIsolated ==
  \A l \in Lanes :
    /\ <<l, "calls">> \in stopped => calls[l] = CallLimit[l]
    /\ \A k \in Kinds : <<l, k>> \in stopped =>
                          bytes[<<l, k>>] + MaxChunk > ByteLimit[<<l, k>>]

\* Once dispose has resolved, no lease is open and none can be obtained.
DisposedIsQuiet == disposal = "done" => Active = {} /\ queue = <<>>

\* Every queued request is answered, and a disposal ends, although permits are
\* contended, pools run dry under waiting requests and the queue is never re-scanned
\* by itself.
EverythingAnswered ==
  /\ \A r \in Requests : request[r] = "queued" ~> request[r] # "queued"
  /\ disposal = "stopping" ~> disposal = "done"
================================================================================
