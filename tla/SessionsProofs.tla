----------------------------- MODULE SessionsProofs -----------------------------
(***************************************************************************)
(* Theorems about a demo session and whoever holds it, for any number of    *)
(* operations, resets, browsers, visitors and Index processes.              *)
(*                                                                         *)
(* The argument has four parts.  The session: whatever ends a generation    *)
(* aborts it and drops its answers in the same step, operations are at work *)
(* only over an owned fixture, and an operation that changes the Indexes or *)
(* the owners finds an empty view.  The pool: the line holds each browser   *)
(* that waits once, a reset waits for its own place in it, and a fault is on*)
(* only while the browser that asked for it is at its head.  The lease: at  *)
(* most one visitor has a claim to a generation, by a page, by a form on its*)
(* way or by an operation that was accepted; a new lease is granted only in *)
(* a generation nobody has a claim to.  The Indexes: a process that runs is *)
(* the registered one of its name, and the scope waits for the operations   *)
(* at work before it asks the registered ones to stop.                      *)
(***************************************************************************)
EXTENDS Sessions, SequenceTheorems, FunctionTheorems, FiniteSetTheorems, TLAPS

--------------------------------------------------------------------------------
(* The session.                                                            *)

\* What a state of the session is made of.
SessionTypeOK ==
  /\ front \in {"visitor", "lease", "pool", "journey"}
  /\ licensed \in BOOLEAN /\ aborted \in BOOLEAN /\ interrupted \in BOOLEAN
  /\ resetting \in BOOLEAN
  /\ generation \in 0..MaxGeneration
  /\ status \in {"starting", "ready", "resetting", "failed", "closed"}
  /\ fixture \in {"acquiring", "owned", "gone", "broken"}
  /\ closing \in {"no", "waiting", "stopping", "done"}
  /\ queue \in Seq(Actions)
  /\ discovery \in Observations /\ raw \in Observations
  /\ index \in IndexStates

\* Operations are at work only over an owned fixture, and one that is owned and not
\* aborted is ready.
WorkIsOwned ==
  /\ queue # <<>> => fixture = "owned"
  /\ queue = <<>> => phase = "queued"
  /\ fixture = "owned" /\ ~aborted => status = "ready"

\* Whatever ends a generation aborts it and drops its answers.
EndIsFenced ==
  /\ status = "ready" => fixture = "owned" /\ ~aborted /\ closing = "no" /\ ~resetting
  /\ status # "ready" => holders = <<>>
  /\ closing # "no" => aborted
  /\ resetting => aborted /\ closing \in {"no", "waiting"} /\ generation < MaxGeneration

\* A control and a recovery find nothing that was discovered before them, and only a
\* control that is at work may leave the shown condition behind the Index.
ViewIsFresh ==
  /\ discovery # "Stale" /\ raw # "Stale"
  /\ phase \in {"restoring", "applying", "migrating"} => discovery = "none"
  /\ phase = "migrating" => raw = "none"
  /\ phase \notin {"restoring", "applying"} => ShownTruly

SessionInv == SessionTypeOK /\ WorkIsOwned /\ EndIsFenced /\ ViewIsFresh

--------------------------------------------------------------------------------
(* The pool.                                                               *)

Contexts == [state : {"absent", "open", "closed"}, journey : Nat, resetting : BOOLEAN,
             ahead : Nat, action : Actions \cup {"none"}, of : Nat, discovery : BOOLEAN,
             selection : BOOLEAN, asked : BOOLEAN]

PoolTypeOK ==
  /\ browser \in [Browsers -> Contexts]
  /\ line \in Seq(Browsers) /\ plan \in Seq(Actions)
  /\ served \in BOOLEAN /\ seen \in BOOLEAN /\ faulted \in BOOLEAN
  /\ degraded \in BOOLEAN /\ poolClosed \in BOOLEAN

\* The line holds each browser that waits, once, and a reset waits for its own.
LineIsPending ==
  /\ Len(line) <= MaxPending
  /\ \A i, j \in 1..Len(line) : line[i] = line[j] => i = j
  /\ \A b \in Browsers : Pending(b) <=> \E k \in 1..Len(line) : line[k] = b
  /\ \A b \in Browsers : Pending(b) => browser[b].of = browser[b].journey
  /\ \A k \in 1..Len(line) : browser[line[k]].resetting => k <= browser[line[k]].ahead

\* A fault is on only while the browser that asked for it is served.
FaultIsServed ==
  /\ served => line # <<>>
  /\ served /\ ~Faulting(browser[Head(line)]) => ~faulted
  /\ ~served => ~faulted \/ degraded
  /\ degraded => ~served

\* Nothing is shown in a context that is not open, nor in a degraded pool.
ShownIsOpen ==
  /\ \A b \in Browsers : browser[b].discovery => Open(b) /\ ~degraded

PoolInv == PoolTypeOK /\ LineIsPending /\ FaultIsServed /\ ShownIsOpen

--------------------------------------------------------------------------------
(* The lease server.                                                       *)

\* Who can still get an operation accepted in this generation, or has.
Claims(v) == page[v] = generation \/ posting[v] = generation \/ v \in actors[generation]

ServerTypeOK ==
  /\ lease \in Visitors \cup {NoVisitor}
  /\ leaseReset \in {"no", "running", "failed"}
  /\ page \in [Visitors -> Int] /\ posting \in [Visitors -> Int]
  /\ \A v \in Visitors : page[v] <= generation /\ posting[v] <= generation
  /\ actors \in [0..MaxGeneration -> SUBSET Visitors]
  /\ \A g \in 0..MaxGeneration : g > generation => actors[g] = {}

\* One visitor at most has a claim to a generation: the holder of the lease, or, once it
\* has run out, the one who held it, until the session has been reset.
OneClaims ==
  /\ \A u, v \in Visitors : Claims(u) /\ Claims(v) => u = v
  /\ \A g \in 0..MaxGeneration : \A u, v \in actors[g] : u = v
  /\ lease # NoVisitor => leaseReset = "no"
  /\ leaseReset = "no" => \A v \in Visitors : Claims(v) => v = lease
  /\ leaseReset = "running" /\ ~resetting =>
       fixture = "broken" \/ \A v \in Visitors : ~Claims(v)

ServerInv == ServerTypeOK /\ OneClaims

--------------------------------------------------------------------------------
(* A session, operation by operation.                                      *)

\* What a step of the session does to its generation: it keeps it, or gives up its reset,
\* or begins the next one.
Turns ==
  \/ generation' = generation /\ (resetting => resetting') /\ (fixture = "broken" => fixture' = "broken")
  \/ generation' = generation /\ ~resetting' /\ fixture' = "broken"
  \/ generation' = generation + 1 /\ ~resetting'

\* Accepting and ending an operation.
LEMMA QueueMoves ==
  ASSUME SessionTypeOK
  PROVE  /\ \A a \in Actions : Append(queue, a) \in Seq(Actions) /\ Append(queue, a) # <<>>
         /\ queue # <<>> => Tail(queue) \in Seq(Actions) /\ Head(queue) \in Actions
         /\ <<>> \in Seq(Actions)
<1>1. ASSUME NEW a \in Actions PROVE Append(queue, a) \in Seq(Actions) /\ Append(queue, a) # <<>>
  BY <1>1, AppendProperties DEF SessionTypeOK
<1>2. ASSUME queue # <<>> PROVE Tail(queue) \in Seq(Actions) /\ Head(queue) \in Actions
  BY <1>2, HeadTailProperties DEF SessionTypeOK
<1>3. <<>> \in Seq(Actions)
  OBVIOUS
<1> QED BY <1>1, <1>2, <1>3

\* A control leaves an Index in one of its states, done or half-done.
LEMMA IndexStays ==
  ASSUME index \in IndexStates
  PROVE  /\ Serving \in IndexStates /\ HalfDone \subseteq IndexStates
         /\ \A a : Controlled(a) \in IndexStates
<1>1. Serving \in IndexStates
  BY DEF Serving, IndexStates
<1>2. index.up \in BOOLEAN /\ index.route \in {"direct", "proxy", "closed"}
  BY DEF IndexStates
<1>3. HalfDone \subseteq IndexStates
  BY <1>1, <1>2 DEF HalfDone, IndexStates
<1>4. ASSUME NEW a PROVE Controlled(a) \in IndexStates
  <2>1. CASE a = "stop"
    BY <2>1 DEF Controlled, IndexStates
  <2>2. CASE a = "tamper"
    BY <2>2 DEF Controlled, IndexStates
  <2>3. CASE a \notin {"stop", "tamper"}
    BY <1>1, <2>3 DEF Controlled
  <2> QED BY <2>1, <2>2, <2>3
<1> QED BY <1>1, <1>3, <1>4

\* A control that took effect is shown truly; a tampering one hides an Index that is down.
LEMMA ControlIsShown ==
  ASSUME index \in IndexStates, NEW a, index' = Controlled(a),
         indexControl' \in {Effect(a), "unknown"}
  PROVE  ShownTruly'
<1>1. CASE a = "stop"
  BY <1>1 DEF Controlled, Effect, ShownTruly, Reached
<1>2. CASE a = "tamper"
  <2>1. index' = [index EXCEPT !.route = "proxy"]
    BY <1>2 DEF Controlled
  <2>2. index'.route = "proxy" /\ index'.up = index.up
    BY <2>1 DEF IndexStates
  <2>3. Reached' \in {"altered", "offline"}
    BY <2>2 DEF Reached
  <2> QED BY <1>2, <2>3 DEF Effect, ShownTruly
<1>3. CASE a \notin {"stop", "tamper"}
  BY <1>3 DEF Controlled, Effect, ShownTruly, Reached, Serving
<1> QED BY <1>1, <1>2, <1>3

\* What an operation does at any of its awaits.
LEMMA ServeKeeps ==
  ASSUME SessionInv, Serve
  PROVE  SessionInv' /\ UNCHANGED lifeVars
<1> USE QueueMoves DEF SessionInv
<1>1. CASE Begin
  <2> USE <1>1 DEF Begin, Busy, Acting, End, Goto, lifeVars, viewVars, worldVars, journeyVars, workVars, Drop
  <2>1. UNCHANGED lifeVars
    OBVIOUS
  <2>2. SessionTypeOK'
    BY <2>1 DEF SessionTypeOK, Observations, Overtake
  <2>3. WorkIsOwned'
    BY <2>1 DEF WorkIsOwned, SessionTypeOK
  <2>4. EndIsFenced'
    BY <2>1 DEF WorkIsOwned, EndIsFenced, Without, Holds
  <2>5. ViewIsFresh'
    BY <2>1 DEF ViewIsFresh, Overtake, FirstPhase, Controls, Effect, ShownTruly, Reached
  <2> QED BY <2>1, <2>2, <2>3, <2>4, <2>5
<1>2. CASE NeverBegins
  <2> USE <1>2 DEF NeverBegins, Busy, Acting, End, Goto, lifeVars, viewVars, worldVars, journeyVars, workVars, Drop
  <2>1. UNCHANGED lifeVars
    OBVIOUS
  <2>2. SessionTypeOK'
    BY <2>1 DEF SessionTypeOK, Observations, Overtake
  <2>3. WorkIsOwned'
    BY <2>1 DEF WorkIsOwned, SessionTypeOK
  <2>4. EndIsFenced'
    BY <2>1 DEF WorkIsOwned, EndIsFenced, Without, Holds
  <2>5. ViewIsFresh'
    BY <2>1 DEF ViewIsFresh, Overtake, FirstPhase, Controls, Effect, ShownTruly, Reached
  <2> QED BY <2>1, <2>2, <2>3, <2>4, <2>5
<1>3. CASE Read
  <2> USE <1>3 DEF Read, Busy, Acting, End, Goto, lifeVars, viewVars, worldVars, journeyVars, workVars, Drop
  <2>1. UNCHANGED lifeVars
    OBVIOUS
  <2>2. SessionTypeOK'
    BY <2>1 DEF SessionTypeOK, Observations, Overtake
  <2>3. WorkIsOwned'
    BY <2>1 DEF WorkIsOwned, SessionTypeOK
  <2>4. EndIsFenced'
    BY <2>1 DEF WorkIsOwned, EndIsFenced, Without, Holds
  <2>5. ViewIsFresh'
    BY <2>1 DEF ViewIsFresh, Overtake, FirstPhase, Controls, Effect, ShownTruly, Reached
  <2> QED BY <2>1, <2>2, <2>3, <2>4, <2>5
<1>4. CASE Check
  <2> USE <1>4 DEF Check, Busy, Acting, End, Goto, lifeVars, viewVars, worldVars, journeyVars, workVars, Drop
  <2>1. UNCHANGED lifeVars
    OBVIOUS
  <2>2. SessionTypeOK'
    BY <2>1 DEF SessionTypeOK, Observations, Overtake
  <2>3. WorkIsOwned'
    BY <2>1 DEF WorkIsOwned, SessionTypeOK
  <2>4. EndIsFenced'
    BY <2>1 DEF WorkIsOwned, EndIsFenced, Without, Holds
  <2>5. ViewIsFresh'
    BY <2>1 DEF ViewIsFresh, Overtake, FirstPhase, Controls, Effect, ShownTruly, Reached
  <2> QED BY <2>1, <2>2, <2>3, <2>4, <2>5
<1>5. CASE Send
  <2> USE <1>5 DEF Send, Busy, Acting, End, Goto, lifeVars, viewVars, worldVars, journeyVars, workVars, Drop
  <2>1. UNCHANGED lifeVars
    OBVIOUS
  <2>2. SessionTypeOK'
    BY <2>1 DEF SessionTypeOK, Observations, Overtake
  <2>3. WorkIsOwned'
    BY <2>1 DEF WorkIsOwned, SessionTypeOK
  <2>4. EndIsFenced'
    BY <2>1 DEF WorkIsOwned, EndIsFenced, Without, Holds
  <2>5. ViewIsFresh'
    BY <2>1 DEF ViewIsFresh, Overtake, FirstPhase, Controls, Effect, ShownTruly, Reached
  <2> QED BY <2>1, <2>2, <2>3, <2>4, <2>5
<1>6. CASE Retain
  <2> USE <1>6 DEF Retain, Busy, Acting, End, Goto, lifeVars, viewVars, worldVars, journeyVars, workVars, Drop
  <2>1. UNCHANGED lifeVars
    OBVIOUS
  <2>2. SessionTypeOK'
    BY <2>1 DEF SessionTypeOK, Observations, Overtake
  <2>3. WorkIsOwned'
    BY <2>1 DEF WorkIsOwned, SessionTypeOK
  <2>4. EndIsFenced'
    BY <2>1 DEF WorkIsOwned, EndIsFenced, Without, Holds
  <2>5. ViewIsFresh'
    BY <2>1 DEF ViewIsFresh, Overtake, FirstPhase, Controls, Effect, ShownTruly, Reached
  <2> QED BY <2>1, <2>2, <2>3, <2>4, <2>5
<1>7. CASE SubmitFails
  <2> USE <1>7 DEF SubmitFails, Busy, Acting, End, Goto, lifeVars, viewVars, worldVars, journeyVars, workVars, Drop
  <2>1. UNCHANGED lifeVars
    OBVIOUS
  <2>2. SessionTypeOK'
    BY <2>1 DEF SessionTypeOK, Observations, Overtake
  <2>3. WorkIsOwned'
    BY <2>1 DEF WorkIsOwned, SessionTypeOK
  <2>4. EndIsFenced'
    BY <2>1 DEF WorkIsOwned, EndIsFenced, Without, Holds
  <2>5. ViewIsFresh'
    BY <2>1 DEF ViewIsFresh, Overtake, FirstPhase, Controls, Effect, ShownTruly, Reached
  <2> QED BY <2>1, <2>2, <2>3, <2>4, <2>5
<1>8. CASE Publish
  <2> USE <1>8 DEF Publish, Busy, Acting, End, Goto, lifeVars, viewVars, worldVars, journeyVars, workVars, Drop
  <2>1. UNCHANGED lifeVars
    OBVIOUS
  <2>2. SessionTypeOK'
    BY <2>1 DEF SessionTypeOK, Observations, Overtake
  <2>3. WorkIsOwned'
    BY <2>1 DEF WorkIsOwned, SessionTypeOK
  <2>4. EndIsFenced'
    BY <2>1 DEF WorkIsOwned, EndIsFenced, Without, Holds
  <2>5. ViewIsFresh'
    BY <2>1 DEF ViewIsFresh, Overtake, FirstPhase, Controls, Effect, ShownTruly, Reached
  <2> QED BY <2>1, <2>2, <2>3, <2>4, <2>5
<1>9. CASE Restored
  <2> USE <1>9 DEF Restored, Busy, Acting, End, Goto, lifeVars, viewVars, worldVars, journeyVars, workVars, Drop
  <2>1. UNCHANGED lifeVars
    OBVIOUS
  <2>2. SessionTypeOK'
    BY <2>1 DEF SessionTypeOK, Observations, Overtake, IndexStates, Serving, Controlled, HalfDone
  <2>3. WorkIsOwned'
    BY <2>1 DEF WorkIsOwned, SessionTypeOK
  <2>4. EndIsFenced'
    BY <2>1 DEF WorkIsOwned, EndIsFenced, Without, Holds
  <2>5. ViewIsFresh'
    BY <2>1 DEF ViewIsFresh, Overtake, FirstPhase, Controls, Effect, ShownTruly, Reached,
                   SessionTypeOK, IndexStates, Serving, Controlled
  <2> QED BY <2>1, <2>2, <2>3, <2>4, <2>5
<1>10. CASE Applied
  <2> USE <1>10 DEF Applied, Busy, Acting, End, Goto, lifeVars, viewVars, worldVars, journeyVars, workVars, Drop
  <2>1. UNCHANGED lifeVars
    OBVIOUS
  <2>2. index' = Controlled(Head(queue)) /\ index' \in IndexStates
    BY IndexStays DEF SessionTypeOK
  <2>3. SessionTypeOK'
    BY <2>1, <2>2 DEF SessionTypeOK, Observations, Overtake
  <2>4. WorkIsOwned'
    BY <2>1 DEF WorkIsOwned, SessionTypeOK
  <2>5. EndIsFenced'
    BY <2>1 DEF WorkIsOwned, EndIsFenced, Without, Holds
  <2>6. ShownTruly'
    <3>1. indexControl' \in {Effect(Head(queue)), "unknown"}
      OBVIOUS
    <3> QED BY <2>2, <3>1, ControlIsShown DEF SessionTypeOK
  <2>7. ViewIsFresh'
    BY <2>1, <2>6 DEF ViewIsFresh, Overtake, FirstPhase, Controls
  <2> QED BY <2>1, <2>3, <2>4, <2>5, <2>7
<1>11. CASE ControlFails
  <2> USE <1>11 DEF ControlFails, Busy, Acting, End, Goto, lifeVars, viewVars, worldVars, journeyVars, workVars, Drop
  <2>1. UNCHANGED lifeVars
    OBVIOUS
  <2>2. index' \in IndexStates
    BY IndexStays DEF SessionTypeOK
  <2>3. SessionTypeOK'
    BY <2>1, <2>2 DEF SessionTypeOK, Observations, Overtake
  <2>4. WorkIsOwned'
    BY <2>1 DEF WorkIsOwned, SessionTypeOK
  <2>5. EndIsFenced'
    BY <2>1 DEF WorkIsOwned, EndIsFenced, Without, Holds
  <2>6. ShownTruly'
    BY DEF ShownTruly
  <2>7. ViewIsFresh'
    BY <2>1, <2>6 DEF ViewIsFresh, Overtake, FirstPhase, Controls
  <2> QED BY <2>1, <2>3, <2>4, <2>5, <2>7
<1>12. CASE Recovered
  <2> USE <1>12 DEF Recovered, Busy, Acting, End, Goto, lifeVars, viewVars, worldVars, journeyVars, workVars, Drop
  <2>1. UNCHANGED lifeVars
    OBVIOUS
  <2>2. SessionTypeOK'
    BY <2>1 DEF SessionTypeOK, Observations, Overtake
  <2>3. WorkIsOwned'
    BY <2>1 DEF WorkIsOwned, SessionTypeOK
  <2>4. EndIsFenced'
    BY <2>1 DEF WorkIsOwned, EndIsFenced, Without, Holds
  <2>5. ViewIsFresh'
    BY <2>1 DEF ViewIsFresh, Overtake, FirstPhase, Controls, Effect, ShownTruly, Reached
  <2> QED BY <2>1, <2>2, <2>3, <2>4, <2>5
<1>13. CASE Waited
  <2> USE <1>13 DEF Waited, Busy, Acting, End, Goto, lifeVars, viewVars, worldVars, journeyVars, workVars, Drop
  <2>1. UNCHANGED lifeVars
    OBVIOUS
  <2>2. SessionTypeOK'
    BY <2>1 DEF SessionTypeOK, Observations, Overtake
  <2>3. WorkIsOwned'
    BY <2>1 DEF WorkIsOwned, SessionTypeOK
  <2>4. EndIsFenced'
    BY <2>1 DEF WorkIsOwned, EndIsFenced, Without, Holds
  <2>5. ViewIsFresh'
    BY <2>1 DEF ViewIsFresh, Overtake, FirstPhase, Controls, Effect, ShownTruly, Reached
  <2> QED BY <2>1, <2>2, <2>3, <2>4, <2>5
<1>14. CASE Fails
  <2> USE <1>14 DEF Fails, Busy, Acting, End, Goto, lifeVars, viewVars, worldVars, journeyVars, workVars, Drop
  <2>1. UNCHANGED lifeVars
    OBVIOUS
  <2>2. SessionTypeOK'
    BY <2>1 DEF SessionTypeOK, Observations, Overtake
  <2>3. WorkIsOwned'
    BY <2>1 DEF WorkIsOwned, SessionTypeOK
  <2>4. EndIsFenced'
    BY <2>1 DEF WorkIsOwned, EndIsFenced, Without, Holds
  <2>5. ViewIsFresh'
    BY <2>1 DEF ViewIsFresh, Overtake, FirstPhase, Controls, Effect, ShownTruly, Reached
  <2> QED BY <2>1, <2>2, <2>3, <2>4, <2>5
<1> QED BY <1>1, <1>2, <1>3, <1>4, <1>5, <1>6, <1>7, <1>8, <1>9, <1>10, <1>11, <1>12, <1>13, <1>14 DEF Serve

\* Accepting an operation.
LEMMA AcceptKeeps ==
  ASSUME SessionInv, NEW a \in Actions, NEW chosen, AcceptWith(a, chosen)
  PROVE  SessionInv' /\ UNCHANGED lifeVars
<1> USE QueueMoves DEF SessionInv, AcceptWith, Ready, Busy, lifeVars, worldVars, journeyVars, Drop
<1>1. UNCHANGED lifeVars
  OBVIOUS
<1>2. SessionTypeOK'
  BY <1>1 DEF SessionTypeOK, Observations
<1>3. WorkIsOwned'
  BY <1>1 DEF WorkIsOwned, SessionTypeOK
<1>4. EndIsFenced'
  BY <1>1 DEF EndIsFenced
<1>5. ViewIsFresh'
  BY <1>1 DEF ViewIsFresh, ShownTruly, Reached, WorkIsOwned
<1> QED BY <1>1, <1>2, <1>3, <1>4, <1>5

\* What the fixture, a reset, a close, a signal and the choice of a service do.
LEMMA LifeKeeps ==
  ASSUME SessionInv, Host \/ RequestReset \/ RequestClose \/ Interrupt \/ SelectService
  PROVE  SessionInv' /\ Turns
<1> USE SessionAssumption, QueueMoves DEF SessionInv
<1>1. CASE Acquired
  <2> USE <1>1 DEF Acquired, Busy, lifeVars, viewVars, worldVars, journeyVars, workVars, Drop
  <2>1. Turns
    BY DEF Turns, SessionTypeOK, EndIsFenced
  <2>2. SessionTypeOK'
    BY DEF SessionTypeOK, Observations, EndIsFenced
  <2>3. WorkIsOwned'
    BY DEF WorkIsOwned, SessionTypeOK
  <2>4. EndIsFenced'
    BY DEF WorkIsOwned, EndIsFenced, SessionTypeOK
  <2>5. ViewIsFresh'
    BY DEF ViewIsFresh, ShownTruly, Reached, WorkIsOwned
  <2> QED BY <2>1, <2>2, <2>3, <2>4, <2>5
<1>2. CASE NotAcquired
  <2> USE <1>2 DEF NotAcquired, Busy, lifeVars, viewVars, worldVars, journeyVars, workVars, Drop
  <2>1. Turns
    BY DEF Turns, SessionTypeOK, EndIsFenced
  <2>2. SessionTypeOK'
    BY DEF SessionTypeOK, Observations, EndIsFenced
  <2>3. WorkIsOwned'
    BY DEF WorkIsOwned, SessionTypeOK
  <2>4. EndIsFenced'
    BY DEF WorkIsOwned, EndIsFenced, SessionTypeOK
  <2>5. ViewIsFresh'
    BY DEF ViewIsFresh, ShownTruly, Reached, WorkIsOwned
  <2> QED BY <2>1, <2>2, <2>3, <2>4, <2>5
<1>3. CASE Cleanup
  <2> USE <1>3 DEF Cleanup, Busy, lifeVars, viewVars, worldVars, journeyVars, workVars, Drop
  <2>1. Turns
    BY DEF Turns, SessionTypeOK, EndIsFenced
  <2>2. SessionTypeOK'
    BY DEF SessionTypeOK, Observations, EndIsFenced
  <2>3. WorkIsOwned'
    BY DEF WorkIsOwned, SessionTypeOK
  <2>4. EndIsFenced'
    BY DEF WorkIsOwned, EndIsFenced, SessionTypeOK
  <2>5. ViewIsFresh'
    BY DEF ViewIsFresh, ShownTruly, Reached, WorkIsOwned
  <2> QED BY <2>1, <2>2, <2>3, <2>4, <2>5
<1>4. CASE ResetStops
  <2> USE <1>4 DEF ResetStops, Busy, lifeVars, viewVars, worldVars, journeyVars, workVars, Drop, Cleared
  <2>1. Turns
    BY DEF Turns, SessionTypeOK, EndIsFenced
  <2>2. SessionTypeOK'
    <3>1. CASE fixture = "broken"
      <4>1. UNCHANGED <<generation, status, aborted, fixture, queue, discovery, index, front, licensed, interrupted>>
        BY <3>1
      <4>2. raw' = "none" /\ resetting' = FALSE /\ closing' \in {"done", closing}
        BY <3>1
      <4>3. queue' \in Seq(Actions) /\ index' \in IndexStates /\ discovery' \in Observations
        BY <4>1 DEF SessionTypeOK
      <4>4. generation' \in 0..MaxGeneration /\ aborted' \in BOOLEAN /\ raw' \in Observations
        BY <4>1, <4>2 DEF SessionTypeOK, Observations
      <4>5. /\ status' \in {"starting", "ready", "resetting", "failed", "closed"}
            /\ closing' \in {"no", "waiting", "stopping", "done"}
        BY <4>1, <4>2 DEF SessionTypeOK
      <4> QED BY <4>1, <4>2, <4>3, <4>4, <4>5 DEF SessionTypeOK
    <3>2. CASE fixture # "broken"
      <4>1. generation' \in 0..MaxGeneration
        BY <3>2 DEF SessionTypeOK, EndIsFenced
      <4>2. status' \in {"starting", "resetting"} /\ closing' \in {closing, "stopping"} /\ fixture' = "acquiring"
        BY <3>2
      <4>3. aborted' \in BOOLEAN
        BY <3>2
      <4>4. queue' = <<>> /\ discovery' = "none" /\ raw' = "none" /\ resetting' = FALSE
        BY <3>2
      <4>5. index' \in IndexStates
        BY <3>2, IndexStays DEF SessionTypeOK
      <4> QED BY <4>1, <4>2, <4>3, <4>4, <4>5 DEF SessionTypeOK, Observations
    <3> QED BY <3>1, <3>2
  <2>3. WorkIsOwned'
    BY DEF WorkIsOwned, SessionTypeOK
  <2>4. EndIsFenced'
    BY DEF WorkIsOwned, EndIsFenced, SessionTypeOK
  <2>5. ViewIsFresh'
    <3>1. CASE fixture = "broken"
      <4>1. UNCHANGED <<index, indexControl, phase, discovery>> /\ raw' = "none"
        BY <3>1
      <4> QED BY <4>1 DEF ViewIsFresh, ShownTruly, Reached
    <3>2. CASE fixture # "broken"
      <4>1. /\ index' = Serving /\ indexControl' = "online" /\ phase' = "queued"
            /\ discovery' = "none" /\ raw' = "none"
        BY <3>2
      <4> QED BY <4>1 DEF ViewIsFresh, ShownTruly, Reached, Serving
    <3> QED BY <3>1, <3>2
  <2> QED BY <2>1, <2>2, <2>3, <2>4, <2>5
<1>5. CASE CloseEnds
  <2> USE <1>5 DEF CloseEnds, Busy, lifeVars, viewVars, worldVars, journeyVars, workVars, Drop
  <2>1. Turns
    BY DEF Turns, SessionTypeOK, EndIsFenced
  <2>2. SessionTypeOK'
    BY DEF SessionTypeOK, Observations, EndIsFenced
  <2>3. WorkIsOwned'
    BY DEF WorkIsOwned, SessionTypeOK
  <2>4. EndIsFenced'
    BY DEF WorkIsOwned, EndIsFenced, SessionTypeOK
  <2>5. ViewIsFresh'
    BY DEF ViewIsFresh, ShownTruly, Reached, WorkIsOwned
  <2> QED BY <2>1, <2>2, <2>3, <2>4, <2>5
<1>6. CASE RequestReset
  <2> USE <1>6 DEF RequestReset, Busy, lifeVars, viewVars, worldVars, journeyVars, workVars, Drop
  <2>1. Turns
    BY DEF Turns, SessionTypeOK, EndIsFenced
  <2>2. SessionTypeOK'
    BY DEF SessionTypeOK, Observations, EndIsFenced
  <2>3. WorkIsOwned'
    BY DEF WorkIsOwned, SessionTypeOK
  <2>4. EndIsFenced'
    BY DEF WorkIsOwned, EndIsFenced, SessionTypeOK
  <2>5. ViewIsFresh'
    BY DEF ViewIsFresh, ShownTruly, Reached, WorkIsOwned
  <2> QED BY <2>1, <2>2, <2>3, <2>4, <2>5
<1>7. CASE RequestClose
  <2> USE <1>7 DEF RequestClose, Busy, lifeVars, viewVars, worldVars, journeyVars, workVars, Drop
  <2>1. Turns
    BY DEF Turns, SessionTypeOK, EndIsFenced
  <2>2. SessionTypeOK'
    BY DEF SessionTypeOK, Observations, EndIsFenced
  <2>3. WorkIsOwned'
    BY DEF WorkIsOwned, SessionTypeOK
  <2>4. EndIsFenced'
    BY DEF WorkIsOwned, EndIsFenced, SessionTypeOK
  <2>5. ViewIsFresh'
    BY DEF ViewIsFresh, ShownTruly, Reached, WorkIsOwned
  <2> QED BY <2>1, <2>2, <2>3, <2>4, <2>5
<1>8. CASE Interrupt
  <2> USE <1>8 DEF Interrupt, Busy, lifeVars, viewVars, worldVars, journeyVars, workVars, Drop
  <2>1. Turns
    BY DEF Turns, SessionTypeOK, EndIsFenced
  <2>2. SessionTypeOK'
    <3>1. CASE fixture = "owned"
      BY <3>1 DEF SessionTypeOK, Observations
    <3>2. CASE fixture # "owned"
      BY <3>2 DEF SessionTypeOK, Observations
    <3> QED BY <3>1, <3>2
  <2>3. WorkIsOwned'
    BY DEF WorkIsOwned, SessionTypeOK
  <2>4. EndIsFenced'
    BY DEF WorkIsOwned, EndIsFenced, SessionTypeOK
  <2>5. ViewIsFresh'
    BY DEF ViewIsFresh, ShownTruly, Reached, WorkIsOwned
  <2> QED BY <2>1, <2>2, <2>3, <2>4, <2>5
<1>9. CASE SelectService
  <2> USE <1>9 DEF SelectService, Busy, lifeVars, viewVars, worldVars, journeyVars, workVars, Drop, Ready
  <2>1. Turns
    BY DEF Turns, SessionTypeOK, EndIsFenced
  <2>2. SessionTypeOK'
    BY DEF SessionTypeOK, Observations, EndIsFenced
  <2>3. WorkIsOwned'
    BY DEF WorkIsOwned, SessionTypeOK
  <2>4. EndIsFenced'
    BY DEF WorkIsOwned, EndIsFenced, SessionTypeOK
  <2>5. ViewIsFresh'
    BY DEF ViewIsFresh, ShownTruly, Reached, WorkIsOwned
  <2> QED BY <2>1, <2>2, <2>3, <2>4, <2>5
<1> QED BY <1>1, <1>2, <1>3, <1>4, <1>5, <1>6, <1>7, <1>8, <1>9 DEF Host

--------------------------------------------------------------------------------
(* The pool: what changes of a context, and how the line moves.            *)

\* c stands in the line as d does.
SameLine(c, d) ==
  /\ c.action = d.action /\ c.of = d.of /\ c.journey = d.journey
  /\ c.resetting = d.resetting /\ c.ahead = d.ahead

\* A context that is blanked or closed keeps its place and shows nothing.
LEMMA ContextForms ==
  ASSUME NEW c \in Contexts
  PROVE  /\ Blank(c) \in Contexts /\ SameLine(Blank(c), c)
         /\ ~Blank(c).discovery /\ Blank(c).state = c.state
         /\ Closed(c) \in Contexts /\ SameLine(Closed(c), c)
         /\ ~Closed(c).discovery /\ Closed(c).state = "closed"
<1>1. Blank(c) \in Contexts /\ SameLine(Blank(c), c) /\ ~Blank(c).discovery /\ Blank(c).state = c.state
  BY DEF Blank, Contexts, SameLine
<1>2. ASSUME NEW d \in Contexts, SameLine(d, c), ~d.discovery
      PROVE  LET e == [d EXCEPT !.state = "closed", !.asked = FALSE]
             IN  e \in Contexts /\ SameLine(e, c) /\ ~e.discovery /\ e.state = "closed"
  BY <1>2 DEF Contexts, SameLine
<1>3. Closed(c) = [Blank(c) EXCEPT !.state = "closed", !.asked = FALSE]
  BY DEF Closed
<1> QED BY <1>1, <1>2, <1>3

\* A reset of a browser leaves its operation alone, and shows nothing new.
LEMMA RenewedForm ==
  ASSUME NEW c \in Contexts
  PROVE  /\ Renewed(c) \in Contexts /\ Renewed(c).action = c.action
         /\ Renewed(c).state = c.state /\ (Renewed(c).discovery => c.discovery)
<1>1. CASE c.state = "closed"
  BY <1>1 DEF Renewed, Contexts
<1>2. CASE c.state # "closed"
  <2>1. ASSUME NEW d \in Contexts, NEW n \in Nat
        PROVE  LET e == [d EXCEPT !.resetting = FALSE, !.journey = n, !.asked = FALSE]
               IN  /\ e \in Contexts /\ e.action = d.action /\ e.state = d.state
                   /\ e.discovery = d.discovery
    BY DEF Contexts
  <2>2. Blank(c) \in Contexts /\ Blank(c).journey + 1 \in Nat
    BY ContextForms DEF Contexts
  <2>3. Renewed(c) = [Blank(c) EXCEPT !.resetting = FALSE, !.journey = Blank(c).journey + 1,
                                      !.asked = FALSE]
    BY <1>2 DEF Renewed
  <2>4. PICK d \in Contexts, n \in Nat : d = Blank(c) /\ n = Blank(c).journey + 1
    BY <2>2, ContextForms
  <2>5. Renewed(c) = [d EXCEPT !.resetting = FALSE, !.journey = n, !.asked = FALSE]
    BY <2>3, <2>4
  <2>6. /\ Renewed(c) \in Contexts /\ Renewed(c).action = d.action /\ Renewed(c).state = d.state
        /\ Renewed(c).discovery = d.discovery
    BY <2>1, <2>5
  <2>7. d.action = c.action /\ d.state = c.state /\ ~d.discovery
    BY <2>4, ContextForms DEF SameLine
  <2> QED BY <2>6, <2>7
<1> QED BY <1>1, <1>2

\* One context changes.
LEMMA OneChanges ==
  ASSUME PoolTypeOK, NEW b \in Browsers, NEW c \in Contexts,
         browser' = [browser EXCEPT ![b] = c]
  PROVE  /\ browser' \in [Browsers -> Contexts]
         /\ browser'[b] = c
         /\ \A x \in Browsers : x # b => browser'[x] = browser[x]
BY DEF PoolTypeOK

\* The line stands while no context changes its place in it.
LEMMA PlacesStand ==
  ASSUME PoolTypeOK, LineIsPending, line' = line, browser' \in [Browsers -> Contexts],
         \A x \in Browsers : SameLine(browser'[x], browser[x])
  PROVE  /\ LineIsPending'
         /\ line # <<>> => Faulting(browser[Head(line)])' = Faulting(browser[Head(line)])
<1>1. \A k \in 1..Len(line) : line[k] \in Browsers
  BY DEF PoolTypeOK
<1>2. \A x \in Browsers : Pending(x)' = Pending(x)
  BY DEF Pending, SameLine
<1>3. \A k \in 1..Len(line) : browser'[line[k]].resetting = browser[line[k]].resetting
                              /\ browser'[line[k]].ahead = browser[line[k]].ahead
  BY <1>1 DEF SameLine
<1>4. \A x \in Browsers : browser'[x].of = browser[x].of /\ browser'[x].journey = browser[x].journey
  BY DEF SameLine
<1>5. LineIsPending'
  BY <1>2, <1>3, <1>4 DEF LineIsPending
<1>6. ASSUME line # <<>>
      PROVE  Faulting(browser[Head(line)])' = Faulting(browser[Head(line)])
  <2>1. Head(line) \in Browsers
    BY <1>6 DEF PoolTypeOK
  <2> QED BY <2>1 DEF Faulting, SameLine
<1> QED BY <1>5, <1>6

\* The head leaves the line.
LEMMA LineMoves ==
  ASSUME PoolTypeOK, line # <<>>
  PROVE  /\ Head(line) \in Browsers /\ Head(line) = line[1] /\ Len(line) \in Nat \ {0}
         /\ Tail(line) \in Seq(Browsers) /\ Len(Tail(line)) = Len(line) - 1
         /\ \A k \in 1..(Len(line) - 1) : Tail(line)[k] = line[k + 1]
BY HeadTailProperties DEF PoolTypeOK

\* A context when the line has moved.
Moved(c) == [c EXCEPT !.ahead = IF @ > 0 THEN @ - 1 ELSE 0]
\* The head's context, when the line has moved without it.
Left(c) == [Moved(c) EXCEPT !.action = "none", !.of = 0]

\* What has moved stands one place further on, and the head stands nowhere.
LEMMA MovedForm ==
  ASSUME NEW c \in Contexts
  PROVE  /\ Moved(c) \in Contexts /\ Left(c) \in Contexts
         /\ Moved(c).ahead = (IF c.ahead > 0 THEN c.ahead - 1 ELSE 0) /\ Left(c).ahead = Moved(c).ahead
         /\ Moved(c).action = c.action /\ Moved(c).of = c.of /\ Left(c).action = "none"
         /\ Moved(c).journey = c.journey
         /\ Moved(c).resetting = c.resetting /\ Left(c).resetting = c.resetting
         /\ Moved(c).discovery = c.discovery /\ Left(c).discovery = c.discovery
         /\ Moved(c).state = c.state /\ Left(c).state = c.state
<1>1. PICK n \in Nat : n = IF c.ahead > 0 THEN c.ahead - 1 ELSE 0
  BY DEF Contexts
<1>2. Moved(c) = [c EXCEPT !.ahead = n]
  BY <1>1 DEF Moved
<1>3. /\ Moved(c) \in Contexts /\ Moved(c).ahead = n /\ Moved(c).action = c.action
      /\ Moved(c).of = c.of /\ Moved(c).journey = c.journey
      /\ Moved(c).resetting = c.resetting /\ Moved(c).discovery = c.discovery
      /\ Moved(c).state = c.state
  BY <1>2 DEF Contexts
<1>4. PICK e \in Contexts : e = Moved(c)
  BY <1>3
<1>5. ASSUME NEW d \in Contexts
      PROVE  LET f == [d EXCEPT !.action = "none", !.of = 0]
             IN  /\ f \in Contexts /\ f.ahead = d.ahead /\ f.action = "none"
                 /\ f.resetting = d.resetting /\ f.discovery = d.discovery /\ f.state = d.state
  BY DEF Contexts
<1>6. /\ Left(c) \in Contexts /\ Left(c).ahead = e.ahead /\ Left(c).action = "none"
      /\ Left(c).resetting = e.resetting /\ Left(c).discovery = e.discovery /\ Left(c).state = e.state
  <2>1. Left(c) = [e EXCEPT !.action = "none", !.of = 0]
    BY <1>4 DEF Left
  <2> QED BY <1>5, <2>1
<1> QED BY <1>1, <1>3, <1>4, <1>6

\* When the line moves, each context keeps its place in it, and what it shows is what
\* was given to it if it is open.
LEMMA FinishKeeps ==
  ASSUME PoolTypeOK, LineIsPending, line # <<>>,
         NEW contexts \in [Browsers -> Contexts],
         \A x \in Browsers : SameLine(contexts[x], browser[x]) /\ contexts[x].state = browser[x].state,
         Finish(contexts)
  PROVE  /\ browser' \in [Browsers -> Contexts] /\ line' \in Seq(Browsers)
         /\ plan' = <<>> /\ ~served' /\ seen' = FALSE
         /\ LineIsPending'
         /\ \A x \in Browsers :
              /\ browser'[x].state = browser[x].state
              /\ browser'[x].discovery = IF Open(x) THEN contexts[x].discovery
                                         ELSE browser[x].discovery
<1> DEFINE from(x) == IF Open(x) THEN contexts[x] ELSE browser[x]
<1>1. \A x \in Browsers : from(x) \in Contexts /\ SameLine(from(x), browser[x])
                          /\ from(x).state = browser[x].state
  BY DEF PoolTypeOK, SameLine
<1>2. \A x \in Browsers :
        browser'[x] = IF x = Head(line) THEN Left(from(x)) ELSE Moved(from(x))
  BY DEF Finish, Moved, Left
<1>3. from(Head(line)) = from(Head(line)) /\ line' = Tail(line)
  BY DEF Finish
<1>4. \A x \in Browsers : from(x).discovery = IF Open(x) THEN contexts[x].discovery ELSE browser[x].discovery
  OBVIOUS
<1> HIDE DEF from
<1>5. ASSUME NEW x \in Browsers
      PROVE  /\ browser'[x] \in Contexts
             /\ browser'[x].ahead = (IF browser[x].ahead > 0 THEN browser[x].ahead - 1 ELSE 0)
             /\ browser'[x].resetting = browser[x].resetting
             /\ browser'[x].discovery = from(x).discovery /\ browser'[x].state = browser[x].state
             /\ x = Head(line) => browser'[x].action = "none"
             /\ x # Head(line) => /\ browser'[x].action = browser[x].action
                                  /\ browser'[x].of = browser[x].of
                                  /\ browser'[x].journey = browser[x].journey
  <2>1. PICK c \in Contexts : c = from(x)
    BY <1>1
  <2>2. SameLine(c, browser[x]) /\ c.state = browser[x].state
    BY <2>1, <1>1
  <2>3. CASE x = Head(line)
    <3>1. browser'[x] = Left(c)
      BY <2>1, <2>3, <1>2
    <3> QED BY <2>1, <2>2, <2>3, <3>1, MovedForm DEF SameLine
  <2>4. CASE x # Head(line)
    <3>1. browser'[x] = Moved(c)
      BY <2>1, <2>4, <1>2
    <3> QED BY <2>1, <2>2, <2>4, <3>1, MovedForm DEF SameLine
  <2> QED BY <2>3, <2>4
<1>6. browser' \in [Browsers -> Contexts]
  <2>1. browser' = [x \in Browsers |-> browser'[x]]
    BY DEF Finish
  <2> QED BY <2>1, <1>5
<1>7. LineIsPending'
  <2>1. /\ Len(line') = Len(line) - 1 /\ Len(line) \in Nat \ {0}
        /\ \A k \in 1..Len(line') : line'[k] = line[k + 1] /\ k + 1 \in 1..Len(line)
        /\ Head(line) = line[1]
    BY <1>3, LineMoves
  <2>2. Len(line') <= MaxPending
    BY <2>1, BrowserAssumption DEF LineIsPending
  <2>3. \A i, j \in 1..Len(line') : line'[i] = line'[j] => i = j
    BY <2>1 DEF LineIsPending
  <2>4. ASSUME NEW k \in 1..Len(line') PROVE line'[k] \in Browsers /\ line'[k] # Head(line)
    <3>1. line[k + 1] # line[1]
      BY <2>1 DEF LineIsPending
    <3> QED BY <2>1, <3>1 DEF PoolTypeOK
  <2>5. ASSUME NEW x \in Browsers
        PROVE  Pending(x)' <=> \E k \in 1..Len(line') : line'[k] = x
    <3>1. CASE x = Head(line)
      BY <3>1, <1>5, <2>4 DEF Pending
    <3>2. CASE x # Head(line)
      <4>1. Pending(x)' <=> \E k \in 1..Len(line) : line[k] = x
        BY <3>2, <1>5 DEF Pending, LineIsPending
      <4>2. ASSUME NEW k \in 1..Len(line), line[k] = x PROVE \E j \in 1..Len(line') : line'[j] = x
        <5>1. k # 1
          BY <4>2, <3>2, <2>1
        <5>2. k - 1 \in 1..Len(line') /\ (k - 1) + 1 = k
          BY <5>1, <2>1
        <5> QED BY <5>2, <4>2, <2>1
      <4>3. ASSUME NEW k \in 1..Len(line'), line'[k] = x PROVE \E j \in 1..Len(line) : line[j] = x
        BY <4>3, <2>1
      <4> QED BY <4>1, <4>2, <4>3
    <3> QED BY <3>1, <3>2
  <2>6. \A x \in Browsers : Pending(x)' => browser'[x].of = browser'[x].journey
    BY <1>5 DEF Pending, LineIsPending
  <2>7. ASSUME NEW k \in 1..Len(line'), browser'[line'[k]].resetting
        PROVE  k <= browser'[line'[k]].ahead
    <3>1. line'[k] = line[k + 1] /\ k + 1 \in 1..Len(line) /\ line[k + 1] \in Browsers
      BY <2>1, <2>4
    <3>2. k + 1 <= browser[line[k + 1]].ahead
      BY <3>1, <2>7, <1>5 DEF LineIsPending
    <3>3. browser[line[k + 1]].ahead \in Nat
      BY <3>1 DEF PoolTypeOK, Contexts
    <3>4. browser'[line[k + 1]].ahead = browser[line[k + 1]].ahead - 1
      BY <3>1, <3>2, <3>3, <1>5
    <3> QED BY <3>1, <3>2, <3>3, <3>4
  <2> QED BY <2>2, <2>3, <2>5, <2>6, <2>7 DEF LineIsPending
<1>8. line' \in Seq(Browsers) /\ plan' = <<>> /\ ~served' /\ seen' = FALSE
  BY <1>3, LineMoves DEF Finish
<1> QED BY <1>4, <1>5, <1>6, <1>7, <1>8

--------------------------------------------------------------------------------
(* The pool, operation by operation.                                       *)

\* What browsers and the pool do at once.
LEMMA BrowserKeeps ==
  ASSUME PoolInv, NEW b \in Browsers,
         \/ OpenBrowser(b) \/ DropBrowser(b) \/ SelectIn(b) \/ ResetIn(b) \/ ResetIsDone(b)
         \/ \E a \in PoolActions : StartIn(b, a)
  PROVE  PoolInv' /\ UNCHANGED sessionVars
<1> USE DEF PoolInv
<1>0. browser[b] \in Contexts
  BY DEF PoolTypeOK
<1>1. ASSUME NEW c \in Contexts, SameLine(c, browser[b]), browser' = [browser EXCEPT ![b] = c],
             UNCHANGED <<line, plan, served, seen, faulted, degraded, poolClosed>>,
             c.discovery => browser[b].discovery /\ c.state = "open"
      PROVE  PoolInv'
  <2>1. /\ browser' \in [Browsers -> Contexts] /\ browser'[b] = c
        /\ \A x \in Browsers : x # b => browser'[x] = browser[x]
    BY <1>1, OneChanges
  <2>2. \A x \in Browsers : SameLine(browser'[x], browser[x])
    BY <2>1, <1>1 DEF SameLine
  <2>3. LineIsPending' /\ (line # <<>> => Faulting(browser[Head(line)])' = Faulting(browser[Head(line)]))
    BY <1>1, <2>1, <2>2, PlacesStand
  <2>4. PoolTypeOK'
    BY <1>1, <2>1 DEF PoolTypeOK
  <2>5. FaultIsServed'
    BY <1>1, <2>3 DEF FaultIsServed
  <2>6. ShownIsOpen'
    BY <1>1, <2>1 DEF ShownIsOpen, Open
  <2> QED BY <2>3, <2>4, <2>5, <2>6
<1>2. CASE OpenBrowser(b)
  <2>1. PICK c : c = [browser[b] EXCEPT !.state = "open"]
    OBVIOUS
  <2>2. c \in Contexts /\ SameLine(c, browser[b]) /\ c.state = "open" /\ c.discovery = browser[b].discovery
    BY <2>1, <1>0 DEF Contexts, SameLine
  <2>3. browser' = [browser EXCEPT ![b] = c]
    BY <1>2, <2>1 DEF OpenBrowser
  <2> QED BY <1>1, <1>2, <2>2, <2>3 DEF OpenBrowser
<1>3. CASE DropBrowser(b)
  <2>1. browser' = [browser EXCEPT ![b] = Closed(browser[b])]
    BY <1>3 DEF DropBrowser
  <2> QED BY <1>0, <1>1, <1>3, <2>1, ContextForms DEF DropBrowser
<1>4. CASE SelectIn(b)
  <2>1. PICK c : c = [browser[b] EXCEPT !.selection = TRUE]
    OBVIOUS
  <2>2. c \in Contexts /\ SameLine(c, browser[b]) /\ c.state = browser[b].state /\ c.discovery = browser[b].discovery
    BY <2>1, <1>0 DEF Contexts, SameLine
  <2>3. browser' = [browser EXCEPT ![b] = c]
    BY <1>4, <2>1 DEF SelectIn
  <2> QED BY <1>1, <1>4, <2>2, <2>3 DEF SelectIn, Open
<1>5. CASE ResetIn(b)
  <2>1. PICK c : c = [browser[b] EXCEPT !.resetting = TRUE, !.ahead = Len(line)]
    OBVIOUS
  <2>2. /\ c \in Contexts /\ c.state = browser[b].state /\ c.discovery = browser[b].discovery
        /\ c.action = browser[b].action /\ c.of = browser[b].of /\ c.journey = browser[b].journey
        /\ c.ahead = Len(line)
    <3>1. Len(line) \in Nat
      BY DEF PoolTypeOK
    <3> QED BY <2>1, <1>0, <3>1 DEF Contexts
  <2>3. browser' = [browser EXCEPT ![b] = c]
    BY <1>5, <2>1 DEF ResetIn
  <2>4. /\ browser' \in [Browsers -> Contexts] /\ browser'[b] = c
        /\ \A x \in Browsers : x # b => browser'[x] = browser[x]
    BY <2>2, <2>3, OneChanges
  <2>5. UNCHANGED <<line, plan, served, seen, faulted, degraded, poolClosed>>
    BY <1>5 DEF ResetIn
  <2>6. \A x \in Browsers : /\ browser'[x].action = browser[x].action /\ browser'[x].of = browser[x].of
                            /\ browser'[x].journey = browser[x].journey
                            /\ browser'[x].state = browser[x].state /\ browser'[x].discovery = browser[x].discovery
    BY <2>2, <2>4
  <2>7. \A k \in 1..Len(line) : line[k] \in Browsers
    BY DEF PoolTypeOK
  <2>8. ASSUME NEW k \in 1..Len(line), browser'[line[k]].resetting
        PROVE  k <= browser'[line[k]].ahead
    BY <2>2, <2>4, <2>7, <2>8 DEF LineIsPending
  <2>9. LineIsPending'
    <3>1. \A x \in Browsers : Pending(x)' = Pending(x)
      BY <2>6 DEF Pending
    <3> QED BY <2>5, <2>6, <2>8, <3>1 DEF LineIsPending
  <2>10. PoolTypeOK'
    BY <2>4, <2>5 DEF PoolTypeOK
  <2>11. FaultIsServed'
    <3>1. line # <<>> => Faulting(browser[Head(line)])' = Faulting(browser[Head(line)])
      BY <2>5, <2>6, LineMoves DEF Faulting
    <3> QED BY <2>5, <3>1 DEF FaultIsServed
  <2>12. ShownIsOpen'
    BY <2>5, <2>6 DEF ShownIsOpen, Open
  <2>13. UNCHANGED sessionVars
    BY <1>5 DEF ResetIn
  <2> QED BY <2>9, <2>10, <2>11, <2>12, <2>13
<1>6. CASE ResetIsDone(b)
  <2>1. ~Pending(b)
    <3>1. \A k \in 1..Len(line) : line[k] # b
      BY <1>6 DEF ResetIsDone, LineIsPending
    <3> QED BY <3>1 DEF LineIsPending
  <2>2. PICK c \in Contexts :
          /\ browser' = [browser EXCEPT ![b] = c]
          /\ c.action = browser[b].action /\ c.state = browser[b].state
          /\ c.discovery => browser[b].discovery
    BY <1>0, <1>6, RenewedForm DEF ResetIsDone
  <2>3. /\ browser' \in [Browsers -> Contexts] /\ browser'[b] = c
        /\ \A x \in Browsers : x # b => browser'[x] = browser[x]
    BY <2>2, OneChanges
  <2>4. UNCHANGED <<line, plan, served, seen, faulted, degraded, poolClosed>>
    BY <1>6 DEF ResetIsDone
  <2>5. \A x \in Browsers : Pending(x)' = Pending(x)
    BY <2>2, <2>3 DEF Pending
  <2>6. \A k \in 1..Len(line) : line[k] \in Browsers /\ line[k] # b
    BY <2>1 DEF PoolTypeOK, LineIsPending
  <2>7. LineIsPending'
    BY <2>1, <2>3, <2>4, <2>5, <2>6 DEF LineIsPending
  <2>8. PoolTypeOK'
    BY <2>3, <2>4 DEF PoolTypeOK
  <2>9. FaultIsServed'
    <3>1. ASSUME line # <<>> PROVE Faulting(browser[Head(line)])' = Faulting(browser[Head(line)])
      BY <3>1, <2>3, <2>4, <2>6, LineMoves DEF Faulting
    <3> QED BY <2>4, <3>1 DEF FaultIsServed
  <2>10. ShownIsOpen'
    BY <2>2, <2>3, <2>4 DEF ShownIsOpen, Open
  <2>11. UNCHANGED sessionVars
    BY <1>6 DEF ResetIsDone
  <2> QED BY <2>7, <2>8, <2>9, <2>10, <2>11
<1>7. ASSUME NEW a \in PoolActions, StartIn(b, a) PROVE PoolInv' /\ UNCHANGED sessionVars
  <2>1. /\ Open(b) /\ ~browser[b].resetting /\ ~degraded /\ ~Pending(b) /\ Len(line) < MaxPending
        /\ line' = Append(line, b) /\ UNCHANGED <<plan, served, seen, faulted, degraded, poolClosed, sessionVars>>
    BY <1>7 DEF StartIn
  <2>2. PICK d \in Contexts :
          /\ d = IF a \in Controls \cup {"recover"} THEN Blank(browser[b]) ELSE browser[b]
          /\ d.state = browser[b].state /\ (d.discovery => browser[b].discovery)
          /\ d.journey = browser[b].journey /\ d.resetting = browser[b].resetting
    BY <1>0, ContextForms DEF SameLine
  <2>3. PICK c : c = [d EXCEPT !.action = a, !.of = browser[b].journey]
    OBVIOUS
  <2>4. /\ c \in Contexts /\ c.action = a /\ c.of = c.journey /\ c.state = d.state
        /\ c.discovery = d.discovery /\ c.resetting = d.resetting /\ a # "none"
    <3>1. a \in Actions /\ a # "none"
      BY BrowserAssumption DEF Actions, Controls
    <3> QED BY <2>2, <2>3, <3>1, <1>0 DEF Contexts
  <2>5. browser' = [browser EXCEPT ![b] = c]
    BY <1>7, <2>2, <2>3 DEF StartIn
  <2>6. /\ browser' \in [Browsers -> Contexts] /\ browser'[b] = c
        /\ \A x \in Browsers : x # b => browser'[x] = browser[x]
    BY <2>4, <2>5, OneChanges
  <2>7. /\ line' \in Seq(Browsers) /\ Len(line') = Len(line) + 1 /\ line'[Len(line) + 1] = b
        /\ \A k \in 1..Len(line) : line'[k] = line[k]
        /\ Len(line) \in Nat
    BY <2>1, AppendProperties DEF PoolTypeOK
  <2>8. \A k \in 1..Len(line) : line[k] \in Browsers /\ line[k] # b
    BY <2>1 DEF PoolTypeOK, LineIsPending
  <2>9. LineIsPending'
    <3>1. Len(line') <= MaxPending
      BY <2>1, <2>7, BrowserAssumption
    <3>2. \A i, j \in 1..Len(line') : line'[i] = line'[j] => i = j
      BY <2>7, <2>8 DEF LineIsPending
    <3>3. ASSUME NEW x \in Browsers
          PROVE  Pending(x)' <=> \E k \in 1..Len(line') : line'[k] = x
      <4>1. CASE x = b
        <5>1. Pending(x)'
          BY <4>1, <2>4, <2>6 DEF Pending
        <5> QED BY <4>1, <5>1, <2>7
      <4>2. CASE x # b
        <5>1. Pending(x)' <=> \E k \in 1..Len(line) : line[k] = x
          BY <4>2, <2>6 DEF Pending, LineIsPending
        <5> QED BY <4>2, <5>1, <2>7
      <4> QED BY <4>1, <4>2
    <3>4. \A x \in Browsers : Pending(x)' => browser'[x].of = browser'[x].journey
      BY <2>4, <2>6 DEF Pending, LineIsPending
    <3>5. \A k \in 1..Len(line') : browser'[line'[k]].resetting => k <= browser'[line'[k]].ahead
      <4>1. ASSUME NEW k \in 1..Len(line), browser'[line'[k]].resetting PROVE k <= browser'[line'[k]].ahead
        BY <4>1, <2>6, <2>7, <2>8 DEF LineIsPending
      <4>2. ~browser'[line'[Len(line) + 1]].resetting
        BY <2>1, <2>2, <2>4, <2>6, <2>7
      <4>3. \A k \in 1..Len(line') : k \in 1..Len(line) \/ k = Len(line) + 1
        BY <2>7
      <4> QED BY <4>1, <4>2, <4>3
    <3> QED BY <3>1, <3>2, <3>3, <3>4, <3>5 DEF LineIsPending
  <2>10. PoolTypeOK'
    BY <2>1, <2>6, <2>7 DEF PoolTypeOK
  <2>11. FaultIsServed'
    <3>1. ASSUME line # <<>>
          PROVE  line' # <<>> /\ Faulting(browser[Head(line)])' = Faulting(browser[Head(line)])
      <4>1. Head(line) = line[1] /\ 1 \in 1..Len(line)
        BY <3>1, LineMoves
      <4>2. line' # <<>> /\ Head(line') = line[1]
        BY <4>1, <2>7, <2>1, AppendProperties DEF PoolTypeOK
      <4> QED BY <4>1, <4>2, <2>6, <2>8 DEF Faulting
    <3> QED BY <2>1, <3>1 DEF FaultIsServed
  <2>12. ShownIsOpen'
    BY <2>1, <2>2, <2>4, <2>6 DEF ShownIsOpen, Open
  <2> QED BY <2>1, <2>9, <2>10, <2>11, <2>12
<1>9. (OpenBrowser(b) \/ DropBrowser(b) \/ SelectIn(b)) => UNCHANGED sessionVars
  BY DEF OpenBrowser, DropBrowser, SelectIn
<1> QED BY <1>2, <1>3, <1>4, <1>5, <1>6, <1>7, <1>9

\* The pool closes, and every context with it.
LEMMA ClosePoolKeeps ==
  ASSUME PoolInv, ClosePool
  PROVE  PoolInv' /\ UNCHANGED sessionVars
<1> USE DEF PoolInv
<1>1. /\ UNCHANGED <<line, plan, served, seen, faulted, degraded, sessionVars>> /\ poolClosed' = TRUE
      /\ browser' = [x \in Browsers |-> IF Open(x) THEN Closed(browser[x]) ELSE browser[x]]
  BY DEF ClosePool
<1>2. ASSUME NEW x \in Browsers
      PROVE  /\ browser'[x] \in Contexts /\ SameLine(browser'[x], browser[x])
             /\ ~browser'[x].discovery
  <2>1. browser[x] \in Contexts
    BY DEF PoolTypeOK
  <2>2. CASE Open(x)
    BY <2>1, <2>2, <1>1, ContextForms
  <2>3. CASE ~Open(x)
    BY <2>1, <2>3, <1>1 DEF SameLine, ShownIsOpen
  <2> QED BY <2>2, <2>3
<1>3. browser' \in [Browsers -> Contexts]
  BY <1>1, <1>2
<1>4. LineIsPending' /\ (line # <<>> => Faulting(browser[Head(line)])' = Faulting(browser[Head(line)]))
  BY <1>1, <1>2, <1>3, PlacesStand
<1>5. PoolTypeOK'
  BY <1>1, <1>3 DEF PoolTypeOK
<1>6. FaultIsServed'
  BY <1>1, <1>4 DEF FaultIsServed
<1>7. ShownIsOpen'
  BY <1>1, <1>2 DEF ShownIsOpen
<1> QED BY <1>1, <1>4, <1>5, <1>6, <1>7

\* What is done at the head of the line.
LEMMA PlanForms ==
  ASSUME NEW c \in Contexts, c.action # "none"
  PROVE  /\ Plan(c) \in Seq(Actions) /\ Plan(c) # <<>>
         /\ Head(Plan(c)) \in Actions
<1>1. c.action \in Actions
  BY DEF Contexts
<1>2. /\ \A a \in Actions : <<a>> \in Seq(Actions) /\ <<a>> # <<>> /\ Head(<<a>>) = a
      /\ \A a, d \in Actions : <<a, d>> \in Seq(Actions) /\ <<a, d>> # <<>> /\ Head(<<a, d>>) = a
  OBVIOUS
<1>3. {"refresh", "invoke", "feedback", "restart", "recover"} \subseteq Actions
  BY DEF Actions, Controls
<1> QED BY <1>1, <1>2, <1>3 DEF Plan

\* What a plan that ends leaves its browser with.
LEMMA CopiedForm ==
  ASSUME NEW b \in Browsers, browser[b] \in Contexts, NEW contexts \in Copied(b)
  PROVE  \E d, s, k \in BOOLEAN :
           contexts = [browser EXCEPT ![b].discovery = d, ![b].selection = s, ![b].asked = k]
<1> DEFINE fresh == Succeeded /\ Head(plan) \in {"refresh", "invoke"}
<1>1. PICK kept \in {browser[b].asked, Head(plan) = "invoke" \/ browser[b].asked} :
        contexts = [browser EXCEPT ![b].discovery = IF fresh THEN TRUE ELSE @,
                      ![b].selection = @ /\ browser[b].action # "refresh" /\ (fresh => offered),
                      ![b].asked = kept]
  BY DEF Copied
<1>2. PICK d \in BOOLEAN : d = IF fresh THEN TRUE ELSE browser[b].discovery
  BY DEF Contexts
<1>3. PICK s \in BOOLEAN : s = (browser[b].selection /\ browser[b].action # "refresh" /\ (fresh => offered))
  OBVIOUS
<1>4. kept \in BOOLEAN
  BY <1>1 DEF Contexts
<1>5. contexts = [browser EXCEPT ![b].discovery = d, ![b].selection = s, ![b].asked = kept]
  BY <1>1, <1>2, <1>3
<1> QED BY <1>4, <1>5

\* The line is served one operation of the session at a time.
LEMMA PoolServesKeeps ==
  ASSUME SessionInv, PoolInv, PoolServes
  PROVE  SessionInv' /\ PoolInv' /\ UNCHANGED lifeVars
<1> USE DEF PoolInv
<1>1. ASSUME line # <<>>
      PROVE  /\ Head(line) \in Browsers /\ browser[Head(line)] \in Contexts
             /\ browser[Head(line)].action # "none"
  <2>1. Head(line) \in Browsers /\ Head(line) = line[1] /\ 1 \in 1..Len(line)
    BY <1>1, LineMoves
  <2>2. Pending(Head(line))
    BY <2>1 DEF LineIsPending
  <2> QED BY <2>1, <2>2 DEF Pending, PoolTypeOK
<1>2. UNCHANGED sessionVars => SessionInv' /\ UNCHANGED lifeVars
  BY DEF sessionVars, SessionInv, SessionTypeOK, WorkIsOwned, EndIsFenced, ViewIsFresh,
         ShownTruly, Reached, lifeVars, workVars, viewVars, worldVars, journeyVars
<1>3. ASSUME line # <<>>, NEW contexts \in [Browsers -> Contexts], Finish(contexts),
             \A x \in Browsers : SameLine(contexts[x], browser[x]) /\ contexts[x].state = browser[x].state,
             poolClosed' = poolClosed, faulted' \in BOOLEAN, degraded' \in BOOLEAN,
             ~faulted' \/ degraded',
             \A x \in Browsers : Open(x) /\ contexts[x].discovery => ~degraded',
             degraded => degraded'
      PROVE  PoolInv'
  <2>1. /\ browser' \in [Browsers -> Contexts] /\ line' \in Seq(Browsers)
        /\ plan' = <<>> /\ ~served' /\ seen' = FALSE /\ LineIsPending'
        /\ \A x \in Browsers :
              /\ browser'[x].state = browser[x].state
              /\ browser'[x].discovery = IF Open(x) THEN contexts[x].discovery
                                         ELSE browser[x].discovery
    BY <1>3, FinishKeeps
  <2>2. PoolTypeOK'
    <3>1. served' = FALSE
      BY <1>3 DEF Finish
    <3>2. plan' \in Seq(Actions) /\ seen' \in BOOLEAN
      <4>1. <<>> \in Seq(Actions)
        OBVIOUS
      <4> QED BY <2>1, <4>1
    <3>3. poolClosed' \in BOOLEAN
      BY <1>3 DEF PoolTypeOK
    <3> QED BY <2>1, <3>1, <3>2, <3>3, <1>3 DEF PoolTypeOK
  <2>3. FaultIsServed'
    BY <2>1, <1>3 DEF FaultIsServed
  <2>4. ShownIsOpen'
    BY <2>1, <1>3 DEF ShownIsOpen, Open
  <2> QED BY <2>1, <2>2, <2>3, <2>4
<1>4. ASSUME line # <<>>, NEW a \in Actions, NEW chosen, AcceptWith(a, chosen),
             served' = TRUE, plan' \in Seq(Actions), seen' \in BOOLEAN, faulted' \in BOOLEAN,
             UNCHANGED <<line, degraded, poolClosed>>, ~degraded,
             ~Faulting(browser[Head(line)]) => ~faulted',
             browser' \in [Browsers -> Contexts],
             \A x \in Browsers : /\ SameLine(browser'[x], browser[x])
                                 /\ browser'[x].discovery => browser'[x].state = "open"
      PROVE  SessionInv' /\ PoolInv' /\ UNCHANGED lifeVars
  <2>1. SessionInv' /\ UNCHANGED lifeVars
    BY <1>4, AcceptKeeps
  <2>2. LineIsPending' /\ Faulting(browser[Head(line)])' = Faulting(browser[Head(line)])
    BY <1>4, PlacesStand
  <2>3. PoolTypeOK'
    BY <1>4 DEF PoolTypeOK
  <2>4. FaultIsServed'
    BY <1>4, <2>2 DEF FaultIsServed
  <2>5. ShownIsOpen'
    BY <1>4 DEF ShownIsOpen, Open
  <2> QED BY <2>1, <2>2, <2>3, <2>4, <2>5
<1>5. \A x \in Browsers : SameLine(browser[x], browser[x])
  BY DEF SameLine
<1>6. \A x \in Browsers : browser[x].discovery => browser[x].state = "open"
  BY DEF ShownIsOpen, Open
<1>7. browser \in [Browsers -> Contexts]
  BY DEF PoolTypeOK
<1>8. ASSUME served PROVE line # <<>> /\ ~degraded
  BY <1>8 DEF FaultIsServed
<1>9. ASSUME Len(plan) = 2 PROVE plan[2] \in Actions /\ Tail(plan) \in Seq(Actions)
  <2>1. plan \in Seq(Actions) /\ 2 \in 1..Len(plan)
    BY <1>9 DEF PoolTypeOK
  <2>2. plan # <<>>
    BY <1>9
  <2> QED BY <2>1, <2>2, HeadTailProperties
<1>11. CASE ServeHead
  <2>1. line # <<>> /\ ~served /\ UNCHANGED <<faulted, degraded, poolClosed>>
    BY <1>11 DEF ServeHead
  <2>2. CASE Finish(browser) /\ UNCHANGED sessionVars
    <3>1. PoolInv'
      BY <1>3, <1>5, <1>7, <2>1, <2>2 DEF FaultIsServed, ShownIsOpen, PoolTypeOK
    <3> QED BY <3>1, <2>2, <1>2
  <2>3. CASE /\ ~Refused(browser[Head(line)]) /\ Accept(Head(Plan(browser[Head(line)])))
             /\ served' = TRUE /\ plan' = Plan(browser[Head(line)]) /\ UNCHANGED <<browser, line, seen>>
    <3>1. ~degraded /\ ~faulted
      BY <2>1, <2>3 DEF Refused, FaultIsServed
    <3>2. Plan(browser[Head(line)]) \in Seq(Actions) /\ Head(Plan(browser[Head(line)])) \in Actions
      BY <1>1, <2>1, PlanForms
    <3>3. AcceptWith(Head(Plan(browser[Head(line)])), selection)
      BY <2>3 DEF Accept
    <3> QED BY <1>4, <1>5, <1>6, <1>7, <2>1, <2>3, <3>1, <3>2, <3>3 DEF PoolTypeOK
  <2> QED BY <1>11, <2>2, <2>3 DEF ServeHead
<1>12. CASE Continue
  <2> DEFINE b == Head(line)
  <2>1. /\ served /\ ~Busy /\ ~Faulting(browser[b]) /\ Len(plan) = 2
        /\ AcceptWith(plan[2], browser[b].action = "invoke") /\ plan' = Tail(plan)
        /\ UNCHANGED <<line, served, seen, faulted, degraded, poolClosed>>
        /\ browser' = IF Head(plan) = "refresh" /\ browser[b].action # "recover"
                      THEN [browser EXCEPT ![b].discovery = Open(b)] ELSE browser
    BY <1>12 DEF Continue, Returned
  <2>2. line # <<>> /\ ~degraded /\ ~faulted /\ b \in Browsers /\ browser[b] \in Contexts
    BY <2>1, <1>1, <1>8 DEF FaultIsServed
  <2>3. plan[2] \in Actions /\ plan' \in Seq(Actions)
    BY <1>9, <2>1
  <2>4. /\ browser' \in [Browsers -> Contexts]
        /\ \A x \in Browsers : /\ SameLine(browser'[x], browser[x])
                               /\ browser'[x].discovery => browser'[x].state = "open"
    <3>1. CASE browser' = browser
      BY <3>1, <1>5, <1>6, <1>7
    <3>2. CASE browser' = [browser EXCEPT ![b].discovery = Open(b)]
      <4>1. PICK o \in BOOLEAN : o = Open(b)
        BY DEF Open
      <4>2. PICK c : c = [browser[b] EXCEPT !.discovery = o]
        OBVIOUS
      <4>3. /\ c \in Contexts /\ SameLine(c, browser[b])
            /\ c.discovery = o /\ c.state = browser[b].state
        BY <2>2, <4>1, <4>2 DEF Contexts, SameLine
      <4>4. browser' = [browser EXCEPT ![b] = c]
        BY <3>2, <4>1, <4>2
      <4>5. /\ browser' \in [Browsers -> Contexts] /\ browser'[b] = c
            /\ \A x \in Browsers : x # b => browser'[x] = browser[x]
        BY <2>2, <4>3, <4>4, OneChanges
      <4> QED BY <1>5, <1>6, <4>1, <4>3, <4>5 DEF Open
    <3> QED BY <2>1, <3>1, <3>2
  <2>5. PICK chosen : chosen = (browser[b].action = "invoke")
    OBVIOUS
  <2>6. AcceptWith(plan[2], chosen)
    BY <2>1, <2>5
  <2> QED BY <1>4, <2>1, <2>2, <2>3, <2>4, <2>6 DEF PoolTypeOK
<1>13. CASE Conclude
  <2> DEFINE b == Head(line)
  <2>1. /\ served /\ ~Faulting(browser[b]) /\ UNCHANGED <<faulted, degraded, poolClosed, sessionVars>>
    BY <1>13 DEF Conclude, Returned
  <2>2. line # <<>> /\ ~degraded /\ ~faulted /\ b \in Browsers /\ browser[b] \in Contexts
    BY <2>1, <1>1, <1>8 DEF FaultIsServed
  <2>3. PICK contexts \in Copied(b) : Finish(contexts)
    BY <1>13 DEF Conclude
  <2>4. /\ contexts \in [Browsers -> Contexts]
        /\ \A x \in Browsers : SameLine(contexts[x], browser[x]) /\ contexts[x].state = browser[x].state
    <3>1. PICK d \in BOOLEAN, s \in BOOLEAN, k \in BOOLEAN :
            contexts = [browser EXCEPT ![b].discovery = d, ![b].selection = s, ![b].asked = k]
      BY <2>2, CopiedForm
    <3>2. PICK c : c = [browser[b] EXCEPT !.discovery = d, !.selection = s, !.asked = k]
      OBVIOUS
    <3>3. c \in Contexts /\ SameLine(c, browser[b]) /\ c.state = browser[b].state
      BY <2>2, <3>2 DEF Contexts, SameLine
    <3>4. contexts = [browser EXCEPT ![b] = c]
      BY <3>1, <3>2, <2>2, <1>7
    <3>5. contexts[b] = c /\ \A x \in Browsers : x # b => contexts[x] = browser[x]
      BY <3>4, <2>2, <1>7
    <3> QED BY <1>5, <1>7, <3>3, <3>4, <3>5
  <2>5. PoolInv'
    BY <1>3, <2>1, <2>2, <2>3, <2>4 DEF PoolTypeOK
  <2> QED BY <2>1, <2>5, <1>2
<1>14. CASE Restore
  <2>1. /\ served /\ Faulting(browser[Head(line)]) /\ Accept("restart") /\ Len(plan) = 2
        /\ plan' = Tail(plan) /\ faulted' = TRUE /\ seen' = (discovery # "none")
        /\ UNCHANGED <<browser, line, served, degraded, poolClosed>>
    BY <1>14 DEF Restore, Returned
  <2>2. AcceptWith("restart", selection) /\ "restart" \in Actions
    BY <2>1 DEF Accept, Actions, Controls
  <2>3. plan' \in Seq(Actions)
    BY <1>9, <2>1
  <2>4. seen' \in BOOLEAN
    BY <2>1
  <2> QED BY <1>4, <1>5, <1>6, <1>7, <1>8, <2>1, <2>2, <2>3, <2>4 DEF PoolTypeOK
<1>15. CASE IsRestored
  <2> DEFINE b == Head(line)
  <2>1. /\ served /\ faulted' = FALSE /\ UNCHANGED <<degraded, poolClosed, sessionVars>>
        /\ Finish([browser EXCEPT ![b].discovery = seen, ![b].selection = FALSE])
    BY <1>15 DEF IsRestored, Returned
  <2>2. line # <<>> /\ ~degraded /\ b \in Browsers /\ browser[b] \in Contexts
    BY <2>1, <1>1, <1>8
  <2>3. PICK contexts : contexts = [browser EXCEPT ![b].discovery = seen, ![b].selection = FALSE]
    OBVIOUS
  <2>4. /\ contexts \in [Browsers -> Contexts]
        /\ \A x \in Browsers : SameLine(contexts[x], browser[x]) /\ contexts[x].state = browser[x].state
    <3>1. PICK c : c = [browser[b] EXCEPT !.discovery = seen, !.selection = FALSE]
      OBVIOUS
    <3>2. c \in Contexts /\ SameLine(c, browser[b]) /\ c.state = browser[b].state
      BY <2>2, <3>1 DEF Contexts, SameLine, PoolTypeOK
    <3>3. contexts = [browser EXCEPT ![b] = c]
      BY <2>3, <3>1, <2>2, <1>7
    <3>4. contexts[b] = c /\ \A x \in Browsers : x # b => contexts[x] = browser[x]
      BY <3>3, <2>2, <1>7
    <3> QED BY <1>5, <1>7, <3>2, <3>3, <3>4
  <2>5. PoolInv'
    BY <1>3, <2>1, <2>2, <2>3, <2>4 DEF PoolTypeOK
  <2> QED BY <2>1, <2>5, <1>2
<1>16. CASE Degrade
  <2>1. /\ served /\ degraded' = TRUE /\ faulted' = TRUE /\ UNCHANGED <<poolClosed, sessionVars>>
        /\ Finish([x \in Browsers |-> Blank(browser[x])])
    BY <1>16 DEF Degrade, Returned
  <2>2. line # <<>>
    BY <2>1, <1>8
  <2>3. PICK contexts : contexts = [x \in Browsers |-> Blank(browser[x])]
    OBVIOUS
  <2>4. ASSUME NEW x \in Browsers
        PROVE  /\ contexts[x] \in Contexts /\ SameLine(contexts[x], browser[x])
               /\ contexts[x].state = browser[x].state /\ ~contexts[x].discovery
    BY <2>3, <1>7, ContextForms
  <2>5. contexts \in [Browsers -> Contexts]
    BY <2>3, <2>4
  <2>6. PoolInv'
    BY <1>3, <2>1, <2>2, <2>3, <2>4, <2>5
  <2> QED BY <2>1, <2>6, <1>2
<1> QED BY <1>11, <1>12, <1>13, <1>14, <1>15, <1>16 DEF PoolServes

--------------------------------------------------------------------------------
(* The lease server.                                                       *)

\* The server's part stands while it does nothing, whatever the session does.
LEMMA ClaimsKept ==
  ASSUME SessionInv, SessionInv', ServerInv, Turns, UNCHANGED serverVars
  PROVE  ServerInv'
<1> USE DEF ServerInv
<1>1. /\ generation \in 0..MaxGeneration /\ generation' \in 0..MaxGeneration
      /\ MaxGeneration \in Nat
  BY SessionAssumption DEF SessionInv, SessionTypeOK
<1>2. UNCHANGED <<lease, leaseReset, page, posting, actors>>
  BY DEF serverVars
<1>3. CASE generation' = generation
  <2>1. \A v \in Visitors : Claims(v)' = Claims(v)
    BY <1>2, <1>3 DEF Claims
  <2>2. ServerTypeOK'
    BY <1>2, <1>3 DEF ServerTypeOK
  <2>3. OneClaims'
    BY <1>1, <1>2, <1>3, <2>1 DEF OneClaims, Turns
  <2> QED BY <2>2, <2>3
<1>4. CASE generation' = generation + 1 /\ ~resetting'
  <2>1. \A v \in Visitors : ~Claims(v)'
    BY <1>1, <1>2, <1>4 DEF Claims, ServerTypeOK
  <2>2. ServerTypeOK'
    BY <1>1, <1>2, <1>4 DEF ServerTypeOK
  <2>3. OneClaims'
    BY <1>2, <1>4, <2>1 DEF OneClaims
  <2> QED BY <2>2, <2>3
<1> QED BY <1>3, <1>4 DEF Turns

\* Whatever the server does, one visitor has a claim to the generation.
LEMMA ServerKeeps ==
  ASSUME SessionInv, ServerInv, ServerNext
  PROVE  SessionInv' /\ ServerInv'
<1> USE DEF ServerInv
<1>1. /\ generation \in 0..MaxGeneration /\ MaxGeneration \in Nat
      /\ None \in Int /\ None < 0
  BY SessionAssumption DEF SessionInv, SessionTypeOK, None
<1>2. ASSUME UNCHANGED sessionVars PROVE SessionInv' /\ UNCHANGED <<generation, resetting, fixture>>
  BY <1>2 DEF sessionVars, SessionInv, SessionTypeOK, WorkIsOwned, EndIsFenced, ViewIsFresh,
         ShownTruly, Reached, lifeVars, workVars, viewVars, worldVars, journeyVars
<1>3. ASSUME RequestReset
      PROVE  /\ SessionInv' /\ UNCHANGED <<generation, fixture>> /\ resetting'
  BY <1>3, LifeKeeps DEF RequestReset
<1>4. ASSUME Accept("refresh") PROVE SessionInv' /\ UNCHANGED <<generation, resetting, fixture>>
  <2>1. "refresh" \in Actions
    BY DEF Actions
  <2> QED BY <1>4, <2>1, AcceptKeeps DEF Accept, lifeVars
<1>5. CASE LeaseEnds
  <2>1. /\ lease # NoVisitor /\ lease' = NoVisitor /\ leaseReset' \in {"failed", "running"}
        /\ UNCHANGED <<page, posting, actors>>
        /\ leaseReset' = "running" => resetting'
    BY <1>5 DEF LeaseEnds, RequestReset, sessionVars, lifeVars
  <2>2. SessionInv' /\ UNCHANGED <<generation, fixture>>
    BY <1>2, <1>3, <1>5 DEF LeaseEnds
  <2>3. \A v \in Visitors : Claims(v)' = Claims(v)
    BY <2>1, <2>2 DEF Claims
  <2>4. ServerTypeOK'
    BY <2>1, <2>2 DEF ServerTypeOK
  <2>5. OneClaims'
    BY <2>1, <2>3 DEF OneClaims
  <2> QED BY <2>2, <2>4, <2>5
<1>6. CASE LeaseResetSettles
  <2>1. /\ leaseReset = "running" /\ ~resetting /\ UNCHANGED <<lease, page, posting, actors, sessionVars>>
        /\ leaseReset' = IF fixture = "broken" THEN "failed" ELSE "no"
    BY <1>6 DEF LeaseResetSettles
  <2>2. SessionInv' /\ UNCHANGED <<generation, resetting, fixture>>
    BY <1>2, <2>1
  <2>3. \A v \in Visitors : Claims(v)' = Claims(v)
    BY <2>1, <2>2 DEF Claims
  <2>4. ServerTypeOK'
    BY <2>1, <2>2 DEF ServerTypeOK
  <2>5. OneClaims'
    BY <2>1, <2>3 DEF OneClaims
  <2> QED BY <2>2, <2>4, <2>5
<1>7. CASE Expire
  <2>1. UNCHANGED <<lease, leaseReset, page, posting, actors, sessionVars>>
    BY <1>7 DEF Expire
  <2>2. SessionInv' /\ UNCHANGED <<generation, resetting, fixture>>
    BY <1>2, <2>1
  <2>3. \A v \in Visitors : Claims(v)' = Claims(v)
    BY <2>1, <2>2 DEF Claims
  <2>4. ServerTypeOK'
    BY <2>1, <2>2 DEF ServerTypeOK
  <2>5. OneClaims'
    BY <2>1, <2>2, <2>3 DEF OneClaims
  <2> QED BY <2>2, <2>4, <2>5
<1>8. ASSUME NEW v \in Visitors, Grant(v) \/ Get(v) PROVE SessionInv' /\ ServerInv'
  <2>1. /\ leaseReset = "no" /\ lease \in {NoVisitor, v} /\ lease' = v
        /\ page' = [page EXCEPT ![v] = generation] /\ UNCHANGED <<leaseReset, posting, actors, sessionVars>>
    BY <1>8 DEF Grant, Get, Leased
  <2>2. SessionInv' /\ UNCHANGED <<generation, resetting, fixture>>
    BY <1>2, <2>1
  <2>3. \A w \in Visitors : Claims(w)' => w = v
    <3>1. \A w \in Visitors : w # v => Claims(w)' = Claims(w)
      BY <2>1, <2>2 DEF Claims, ServerTypeOK
    <3>2. \A w \in Visitors : Claims(w) => w = v
      BY <2>1, VisitorAssumption DEF OneClaims
    <3> QED BY <3>1, <3>2
  <2>4. ServerTypeOK'
    <3>1. generation \in Int
      BY <1>1
    <3>2. page' \in [Visitors -> Int] /\ \A w \in Visitors : page'[w] = IF w = v THEN generation ELSE page[w]
      BY <2>1, <3>1 DEF ServerTypeOK
    <3> QED BY <1>1, <2>1, <2>2, <3>2 DEF ServerTypeOK
  <2>5. OneClaims'
    BY <2>1, <2>3 DEF OneClaims
  <2> QED BY <2>2, <2>4, <2>5
<1>9. ASSUME NEW v \in Visitors, PostArrives(v) PROVE SessionInv' /\ ServerInv'
  <2>1. /\ posting' = [posting EXCEPT ![v] = page[v]] /\ UNCHANGED <<lease, leaseReset, page, actors, sessionVars>>
    BY <1>9 DEF PostArrives
  <2>2. SessionInv' /\ UNCHANGED <<generation, resetting, fixture>>
    BY <1>2, <2>1
  <2>3. posting' \in [Visitors -> Int] /\ \A w \in Visitors : posting'[w] = IF w = v THEN page[v] ELSE posting[w]
    BY <2>1 DEF ServerTypeOK
  <2>4. \A w \in Visitors : Claims(w)' => Claims(w)
    BY <2>1, <2>2, <2>3 DEF Claims
  <2>5. ServerTypeOK'
    BY <2>1, <2>2, <2>3 DEF ServerTypeOK
  <2>6. OneClaims'
    BY <2>1, <2>2, <2>4 DEF OneClaims
  <2> QED BY <2>2, <2>5, <2>6
<1>10. ASSUME NEW v \in Visitors, PostRuns(v) PROVE SessionInv' /\ ServerInv'
  <2>1. /\ posting[v] # None /\ posting' = [posting EXCEPT ![v] = None]
        /\ UNCHANGED <<lease, leaseReset, page>>
    BY <1>10 DEF PostRuns
  <2>2. posting' \in [Visitors -> Int] /\ \A w \in Visitors : posting'[w] = IF w = v THEN None ELSE posting[w]
    BY <1>1, <2>1 DEF ServerTypeOK
  <2>3. CASE posting[v] = generation /\ Accept("refresh") /\ actors' = [actors EXCEPT ![generation] = @ \cup {v}]
    <3>1. SessionInv' /\ UNCHANGED <<generation, resetting, fixture>>
      BY <1>4, <2>3
    <3>2. Claims(v)
      BY <2>3 DEF Claims
    <3>3. /\ actors' \in [0..MaxGeneration -> SUBSET Visitors]
          /\ \A g \in 0..MaxGeneration :
                actors'[g] = IF g = generation THEN actors[g] \cup {v} ELSE actors[g]
      BY <1>1, <2>3 DEF ServerTypeOK
    <3>4. \A w \in Visitors : Claims(w)' => Claims(w)
      BY <1>1, <2>1, <2>2, <3>1, <3>2, <3>3 DEF Claims
    <3>5. ServerTypeOK'
      BY <1>1, <2>1, <2>2, <3>1, <3>3 DEF ServerTypeOK
    <3>6. \A g \in 0..MaxGeneration : \A u, w \in actors'[g] : u = w
      <4>1. \A u \in actors[generation] : u = v
        BY <1>1, <3>2 DEF OneClaims, Claims, ServerTypeOK
      <4> QED BY <1>1, <3>3, <4>1 DEF OneClaims
    <3>7. OneClaims'
      BY <2>1, <3>1, <3>4, <3>6 DEF OneClaims
    <3> QED BY <3>1, <3>5, <3>7
  <2>4. CASE posting[v] = generation /\ RequestReset /\ UNCHANGED actors
    <3>1. SessionInv' /\ UNCHANGED <<generation, fixture>> /\ resetting'
      BY <1>3, <2>4
    <3>2. \A w \in Visitors : Claims(w)' => Claims(w)
      BY <1>1, <2>1, <2>2, <2>4, <3>1 DEF Claims
    <3>3. ServerTypeOK'
      BY <1>1, <2>1, <2>2, <2>4, <3>1 DEF ServerTypeOK
    <3>4. OneClaims'
      BY <2>1, <2>4, <3>1, <3>2 DEF OneClaims
    <3> QED BY <3>1, <3>3, <3>4
  <2>5. CASE UNCHANGED <<actors, sessionVars>>
    <3>1. SessionInv' /\ UNCHANGED <<generation, resetting, fixture>>
      BY <1>2, <2>5
    <3>2. \A w \in Visitors : Claims(w)' => Claims(w)
      BY <1>1, <2>1, <2>2, <2>5, <3>1 DEF Claims
    <3>3. ServerTypeOK'
      BY <1>1, <2>1, <2>2, <2>5, <3>1 DEF ServerTypeOK
    <3>4. OneClaims'
      BY <2>1, <2>5, <3>1, <3>2 DEF OneClaims
    <3> QED BY <3>1, <3>3, <3>4
  <2> QED BY <1>10, <2>3, <2>4, <2>5 DEF PostRuns
<1> QED BY <1>5, <1>6, <1>7, <1>8, <1>9, <1>10 DEF ServerNext

--------------------------------------------------------------------------------
(* The owned Indexes.                                                      *)

Scopes == {"acquiring", "preparing", "starting", "running", "closing", "stopping",
           "removing", "ended", "killed"}
ChildStates == [alive : BOOLEAN, stop : {"none", "asked", "closed", "failed"}]

\* What may be left of an operation: the last await of a start is the spawn, and the
\* spawned child is then waited for or stopped again.
Rests == {<<>>, <<"stop">>, <<"start">>, <<"stop", "start">>, <<"drop", "start">>,
          <<"stop", "drop", "start">>, <<"ready">>, <<"abort">>}

IndexTypeOK ==
  /\ scope \in Scopes
  /\ container \in BOOLEAN /\ containerId \in BOOLEAN /\ cancelled \in BOOLEAN
  /\ children \in [Names -> Seq(ChildStates)]
  /\ processes \in [Names -> Nat] /\ handle \in [Names -> Nat]
  /\ \A n \in Names : processes[n] <= Len(children[n]) /\ handle[n] <= Len(children[n])
  /\ ongoing \in [Names -> Rests]
  /\ failures \in SUBSET {"run", "stop", "container"}

\* A process that runs is the registered one of its name.
LiveIsRegistered ==
  \A n \in Names : \A c \in 1..Len(children[n]) :
    children[n][c].alive => c = processes[n]

\* The child that a start waits for is registered, no handle closes over it, and nobody
\* has asked it to stop.
AwaitedIsRegistered ==
  \A n \in Names : At(n, "ready") =>
    processes[n] > handle[n] /\ Registered(n).stop = "none"

\* The scope stops the children when every operation has settled, and reports whatever
\* it could not stop or remove.
LeftIsReported ==
  /\ scope \in {"stopping", "removing", "ended"} => \A n \in Names : ongoing[n] = <<>>
  /\ scope \in {"removing", "ended"} =>
       \/ "stop" \in failures
       \/ \A n \in Names : \A c \in 1..Len(children[n]) : ~children[n][c].alive
  /\ scope = "ended" /\ container => "container" \in failures

IndexInv == IndexTypeOK /\ LiveIsRegistered /\ AwaitedIsRegistered /\ LeftIsReported

--------------------------------------------------------------------------------
(* The operators the actions share.                                        *)

\* What is left of an operation when one of its awaits is over.
LEMMA RestsType ==
  ASSUME NEW o \in Rests, o # <<>>
  PROVE  /\ Head(o) = "stop" => Tail(o) \in {<<>>, <<"start">>, <<"drop", "start">>}
         /\ Head(o) = "drop" => Tail(o) = <<"start">>
         /\ Head(o) = "start" => [o EXCEPT ![1] = "ready"] = <<"ready">>
         /\ Head(o) = "ready" => [o EXCEPT ![1] = "abort"] = <<"abort">>
         /\ Head(o) = "ready" => o = <<"ready">>
         /\ Tail(o) # <<>> => Head(Tail(o)) # "ready"
<1>1. CASE o = <<"stop">>
  BY <1>1
<1>2. CASE o = <<"start">>
  BY <1>2
<1>3. CASE o = <<"stop", "start">>
  BY <1>3
<1>4. CASE o = <<"drop", "start">>
  BY <1>4
<1>5. CASE o = <<"stop", "drop", "start">>
  BY <1>5
<1>6. CASE o = <<"ready">>
  BY <1>6
<1>7. CASE o = <<"abort">>
  BY <1>7
<1> QED BY <1>1, <1>2, <1>3, <1>4, <1>5, <1>6, <1>7 DEF Rests

\* Every operation is a sequence of awaits.
LEMMA AwaitsType ==
  ASSUME NEW goal \in Goals
  PROVE  Awaits(goal) \in Rests /\ Awaits(goal) # <<>> /\ Head(Awaits(goal)) # "ready"
BY DEF Awaits, Goals, Rests

\* Replacing an element leaves the other ones as they are.
LEMMA ReplaceType ==
  ASSUME NEW S, NEW seq \in Seq(S), NEW i \in 1..Len(seq), NEW e \in S
  PROVE  /\ [seq EXCEPT ![i] = e] \in Seq(S)
         /\ Len([seq EXCEPT ![i] = e]) = Len(seq)
         /\ [seq EXCEPT ![i] = e][i] = e
         /\ \A j \in 1..Len(seq) : j # i => [seq EXCEPT ![i] = e][j] = seq[j]
BY ExceptSeq

\* Asking a child to stop ends no process and starts none; it marks the registered one.
LEMMA AskedType ==
  ASSUME IndexTypeOK, NEW n \in Names, processes[n] # 0
  PROVE  /\ Asked(n) \in Seq(ChildStates)
         /\ Len(Asked(n)) = Len(children[n])
         /\ \A c \in 1..Len(children[n]) : Asked(n)[c].alive = children[n][c].alive
<1> DEFINE p == processes[n]
           e == [Registered(n) EXCEPT !.stop = IF @ = "none" THEN "asked" ELSE @]
<1>1. p \in 1..Len(children[n]) /\ children[n] \in Seq(ChildStates)
  BY DEF IndexTypeOK
<1>2. children[n][p] \in ChildStates
  BY <1>1
<1>3. e \in ChildStates /\ e.alive = children[n][p].alive
  BY <1>2 DEF ChildStates, Registered
<1>4. Asked(n) = [children[n] EXCEPT ![p] = e]
  BY <1>1, <1>2 DEF Asked, Registered, ChildStates
<1> HIDE DEF e, p
<1>5. /\ [children[n] EXCEPT ![p] = e] \in Seq(ChildStates)
      /\ Len([children[n] EXCEPT ![p] = e]) = Len(children[n])
      /\ [children[n] EXCEPT ![p] = e][p] = e
      /\ \A c \in 1..Len(children[n]) : c # p => [children[n] EXCEPT ![p] = e][c] = children[n][c]
  BY <1>1, <1>3, ReplaceType
<1> QED BY <1>3, <1>4, <1>5

--------------------------------------------------------------------------------
(* Every step keeps the invariant.                                         *)

\* A step that leaves the children alone, and begins no wait for one.
LEMMA ChildrenAlone ==
  ASSUME IndexInv, UNCHANGED childVars,
         scope' \in Scopes, container' \in BOOLEAN, containerId' \in BOOLEAN,
         cancelled' \in BOOLEAN, ongoing' \in [Names -> Rests],
         failures' \in SUBSET {"run", "stop", "container"},
         \A n \in Names : At(n, "ready")' => At(n, "ready"),
         LeftIsReported'
  PROVE  IndexInv'
<1>1. IndexTypeOK'
  BY DEF IndexInv, IndexTypeOK, childVars
<1>2. LiveIsRegistered'
  BY DEF IndexInv, LiveIsRegistered, childVars
<1>3. AwaitedIsRegistered'
  BY DEF IndexInv, AwaitedIsRegistered, Registered, childVars
<1> QED BY <1>1, <1>2, <1>3 DEF IndexInv

\* The steps of the scope.
LEMMA ScopeStep ==
  ASSUME IndexInv,
         \/ Acquires \/ Prepares \/ CallbackEnds \/ ChildrenSettled
         \/ RemovesContainer \/ Cancel \/ Watchdog
  PROVE  IndexInv'
<1>0. IndexTypeOK /\ LeftIsReported /\ <<"start">> \in Rests /\ <<"start">> # <<>>
      /\ Head(<<"start">>) # "ready" /\ Awaits("start") = <<"start">>
  BY DEF IndexInv, Rests, Awaits
<1>1. CASE Acquires
  <2>1. LeftIsReported'
    BY <1>1 DEF Acquires, Throws, LeftIsReported
  <2> QED BY <1>0, <1>1, <2>1, ChildrenAlone DEF Acquires, Throws, IndexTypeOK, Scopes, At
<1>2. CASE Prepares
  <2>1. LeftIsReported'
    BY <1>2 DEF Prepares, Throws, LeftIsReported
  <2>2. ongoing' \in [Names -> Rests] /\ \A n \in Names : At(n, "ready")' => At(n, "ready")
    BY <1>0, <1>2 DEF Prepares, IndexTypeOK, At, Names
  <2> QED BY <1>0, <1>2, <2>1, <2>2, ChildrenAlone DEF Prepares, Throws, IndexTypeOK, Scopes
<1>3. CASE CallbackEnds
  <2>1. LeftIsReported'
    BY <1>3 DEF CallbackEnds, LeftIsReported
  <2> QED BY <1>0, <1>3, <2>1, ChildrenAlone DEF CallbackEnds, IndexTypeOK, Scopes, At
<1>4. CASE ChildrenSettled
  <2>1. (\A n \in Names : \A c \in 1..Len(children[n]) : ~children[n][c].alive)
        \/ "stop" \in failures'
    <3>1. CASE \E n \in Names : StopFailed(n)
      BY <1>4, <3>1 DEF ChildrenSettled
    <3>2. CASE \A n \in Names : processes[n] = 0
      BY <3>2 DEF IndexInv, IndexTypeOK, LiveIsRegistered
    <3> QED BY <1>4, <3>1, <3>2 DEF ChildrenSettled
  <2>2. LeftIsReported'
    BY <1>0, <1>4, <2>1 DEF ChildrenSettled, LeftIsReported, childVars
  <2> QED BY <1>0, <1>4, <2>2, ChildrenAlone DEF ChildrenSettled, IndexTypeOK, Scopes, At
<1>5. CASE RemovesContainer
  <2>1. LeftIsReported'
    BY <1>0, <1>5 DEF RemovesContainer, LeftIsReported, childVars
  <2> QED BY <1>0, <1>5, <2>1, ChildrenAlone DEF RemovesContainer, IndexTypeOK, Scopes, At
<1>6. CASE Cancel
  <2>1. LeftIsReported'
    BY <1>0, <1>6 DEF Cancel, LeftIsReported, childVars
  <2> QED BY <1>0, <1>6, <2>1, ChildrenAlone DEF Cancel, IndexTypeOK, At
<1>7. CASE Watchdog
  <2>1. LeftIsReported'
    BY <1>7 DEF Watchdog, LeftIsReported
  <2> QED BY <1>0, <1>7, <2>1, ChildrenAlone DEF Watchdog, IndexTypeOK, Scopes, At
<1> QED BY <1>1, <1>2, <1>3, <1>4, <1>5, <1>6, <1>7

\* The steps of an operation that leave the children alone.
LEMMA OperationStep ==
  ASSUME IndexInv, NEW n \in Names, StopReturns(n) \/ Recreated(n) \/ OperationFails(n)
  PROVE  IndexInv'
<1>0. IndexTypeOK /\ LeftIsReported /\ ongoing[n] \in Rests
  BY DEF IndexInv, IndexTypeOK
<1>1. ongoing[n] # <<>> /\ scope \notin {"stopping", "removing", "ended"}
  BY <1>0 DEF StopReturns, Recreated, OperationFails, At, LeftIsReported
<1>2. /\ ongoing' \in [Names -> Rests]
      /\ \A m \in Names : At(m, "ready")' => At(m, "ready")
  <2>1. CASE StopReturns(n) \/ Recreated(n)
    <3>1. /\ Tail(ongoing[n]) \in {<<>>, <<"start">>, <<"drop", "start">>}
          /\ ongoing' = [ongoing EXCEPT ![n] = Tail(@)]
      BY <1>0, <1>1, <2>1, RestsType DEF StopReturns, Recreated, At, Goes
    <3>2. Tail(ongoing[n]) \in Rests
      BY <3>1 DEF Rests
    <3>3. Tail(ongoing[n]) # <<>> => Head(Tail(ongoing[n])) # "ready"
      BY <1>0, <1>1, RestsType
    <3> QED BY <1>0, <3>1, <3>2, <3>3 DEF IndexTypeOK, At
  <2>2. CASE OperationFails(n)
    <3>1. ongoing' = [ongoing EXCEPT ![n] = <<>>] /\ <<>> \in Rests
      BY <2>2 DEF OperationFails, Rejects, Rests
    <3> QED BY <1>0, <3>1 DEF IndexTypeOK, At
  <2> QED BY <2>1, <2>2
<1>3. /\ scope' \in Scopes /\ scope' \notin {"stopping", "removing", "ended"}
      /\ failures' \in SUBSET {"run", "stop", "container"}
      /\ UNCHANGED <<container, containerId, cancelled, childVars>>
  BY <1>0, <1>1 DEF StopReturns, Recreated, OperationFails, Rejects, IndexTypeOK, Scopes, scopeVars
<1>4. LeftIsReported'
  BY <1>3 DEF LeftIsReported
<1> QED BY <1>0, <1>2, <1>3, <1>4, ChildrenAlone DEF IndexTypeOK

\* A child that is asked, or whose end is seen, stays the same child; one that runs
\* after the step ran before it.  Nobody is registered or forgotten but with its end.
LEMMA ChildrenMark ==
  ASSUME IndexInv, children' \in [Names -> Seq(ChildStates)],
         \A n \in Names :
           /\ Len(children'[n]) = Len(children[n])
           /\ \A c \in 1..Len(children[n]) : children'[n][c].alive => children[n][c].alive,
         processes' \in [Names -> Nat],
         \A n \in Names :
           \/ processes'[n] = processes[n]
           \/ processes'[n] = 0 /\ ~children'[n][processes[n]].alive,
         \A n \in Names : At(n, "ready")' =>
           /\ At(n, "ready") /\ processes'[n] = processes[n]
           /\ children'[n][processes[n]].stop = children[n][processes[n]].stop,
         ongoing' \in [Names -> Rests],
         scope' \in Scopes,
         \/ scope' = scope /\ ongoing' = ongoing
         \/ scope' \notin {"stopping", "removing", "ended"}
         \/ scope' = "stopping" /\ \A n \in Names : ongoing'[n] = <<>>,
         UNCHANGED <<handle, container, containerId, cancelled, failures>>
  PROVE  IndexInv'
<1>0. IndexTypeOK /\ LiveIsRegistered /\ LeftIsReported /\ AwaitedIsRegistered
  BY DEF IndexInv
<1>1. IndexTypeOK'
  <2>1. \A n \in Names : Len(children[n]) \in Nat
    BY <1>0 DEF IndexTypeOK
  <2>2. \A n \in Names : processes[n] <= Len(children[n]) /\ handle[n] <= Len(children[n])
    BY <1>0 DEF IndexTypeOK
  <2>3. ASSUME NEW n \in Names
        PROVE  processes'[n] <= Len(children'[n]) /\ handle'[n] <= Len(children'[n])
    <3>1. Len(children'[n]) = Len(children[n]) /\ handle'[n] = handle[n]
          /\ (processes'[n] = processes[n] \/ processes'[n] = 0)
      OBVIOUS
    <3> QED BY <2>1, <2>2, <3>1
  <2> QED BY <1>0, <2>3 DEF IndexTypeOK
<1>2. LiveIsRegistered'
  BY <1>0 DEF LiveIsRegistered
<1>3. AwaitedIsRegistered'
  <2> SUFFICES ASSUME NEW n \in Names, At(n, "ready")'
               PROVE  (processes[n] > handle[n] /\ Registered(n).stop = "none")'
    BY DEF AwaitedIsRegistered
  <2>1. /\ At(n, "ready") /\ processes'[n] = processes[n] /\ handle'[n] = handle[n]
        /\ children'[n][processes[n]].stop = children[n][processes[n]].stop
    OBVIOUS
  <2> QED BY <1>0, <2>1 DEF AwaitedIsRegistered, Registered
<1>4. LeftIsReported'
  BY <1>0 DEF LeftIsReported
<1> QED BY <1>1, <1>2, <1>3, <1>4 DEF IndexInv

\* What asking the registered child of one name changes.
LEMMA AskedChildren ==
  ASSUME IndexTypeOK, NEW n \in Names, processes[n] # 0,
         children' = [children EXCEPT ![n] = Asked(n)]
  PROVE  /\ children' \in [Names -> Seq(ChildStates)]
         /\ \A m \in Names :
              /\ Len(children'[m]) = Len(children[m])
              /\ \A c \in 1..Len(children[m]) : children'[m][c].alive = children[m][c].alive
         /\ \A m \in Names \ {n} : children'[m] = children[m]
<1>1. /\ Asked(n) \in Seq(ChildStates)
      /\ Len(Asked(n)) = Len(children[n])
      /\ \A c \in 1..Len(children[n]) : Asked(n)[c].alive = children[n][c].alive
  BY AskedType
<1>2. /\ children' \in [Names -> Seq(ChildStates)]
      /\ children'[n] = Asked(n)
      /\ \A m \in Names \ {n} : children'[m] = children[m]
  BY <1>1 DEF IndexTypeOK
<1> QED BY <1>1, <1>2

\* The steps that ask a child to stop.
LEMMA AskStep ==
  ASSUME IndexInv,
         \/ \E n \in Names : (\E goal \in Goals : Issue(n, goal)) \/ HandleStop(n)
                             \/ NotReady(n)
         \/ PendingSettled
  PROVE  IndexInv'
<1>0. IndexTypeOK /\ LeftIsReported /\ AwaitedIsRegistered
      /\ children \in [Names -> Seq(ChildStates)]
  BY DEF IndexInv, IndexTypeOK
<1>1. ASSUME NEW n \in Names, NEW goal \in Goals, Issue(n, goal)
      PROVE  IndexInv'
  <2>1. /\ children' \in [Names -> Seq(ChildStates)]
        /\ \A m \in Names :
             /\ Len(children'[m]) = Len(children[m])
             /\ \A c \in 1..Len(children[m]) : children'[m][c].alive = children[m][c].alive
        /\ \A m \in Names \ {n} : children'[m] = children[m]
    BY <1>0, <1>1, AskedChildren DEF Issue
  <2>2. /\ ongoing' \in [Names -> Rests] /\ ~At(n, "ready")'
        /\ \A m \in Names \ {n} : At(m, "ready")' => At(m, "ready")
    BY <1>0, <1>1, AwaitsType DEF Issue, IndexTypeOK, At
  <2>3. scope' = "running" /\ UNCHANGED <<processes, handle, scopeVars>>
    BY <1>1 DEF Issue, scopeVars
  <2> QED BY <1>0, <2>1, <2>2, <2>3, ChildrenMark DEF IndexTypeOK, scopeVars
<1>2. ASSUME NEW n \in Names, HandleStop(n)
      PROVE  IndexInv'
  <2>1. processes[n] # 0 /\ processes[n] = handle[n]
        /\ children' = [children EXCEPT ![n] = Asked(n)]
        /\ UNCHANGED <<processes, handle, ongoing, scopeVars>>
    BY <1>2 DEF HandleStop
  <2>2. ~At(n, "ready")
    BY <1>0, <2>1 DEF AwaitedIsRegistered, IndexTypeOK
  <2> QED BY <1>0, <2>1, <2>2, AskedChildren, ChildrenMark DEF IndexTypeOK, scopeVars, At
<1>3. ASSUME NEW n \in Names, NotReady(n)
      PROVE  IndexInv'
  <2>1. processes[n] # 0 /\ children' = [children EXCEPT ![n] = Asked(n)]
        /\ UNCHANGED <<processes, handle, scopeVars>>
    BY <1>0, <1>3 DEF NotReady, AwaitedIsRegistered, IndexTypeOK
  <2>2. ongoing[n] # <<>> /\ ongoing[n] \in Rests /\ Head(ongoing[n]) = "ready"
        /\ ongoing' = [ongoing EXCEPT ![n] = [ongoing[n] EXCEPT ![1] = "abort"]]
    BY <1>0, <1>3 DEF NotReady, At, Instead, IndexTypeOK
  <2>3. ongoing' = [ongoing EXCEPT ![n] = <<"abort">>] /\ <<"abort">> \in Rests
    BY <2>2, RestsType DEF Rests
  <2>4. /\ ongoing' \in [Names -> Rests] /\ ~At(n, "ready")'
        /\ \A m \in Names \ {n} : At(m, "ready")' => At(m, "ready")
    BY <1>0, <2>3 DEF IndexTypeOK, At
  <2>5. scope' \in Scopes \ {"stopping", "removing", "ended"}
    BY <1>0, <2>1, <2>2 DEF IndexTypeOK, LeftIsReported, scopeVars
  <2> QED BY <1>0, <2>1, <2>4, <2>5, AskedChildren, ChildrenMark DEF IndexTypeOK, scopeVars
<1>4. CASE PendingSettled
  <2>1. /\ children' = [n \in Names |-> IF processes[n] = 0 THEN children[n] ELSE Asked(n)]
        /\ scope' = "stopping" /\ \A n \in Names : ongoing[n] = <<>>
        /\ UNCHANGED <<container, containerId, cancelled, failures, processes, handle,
                       ongoing>>
    BY <1>4 DEF PendingSettled
  <2>2. /\ children' \in [Names -> Seq(ChildStates)]
        /\ \A n \in Names :
             /\ Len(children'[n]) = Len(children[n])
             /\ \A c \in 1..Len(children[n]) : children'[n][c].alive = children[n][c].alive
    BY <1>0, <2>1, AskedType
  <2>3. \A n \in Names : ~At(n, "ready")'
    BY <2>1 DEF At
  <2> QED BY <1>0, <2>1, <2>2, <2>3, ChildrenMark DEF IndexTypeOK, Scopes
<1> QED BY <1>1, <1>2, <1>3, <1>4

\* A process that ends, was seen to end, or outlasts SIGKILL.
LEMMA ProcessStep ==
  ASSUME IndexInv, NEW n \in Names, NEW c \in DOMAIN children[n],
         ChildStops(n, c) \/ ChildSurvives(n, c) \/ ChildExits(n, c)
  PROVE  IndexInv'
<1>0. /\ IndexTypeOK /\ LeftIsReported /\ AwaitedIsRegistered
      /\ children \in [Names -> Seq(ChildStates)] /\ children[n] \in Seq(ChildStates)
      /\ c \in 1..Len(children[n]) /\ children[n][c] \in ChildStates
  BY DEF IndexInv, IndexTypeOK
<1>1. \E e \in ChildStates :
        /\ children' = [children EXCEPT ![n] = [children[n] EXCEPT ![c] = e]]
        /\ e.alive => children[n][c].alive
        /\ e.stop # children[n][c].stop => children[n][c].stop = "asked"
        /\ ChildStops(n, c) => ~e.alive
  <2>1. CASE ChildStops(n, c)
    <3>1. [alive |-> FALSE, stop |-> "closed"] \in ChildStates
      BY DEF ChildStates
    <3> QED BY <1>0, <2>1, <3>1 DEF ChildStops
  <2>2. CASE ChildSurvives(n, c) /\ ~ChildStops(n, c)
    <3> DEFINE e == [children[n][c] EXCEPT !.stop = "failed"]
    <3>1. e \in ChildStates /\ e.alive = children[n][c].alive
      BY <1>0 DEF ChildStates
    <3>2. children' = [children EXCEPT ![n] = [children[n] EXCEPT ![c] = e]]
          /\ children[n][c].stop = "asked"
      BY <1>0, <2>2 DEF ChildSurvives
    <3> HIDE DEF e
    <3> QED BY <2>2, <3>1, <3>2
  <2>3. CASE ChildExits(n, c) /\ ~ChildStops(n, c)
    <3> DEFINE e == [children[n][c] EXCEPT !.alive = FALSE]
    <3>1. e \in ChildStates /\ ~e.alive /\ e.stop = children[n][c].stop
      BY <1>0 DEF ChildStates
    <3>2. children' = [children EXCEPT ![n] = [children[n] EXCEPT ![c] = e]]
      BY <1>0, <2>3 DEF ChildExits
    <3> HIDE DEF e
    <3> QED BY <2>3, <3>1, <3>2
  <2> QED BY <2>1, <2>2, <2>3
<1> PICK e \in ChildStates :
        /\ children' = [children EXCEPT ![n] = [children[n] EXCEPT ![c] = e]]
        /\ e.alive => children[n][c].alive
        /\ e.stop # children[n][c].stop => children[n][c].stop = "asked"
        /\ ChildStops(n, c) => ~e.alive
  BY <1>1
<1>2. /\ children' \in [Names -> Seq(ChildStates)]
      /\ \A m \in Names : Len(children'[m]) = Len(children[m])
      /\ children'[n][c] = e
      /\ \A m \in Names : \A d \in 1..Len(children[m]) :
           m # n \/ d # c => children'[m][d] = children[m][d]
  BY <1>0, ReplaceType
<1>3. UNCHANGED <<handle, ongoing, scopeVars>>
  BY DEF ChildStops, ChildSurvives, ChildExits
<1>4. /\ processes' \in [Names -> Nat]
      /\ \A m \in Names : \/ processes'[m] = processes[m]
                          \/ processes'[m] = 0 /\ ~children'[m][processes[m]].alive
  <2>1. CASE ChildStops(n, c)
    <3>1. /\ processes' = [processes EXCEPT ![n] = IF processes[n] = c THEN 0
                                                   ELSE processes[n]]
          /\ ~children'[n][c].alive
      BY <1>2, <2>1 DEF ChildStops
    <3> QED BY <1>0, <3>1 DEF IndexTypeOK
  <2>2. CASE UNCHANGED processes
    BY <1>0, <2>2 DEF IndexTypeOK
  <2> QED BY <2>1, <2>2 DEF ChildSurvives, ChildExits
<1>5. ASSUME NEW m \in Names, At(m, "ready")'
      PROVE  /\ At(m, "ready") /\ processes'[m] = processes[m]
             /\ children'[m][processes[m]].stop = children[m][processes[m]].stop
  <2>1. At(m, "ready") /\ processes[m] \in 1..Len(children[m])
    <3>1. At(m, "ready")
      BY <1>3, <1>5 DEF At
    <3> QED BY <1>0, <3>1 DEF AwaitedIsRegistered, IndexTypeOK
  <2>2. children[m][processes[m]].stop = "none"
    BY <1>0, <2>1 DEF AwaitedIsRegistered, Registered
  <2>3. children'[m][processes[m]].stop = children[m][processes[m]].stop
    BY <1>2, <2>1, <2>2
  <2>4. m # n \/ processes[m] # c \/ ~ChildStops(n, c)
    BY <2>2 DEF ChildStops
  <2>5. processes'[m] = processes[m]
    BY <1>0, <2>4 DEF ChildStops, ChildSurvives, ChildExits, IndexTypeOK
  <2> QED BY <2>1, <2>3, <2>5
<1> QED BY <1>0, <1>2, <1>3, <1>4, <1>5, ChildrenMark DEF IndexTypeOK, scopeVars

\* A spawned child is the only one that may run: none was registered.
LEMMA SpawnStep ==
  ASSUME IndexInv, NEW n \in Names, Spawn(n)
  PROVE  IndexInv'
<1>0. /\ IndexTypeOK /\ LiveIsRegistered /\ AwaitedIsRegistered /\ LeftIsReported
      /\ children \in [Names -> Seq(ChildStates)] /\ children[n] \in Seq(ChildStates)
      /\ Len(children[n]) \in Nat
  BY DEF IndexInv, IndexTypeOK
<1>1. PICK alive \in BOOLEAN :
        children' = [children EXCEPT ![n] = Append(children[n],
                                                   [alive |-> alive, stop |-> "none"])]
  BY <1>0 DEF Spawn
<1> DEFINE e == [alive |-> alive, stop |-> "none"]
<1>2. e \in ChildStates /\ e.stop = "none"
  BY DEF ChildStates
<1> HIDE DEF e
<1>3. /\ Append(children[n], e) \in Seq(ChildStates)
      /\ Len(Append(children[n], e)) = Len(children[n]) + 1
      /\ Append(children[n], e)[Len(children[n]) + 1] = e
      /\ \A c \in 1..Len(children[n]) : Append(children[n], e)[c] = children[n][c]
  BY <1>0, <1>2, AppendProperties
<1>4. /\ children' \in [Names -> Seq(ChildStates)]
      /\ children'[n] = Append(children[n], e)
      /\ \A m \in Names \ {n} : children'[m] = children[m]
  BY <1>0, <1>1, <1>3 DEF e
<1>5. /\ processes' \in [Names -> Nat] /\ processes'[n] = Len(children[n]) + 1
      /\ \A m \in Names \ {n} : processes'[m] = processes[m]
      /\ processes[n] = 0 /\ UNCHANGED <<handle, scopeVars>>
  BY <1>0 DEF Spawn, IndexTypeOK
<1>6. /\ ongoing' \in [Names -> Rests]
      /\ \A m \in Names \ {n} : ongoing'[m] = ongoing[m]
  <2>1. ongoing[n] \in Rests /\ ongoing[n] # <<>> /\ Head(ongoing[n]) = "start"
        /\ ongoing' = [ongoing EXCEPT ![n] = [ongoing[n] EXCEPT ![1] = "ready"]]
    BY <1>0 DEF Spawn, At, Instead, IndexTypeOK
  <2>2. ongoing' = [ongoing EXCEPT ![n] = <<"ready">>] /\ <<"ready">> \in Rests
    BY <2>1, RestsType DEF Rests
  <2> QED BY <1>0, <2>2 DEF IndexTypeOK
<1>7. IndexTypeOK'
  <2>1. ASSUME NEW m \in Names
        PROVE  processes'[m] <= Len(children'[m]) /\ handle'[m] <= Len(children'[m])
    <3>1. processes[m] \in Nat /\ handle[m] \in Nat /\ Len(children[m]) \in Nat
          /\ processes[m] <= Len(children[m]) /\ handle[m] <= Len(children[m])
      BY <1>0 DEF IndexTypeOK
    <3>2. CASE m = n
      <4>1. processes'[m] = Len(children[n]) + 1 /\ handle'[m] = handle[n]
            /\ Len(children'[m]) = Len(children[n]) + 1
        BY <1>3, <1>4, <1>5, <3>2
      <4> QED BY <3>1, <3>2, <4>1
    <3>3. CASE m # n
      <4>1. processes'[m] = processes[m] /\ handle'[m] = handle[m]
            /\ children'[m] = children[m]
        BY <1>4, <1>5, <3>3
      <4> QED BY <3>1, <4>1
    <3> QED BY <3>2, <3>3
  <2> QED BY <1>0, <1>4, <1>5, <1>6, <2>1 DEF IndexTypeOK, scopeVars
<1>8. LiveIsRegistered'
  <2> SUFFICES ASSUME NEW m \in Names, NEW c \in 1..Len(children'[m]), children'[m][c].alive
               PROVE  c = processes'[m]
    BY DEF LiveIsRegistered
  <2>1. CASE m = n
    <3>1. \A d \in 1..Len(children[n]) : ~children[n][d].alive
      BY <1>0, <1>5 DEF LiveIsRegistered
    <3>2. c \in 1..(Len(children[n]) + 1)
      BY <1>3, <1>4, <2>1
    <3>3. c \notin 1..Len(children[n])
      BY <1>3, <1>4, <2>1, <3>1
    <3>4. c = Len(children[n]) + 1
      BY <1>0, <3>2, <3>3
    <3> QED BY <1>5, <2>1, <3>4
  <2>2. CASE m # n
    BY <1>0, <1>4, <1>5, <2>2 DEF LiveIsRegistered
  <2> QED BY <2>1, <2>2
<1>9. AwaitedIsRegistered'
  <2>1. (processes[n] > handle[n] /\ Registered(n).stop = "none")'
    <3>1. handle[n] \in Nat /\ handle[n] <= Len(children[n])
      BY <1>0 DEF IndexTypeOK
    <3> QED BY <1>0, <1>2, <1>3, <1>4, <1>5, <3>1 DEF Registered
  <2>2. ASSUME NEW m \in Names \ {n}, At(m, "ready")'
        PROVE  (processes[m] > handle[m] /\ Registered(m).stop = "none")'
    BY <1>0, <1>4, <1>5, <1>6, <2>2 DEF AwaitedIsRegistered, Registered, At
  <2> QED BY <2>1, <2>2 DEF AwaitedIsRegistered
<1>10. LeftIsReported'
  <2>1. scope' \notin {"stopping", "removing", "ended"}
    BY <1>5 DEF Spawn, Undisturbed, scopeVars
  <2> QED BY <2>1 DEF LeftIsReported
<1> QED BY <1>7, <1>8, <1>9, <1>10 DEF IndexInv

\* A child that is ready becomes the one the handle closes over; the set-up goes on.
LEMMA ReadyStep ==
  ASSUME IndexInv, NEW n \in Names, IsReady(n)
  PROVE  IndexInv'
<1>0. /\ IndexTypeOK /\ LiveIsRegistered /\ AwaitedIsRegistered /\ LeftIsReported
      /\ UNCHANGED <<children, processes, container, containerId, cancelled, failures>>
  BY DEF IndexInv, IsReady
<1>1. /\ handle' \in [Names -> Nat] /\ handle'[n] = processes[n]
      /\ \A m \in Names \ {n} : handle'[m] = handle[m]
  BY <1>0 DEF IsReady, IndexTypeOK
<1>2. Awaits("start") = <<"start">> /\ <<"start">> \in Rests /\ <<>> \in Rests
      /\ <<"start">> # <<>> /\ Head(<<"start">>) # "ready"
  BY DEF Awaits, Rests
<1>3. /\ ongoing' \in [Names -> Rests]
      /\ \A m \in Names : At(m, "ready")' => m # n /\ At(m, "ready")
  <2>1. \A m \in Names :
          (ongoing'[m] = ongoing[m] /\ m # n) \/ ongoing'[m] \in {<<>>, <<"start">>}
    BY <1>0, <1>2 DEF IsReady, IndexTypeOK, Names
  <2>2. ongoing' \in [Names -> Rests]
    <3>1. DOMAIN ongoing' = Names /\ ongoing' = [m \in Names |-> ongoing'[m]]
      BY <1>0 DEF IsReady, IndexTypeOK
    <3> QED BY <1>0, <1>2, <2>1, <3>1 DEF IndexTypeOK
  <2> QED BY <1>2, <2>1, <2>2 DEF At
<1>4. scope' \in Scopes /\ scope' \notin {"stopping", "removing", "ended"}
  BY <1>0 DEF IsReady, Undisturbed, Scopes, IndexTypeOK
<1>5. IndexTypeOK'
  BY <1>0, <1>1, <1>3, <1>4 DEF IndexTypeOK
<1>6. LiveIsRegistered'
  BY <1>0 DEF LiveIsRegistered
<1>7. AwaitedIsRegistered'
  BY <1>0, <1>1, <1>3 DEF AwaitedIsRegistered, Registered
<1>8. LeftIsReported'
  BY <1>4 DEF LeftIsReported
<1> QED BY <1>5, <1>6, <1>7, <1>8 DEF IndexInv

--------------------------------------------------------------------------------
(* The theorems.                                                           *)

\* Nothing is owned at first.
LEMMA IndexBegins ==
  ASSUME IndexInit
  PROVE  IndexInv
<1>1. <<>> \in Seq(ChildStates) /\ Len(<<>>) = 0 /\ <<>> \in Rests
  BY DEF Rests
<1>2. IndexTypeOK
  <2>1. \A n \in Names : processes[n] <= Len(children[n]) /\ handle[n] <= Len(children[n])
    BY <1>1 DEF IndexInit
  <2> QED BY <1>1, <2>1 DEF IndexInit, IndexTypeOK, Scopes
<1>3. LiveIsRegistered
  BY <1>1 DEF IndexInit, LiveIsRegistered
<1> QED BY <1>2, <1>3 DEF IndexInit, IndexInv, AwaitedIsRegistered, LeftIsReported, At

\* Every step of the operations, the processes and the scope keeps it.
LEMMA IndexKeeps ==
  ASSUME IndexInv, [IndexNext]_indexVars
  PROVE  IndexInv'
<1>1. CASE \/ Acquires \/ Prepares \/ CallbackEnds \/ ChildrenSettled
           \/ RemovesContainer \/ Cancel \/ Watchdog
  BY <1>1, ScopeStep
<1>2. CASE PendingSettled
  BY <1>2, AskStep
<1>3. ASSUME NEW n \in Names,
             (\E goal \in Goals : Issue(n, goal)) \/ HandleStop(n) \/ NotReady(n)
      PROVE  IndexInv'
  BY <1>3, AskStep
<1>4. ASSUME NEW n \in Names, StopReturns(n) \/ Recreated(n) \/ OperationFails(n)
      PROVE  IndexInv'
  BY <1>4, OperationStep
<1>5. ASSUME NEW n \in Names, Spawn(n)
      PROVE  IndexInv'
  BY <1>5, SpawnStep
<1>6. ASSUME NEW n \in Names, IsReady(n)
      PROVE  IndexInv'
  BY <1>6, ReadyStep
<1>7. ASSUME NEW n \in Names, NEW c \in DOMAIN children[n],
             ChildStops(n, c) \/ ChildSurvives(n, c) \/ ChildExits(n, c)
      PROVE  IndexInv'
  BY <1>7, ProcessStep
<1>8. CASE UNCHANGED indexVars
  <2>1. UNCHANGED <<scope, container, containerId, cancelled, failures, children,
                    processes, handle, ongoing>>
    BY <1>8 DEF indexVars, scopeVars, childVars
  <2> QED BY <2>1 DEF IndexInv, IndexTypeOK, LiveIsRegistered, AwaitedIsRegistered,
          LeftIsReported, At, Registered
<1> QED BY <1>1, <1>2, <1>3, <1>4, <1>5, <1>6, <1>7, <1>8 DEF IndexNext

\* What the invariant says of a scope that has ended.
LEMMA IndexEnds ==
  ASSUME IndexInv
  PROVE  NothingOutlives
<1>0. \A n \in Names : DOMAIN children[n] = 1..Len(children[n])
  BY DEF IndexInv, IndexTypeOK
<1>1. ASSUME NEW n \in Names
      PROVE  Cardinality({c \in DOMAIN children[n] : children[n][c].alive}) <= 1
  <2> DEFINE L == {c \in DOMAIN children[n] : children[n][c].alive}
  <2>1. L \subseteq {processes[n]}
    BY <1>0 DEF IndexInv, LiveIsRegistered
  <2>2. IsFiniteSet({processes[n]}) /\ Cardinality({processes[n]}) = 1
    BY FS_Singleton
  <2>3. Cardinality(L) <= Cardinality({processes[n]})
    BY <2>1, <2>2, FS_Subset
  <2> QED BY <2>2, <2>3
<1>2. scope = "ended" =>
        /\ \A n \in Names : ongoing[n] = <<>>
        /\ container => "container" \in failures
        /\ (\E n \in Names : \E c \in DOMAIN children[n] : children[n][c].alive) =>
             "stop" \in failures
  BY <1>0 DEF IndexInv, LeftIsReported
<1> QED BY <1>1, <1>2 DEF NothingOutlives

--------------------------------------------------------------------------------
(* The composition.                                                        *)

Inv == SessionInv /\ PoolInv /\ ServerInv /\ IndexInv

\* What holds the session may change while the pool and the server stand.
LEMMA PartsStand ==
  /\ PoolInv /\ UNCHANGED poolVars => PoolInv'
  /\ IndexInv /\ UNCHANGED indexVars => IndexInv'
  /\ UNCHANGED lifeVars => Turns
<1>1. ASSUME PoolInv, UNCHANGED poolVars PROVE PoolInv'
  <2>1. UNCHANGED <<browser, line, plan, served, seen, faulted, degraded, poolClosed>>
    BY <1>1 DEF poolVars
  <2>2. PoolTypeOK'
    BY <1>1, <2>1 DEF PoolInv, PoolTypeOK
  <2>3. LineIsPending'
    BY <1>1, <2>1 DEF PoolInv, LineIsPending, Pending
  <2>4. FaultIsServed'
    BY <1>1, <2>1 DEF PoolInv, FaultIsServed
  <2>5. ShownIsOpen'
    BY <1>1, <2>1 DEF PoolInv, ShownIsOpen, Open
  <2> QED BY <2>2, <2>3, <2>4, <2>5 DEF PoolInv
<1>2. ASSUME IndexInv, UNCHANGED indexVars PROVE IndexInv'
  BY <1>2, IndexKeeps
<1>3. ASSUME UNCHANGED lifeVars PROVE Turns
  BY <1>3 DEF lifeVars, Turns
<1> QED BY <1>1, <1>2, <1>3

\* Whoever holds the session, and whatever it does, the invariant stands.
THEOREM Invariance == Spec => []Inv
<1>1. Init => Inv
  <2> SUFFICES ASSUME Init PROVE Inv
    OBVIOUS
  <2>1. SessionInv
    <3>1. 0 \in 0..MaxGeneration /\ <<>> \in Seq(Actions)
      BY SessionAssumption
    <3> QED BY <3>1 DEF Init, SessionInit, SessionInv, SessionTypeOK, WorkIsOwned, EndIsFenced,
            ViewIsFresh, Observations, ShownTruly, Reached, IndexStates, Serving
  <2>2. PoolInv
    <3>1. NoBrowser \in Contexts /\ NoBrowser.action = "none" /\ ~NoBrowser.discovery
      BY DEF NoBrowser, Contexts
    <3>2. /\ browser \in [Browsers -> Contexts]
          /\ \A b \in Browsers : browser[b].action = "none" /\ ~browser[b].discovery
      BY <3>1 DEF Init, PoolInit
    <3>3. line = <<>> /\ plan = <<>> /\ Len(line) = 0 /\ line \in Seq(Browsers) /\ plan \in Seq(Actions)
      BY DEF Init, PoolInit
    <3>4. ~served /\ ~faulted /\ ~degraded /\ PoolTypeOK
      BY <3>2, <3>3 DEF Init, PoolInit, PoolTypeOK
    <3>5. LineIsPending
      BY <3>2, <3>3, BrowserAssumption DEF LineIsPending, Pending
    <3> QED BY <3>2, <3>4, <3>5 DEF PoolInv, FaultIsServed, ShownIsOpen
  <2>3. ServerInv
    <3>1. /\ page \in [Visitors -> Int] /\ posting \in [Visitors -> Int]
          /\ \A v \in Visitors : page[v] = -1 /\ posting[v] = -1
          /\ actors \in [0..MaxGeneration -> SUBSET Visitors]
          /\ \A g \in 0..MaxGeneration : actors[g] = {}
      BY DEF Init, ServerInit, None
    <3>2. generation = 0 /\ 0 \in 0..MaxGeneration /\ lease = NoVisitor /\ leaseReset = "no"
      BY SessionAssumption DEF Init, ServerInit, SessionInit
    <3>3. \A v \in Visitors : ~Claims(v)
      BY <3>1, <3>2 DEF Claims
    <3>4. ServerTypeOK
      BY <3>1, <3>2 DEF ServerTypeOK
    <3>5. OneClaims
      BY <3>1, <3>2, <3>3 DEF OneClaims
    <3> QED BY <3>4, <3>5 DEF ServerInv
  <2>4. IndexInv
    BY IndexBegins DEF Init
  <2> QED BY <2>1, <2>2, <2>3, <2>4 DEF Inv
<1>2. Inv /\ [Next]_vars => Inv'
  <2> SUFFICES ASSUME Inv, [Next]_vars PROVE Inv'
    OBVIOUS
  <2> USE DEF Inv
  <2>1. ASSUME UNCHANGED sessionVars PROVE SessionInv' /\ UNCHANGED lifeVars
    BY <2>1 DEF sessionVars, SessionInv, SessionTypeOK, WorkIsOwned, EndIsFenced, ViewIsFresh,
           ShownTruly, Reached, lifeVars, workVars, viewVars, worldVars, journeyVars
  <2>2. ASSUME SessionInv', Turns, UNCHANGED <<poolVars, serverVars, indexVars>> PROVE Inv'
    <3>1. ServerInv'
      BY <2>2, ClaimsKept
    <3> QED BY <2>2, <3>1, PartsStand
  <2>3. CASE OfSession /\ UNCHANGED indexVars
    <3>1. CASE Serve /\ UNCHANGED <<poolVars, serverVars>>
      BY <3>1, <2>2, <2>3, ServeKeeps, PartsStand
    <3>2. CASE (Host \/ Ending \/ Interrupt) /\ UNCHANGED <<poolVars, serverVars>>
      BY <3>2, <2>2, <2>3, LifeKeeps DEF Ending
    <3>3. CASE Visitor /\ UNCHANGED <<poolVars, serverVars>>
      <4>1. ASSUME NEW a \in Actions, Accept(a) PROVE SessionInv' /\ Turns
        BY <4>1, AcceptKeeps, PartsStand DEF Accept
      <4>2. CASE SelectService \/ RequestReset
        BY <4>2, <3>3, <2>2, <2>3, LifeKeeps
      <4> QED BY <4>1, <4>2, <3>3, <2>2, <2>3, ActionAssumption DEF Visitor
    <3>4. CASE PoolNext /\ UNCHANGED serverVars
      <4>1. SessionInv' /\ PoolInv' /\ UNCHANGED lifeVars
        <5>1. CASE PoolServes
          BY <5>1, PoolServesKeeps
        <5>2. ASSUME NEW b \in Browsers,
                     \/ OpenBrowser(b) \/ DropBrowser(b) \/ SelectIn(b) \/ ResetIn(b) \/ ResetIsDone(b)
                     \/ \E a \in PoolActions : StartIn(b, a)
              PROVE  PoolInv' /\ UNCHANGED sessionVars
          BY <5>2, BrowserKeeps
        <5>3. CASE ClosePool
          BY <2>1, <5>3, ClosePoolKeeps
        <5> QED BY <3>4, <5>1, <5>2, <5>3, <2>1 DEF PoolNext
      <4>2. ServerInv' /\ IndexInv'
        BY <3>4, <4>1, <2>3, ClaimsKept, PartsStand
      <4> QED BY <4>1, <4>2
    <3>5. CASE ServerNext /\ UNCHANGED poolVars
      BY <3>5, <2>3, ServerKeeps, PartsStand
    <3> QED BY <2>3, <3>1, <3>2, <3>3, <3>4, <3>5 DEF OfSession
  <2>4. CASE IndexNext /\ UNCHANGED <<sessionVars, poolVars, serverVars>>
    <3>1. SessionInv' /\ UNCHANGED lifeVars
      BY <2>1, <2>4
    <3>2. PoolInv' /\ ServerInv'
      BY <2>4, <3>1, ClaimsKept, PartsStand
    <3>3. IndexInv'
      BY <2>4, IndexKeeps
    <3> QED BY <3>1, <3>2, <3>3
  <2>5. CASE UNCHANGED vars
    BY <2>1, <2>2, <2>5, PartsStand DEF vars
  <2> QED BY <2>3, <2>4, <2>5 DEF Next
<1> QED BY <1>1, <1>2, PTL DEF Spec

\* What a visitor sees and may choose was observed after the last control and the last
\* recovery took effect, however many reads were queued before them.
THEOREM BasisSurvivesControlsHolds == Spec => []BasisSurvivesControls
<1>1. Inv => BasisSurvivesControls
  BY DEF Inv, SessionInv, ViewIsFresh, BasisSurvivesControls
<1> QED BY <1>1, Invariance, PTL

\* Once a reset, a close or a signal has begun no licensed answer is held or read, and a
\* fixture outlives what is at work on it.
THEOREM ContentFencedHolds == Spec => []ContentFenced
<1>1. Inv => ContentFenced
  BY DEF Inv, SessionInv, WorkIsOwned, EndIsFenced, ContentFenced, Readable, Acting, Busy
<1> QED BY <1>1, Invariance, PTL

\* An Index shown online answers for itself, one shown offline does not answer, and one
\* shown altered answers nothing unaltered, wherever a control failed.
THEOREM ControlsAreTrueHolds == Spec => []ControlsAreTrue
<1>1. Inv => ControlsAreTrue
  BY DEF Inv, SessionInv, WorkIsOwned, ViewIsFresh, ControlsAreTrue, Acting, Busy
<1> QED BY <1>1, Invariance, PTL

\* No browser meets the fault of another, whatever fails and whoever leaves.
THEOREM FaultsContainedHolds == Spec => []FaultsContained
<1>1. Inv => FaultsContained
  BY DEF Inv, PoolInv, FaultIsServed, ShownIsOpen, FaultsContained
<1> QED BY <1>1, Invariance, PTL

\* What is in the line belongs to the journeys that are shown, one operation of each.
THEOREM JourneysSeparateHolds == Spec => []JourneysSeparate
<1>1. Inv => JourneysSeparate
  <2> SUFFICES ASSUME Inv PROVE JourneysSeparate
    OBVIOUS
  <2>1. line \in Seq(Browsers) /\ Len(line) \in Nat /\ DOMAIN line = 1..Len(line)
    BY DEF Inv, PoolInv, PoolTypeOK
  <2>2. ToSet(line) = {line[i] : i \in 1..Len(line)}
    BY <2>1 DEF ToSet
  <2>3. {b \in Browsers : Pending(b)} = ToSet(line)
    BY <2>1, <2>2 DEF Inv, PoolInv, LineIsPending
  <2>4. line \in Bijection(1..Len(line), ToSet(line))
    <3>1. line \in [1..Len(line) -> ToSet(line)]
      BY <2>1, <2>2
    <3>2. \A i, j \in 1..Len(line) : line[i] = line[j] => i = j
      BY DEF Inv, PoolInv, LineIsPending
    <3>3. \A t \in ToSet(line) : \E i \in 1..Len(line) : line[i] = t
      BY <2>2
    <3> QED BY <3>1, <3>2, <3>3, Fun_IsBij
  <2>5. Cardinality(ToSet(line)) = Len(line)
    BY <2>1, <2>4, FS_CountingElements DEF ExistsBijection
  <2> QED BY <2>3, <2>5 DEF Inv, PoolInv, LineIsPending, JourneysSeparate
<1> QED BY <1>1, Invariance, PTL

\* No generation has operations of two visitors.
THEOREM LeaseIsolationHolds == Spec => []LeaseIsolation
<1>1. Inv => LeaseIsolation
  <2> SUFFICES ASSUME Inv, NEW g \in DOMAIN actors PROVE Cardinality(actors[g]) <= 1
    BY DEF LeaseIsolation
  <2>1. \A u, v \in actors[g] : u = v
    BY DEF Inv, ServerInv, ServerTypeOK, OneClaims
  <2>2. CASE actors[g] = {}
    BY <2>2, FS_EmptySet
  <2>3. ASSUME NEW u \in actors[g] PROVE Cardinality(actors[g]) <= 1
    <3>1. actors[g] = {u}
      BY <2>1
    <3>2. Cardinality({u}) = 1
      BY FS_Singleton
    <3> QED BY <3>1, <3>2
  <2> QED BY <2>2, <2>3
<1> QED BY <1>1, Invariance, PTL

\* A scope of Indexes that ends by itself leaves nothing at work, and no process or
\* container that it has not reported; no two servers ever run over one database.
THEOREM NothingOutlivesHolds == Spec => []NothingOutlives
<1>1. Inv => NothingOutlives
  BY IndexEnds DEF Inv
<1> QED BY <1>1, Invariance, PTL

================================================================================
