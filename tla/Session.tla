------------------------------- MODULE Session -------------------------------
(***************************************************************************)
(* The demo session: withDemoSession (demo/sessionController.ts) over one   *)
(* owned fixture (demo/sessionFixture.ts) and its Index processes           *)
(* (demo/indexProcesses.ts).                                                *)
(*                                                                         *)
(* Operations are accepted while the session is ready and run one at a time *)
(* on a promise chain; each runs through several awaits (phase).  A control *)
(* of an Index or a recovery of an operator invalidates what was discovered *)
(* before it.  Reset ends a generation and launches the next one, close     *)
(* ends the session, an OS signal ends the fixture.                         *)
(*                                                                         *)
(* One city, one service of one operator, and one Index that controls act   *)
(* on.  An observation is abstracted to whether a control has taken effect  *)
(* since it was begun (Stale), which the code cannot see.                   *)
(***************************************************************************)
EXTENDS Integers, Sequences, SequencesExt

CONSTANTS
  VisitorActions,  \* the operations that a visitor who holds the session asks for
  MaxQueue,        \* bound on operations accepted and not settled
  MaxGeneration,   \* bound on resets
  MaxInvocations,  \* bound on invocations of a generation
  Retained         \* licensed answers held at once: 4 in the code

ASSUME SessionAssumption ==
  /\ MaxQueue \in Nat \ {0} /\ MaxInvocations \in Nat \ {0}
  /\ MaxGeneration \in Nat /\ Retained \in Nat \ {0}

Controls == {"stop", "restart", "tamper"}   \* "start" is a restart of what is stopped
Actions == Controls \cup {"refresh", "invoke", "retry", "feedback", "recover",
                          "stop-providers", "fresh-consumer"}
ASSUME ActionAssumption == VisitorActions \subseteq Actions
Observations == {"none", "Fresh", "Stale"}

\* The process of the Index, and where its origin leads: to it, to the proxy that
\* alters its replies, or to a proxy that is closed.
IndexStates == [up : BOOLEAN, route : {"direct", "proxy", "closed"}]
Serving == [up |-> TRUE, route |-> "direct"]

VARIABLES
  front,        \* who holds the session: a visitor, a lease server, a browser pool;
                \* a journey holds the Indexes and no session
  licensed,     \* options.mode = 'licensed'
  generation,
  status,       \* state.status
  aborted,      \* abort.signal of the generation
  fixture,      \* the withSessionFixture call of the generation
  interrupted,  \* SIGINT or SIGTERM: the lifecycle's own signal
  queue,        \* actions accepted and not settled; the head is being served
  phase,        \* the await the head is at; "queued" before it starts
  settled,      \* how the last operation ended
  resetting, closing,
  discovery, raw, selection, offered, \* offered: discovery.selected has the service
  matched,      \* discovery's block is still the current one
  index,        \* the Index process and its proxy, one of IndexStates
  indexControl, \* state.indexControls
  recovered,    \* operator.recovery
  invocations,  \* invocation.view of each invocation
  holders       \* retainedOrder

viewVars == <<discovery, raw, selection, offered, matched>>
worldVars == <<index, indexControl, recovered>>
journeyVars == <<invocations, holders>>
lifeVars == <<front, licensed, generation, status, aborted, fixture, interrupted, resetting, closing>>
workVars == <<queue, phase, settled>>
sessionVars == <<lifeVars, workVars, viewVars, worldVars, journeyVars>>

Busy == queue # <<>>
Acting == Busy /\ phase # "queued"
Holds(i) == \E k \in DOMAIN holders : holders[k] = i
\* What is held once the answer of i is given up; retainedOrder.delete.
Without(i) == IF Holds(i) THEN SelectSeq(holders, LAMBDA j : j # i) ELSE holders
\* readContent
Readable(i) == status = "ready" /\ Holds(i)
Prepared == [outcome |-> "prepared", checked |-> "not-checked"]
\* A verified end; when licensed (licensedTerminal) the outcome itself says so.
Terminal(v) == v.outcome \in {"completed", "failed"} /\ (licensed \/ v.checked = "matched")
\* leaveFeedback's condition on the invocation
Reviewable(v) == Terminal(v) /\ v.checked # "mismatched"

Drop == /\ discovery' = "none" /\ selection' = FALSE /\ offered' = FALSE
        /\ matched' = FALSE

--------------------------------------------------------------------------------
(* Acceptance: the synchronous part of start, select, reset and close.      *)

\* requireFixture
Ready == fixture = "owned" /\ status = "ready"

\* What start does at once, by action: controls and recoveries drop the view.
AcceptWith(a, chosen) ==
  /\ Ready
  /\ queue' = Append(queue, a)
  /\ phase' = IF Busy THEN phase ELSE "queued"
  /\ IF a \in Controls \cup {"recover"}
     THEN Drop
     ELSE selection' = chosen /\ UNCHANGED <<discovery, offered, matched>>
  /\ raw' = IF a = "recover" THEN "none" ELSE raw
  /\ UNCHANGED <<settled, lifeVars, worldVars, journeyVars>>

Accept(a) == AcceptWith(a, selection)

SelectService ==
  /\ Ready /\ ~Busy /\ discovery # "none" /\ offered
  /\ selection' = TRUE
  /\ UNCHANGED <<discovery, raw, offered, matched, lifeVars, workVars, worldVars, journeyVars>>

RequestReset ==
  /\ closing = "no" /\ status # "closed" /\ ~resetting
  /\ generation < MaxGeneration
  /\ status' = "resetting" /\ resetting' = TRUE
  /\ aborted' = TRUE /\ holders' = <<>>
  /\ UNCHANGED <<front, licensed, generation, fixture, interrupted, closing, invocations,
                 workVars, viewVars, worldVars>>

\* close fences the session before its first await; a reset in progress is awaited,
\* otherwise stop begins at once.
RequestClose ==
  /\ closing = "no" /\ status # "closed"
  /\ closing' = IF resetting THEN "waiting" ELSE "stopping"
  /\ status' = "resetting" /\ holders' = <<>> /\ aborted' = TRUE
  /\ UNCHANGED <<front, licensed, generation, fixture, interrupted, resetting,
                 invocations, workVars, viewVars, worldVars>>

--------------------------------------------------------------------------------
(* The fixture.                                                             *)

\* The callback of withSessionFixture; acquisition checks the signal last.
Acquired ==
  /\ fixture = "acquiring" /\ ~aborted /\ ~interrupted
  /\ fixture' = "owned" /\ status' = "ready"
  /\ UNCHANGED <<front, licensed, generation, aborted, interrupted, resetting, closing,
                 workVars, viewVars, worldVars, journeyVars>>

\* It fails on its own, or because it is aborted; only the latter is expected.
NotAcquired ==
  /\ fixture = "acquiring"
  /\ \/ aborted /\ fixture' = "gone" /\ UNCHANGED status
     \/ fixture' = "broken" /\ status' = "failed"
  /\ UNCHANGED <<front, licensed, generation, aborted, interrupted, resetting, closing,
                 workVars, viewVars, worldVars, journeyVars>>

\* The signal ends the lifecycle: cancelled() aborts the generation and releases it.
Interrupt ==
  /\ ~interrupted
  /\ interrupted' = TRUE
  /\ IF fixture = "owned"
     THEN status' = "resetting" /\ holders' = <<>> /\ aborted' = TRUE
     ELSE UNCHANGED <<status, holders, aborted>>
  /\ UNCHANGED <<front, licensed, generation, fixture, resetting, closing, invocations,
                 workVars, viewVars, worldVars>>

\* Mutant of Cleanup: the callback returns without waiting for the queue.
CleanupAtOnce ==
  /\ fixture = "owned" /\ aborted
  /\ \/ fixture' = "gone" /\ UNCHANGED status
     \/ fixture' = "broken" /\ status' = "failed"
  /\ UNCHANGED <<front, licensed, generation, aborted, interrupted, resetting, closing,
                 workVars, viewVars, worldVars, journeyVars>>

\* await held; await queue; then the services, servers and Indexes are closed, which
\* may fail.
Cleanup ==
  /\ fixture = "owned" /\ aborted /\ ~Busy
  /\ \/ fixture' = "gone" /\ UNCHANGED status
     \/ fixture' = "broken" /\ status' = "failed"
  /\ UNCHANGED <<front, licensed, generation, aborted, interrupted, resetting, closing,
                 workVars, viewVars, worldVars, journeyVars>>

\* stop has cleared everything of the generation.
Cleared ==
  /\ queue' = <<>> /\ phase' = "queued" /\ settled' = "none"
  /\ Drop /\ raw' = "none"
  /\ invocations' = <<>> /\ holders' = <<>>

\* stop, then generation++, initial() and launch(), which a waiting close stops at
\* once; a rejected cleanup rejects both.
ResetStops ==
  /\ resetting /\ ~Busy /\ fixture \in {"gone", "broken"}
  /\ resetting' = FALSE
  /\ IF fixture = "broken"
     THEN /\ closing' = IF closing = "waiting" THEN "done" ELSE closing
          /\ holders' = <<>> /\ raw' = "none" /\ invocations' = <<>>
          /\ UNCHANGED <<generation, status, aborted, fixture, workVars, worldVars,
                         discovery, selection, offered, matched>>
     ELSE /\ closing' = IF closing = "waiting" THEN "stopping" ELSE closing
          /\ generation' = generation + 1 /\ fixture' = "acquiring"
          /\ aborted' = (closing = "waiting")
          /\ status' = IF closing = "waiting" THEN "resetting" ELSE "starting"
          /\ Cleared
          /\ index' = Serving /\ indexControl' = "online" /\ recovered' = FALSE
  /\ UNCHANGED <<front, licensed, interrupted>>

\* A close whose cleanup was rejected is rejected, and leaves the status.
CloseEnds ==
  /\ closing = "stopping" /\ ~Busy /\ fixture \in {"gone", "broken"}
  /\ closing' = "done"
  /\ status' = IF fixture = "gone" THEN "closed" ELSE status
  /\ raw' = "none" /\ invocations' = <<>> /\ holders' = <<>>
  /\ UNCHANGED <<front, licensed, generation, aborted, fixture, interrupted, resetting,
                 workVars, worldVars, discovery, selection, offered, matched>>

--------------------------------------------------------------------------------
(* The operation being served.                                              *)

End(outcome) ==
  /\ queue' = Tail(queue) /\ phase' = "queued"
  /\ settled' = IF front = "pool" THEN outcome ELSE "none"   \* what wait returns

Goto(p) == phase' = p /\ UNCHANGED <<queue, settled>>

\* How one invocation's view changes.
Revise(i, outcome, checked) ==
  invocations' = [invocations EXCEPT ![i] = [outcome |-> outcome, checked |-> checked]]

Latest == Len(invocations)

\* Where act goes first.
FirstPhase(a) ==
  CASE a = "refresh" -> "reading"
    [] a = "invoke" -> "checking"
    [] a = "retry" -> "sending"
    [] a = "feedback" -> "publishing"
    [] a \in Controls -> IF a = "tamper" /\ indexControl = "offline" THEN "restoring" ELSE "applying"
    [] a = "recover" -> "migrating"
    [] OTHER -> "waiting"   \* stop-providers, fresh-consumer, origin-comparison

\* The conditions under which act throws before its first await.
Refuses(a) ==
  \/ a = "invoke" /\ ~(discovery # "none" /\ selection /\ offered)
  \/ a \in {"retry", "feedback"} /\ invocations = <<>>
  \/ a = "feedback" /\ invocations # <<>> /\ ~Reviewable(invocations[Latest])
  \/ a = "fresh-consumer" /\ (discovery = "none" \/ raw = "none")

\* Mutant of Begin: a recovery does not clear the view again at its boundary.
BeginOnce ==
  LET a == Head(queue) IN
  /\ Busy /\ phase = "queued" /\ ~aborted /\ ~interrupted /\ ~Refuses(a)
  /\ \/ a = "retry" /\ Terminal(invocations[Latest]) /\ End("completed")
     \/ ~(a = "retry" /\ Terminal(invocations[Latest])) /\ Goto(FirstPhase(a))
  /\ IF a \in Controls THEN Drop
     ELSE UNCHANGED <<discovery, offered, matched>> /\ selection' = (selection /\ a \in {"invoke", "feedback", "retry", "fresh-consumer"})
  /\ UNCHANGED <<raw, lifeVars, worldVars, journeyVars>>

\* The queue reaches the operation and the generation is not aborted.  Controls and
\* recoveries clear the view again here: a read queued before them may have
\* published its own since they were accepted.
Begin ==
  LET a == Head(queue) IN
  /\ Busy /\ phase = "queued" /\ ~aborted /\ ~interrupted /\ ~Refuses(a)
  /\ \/ a = "retry" /\ Terminal(invocations[Latest]) /\ End("completed")
     \/ ~(a = "retry" /\ Terminal(invocations[Latest])) /\ Goto(FirstPhase(a))
  /\ IF a \in Controls \cup {"recover"} THEN Drop
     ELSE UNCHANGED <<discovery, offered, matched>> /\ selection' = (selection /\ a \in {"invoke", "feedback", "retry", "fresh-consumer"})
  /\ raw' = IF a = "recover" THEN "none" ELSE raw
  /\ UNCHANGED <<lifeVars, worldVars, journeyVars>>

\* signal.throwIfAborted(), withOwnedLifecycle's check, or a throw of act.
NeverBegins ==
  /\ Busy /\ phase = "queued"
  /\ aborted \/ interrupted \/ Refuses(Head(queue))
  /\ End(IF aborted THEN "cancelled" ELSE "failed")
  /\ indexControl' = IF Head(queue) \in Controls THEN "unknown" ELSE indexControl
  /\ UNCHANGED <<lifeVars, viewVars, index, recovered, journeyVars>>

\* refresh: discoverRanked, then the abort check, then the views are installed.
Read ==
  /\ Acting /\ phase = "reading" /\ ~aborted
  /\ discovery' = "Fresh" /\ raw' = "Fresh" /\ selection' = FALSE /\ matched' = TRUE
  /\ offered' \in BOOLEAN
  /\ End("completed")
  /\ UNCHANGED <<lifeVars, worldVars, journeyVars>>

\* invoke: the basis and the profile are checked again, the request is kept, sent.
Check ==
  /\ Acting /\ phase = "checking"
  /\ \/ /\ matched /\ ~aborted /\ Latest < MaxInvocations
        /\ invocations' = Append(invocations, [Prepared EXCEPT !.outcome = "sent"])
        /\ Goto("sending") /\ UNCHANGED selection
     \/ /\ selection' = FALSE /\ UNCHANGED invocations
        /\ End(IF aborted THEN "cancelled" ELSE "failed")
  /\ UNCHANGED <<discovery, raw, offered, matched, holders, lifeVars, worldVars>>

\* submit: message/send and, until the task ends, tasks/get.
Send ==
  /\ Acting /\ phase = "sending" /\ ~aborted
  /\ \E outcome \in {"completed", "failed"} : Revise(Latest, outcome, invocations[Latest].checked)
  /\ Goto("verifying")
  /\ UNCHANGED <<holders, lifeVars, viewVars, worldVars>>

\* submit: the evidence is verified and, when licensed, its answer is retained; the
\* previous holder of the task is closed and the oldest ones are evicted first.
Retain ==
  LET others == Without(Latest)
      kept == IF Len(others) < Retained THEN others
              ELSE SubSeq(others, Len(others) - Retained + 2, Len(others))
  IN
  /\ Acting /\ phase = "verifying" /\ ~aborted
  /\ \E checked \in {"matched", "mismatched"},
        outcome \in {invocations[Latest].outcome} \cup (IF licensed THEN {"unresolved"} ELSE {}) :
       Revise(Latest, outcome, checked)
  /\ holders' = IF licensed THEN Append(kept, Latest) ELSE <<>>
  /\ End("completed")
  /\ UNCHANGED <<lifeVars, viewVars, worldVars>>

\* submit's catch: the outcome is unresolved unless the task was seen to end.
SubmitFails ==
  /\ Acting /\ phase \in {"sending", "verifying"}
  /\ LET v == invocations[Latest] IN
     Revise(Latest, IF phase = "verifying" /\ ~licensed THEN v.outcome ELSE "unresolved",
            IF v.checked = "not-checked" THEN "unavailable" ELSE v.checked)
  /\ holders' = IF phase = "verifying" /\ licensed THEN Without(Latest) ELSE holders
  /\ End(IF aborted THEN "cancelled" ELSE "failed")
  /\ UNCHANGED <<lifeVars, viewVars, worldVars>>

\* publishFeedback: the transaction is mined, which moves the chain past the block
\* of the discovery; then both Indexes are polled and the view is refreshed.
Publish ==
  /\ Acting /\ phase = "publishing"
  /\ matched' = FALSE
  /\ IF aborted THEN End("cancelled") ELSE Goto("reading")
  /\ UNCHANGED <<discovery, raw, selection, offered, lifeVars, worldVars, journeyVars>>

\* What is shown for a control that took effect.
Effect(a) == CASE a = "stop" -> "offline" [] a = "tamper" -> "altered" [] OTHER -> "online"

\* What it does to the Index.  A proxy is closed first; a new one is put in front of
\* the process whether that runs or not.
Controlled(a) ==
  CASE a = "stop" -> [up |-> FALSE, route |-> "direct"]
    [] a = "tamper" -> [index EXCEPT !.route = "proxy"]
    [] OTHER -> Serving

\* What it leaves when it fails half-way: the proxy closed and no other origin, and no
\* process where a stop, or a restart that cannot start again, has ended it.
HalfDone ==
  LET ends == phase = "restoring" \/ Head(queue) # "tamper" IN
  [up : {index.up} \cup (IF ends THEN {FALSE} ELSE {}),
   route : {index.route} \cup (IF index.route = "proxy" THEN {"closed"} ELSE {})]
  \cup (IF phase = "restoring" /\ aborted THEN {Serving} ELSE {})

\* An Index whose control says that it was stopped is started before its replies are
\* altered; one that is not running for another reason is not.
Restored ==
  /\ Acting /\ phase = "restoring" /\ ~aborted
  /\ index' = Serving /\ Goto("applying")
  /\ UNCHANGED <<indexControl, recovered, lifeVars, viewVars, journeyVars>>

Overtake(v) == IF v = "none" THEN "none" ELSE "Stale"

\* A control with a city goes on to a fresh discovery, one without ends here.
Applied ==
  LET a == Head(queue) IN
  /\ Acting /\ phase = "applying"
  /\ index' = Controlled(a)
  /\ discovery' = Overtake(discovery)
  /\ \/ /\ ~aborted /\ indexControl' = Effect(a)
        /\ End("completed") \/ Goto("reading")
     \/ /\ aborted /\ indexControl' = "unknown" /\ End("cancelled")
  /\ UNCHANGED <<recovered, raw, selection, offered, matched, lifeVars, journeyVars>>

\* Mutant of ControlFails: the control is shown as it was.
FailsQuietly ==
  /\ Acting /\ phase \in {"restoring", "applying"}
  /\ index' \in HalfDone
  /\ discovery' = Overtake(discovery)
  /\ End(IF aborted THEN "cancelled" ELSE "failed")
  /\ UNCHANGED <<indexControl, recovered, raw, selection, offered, matched, lifeVars, journeyVars>>

\* The control failed, at either await: what it did to the Index is unknown.
ControlFails ==
  /\ Acting /\ phase \in {"restoring", "applying"}
  /\ index' \in HalfDone
  /\ discovery' = Overtake(discovery)
  /\ indexControl' = "unknown"
  /\ End(IF aborted THEN "cancelled" ELSE "failed")
  /\ UNCHANGED <<recovered, raw, selection, offered, matched, lifeVars, journeyVars>>

\* recover: providers stop, the wallet worker migrates the owners and the services
\* are replaced.  A worker that is killed leaves the chain either way.
Recovered ==
  /\ Acting /\ phase = "migrating"
  /\ matched' = FALSE
  /\ discovery' = Overtake(discovery) /\ raw' = Overtake(raw)
  /\ \/ /\ ~recovered /\ ~aborted /\ recovered' = TRUE
        /\ End("completed") \/ Goto("reading")
     \/ UNCHANGED recovered /\ End(IF aborted THEN "cancelled" ELSE "failed")
  /\ UNCHANGED <<index, indexControl, selection, offered, lifeVars, journeyVars>>

Waited ==
  /\ Acting /\ phase = "waiting"
  /\ End(IF aborted THEN "cancelled" ELSE "completed")
  /\ UNCHANGED <<lifeVars, viewVars, worldVars, journeyVars>>

\* A read, a publication or another await fails.  The fresh discovery of a recovery
\* may fail and the recovery still completes, with nothing to show.
Fails ==
  LET lenient == Head(queue) = "recover" /\ ~aborted IN
  /\ Acting /\ phase \in {"reading", "publishing", "waiting"}
  /\ End(IF aborted THEN "cancelled" ELSE IF lenient THEN "completed" ELSE "failed")
  /\ selection' = (selection /\ phase # "reading")
  /\ IF lenient THEN discovery' = "none" /\ raw' = "none" ELSE UNCHANGED <<discovery, raw>>
  /\ UNCHANGED <<offered, matched, lifeVars, worldVars, journeyVars>>

Serve ==
  \/ Begin \/ NeverBegins \/ Read \/ Check \/ Send \/ Retain \/ SubmitFails \/ Publish
  \/ Restored \/ Applied \/ ControlFails \/ Recovered \/ Waited \/ Fails

Host == Acquired \/ NotAcquired \/ Cleanup \/ ResetStops \/ CloseEnds

SessionInit ==
  /\ front \in {"visitor", "lease", "pool", "journey"}
  /\ licensed \in BOOLEAN /\ (front # "visitor" => ~licensed)
  /\ generation = 0 /\ status = "starting"
  /\ aborted = FALSE /\ fixture = "acquiring" /\ interrupted = FALSE
  /\ resetting = FALSE /\ closing = "no"
  /\ queue = <<>> /\ phase = "queued" /\ settled = "none"
  /\ discovery = "none" /\ raw = "none" /\ selection = FALSE /\ offered = FALSE
  /\ matched = FALSE
  /\ index = Serving /\ indexControl = "online" /\ recovered = FALSE
  /\ invocations = <<>> /\ holders = <<>>

\* A visitor that holds the session itself.
Visitor ==
  /\ front = "visitor"
  /\ \/ Len(queue) < MaxQueue /\ \E a \in VisitorActions : Accept(a)
     \/ SelectService \/ RequestReset

--------------------------------------------------------------------------------
(* Properties.                                                              *)

\* What is shown and selectable was observed after the last control of the Index and
\* the last recovery took effect, and the private replay input after the last
\* recovery, although reads queued before them finish in between (418-420, 550).
BasisSurvivesControls == discovery # "Stale" /\ raw # "Stale"

\* Once a reset, a close or a signal has begun no licensed answer is held or read
\* until the next generation is ready, and the fixture outlives every operation that
\* is at work on it (227-233, 299-303, 517-522, 597-600).
ContentFenced ==
  /\ status # "ready" => holders = <<>>
  /\ \A i \in DOMAIN invocations : Readable(i) => ~aborted /\ closing = "no"
  /\ Acting => fixture = "owned"

\* What a browser gets from the Index's origin.
Reached == CASE ~index.up \/ index.route = "closed" -> "offline"
             [] index.up /\ index.route = "proxy" -> "altered"
             [] OTHER -> "online"

\* Whenever nothing is at work on it, an Index that is shown online answers for itself,
\* one that is shown offline answers nothing and one that is shown altered answers
\* nothing unaltered, wherever a control failed or was aborted (404-411, 568-575).  More
\* is not so of an altered one: "a stopped upstream cannot produce a forged record.
\* Restore it explicitly" (402-403) is done for what a stop has stopped, and not for what
\* a failed restart has left stopped.
ShownTruly ==
  indexControl \in {Reached, "unknown"} \/ (indexControl = "altered" /\ Reached = "offline")
ControlsAreTrue == ~Acting => ShownTruly
================================================================================
