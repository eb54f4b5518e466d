---------------------------- MODULE SharedBrowsers ----------------------------
(***************************************************************************)
(* Browser journeys over one session: createSharedBrowserSessions of        *)
(* demo/sharedBrowserSessions.ts, opened and dropped by the browser-pool    *)
(* half of demo/sessionServer.ts.                                           *)
(*                                                                         *)
(* Each browser has a view and one pending operation; operations of all     *)
(* browsers wait in one line, and the one that is served is a plan of       *)
(* operations of the session below, each started and awaited in turn.  A    *)
(* fault that a browser puts on an Index is restored before the line moves  *)
(* on; if that fails the pool is degraded for good.                         *)
(***************************************************************************)
EXTENDS Session, FiniteSets

CONSTANTS
  Browsers,     \* browser identities: random, never reused
  MaxPending,   \* operations in the line: 12 in the code
  MaxJourney,   \* bound on resets of a browser
  PoolActions   \* the actions browsers ask for, among Actions

ASSUME BrowserAssumption ==
  MaxPending \in Nat \ {0} /\ MaxJourney \in Nat /\ PoolActions \subseteq Actions

VARIABLES
  browser,      \* each BrowserContext
  line,         \* the outer queue: browsers, each with its operation
  plan,         \* base operations left of the one being served; the head is awaited
  served,       \* the head of the line has begun
  seen,         \* it discovered something while its fault was on
  faulted,      \* history: a fault reached the Index and was not seen restored
  degraded, poolClosed

poolVars == <<browser, line, plan, served, seen, faulted, degraded, poolClosed>>

NoBrowser == [state |-> "absent", journey |-> 0, resetting |-> FALSE, ahead |-> 0,
              action |-> "none", of |-> 0, discovery |-> FALSE, selection |-> FALSE,
              asked |-> FALSE]
Pending(b) == browser[b].action # "none"
Open(b) == browser[b].state = "open"
Blank(c) == [c EXCEPT !.discovery = FALSE, !.selection = FALSE]
\* Nobody can look at a closed context again.
Closed(c) == [Blank(c) EXCEPT !.state = "closed", !.asked = FALSE]

\* drop closes the context and forgets it; what it still awaits runs on or is refused.
OpenBrowser(b) ==
  /\ ~poolClosed /\ browser[b].state = "absent"
  /\ browser' = [browser EXCEPT ![b].state = "open"]
  /\ UNCHANGED <<line, plan, served, seen, faulted, degraded, poolClosed, sessionVars>>

DropBrowser(b) ==
  /\ Open(b)
  /\ browser' = [browser EXCEPT ![b] = Closed(@)]
  /\ UNCHANGED <<line, plan, served, seen, faulted, degraded, poolClosed, sessionVars>>

SelectIn(b) ==
  /\ Open(b) /\ ~browser[b].resetting /\ ~Pending(b) /\ browser[b].discovery
  /\ browser' = [browser EXCEPT ![b].selection = TRUE]
  /\ UNCHANGED <<line, plan, served, seen, faulted, degraded, poolClosed, sessionVars>>

\* start
StartIn(b, a) ==
  /\ Open(b) /\ ~poolClosed /\ ~browser[b].resetting /\ ~degraded
  /\ ~Pending(b) /\ Len(line) < MaxPending
  /\ a = "recover" => browser[b].discovery
  /\ browser' = [browser EXCEPT
       ![b] = [IF a \in Controls \cup {"recover"} THEN Blank(@) ELSE @
                 EXCEPT !.action = a, !.of = browser[b].journey]]
  /\ line' = Append(line, b)
  /\ UNCHANGED <<plan, served, seen, faulted, degraded, poolClosed, sessionVars>>

\* Mutant of ResetIn: it does not wait for what is in the line.
ResetAtOnce(b) ==
  /\ Open(b) /\ ~browser[b].resetting /\ browser[b].journey < MaxJourney
  /\ browser' = [browser EXCEPT ![b].resetting = TRUE, ![b].ahead = 0]
  /\ UNCHANGED <<line, plan, served, seen, faulted, degraded, poolClosed, sessionVars>>

\* reset waits for everything in the line when it is asked for.
ResetIn(b) ==
  /\ Open(b) /\ ~browser[b].resetting /\ browser[b].journey < MaxJourney
  /\ browser' = [browser EXCEPT ![b].resetting = TRUE, ![b].ahead = Len(line)]
  /\ UNCHANGED <<line, plan, served, seen, faulted, degraded, poolClosed, sessionVars>>

\* A context on its next journey; a closed one only stops.
Renewed(c) ==
  IF c.state = "closed" THEN [c EXCEPT !.resetting = FALSE]
  ELSE [Blank(c) EXCEPT !.resetting = FALSE, !.journey = @ + 1, !.asked = FALSE]

ResetIsDone(b) ==
  /\ browser[b].resetting /\ browser[b].ahead = 0
  /\ browser' = [browser EXCEPT ![b] = Renewed(@)]
  /\ UNCHANGED <<line, plan, served, seen, faulted, degraded, poolClosed, sessionVars>>

ClosePool ==
  /\ ~poolClosed
  /\ poolClosed' = TRUE
  /\ browser' = [b \in Browsers |-> IF Open(b) THEN Closed(browser[b]) ELSE browser[b]]
  /\ UNCHANGED <<line, plan, served, seen, faulted, degraded, sessionVars>>

--------------------------------------------------------------------------------
(* The operation at the head of the line.                                   *)

\* The base operations an action is made of: what a browser does goes through a fresh
\* read of the shared network first, and a fault is followed by its restoration.
Plan(c) ==
  CASE c.action = "invoke" -> <<"refresh", "invoke">>
    [] c.action = "feedback" -> IF c.discovery THEN <<"feedback", "refresh">> ELSE <<"feedback">>
    [] c.action \in {"stop", "tamper"} -> <<c.action, "restart">>
    [] c.action = "recover" -> <<"refresh", "recover">>
    [] OTHER -> <<c.action>>

Faulting(c) == c.action \in {"stop", "tamper"}

\* Conditions of start's callback and of apply that throw before any base operation.
Refused(c) ==
  \/ c.state = "closed" \/ poolClosed \/ degraded
  \/ c.action = "invoke" /\ ~(c.selection /\ c.discovery)
  \/ c.action = "feedback" /\ ~c.asked

\* The line moves on: the finally of start, and the resets that waited for it.
Finish(contexts) ==
  /\ browser' = [x \in Browsers |->
       LET c == [IF Open(x) THEN contexts[x] ELSE browser[x]
                   EXCEPT !.ahead = IF @ > 0 THEN @ - 1 ELSE 0]
       IN IF x = Head(line) THEN [c EXCEPT !.action = "none", !.of = 0] ELSE c]
  /\ line' = Tail(line) /\ served' = FALSE /\ plan' = <<>> /\ seen' = FALSE

ServeHead ==
  LET c == browser[Head(line)] IN
  /\ line # <<>> /\ ~served
  /\ \/ (Refused(c) \/ ~Ready) /\ Finish(browser) /\ UNCHANGED sessionVars
     \/ /\ ~Refused(c) /\ Accept(Head(Plan(c)))
        /\ served' = TRUE /\ plan' = Plan(c)
        /\ UNCHANGED <<browser, line, seen>>
  /\ UNCHANGED <<faulted, degraded, poolClosed>>

\* runBase, once base.wait returns.
Returned == served /\ ~Busy
Succeeded == settled = "completed"

\* What a browser keeps when its plan ends: the discovery of a refresh, and the
\* invocation if one was made, even one that failed.
Copied(b) ==
  LET c == browser[b]
      fresh == Succeeded /\ Head(plan) \in {"refresh", "invoke"}
  IN {[browser EXCEPT ![b].discovery = IF fresh THEN TRUE ELSE @,
                      ![b].selection = @ /\ c.action # "refresh" /\ (fresh => offered),
                      ![b].asked = kept] :
        kept \in {c.asked, Head(plan) = "invoke" \/ c.asked}}

\* The next operation of a plan, after its first one; an invocation selects first.
Continue ==
  LET b == Head(line) IN
  /\ Returned /\ ~Faulting(browser[b]) /\ Len(plan) = 2 /\ Succeeded
  /\ browser[b].action = "invoke" => offered
  /\ AcceptWith(plan[2], browser[b].action = "invoke")
  /\ plan' = Tail(plan)
  /\ browser' = IF Head(plan) = "refresh" /\ browser[b].action # "recover"
                THEN [browser EXCEPT ![b].discovery = Open(b)] ELSE browser
  /\ UNCHANGED <<line, served, seen, faulted, degraded, poolClosed>>

\* The plan ends, or is given up.
Conclude ==
  LET b == Head(line) IN
  /\ Returned /\ ~Faulting(browser[b])
  /\ \/ Len(plan) = 1 \/ ~Succeeded \/ ~Ready
     \/ browser[b].action = "invoke" /\ ~offered
  /\ \E contexts \in Copied(b) : Finish(contexts)
  /\ UNCHANGED <<faulted, degraded, poolClosed, sessionVars>>

\* Mutant of Restore: only a control that succeeded is undone.
RestoreIfApplied ==
  LET b == Head(line) IN
  /\ Returned /\ Faulting(browser[b]) /\ Len(plan) = 2
  /\ faulted' = TRUE
  /\ IF Succeeded
     THEN /\ Accept("restart") /\ plan' = Tail(plan) /\ seen' = (discovery # "none")
          /\ UNCHANGED <<browser, line, served>>
     ELSE Finish(browser) /\ UNCHANGED sessionVars
  /\ UNCHANGED <<degraded, poolClosed>>

\* The Index is restarted whether or not the control completed.
Restore ==
  LET b == Head(line) IN
  /\ Returned /\ Faulting(browser[b]) /\ Len(plan) = 2
  /\ Accept("restart")
  /\ plan' = Tail(plan) /\ faulted' = TRUE /\ seen' = (discovery # "none")
  /\ UNCHANGED <<browser, line, served, degraded, poolClosed>>

\* The restart was seen online: the browser keeps what it saw under the fault.
IsRestored ==
  LET b == Head(line) IN
  /\ Returned /\ Faulting(browser[b]) /\ Len(plan) = 1
  /\ Succeeded /\ indexControl = "online"
  /\ faulted' = FALSE
  /\ Finish([browser EXCEPT ![b].discovery = seen, ![b].selection = FALSE])
  /\ UNCHANGED <<degraded, poolClosed, sessionVars>>

\* It was not, or could not even be asked for: everyone loses the view for good.
Degrade ==
  LET b == Head(line) IN
  /\ Returned /\ Faulting(browser[b])
  /\ IF Len(plan) = 2 THEN ~Ready ELSE ~(Succeeded /\ indexControl = "online")
  /\ degraded' = TRUE /\ faulted' = TRUE
  /\ Finish([x \in Browsers |-> Blank(browser[x])])
  /\ UNCHANGED <<poolClosed, sessionVars>>

PoolServes == ServeHead \/ Continue \/ Conclude \/ Restore \/ IsRestored \/ Degrade

PoolNext ==
  \/ \E b \in Browsers :
       \/ OpenBrowser(b) \/ DropBrowser(b) \/ SelectIn(b) \/ ResetIn(b) \/ ResetIsDone(b)
       \/ \E a \in PoolActions : StartIn(b, a)
  \/ ClosePool \/ PoolServes

PoolInit ==
  /\ browser = [b \in Browsers |-> NoBrowser]
  /\ line = <<>> /\ plan = <<>> /\ served = FALSE /\ seen = FALSE
  /\ faulted = FALSE /\ degraded = FALSE /\ poolClosed = FALSE

--------------------------------------------------------------------------------
(* Properties.                                                              *)

\* A fault that a browser puts on the Index is never met by another browser: when the
\* line moves on it has been seen restored, whatever failed meanwhile and whoever was
\* dropped, or the pool is degraded, and then nobody is served and no view is shown
\* (187-212, 289, 307).
FaultsContained ==
  /\ ~served => ~faulted \/ degraded
  /\ degraded => ~served /\ \A b \in Browsers : ~browser[b].discovery

\* What is in the line belongs to the journeys that are shown: one operation of a
\* browser, of the journey it is on, however resets, drops and other browsers'
\* operations are ordered (278-291, 330-341).
JourneysSeparate ==
  /\ Len(line) <= MaxPending
  /\ \A b \in Browsers : Pending(b) => browser[b].of = browser[b].journey
  /\ {b \in Browsers : Pending(b)} = ToSet(line) /\ Cardinality(ToSet(line)) = Len(line)
================================================================================
