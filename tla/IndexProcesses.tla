---------------------------- MODULE IndexProcesses ----------------------------
(***************************************************************************)
(* The scope of two owned Index processes over one disposable PostgreSQL    *)
(* container: runWithOwnedIndexes (demo/indexProcesses.ts) inside           *)
(* withOwnedLifecycle (demo/ownedLifecycle.ts).                             *)
(*                                                                         *)
(* A callback holds the two Indexes and may stop, start, restart and        *)
(* rebuild them, one operation per name at a time, without awaiting what it *)
(* began; it may also call stop of an OwnedIndex directly, which goes past  *)
(* that discipline.  Docker and the processes are external: a docker run    *)
(* may create the container and lose the receipt, a process may exit at any *)
(* time, and may outlast SIGKILL by more than the code waits.               *)
(***************************************************************************)
EXTENDS Integers, Sequences, FiniteSets

CONSTANT MaxChildren   \* bound on the processes spawned under one name

ASSUME IndexAssumption == MaxChildren \in Nat \ {0}

Names == {"A", "B"}
Goals == {"stop", "start", "restart", "rebuild"}

VARIABLES
  scope,        \* where runWithOwnedIndexes is
  container, containerId, \* whether the container exists; whether its id is known
  children,     \* every child spawned under a name, and its entry of childStops
  processes,    \* the registered child of each name, 0 for none
  handle,       \* the child that a (b) closes over, 0 for none
  ongoing,      \* the awaits left of the operation of each name
  cancelled,    \* SIGINT or SIGTERM was received
  failures      \* what the scope rejects with

scopeVars == <<scope, container, containerId, cancelled, failures>>
childVars == <<children, processes, handle>>
indexVars == <<scopeVars, childVars, ongoing>>

\* active()
Undisturbed == ~cancelled /\ scope \in {"acquiring", "preparing", "starting", "running"}

\* restartNamed, rebuildNamed, stopNamed, startNamed
Awaits(goal) ==
  CASE goal = "stop" -> <<"stop">>
    [] goal = "start" -> <<"start">>
    [] goal = "restart" -> <<"stop", "start">>
    [] goal = "rebuild" -> <<"stop", "drop", "start">>

At(n, step) == ongoing[n] # <<>> /\ Head(ongoing[n]) = step
Instead(n, step) == ongoing' = [ongoing EXCEPT ![n][1] = step]
Goes(n) == ongoing' = [ongoing EXCEPT ![n] = Tail(@)]

Registered(n) == children[n][processes[n]]
\* stopChild: SIGTERM, once; whoever asks again shares the first answer.
Asked(n) == [children[n] EXCEPT ![processes[n]].stop = IF @ = "none" THEN "asked" ELSE @]
StopFailed(n) == processes[n] # 0 /\ Registered(n).stop = "failed"

\* The operation rejects: to the set-up, to the callback, or to the wait for pending.
Rejects(n) ==
  /\ ongoing' = [ongoing EXCEPT ![n] = <<>>]
  /\ failures' = IF scope = "running" THEN failures ELSE failures \cup {"run"}
  /\ scope' = IF scope = "starting" THEN "closing" ELSE scope
  /\ UNCHANGED <<container, containerId, cancelled>>

--------------------------------------------------------------------------------
(* Processes.                                                               *)

\* The exit is seen; stop and a failed start forget the child they had registered.
ChildStops(n, c) ==
  /\ children[n][c].stop = "asked"
  /\ children' = [children EXCEPT ![n][c] = [alive |-> FALSE, stop |-> "closed"]]
  /\ processes' = [processes EXCEPT ![n] = IF @ = c THEN 0 ELSE @]
  /\ UNCHANGED <<handle, ongoing, scopeVars>>

\* Three seconds after SIGKILL it has not closed.
ChildSurvives(n, c) ==
  /\ children[n][c].stop = "asked" /\ children[n][c].alive
  /\ children' = [children EXCEPT ![n][c].stop = "failed"]
  /\ UNCHANGED <<processes, handle, ongoing, scopeVars>>

\* A process ends by itself; it stays registered.
ChildExits(n, c) ==
  /\ children[n][c].alive
  /\ children' = [children EXCEPT ![n][c].alive = FALSE]
  /\ UNCHANGED <<processes, handle, ongoing, scopeVars>>

--------------------------------------------------------------------------------
(* Operations on one Index.                                                 *)

\* named(name, action): refused while one of that name is at work.
Issue(n, goal) ==
  /\ scope = "running" /\ ~cancelled /\ ongoing[n] = <<>>
  /\ goal = "stop" \/ Len(children[n]) < MaxChildren
  /\ ongoing' = [ongoing EXCEPT ![n] = Awaits(goal)]
  /\ children' = IF goal # "start" /\ processes[n] # 0 /\ processes[n] = handle[n]
                 THEN [children EXCEPT ![n] = Asked(n)] ELSE children
  /\ UNCHANGED <<processes, handle, scopeVars>>

\* The callback calls stop of the OwnedIndex itself and need not await it.
HandleStop(n) ==
  /\ scope \in {"running", "closing"}
  /\ processes[n] # 0 /\ processes[n] = handle[n] /\ Registered(n).stop = "none"
  /\ children' = [children EXCEPT ![n] = Asked(n)]
  /\ UNCHANGED <<processes, handle, ongoing, scopeVars>>

\* stop returns at once when its child is not the registered one any more.
StopReturns(n) ==
  /\ At(n, "stop") /\ processes[n] # handle[n]
  /\ Goes(n)
  /\ UNCHANGED <<childVars, scopeVars>>

\* sql twice: DROP DATABASE, CREATE DATABASE.
Recreated(n) ==
  /\ At(n, "drop") /\ Undisturbed
  /\ Goes(n)
  /\ UNCHANGED <<childVars, scopeVars>>

\* The container is checked, a port found, the database migrated; then the child is
\* spawned and registered without an await in between.  A spawn may fail.
Spawn(n) ==
  /\ At(n, "start") /\ Undisturbed /\ processes[n] = 0
  /\ \E alive \in BOOLEAN :
       children' = [children EXCEPT ![n] = Append(@, [alive |-> alive, stop |-> "none"])]
  /\ processes' = [processes EXCEPT ![n] = Len(children[n]) + 1]
  /\ Instead(n, "ready")
  /\ UNCHANGED <<handle, scopeVars>>

\* waitReady, and active() once more; the set-up starts A, then B, then the callback.
IsReady(n) ==
  /\ At(n, "ready") /\ Undisturbed /\ Registered(n).alive
  /\ handle' = [handle EXCEPT ![n] = processes[n]]
  /\ ongoing' = [ongoing EXCEPT ![n] = <<>>,
                                !["B"] = IF scope = "starting" /\ n = "A" THEN Awaits("start")
                                         ELSE IF n = "B" THEN <<>> ELSE @]
  /\ scope' = IF scope = "starting" /\ n = "B" THEN "running" ELSE scope
  /\ UNCHANGED <<children, processes, container, containerId, cancelled, failures>>

\* The child exited, answers as another Index, or is late; or the scope is cancelled.
NotReady(n) ==
  /\ At(n, "ready")
  /\ children' = [children EXCEPT ![n] = Asked(n)]
  /\ Instead(n, "abort")
  /\ UNCHANGED <<processes, handle, scopeVars>>

\* A stop that failed, a start that was stopped again, or any await before the spawn.
OperationFails(n) ==
  /\ \/ At(n, "stop") /\ processes[n] = handle[n] /\ StopFailed(n)
     \/ At(n, "abort") /\ (processes[n] = 0 \/ StopFailed(n))
     \/ At(n, "drop") \/ At(n, "start")
  /\ Rejects(n)
  /\ UNCHANGED childVars

--------------------------------------------------------------------------------
(* The scope.                                                               *)

Throws == scope' = "closing" /\ failures' = failures \cup {"run"}

\* docker run: its id is recorded before cancellation is looked at; it may have
\* created the container and fail.
Acquires ==
  /\ scope = "acquiring"
  /\ \/ /\ container' = TRUE /\ containerId' = TRUE
        /\ \/ ~cancelled /\ scope' = "preparing" /\ UNCHANGED failures
           \/ cancelled /\ Throws
     \/ container' \in BOOLEAN /\ Throws /\ UNCHANGED containerId
  /\ UNCHANGED <<cancelled, childVars, ongoing>>

\* The mounts, the port, the logs of PostgreSQL and the two databases.
Prepares ==
  /\ scope = "preparing"
  /\ \/ /\ Undisturbed /\ scope' = "starting"
        /\ ongoing' = [ongoing EXCEPT !["A"] = Awaits("start")]
        /\ UNCHANGED failures
     \/ Throws /\ UNCHANGED ongoing
  /\ UNCHANGED <<container, containerId, cancelled, childVars>>

\* run(...) returns or throws, operations it did not await still at work.
CallbackEnds ==
  /\ scope = "running"
  /\ scope' = "closing" /\ failures' \in {failures, failures \cup {"run"}}
  /\ UNCHANGED <<container, containerId, cancelled, childVars, ongoing>>

\* Every operation has settled; every registered child is asked to stop.
PendingSettled ==
  /\ scope = "closing" /\ \A n \in Names : ongoing[n] = <<>>
  /\ scope' = "stopping"
  /\ children' = [n \in Names |-> IF processes[n] = 0 THEN children[n] ELSE Asked(n)]
  /\ UNCHANGED <<container, containerId, cancelled, failures, processes, handle, ongoing>>

ChildrenSettled ==
  /\ scope = "stopping" /\ \A n \in Names : processes[n] = 0 \/ StopFailed(n)
  /\ scope' = "removing"
  /\ failures' = IF \E n \in Names : StopFailed(n) THEN failures \cup {"stop"} ELSE failures
  /\ UNCHANGED <<container, containerId, cancelled, childVars, ongoing>>

\* Mutant of RemovesContainer: a container without a receipt is not looked up.
RemovesKnown ==
  /\ scope = "removing" /\ scope' = "ended"
  /\ \/ container' = (container /\ ~containerId) /\ UNCHANGED failures
     \/ containerId /\ failures' = failures \cup {"container"} /\ UNCHANGED container
  /\ UNCHANGED <<containerId, cancelled, childVars, ongoing>>

\* By its id or else by its name; the lookup, the label or docker rm may fail.
RemovesContainer ==
  /\ scope = "removing" /\ scope' = "ended"
  /\ \/ container' = FALSE /\ UNCHANGED failures
     \/ failures' = failures \cup {"container"} /\ UNCHANGED container
  /\ UNCHANGED <<containerId, cancelled, childVars, ongoing>>

Cancel ==
  /\ ~cancelled /\ scope # "ended"
  /\ cancelled' = TRUE
  /\ UNCHANGED <<scope, container, containerId, failures, childVars, ongoing>>

\* 180 seconds after the signal the process kills itself, whatever is left.
Watchdog ==
  /\ cancelled /\ scope \notin {"ended", "killed"}
  /\ scope' = "killed"
  /\ UNCHANGED <<container, containerId, cancelled, failures, childVars, ongoing>>

IndexInit ==
  /\ scope = "acquiring" /\ container = FALSE /\ containerId = FALSE
  /\ children = [n \in Names |-> <<>>]
  /\ processes = [n \in Names |-> 0] /\ handle = [n \in Names |-> 0]
  /\ ongoing = [n \in Names |-> <<>>]
  /\ cancelled = FALSE /\ failures = {}

IndexNext ==
  /\ scope # "killed"
  /\ \/ Acquires \/ Prepares \/ CallbackEnds \/ PendingSettled \/ ChildrenSettled
     \/ RemovesContainer \/ Cancel \/ Watchdog
     \/ \E n \in Names :
          \/ \E goal \in Goals : Issue(n, goal)
          \/ HandleStop(n) \/ StopReturns(n) \/ Recreated(n) \/ Spawn(n) \/ IsReady(n)
          \/ NotReady(n) \/ OperationFails(n)
          \/ \E c \in DOMAIN children[n] :
               ChildStops(n, c) \/ ChildSurvives(n, c) \/ ChildExits(n, c)

IndexSpec == IndexInit /\ [][IndexNext]_indexVars

--------------------------------------------------------------------------------
(* Property.                                                                *)

\* When the scope ends by itself no operation is at work any more, and a process or
\* container it leaves behind is one that it reported, whatever the callback forgot to
\* await and wherever a start, a stop or docker failed (137-146, 405-420).  At no
\* time do two servers run over the database of one name.
NothingOutlives ==
  /\ scope = "ended" =>
       /\ \A n \in Names : ongoing[n] = <<>>
       /\ container => "container" \in failures
       /\ (\E n \in Names : \E c \in DOMAIN children[n] : children[n][c].alive) =>
            "stop" \in failures
  /\ \A n \in Names : Cardinality({c \in DOMAIN children[n] : children[n][c].alive}) <= 1
================================================================================
