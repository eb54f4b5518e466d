------------------------------ MODULE LiveBudget ------------------------------
(***************************************************************************)
(* The spending ledger of live answers: LiveBudget and BudgetRun of        *)
(* live/budget.ts, driven by LiveAnswerBackend (live/answer.ts) through    *)
(* the source adapters and the transport.                                  *)
(*                                                                         *)
(* A writer (one LiveBudget object) owns the ledger directory through      *)
(* writer.lock.  A task is admitted once with a hold of its worst-case     *)
(* cost, every physical call to a provider is reserved on disk before it   *)
(* is made, two calls may be in flight, and a call that ignores its abort  *)
(* keeps its slot.  Writers come, close, crash and are replaced.           *)
(*                                                                         *)
(* The serial queue runs one ledger operation at a time; an operation      *)
(* changes memory and then saves, so it is two steps here: the change, and *)
(* the end of its save.  Which provider a call goes to, what it returns    *)
(* and the byte accounting are abstracted to success or failure.           *)
(***************************************************************************)
EXTENDS Integers, Sequences, FiniteSetsExt

CONSTANTS
  Tasks,         \* task ids
  Earlier,       \* tasks that earlier sessions over the directory have finished
  Writers,       \* LiveBudget objects over one directory
  NoWriter,      \* the lock file does not exist
  NoRun,         \* the ledger has no entry for the task
  WorkLimit,     \* work attempts per run: 8, plus one cancel and one delete
  Concurrency,   \* LIVE_LIMITS.concurrency: 2
  Price,         \* options.prices, by purpose
  RunCap,        \* options.runCapMicros
  SessionCap,    \* options.sessionCapMicros
  MaxFaults      \* bound on failed file operations

Cleanups == {"cancel", "delete"}
Purposes == {"work"} \cup Cleanups
Attempts == WorkLimit + 2

ASSUME BudgetAssumption ==
  /\ IsFiniteSet(Tasks) /\ IsFiniteSet(Earlier)
  /\ WorkLimit \in Nat \ {0}
  /\ Concurrency \in Nat \ {0}
  /\ Price \in [Purposes -> Nat]
  /\ RunCap \in Nat /\ SessionCap \in Nat
  /\ MaxFaults \in Nat
  /\ NoWriter \notin Writers

\* The worst case of a run: every attempt at the highest price.
Hold == Attempts * Max({Price[p] : p \in Purposes})

Entries == [closed : BOOLEAN,
            attempts : Seq([purpose : Purposes, outcome : {"reserved", "settled"}])]

ASSUME NoRunAssumption == NoRun \notin Entries

\* One execution of a task and the dispatch it has in progress.  In "begin",
\* "reserve", "settle" and "finish" an operation is queued; in a "...Save" it is
\* the one being served.
Saving == {"beginSave", "reserveSave", "settleSave", "finishSave"}
Dispatching == {"acquire", "reserve", "reserveSave", "invoke", "working"}
Executions ==
  [pc : {"idle", "begin", "settle", "finish"} \cup Saving \cup Dispatching,
   owner : Writers \cup {NoWriter},
   next : Purposes,                      \* the purpose of the dispatch
   works : 0..WorkLimit,                 \* work dispatches started
   session : BOOLEAN,                    \* the source opened a remote session
   limit : {"open", "cancelled", "late"}, \* #controller, and remaining() <= 0
   stopped : BOOLEAN,                    \* the dispatch's own controller
   outcome : {"ok", "failed"}]           \* of the provider call
IdleExecution == [pc |-> "idle", owner |-> NoWriter, next |-> "work", works |-> 0,
                  session |-> FALSE, limit |-> "open", stopped |-> FALSE,
                  outcome |-> "ok"]

WriterStates ==
  [pc : {"absent", "opening", "open", "closed"},
   closed : BOOLEAN,                     \* #closed: no new admission
   closing : {"no", "queued", "releasing"},
   released : BOOLEAN,                   \* #writerReleased: no more ledger changes
   active : Nat]                         \* #active
AbsentWriter == [pc |-> "absent", closed |-> FALSE, closing |-> "no",
                 released |-> FALSE, active |-> 0]

VARIABLES
  disk,        \* budget.json
  lock,        \* writer.lock and who created it
  mem,         \* #state of each writer
  writer,      \* the rest of each writer
  run,         \* the execution of each task
  priced,      \* now() < pricingExpiresAt
  physical,    \* provider calls in flight, per writer
  dispatched,  \* history: provider calls ever made for a task
  faults

vars == <<disk, lock, mem, writer, run, priced, physical, dispatched, faults>>

Known == Tasks \cup Earlier
EmptyLedger == [t \in Known |-> NoRun]

\* The ledgers earlier sessions can leave: finished runs of some first attempts.
Spending == Append([i \in 1..WorkLimit |-> "work"], "cancel") \o <<"delete">>
Finished(n) ==
  [closed |-> TRUE,
   attempts |-> [i \in 1..n |-> [purpose |-> Spending[i], outcome |-> "settled"]]]
InheritedLedgers ==
  {[t \in Known |-> IF t \in Earlier THEN Finished(spent[t]) ELSE NoRun] :
     spent \in [Earlier -> 0..Attempts]}

--------------------------------------------------------------------------------
(* Ledgers.                                                                *)

Entered(ledger) == {t \in Known : ledger[t] # NoRun}
Cost(attempts) == SumFunction([i \in DOMAIN attempts |-> Price[attempts[i].purpose]])
Of(attempts, purposes) == {i \in DOMAIN attempts : attempts[i].purpose \in purposes}

\* reservedCostMicros of snapshot
Reserved(ledger) == SumFunction([t \in Entered(ledger) |-> Cost(ledger[t].attempts)])

\* What a run may still cost: a closed one what it used, an open one its hold.
Risk(e) == IF e.closed THEN Cost(e.attempts) ELSE Hold

\* And the session with all its runs.
Exposure(ledger) == SumFunction([t \in Entered(ledger) |-> Risk(ledger[t])])

\* The consistency conditions on a ledger that is read back (78-81).
Acceptable(ledger) ==
  \A t \in Entered(ledger) :
    /\ Cost(ledger[t].attempts) <= Hold
    /\ Hold <= RunCap
    /\ \A p \in Cleanups : Cardinality(Of(ledger[t].attempts, {p})) <= 1
    /\ Cardinality(Of(ledger[t].attempts, {"work"})) <= WorkLimit

--------------------------------------------------------------------------------
(* The executions.                                                         *)

\* serial: an operation or a lock release is being served.
Busy(w) == \/ writer[w].closing = "releasing"
           \/ \E t \in Tasks : run[t].owner = w /\ run[t].pc \in Saving

\* What a dispatch leaves known of the remote session.
Sessions(r, ok) == IF r.next = "work" /\ ok THEN {r.session, TRUE} ELSE {r.session}

\* What may follow a dispatch (answer.ts, adapters.close): a work call is followed
\* by another, or by the cleanup of a session that was opened; a failed cancel
\* forgoes the delete; then the run is finished.
Following(r, ok, session) ==
  CASE r.next = "work" ->
         (IF r.works < WorkLimit THEN {"work"} ELSE {}) \cup
         (IF ~session THEN {"finish"} ELSE IF ok THEN {"delete"} ELSE Cleanups)
    [] r.next = "cancel" -> IF ok THEN {"delete"} ELSE {"finish"}
    [] OTHER -> {"finish"}

\* An execution goes on to n.  dispatch, up to its first await, refuses a late run and
\* the work of a cancelled one: its controller is aborted from the start.  The end of
\* the run clears its timer and its abort listener.
Proceeding(r, n, session) ==
  IF n = "finish"
  THEN [IdleExecution EXCEPT !.pc = "finish", !.owner = r.owner]
  ELSE [r EXCEPT !.pc = "acquire", !.next = n, !.outcome = "ok",
                 !.works = IF n = "work" THEN @ + 1 ELSE @,
                 !.session = session /\ n = "work",
                 !.stopped = \/ r.limit = "late"
                             \/ r.limit = "cancelled" /\ n = "work"]

\* The executions that a dispatch which returns (ok) or throws can leave behind.
Returned(r, ok) ==
  UNION {{Proceeding(r, n, b) : n \in Following(r, ok, b)} : b \in Sessions(r, ok)}

Freed(w) == [writer EXCEPT ![w].active = @ - 1]

\* Execute: the runtime hands an accepted task to a backend over writer w.
Execute(t, w) ==
  /\ run[t].pc = "idle"
  /\ writer[w].pc \in {"open", "closed"}
  /\ run' = [run EXCEPT ![t] = [IdleExecution EXCEPT !.pc = "begin", !.owner = w]]
  /\ UNCHANGED <<disk, lock, mem, writer, priced, physical, dispatched, faults>>

\* Mutant of MayBegin: an open run counts for what it has spent so far.
MayBeginOnSpent(t, w) ==
  /\ ~writer[w].closed /\ priced /\ run[t].limit = "open"
  /\ mem[w][t] = NoRun
  /\ Hold <= RunCap
  /\ Reserved(mem[w]) + Hold <= SessionCap

\* begin: the admission conditions.
MayBegin(t, w) ==
  /\ ~writer[w].closed /\ priced /\ run[t].limit = "open"
  /\ mem[w][t] = NoRun
  /\ Hold <= RunCap
  /\ Exposure(mem[w]) + Hold <= SessionCap

Begin(t) ==
  LET w == run[t].owner
  IN /\ run[t].pc = "begin"
     /\ ~Busy(w)
     /\ IF MayBegin(t, w)
        THEN /\ mem' = [mem EXCEPT ![w][t] = [closed |-> FALSE, attempts |-> <<>>]]
             /\ run' = [run EXCEPT ![t].pc = "beginSave"]
        ELSE /\ run' = [run EXCEPT ![t] = IdleExecution]
             /\ UNCHANGED mem
     /\ UNCHANGED <<disk, lock, writer, priced, physical, dispatched, faults>>

\* acquire: every release wakes every waiter and a waiter checks again, so whoever
\* waits may take a slot that is free.
Acquire(t) ==
  LET w == run[t].owner
  IN /\ run[t].pc = "acquire"
     /\ writer[w].active < Concurrency
     /\ ~run[t].stopped
     /\ ~writer[w].closed
     /\ writer' = [writer EXCEPT ![w].active = @ + 1]
     /\ run' = [run EXCEPT ![t].pc = "reserve"]
     /\ UNCHANGED <<disk, lock, mem, priced, physical, dispatched, faults>>

AcquireRefused(t) ==
  LET w == run[t].owner
  IN /\ run[t].pc = "acquire"
     /\ run[t].stopped \/ (writer[w].closed /\ writer[w].active < Concurrency)
     /\ run' \in {[run EXCEPT ![t] = s] : s \in Returned(run[t], FALSE)}
     /\ UNCHANGED <<disk, lock, mem, writer, priced, physical, dispatched, faults>>

\* reserve: the conditions under which a purpose may be charged.
WithinRun(e, p) ==
  /\ Len(e.attempts) < Attempts
  /\ p = "work" => Cardinality(Of(e.attempts, {"work"})) < WorkLimit
  /\ p \in Cleanups => Of(e.attempts, {p}) = {}
  /\ Cost(e.attempts) + Price[p] <= RunCap
WithinSession(w, p) == Reserved(mem[w]) + Price[p] <= SessionCap
MayReserve(t, w) ==
  /\ ~writer[w].closed /\ priced
  /\ WithinRun(mem[w][t], run[t].next)
  /\ WithinSession(w, run[t].next)

\* The attempt enters the ledger; a refusal frees the slot.
Charge(t, next) ==
  LET w == run[t].owner
  IN /\ run[t].pc = "reserve"
     /\ ~Busy(w)
     /\ IF MayReserve(t, w)
        THEN /\ mem' = [mem EXCEPT ![w][t].attempts =
                          Append(@, [purpose |-> run[t].next, outcome |-> "reserved"])]
             /\ run' = [run EXCEPT ![t].pc = next]
             /\ UNCHANGED writer
        ELSE /\ run' \in {[run EXCEPT ![t] = s] : s \in Returned(run[t], FALSE)}
             /\ writer' = Freed(w)
             /\ UNCHANGED mem
     /\ UNCHANGED <<disk, lock, priced, physical, dispatched, faults>>

\* Mutant of Reserve: the call is made while its reservation is being saved.
ReserveUnsaved(t) == Charge(t, "invoke")

Reserve(t) == Charge(t, "reserveSave")

\* The slot is handed to the provider call, unless the dispatch was aborted while
\* its reservation was saved (or waited for the event rate).
Invoke(t) ==
  LET w == run[t].owner
  IN /\ run[t].pc = "invoke"
     /\ IF run[t].stopped
        THEN /\ run' = [run EXCEPT ![t].pc = "settle", ![t].outcome = "failed"]
             /\ writer' = Freed(w)
             /\ UNCHANGED <<physical, dispatched>>
        ELSE /\ run' = [run EXCEPT ![t].pc = "working"]
             /\ physical' = [physical EXCEPT ![w] = @ + 1]
             /\ dispatched' = [dispatched EXCEPT ![t] = @ + 1]
             /\ UNCHANGED writer
     /\ UNCHANGED <<disk, lock, mem, priced, faults>>

\* The awaited call ends: its slot is freed before its result is looked at.
PhysicalReturns(t) ==
  LET w == run[t].owner
  IN /\ run[t].pc = "working"
     /\ \E ok \in {"ok", "failed"} :
          /\ run[t].stopped => ok = "failed"
          /\ run' = [run EXCEPT ![t].pc = "settle", ![t].outcome = ok]
     /\ physical' = [physical EXCEPT ![w] = @ - 1]
     /\ writer' = Freed(w)
     /\ UNCHANGED <<disk, lock, mem, priced, dispatched, faults>>

\* The dispatch is aborted while its call is in flight: the run goes on, and the
\* call keeps its slot until it really ends.
Abandon(t) ==
  /\ run[t].pc = "working"
  /\ run[t].stopped
  /\ run' = [run EXCEPT ![t].pc = "settle", ![t].outcome = "failed"]
  /\ UNCHANGED <<disk, lock, mem, writer, priced, physical, dispatched, faults>>

\* An abandoned call of writer w ends.
Abandoned(w) ==
  physical[w] - Cardinality({t \in Tasks : run[t].owner = w /\ run[t].pc = "working"})
AbandonedReturns(w) ==
  /\ Abandoned(w) > 0
  /\ physical' = [physical EXCEPT ![w] = @ - 1]
  /\ writer' = Freed(w)
  /\ UNCHANGED <<disk, lock, mem, run, priced, dispatched, faults>>

\* What follows a settle: the dispatch returns, or throws for good.  A settle("ok")
\* that throws is repeated once with a failure.
SettleThrows(r) == IF r.outcome = "ok" THEN {[r EXCEPT !.pc = "settle", !.outcome = "failed"]}
                                       ELSE Returned(r, FALSE)

\* Mutant of Fenced: a writer that released its lock goes on changing its ledger.
FencedNever(w) == FALSE

\* settle and finish are refused once the lock release has begun.
Fenced(w) == writer[w].released

Settle(t) ==
  LET w == run[t].owner
      last == Len(mem[w][t].attempts)
  IN /\ run[t].pc = "settle"
     /\ ~Busy(w)
     /\ IF Fenced(w)
        THEN /\ run' \in {[run EXCEPT ![t] = s] : s \in SettleThrows(run[t])}
             /\ UNCHANGED mem
        ELSE /\ mem' = [mem EXCEPT ![w][t].attempts[last].outcome = "settled"]
             /\ run' = [run EXCEPT ![t].pc = "settleSave"]
     /\ UNCHANGED <<disk, lock, writer, priced, physical, dispatched, faults>>

\* BudgetRun.finish, once per run: the hold shrinks to what was used.
Finish(t) ==
  LET w == run[t].owner
  IN /\ run[t].pc = "finish"
     /\ ~Busy(w)
     /\ IF Fenced(w)
        THEN /\ run' = [run EXCEPT ![t] = IdleExecution]
             /\ UNCHANGED mem
        ELSE /\ mem' = [mem EXCEPT ![w][t].closed = TRUE]
             /\ run' = [run EXCEPT ![t].pc = "finishSave"]
     /\ UNCHANGED <<disk, lock, writer, priced, physical, dispatched, faults>>

\* save ends well: the file holds the memory of the writer, and the operation goes on.
Saved(t) ==
  LET w == run[t].owner
      r == run[t]
  IN /\ r.pc \in Saving
     /\ disk' = mem[w]
     /\ \/ /\ r.pc = "beginSave"
           /\ \E n \in {"work", "finish"} :
                run' = [run EXCEPT ![t] = Proceeding(r, n, FALSE)]
        \/ /\ r.pc = "reserveSave"
           /\ run' = [run EXCEPT ![t].pc = "invoke"]
        \/ /\ r.pc = "settleSave"
           /\ run' \in {[run EXCEPT ![t] = s] : s \in Returned(r, r.outcome = "ok")}
        \/ /\ r.pc = "finishSave"
           /\ run' = [run EXCEPT ![t] = IdleExecution]
     /\ UNCHANGED <<lock, mem, writer, priced, physical, dispatched, faults>>

\* save fails, before the rename or after it (the directory fsync): memory keeps the
\* change and the operation throws.
SaveFails(t) ==
  LET w == run[t].owner
      r == run[t]
  IN /\ r.pc \in Saving
     /\ faults < MaxFaults
     /\ faults' = faults + 1
     /\ disk' \in {disk, mem[w]}
     /\ run' \in {[run EXCEPT ![t] = s] :
                    s \in CASE r.pc \in {"beginSave", "finishSave"} -> {IdleExecution}
                            [] r.pc = "reserveSave" -> Returned(r, FALSE)
                            [] r.pc = "settleSave" -> SettleThrows(r)}
     /\ writer' = IF r.pc = "reserveSave" THEN Freed(w) ELSE writer
     /\ UNCHANGED <<lock, mem, priced, physical, dispatched>>

--------------------------------------------------------------------------------
(* Aborts and clocks.                                                      *)

\* The dispatch's own timer.
DispatchTimesOut(t) ==
  /\ run[t].pc \in Dispatching
  /\ ~run[t].stopped
  /\ run' = [run EXCEPT ![t].stopped = TRUE]
  /\ UNCHANGED <<disk, lock, mem, writer, priced, physical, dispatched, faults>>

\* The caller's signal aborts the run: work is aborted, cleanup is not.
RunCancelled(t) ==
  /\ run[t].pc \notin {"idle", "finish", "finishSave"}
  /\ run[t].limit = "open"
  /\ run' = [run EXCEPT ![t].limit = "cancelled",
                        ![t].stopped = @ \/ (run[t].pc \in Dispatching
                                             /\ run[t].next = "work")]
  /\ UNCHANGED <<disk, lock, mem, writer, priced, physical, dispatched, faults>>

\* Mutant of RunLate: cleanup, which ignores the run's abort, has no timer of its own.
RunLateForWork(t) ==
  /\ run[t].pc \notin {"idle", "finish", "finishSave"}
  /\ run[t].limit # "late"
  /\ run' = [run EXCEPT ![t].limit = "late",
                        ![t].stopped = @ \/ (run[t].pc \in Dispatching
                                             /\ run[t].next = "work")]
  /\ UNCHANGED <<disk, lock, mem, writer, priced, physical, dispatched, faults>>

\* The run's deadline passes: every dispatch is aborted.
RunLate(t) ==
  /\ run[t].pc \notin {"idle", "finish", "finishSave"}
  /\ run[t].limit # "late"
  /\ run' = [run EXCEPT ![t].limit = "late", ![t].stopped = @ \/ run[t].pc \in Dispatching]
  /\ UNCHANGED <<disk, lock, mem, writer, priced, physical, dispatched, faults>>

PricingExpires ==
  /\ priced
  /\ priced' = FALSE
  /\ UNCHANGED <<disk, lock, mem, writer, run, physical, dispatched, faults>>

--------------------------------------------------------------------------------
(* The life of a writer.                                                   *)

\* open, first half: writer.lock is created exclusively.
OpenLock(w) ==
  /\ writer[w].pc \in {"absent", "closed"}
  /\ \A t \in Tasks : run[t].owner # w
  /\ lock = NoWriter
  /\ lock' = w
  /\ writer' = [writer EXCEPT ![w] = [AbsentWriter EXCEPT !.pc = "opening"]]
  /\ UNCHANGED <<disk, mem, run, priced, physical, dispatched, faults>>

\* Second half: the ledger is read and checked.
OpenRead(w) ==
  /\ writer[w].pc = "opening"
  /\ Acceptable(disk)
  /\ mem' = [mem EXCEPT ![w] = disk]
  /\ writer' = [writer EXCEPT ![w].pc = "open"]
  /\ UNCHANGED <<disk, lock, run, priced, physical, dispatched, faults>>

\* An unreadable or unacceptable ledger: the lock is given back.
OpenFails(w) ==
  /\ writer[w].pc = "opening"
  /\ Acceptable(disk) => faults < MaxFaults
  /\ faults' = IF Acceptable(disk) THEN faults + 1 ELSE faults
  /\ lock' = NoWriter
  /\ writer' = [writer EXCEPT ![w] = AbsentWriter]
  /\ UNCHANGED <<disk, mem, run, priced, physical, dispatched>>

\* close: admission ends at once, the release is queued.  A call that joins one in
\* progress, or follows a completed one, changes nothing.
Close(w) ==
  /\ writer[w].pc = "open"
  /\ writer[w].closing = "no"
  /\ writer' = [writer EXCEPT ![w].closed = TRUE, ![w].closing = "queued"]
  /\ UNCHANGED <<disk, lock, mem, run, priced, physical, dispatched, faults>>

\* Its turn in the queue, when calls in flight make it end as given.
ServeClose(w, refusal) ==
  /\ writer[w].closing = "queued"
  /\ ~Busy(w)
  /\ writer' = [writer EXCEPT ![w] =
                 IF @.active > 0 THEN refusal
                                 ELSE [@ EXCEPT !.released = TRUE, !.closing = "releasing"]]
  /\ UNCHANGED <<disk, lock, mem, run, priced, physical, dispatched, faults>>

\* Mutants of CloseServed: calls in flight are not looked at; the refused promise is
\* never cleared.
CloseServedAnyway(w) ==
  ServeClose(w, [writer[w] EXCEPT !.released = TRUE, !.closing = "releasing"])
CloseServedForGood(w) == ServeClose(w, [writer[w] EXCEPT !.closing = "refused"])

\* With calls in flight it throws, and may be tried again.
CloseServed(w) == ServeClose(w, [writer[w] EXCEPT !.closing = "no"])

\* The lock file is closed and removed ...
Unlocked(w) ==
  /\ writer[w].closing = "releasing"
  /\ lock' = NoWriter
  /\ writer' = [writer EXCEPT ![w].pc = "closed", ![w].closing = "no"]
  /\ UNCHANGED <<disk, mem, run, priced, physical, dispatched, faults>>

\* ... or that fails: the writer stays fenced and close may be tried again.
UnlockFails(w) ==
  /\ writer[w].closing = "releasing"
  /\ faults < MaxFaults
  /\ faults' = faults + 1
  /\ writer' = [writer EXCEPT ![w].closing = "no"]
  /\ UNCHANGED <<disk, lock, mem, run, priced, physical, dispatched>>

\* The process of a writer dies: its executions and calls end, its lock stays, and a
\* save in progress may have reached the file.
Crash(w) ==
  /\ writer[w].pc # "absent"
  /\ disk' \in {disk} \cup {mem[w] : t \in {u \in Tasks : run[u].owner = w /\ run[u].pc \in Saving}}
  /\ writer' = [writer EXCEPT ![w] = AbsentWriter]
  /\ mem' = [mem EXCEPT ![w] = EmptyLedger]
  /\ run' = [t \in Tasks |-> IF run[t].owner = w THEN IdleExecution ELSE run[t]]
  /\ physical' = [physical EXCEPT ![w] = 0]
  /\ UNCHANGED <<lock, priced, dispatched, faults>>

\* An operator removes the lock of a dead writer.
Reconcile ==
  /\ lock # NoWriter
  /\ writer[lock].pc = "absent"
  /\ lock' = NoWriter
  /\ UNCHANGED <<disk, mem, writer, run, priced, physical, dispatched, faults>>

--------------------------------------------------------------------------------
Init ==
  /\ disk \in InheritedLedgers
  /\ lock = NoWriter
  /\ mem = [w \in Writers |-> EmptyLedger]
  /\ writer = [w \in Writers |-> AbsentWriter]
  /\ run = [t \in Tasks |-> IdleExecution]
  /\ priced = TRUE
  /\ physical = [w \in Writers |-> 0]
  /\ dispatched = [t \in Tasks |-> 0]
  /\ faults = 0

\* What an execution does by itself: it waits for no provider and no caller.
Progress(t) ==
  \/ Begin(t) \/ Acquire(t) \/ AcquireRefused(t) \/ Reserve(t) \/ Invoke(t)
  \/ Abandon(t) \/ Settle(t) \/ Finish(t) \/ Saved(t)

ReleaseProgress(w) == CloseServed(w) \/ Unlocked(w)

Next ==
  \/ \E t \in Tasks : \/ Progress(t) \/ PhysicalReturns(t) \/ SaveFails(t)
                      \/ DispatchTimesOut(t) \/ RunCancelled(t) \/ RunLate(t)
                      \/ \E w \in Writers : Execute(t, w)
  \/ \E w \in Writers : \/ OpenLock(w) \/ OpenRead(w) \/ OpenFails(w) \/ AbandonedReturns(w)
                        \/ Close(w) \/ ReleaseProgress(w) \/ UnlockFails(w) \/ Crash(w)
  \/ PricingExpires \/ Reconcile

Spec == Init /\ [][Next]_vars

\* Saves and timers end, and an owner whose close was refused tries again.  No
\* provider call is assumed to end.
Retry(w) == writer[w].closed /\ Close(w)

Fairness ==
  /\ \A t \in Tasks : WF_vars(Progress(t)) /\ WF_vars(RunLate(t))
  /\ \A w \in Writers : WF_vars(ReleaseProgress(w)) /\ WF_vars(Retry(w))

FairSpec == Spec /\ Fairness

--------------------------------------------------------------------------------
Ledgers == [Known -> Entries \cup {NoRun}]

TypeOK ==
  /\ disk \in Ledgers
  /\ lock \in Writers \cup {NoWriter}
  /\ mem \in [Writers -> Ledgers]
  /\ writer \in [Writers -> WriterStates]
  /\ run \in [Tasks -> Executions]
  /\ \A t \in Tasks : run[t].pc # "idle" => run[t].owner \in Writers
  /\ priced \in BOOLEAN
  /\ physical \in [Writers -> Nat]
  /\ dispatched \in [Tasks -> Nat]
  /\ faults \in Nat

(* Properties.                                                             *)

\* A physical call is paid for before it is made (live-answers: "unknown prices are
\* not assumed free"; budget.test "durable reservation precedes dispatch"): the file
\* holds at least one attempt per call ever made for a task, whatever failed or
\* crashed since, and the call in progress is the reservation it ends with.
ReservedBeforeDispatch ==
  \A t \in Tasks :
    /\ dispatched[t] > 0 => disk[t] # NoRun /\ dispatched[t] <= Len(disk[t].attempts)
    /\ run[t].pc = "working" =>
         disk[t].attempts[Len(disk[t].attempts)] =
           [purpose |-> run[t].next, outcome |-> "reserved"]

\* The spending cap of the session covers everything on file, open holds included,
\* over failed saves, crashes and changes of writer.
SessionWithinCap == Exposure(disk) <= SessionCap

\* An admitted run can afford its remaining attempts: no other run's admission takes
\* the headroom its retry and its two cleanup calls were admitted with (100-112).
CleanupHeadroom ==
  \A t \in Tasks, p \in Purposes :
    LET w == run[t].owner
    IN run[t].pc \in {"acquire", "reserve"} /\ WithinRun(mem[w][t], p) =>
         WithinSession(w, p)

\* Admission of one run by the others' exposure is enough for both.
CapsHold == SessionWithinCap /\ CleanupHeadroom

\* Calls in flight are those of the holder of the lock, and never more than the
\* account's slots: a lock is not released over a call that its dispatch has abandoned,
\* and such a call keeps its slot.
SharedSlots == \A w \in Writers : physical[w] > 0 => lock = w /\ physical[w] <= Concurrency

\* The file is changed by the holder of the lock only, and never forgets: entries stay,
\* so that an interrupted run is never begun again, a closed run stays closed, and
\* attempts are only added.
Extends(new, old) ==
  \A t \in Entered(old) :
    /\ t \in Entered(new)
    /\ old[t].closed => new[t].closed
    /\ Len(old[t].attempts) <= Len(new[t].attempts)
    /\ \A i \in DOMAIN old[t].attempts :
         new[t].attempts[i].purpose = old[t].attempts[i].purpose
LedgerNeverForgets ==
  [][disk' # disk => lock # NoWriter /\ disk' = mem[lock] /\ Extends(disk', disk)]_vars

\* Every execution ends, even if no provider call ever does: timers bound the wait for
\* a slot and for an answer, and an abandoned call does not hold up the cleanup.
ExecutionsEnd == \A t \in Tasks : run[t].pc # "idle" ~> run[t].pc = "idle"

\* A closed writer gives the lock up, whatever its owner's retries meet, unless a
\* provider call never returns.
ClosedWriterReleases ==
  \A w \in Writers :
    [](writer[w].pc = "open" /\ writer[w].closed =>
         <>(writer[w].pc # "open" \/ [](physical[w] > 0)))

\* Whatever was begun comes to its end: executions, and the writer that they hold open.
BudgetDrains == ExecutionsEnd /\ ClosedWriterReleases
================================================================================
