------------------------------ MODULE TaskRuntime ------------------------------
(***************************************************************************)
(* The A2A task runtime of one owned City service: CityA2ARuntime of       *)
(* a2a/service.ts over the file store of a2a/store.ts.                     *)
(*                                                                         *)
(* A client sends a signed request (message/send) and polls the task it    *)
(* gets back (tasks/get).  The runtime observes authority, signs and       *)
(* persists an acceptance, runs an executor in the background, observes    *)
(* authority again and signs and persists a terminal receipt.  Every await *)
(* of the code is a step boundary here, so handlers, executions, store     *)
(* failures, a moving clock, a loss of authority, an orderly close, a      *)
(* crash and a restart in another configuration interleave freely.         *)
(*                                                                         *)
(* Names, digests and signatures are abstract: an interaction is a model   *)
(* value, a request's bytes a member of Contents, an acceptance the number *)
(* of the signing that produced it.                                        *)
(***************************************************************************)
EXTENDS Integers

CONSTANTS
  Interactions,  \* interaction keys: qualified service + caller + interaction id
  Contents,      \* signed request bytes that may arrive under one key
  Slots,         \* concurrent HTTP requests per interaction; bounds the model
  NoRecord,      \* "no such record"
  NoContent,     \* content of a slot that serves no send
  CreatedAt,     \* request.createdAt, in clock ticks (UTC seconds)
  Deadline,      \* request.deadline
  LicenseEnd,    \* retention.expiresAt of a licensed runtime
  MaxTime,       \* bound on the clock
  MaxRestarts,   \* bound on closes and crashes
  MaxFaults,     \* bound on failed store writes
  MaxRewinds     \* bound on backward clock adjustments

ASSUME RuntimeAssumption ==
  /\ MaxTime \in Nat
  /\ CreatedAt \in 0..MaxTime
  /\ Deadline \in 0..MaxTime
  /\ LicenseEnd \in 0..MaxTime
  /\ MaxRestarts \in Nat
  /\ MaxFaults \in Nat
  /\ MaxRewinds \in Nat
  /\ NoContent \notin Contents

Time == 0..MaxTime
Versions == {"0.1", "0.2"}
\* "fixture": no retention.  "licensed": licensed retention only.
\* "live": live admission, which requires licensed retention (604-616).
Modes == {"fixture", "licensed", "live"}

\* A signed completion.  answer numbers the executor run it binds; intact is a
\* history field: authority really stood when recordedAt was read.
Receipts == [outcome : {"none", "completed", "failed", "expired"},
             recordedAt : Time, answer : Nat, intact : BOOLEAN]
Unsigned == [outcome |-> "none", recordedAt |-> 0, answer |-> 0, intact |-> TRUE]

Records == [version : Versions, content : Contents, acc : Nat,
            acceptedAt : Time, state : {"submitted", "completed", "failed"},
            receipt : Receipts]

ASSUME NoRecordAssumption == NoRecord \notin Records

\* What a reply tells the client about a task.
Tellings == [acc : Nat, state : {"submitted", "completed", "failed"},
             receipt : Receipts, bytes : BOOLEAN]

Calls == Interactions \X Slots
\* A handler before its save has a request, one in its save has a record.
CallStates ==
  {x \in [pc : {"idle", "waiting", "observing", "observed", "saving", "renamed"},
          kind : {"send", "get"}, content : Contents \cup {NoContent},
          at : Time, auth : BOOLEAN, rec : Records \cup {NoRecord}] :
     /\ x.pc \in {"waiting", "observing", "observed"} =>
          x.kind = "send" /\ x.content \in Contents
     /\ x.pc \in {"saving", "renamed"} => x.rec # NoRecord}
IdleCall == [pc |-> "idle", kind |-> "get", content |-> NoContent,
             at |-> 0, auth |-> FALSE, rec |-> NoRecord]

\* An execution works on a record.
Jobs ==
  {x \in [pc : {"idle", "scheduled", "observing", "observed", "executing", "saving",
                "renamed"},
          stage : {"prework", "answer", "error"}, rec : Records \cup {NoRecord},
          at : Time, intact : BOOLEAN, auth : BOOLEAN] :
     x.pc # "idle" => x.rec # NoRecord}
IdleJob == [pc |-> "idle", stage |-> "prework", rec |-> NoRecord,
            at |-> 0, intact |-> TRUE, auth |-> FALSE]

VARIABLES
  disk,      \* the record files: durable
  mem,       \* CityTaskStore.#byInteraction: lost with the process
  call,      \* HTTP handlers in progress
  job,       \* CityA2ARuntime.#running: one background execution per key
  held,      \* TransientByteHolder: keys whose licensed answer is in memory
  process,   \* "up", "closing" (runtime.close awaits the jobs), "draining"
             \* (server.close awaits the requests in progress) or "down"
  mode,      \* configuration of this process
  clock,     \* options.now()
  intact,    \* the request's profile basis, its continuity and the runtime key hold
  minted,    \* acceptances signed so far
  runs,      \* executor invocations per key, over all processes
  detached,  \* executors still working after their timeout
  told,      \* everything clients have been told, per key
  restarts, faults, rewinds

budget == <<restarts, faults, rewinds>>
vars == <<disk, mem, call, job, held, process, mode, clock, intact, minted,
          runs, detached, told, budget>>

Serving == process \in {"up", "closing"}

--------------------------------------------------------------------------------
(* The operators the handlers share.                                       *)

\* Mutant of Locked: a handler enters without waiting for the one before it.
LockedNever(k) == FALSE

\* withInteractionLock: a promise chain per key, so one send at a time is past
\* its entry.  Any waiter may be next, which includes the chain's order.
Locked(k) == \E s \in Slots : /\ call[<<k, s>>].kind = "send"
                              /\ call[<<k, s>>].pc \notin {"idle", "waiting"}

\* The store's parser, run on every record it opens or saves: a licensed record must
\* agree with its signed statements (checkLicensedSlots and the two parsers).
Parses(r) ==
  r.version = "0.2" =>
    /\ CreatedAt <= r.acceptedAt
    /\ r.state = "submitted" => r.receipt.outcome = "none"
    /\ r.state = "completed" => r.receipt.outcome = "completed"
    /\ r.state = "failed" => r.receipt.outcome \in {"none", "failed", "expired"}
    /\ r.receipt.outcome # "none" => r.acceptedAt <= r.receipt.recordedAt

\* failWithoutCompletion: a failed task without a signed receipt.
Failed(r) == [r EXCEPT !.state = "failed"]

\* responseTask: a legacy record carries its answer; a licensed one is joined
\* with the transient bytes, which expire at the reading.
Reply(k, r) ==
  LET live == k \in held /\ clock < LicenseEnd
  IN /\ told' = [told EXCEPT ![k] = @ \cup
                  {[acc |-> r.acc, state |-> r.state, receipt |-> r.receipt,
                    bytes |-> r.state = "completed" /\ (r.version = "0.1" \/ live)]}]
     /\ held' = IF r.version = "0.1" \/ live THEN held ELSE held \ {k}

\* Mutant of MaySchedule: #running is not consulted.
MayScheduleTwice(k, r, newlyAccepted) ==
  /\ ~(r.version = "0.1" /\ mode = "live")
  /\ ~(r.version = "0.2" /\ ~newlyAccepted)
  /\ process = "up"
  /\ r.state = "submitted"

\* schedule: who may start a background execution.
MaySchedule(k, r, newlyAccepted) ==
  /\ ~(r.version = "0.1" /\ mode = "live")
  /\ ~(r.version = "0.2" /\ ~newlyAccepted)
  /\ process = "up"
  /\ r.state = "submitted"
  /\ job[k].pc = "idle"

Schedule(k, r, newlyAccepted) ==
  job' = IF MaySchedule(k, r, newlyAccepted)
         THEN [job EXCEPT ![k] = [IdleJob EXCEPT !.pc = "scheduled", !.rec = r]]
         ELSE job

\* Mutant of Interrupted: a licensed record is left to an execution that nobody will
\* schedule.
InterruptedOnlyLive(k, r) ==
  /\ mode = "live"
  /\ r.state = "submitted"
  /\ job[k].pc = "idle"

\* readTask: an unfinished task that this process may not resume is failed;
\* otherwise it is (re)scheduled and answered as it stands.
Interrupted(k, r) ==
  /\ r.version = "0.2" \/ mode = "live"
  /\ r.state = "submitted"
  /\ job[k].pc = "idle"

ReadTask(c, kind, r) ==
  \/ /\ Interrupted(c[1], r)
     /\ call' = [call EXCEPT ![c] = [IdleCall EXCEPT !.pc = "saving", !.kind = kind,
                                                     !.rec = Failed(r)]]
     /\ UNCHANGED <<job, held, told>>
  \/ /\ ~Interrupted(c[1], r)
     /\ Schedule(c[1], r, FALSE)
     /\ Reply(c[1], r)
     /\ call' = [call EXCEPT ![c] = IdleCall]

--------------------------------------------------------------------------------
(* message/send and tasks/get.                                             *)

\* A decoded request queues behind its interaction lock.
SendArrives(c, d) ==
  /\ Serving
  /\ call[c].pc = "idle"
  /\ call' = [call EXCEPT ![c] = [IdleCall EXCEPT !.pc = "waiting", !.kind = "send",
                                                  !.content = d]]
  /\ UNCHANGED <<disk, mem, job, held, process, mode, clock, intact, minted, runs,
                 detached, told, budget>>

\* Lock granted and the key is known: conflict, or the existing task.
SendReplays(c) ==
  LET r == mem[c[1]]
  IN /\ call[c].pc = "waiting"
     /\ ~Locked(c[1])
     /\ r # NoRecord
     /\ \/ /\ r.content # call[c].content
           /\ call' = [call EXCEPT ![c] = IdleCall]
           /\ UNCHANGED <<job, held, told>>
        \/ /\ r.content = call[c].content
           /\ ReadTask(c, "send", r)
     /\ UNCHANGED <<disk, mem, process, mode, clock, intact, minted, runs, detached,
                    budget>>

\* Lock granted and the key is new: the acceptance time is taken before the
\* authority probe starts, and must lie in the signed window.
SendBegins(c) ==
  /\ call[c].pc = "waiting"
  /\ ~Locked(c[1])
  /\ mem[c[1]] = NoRecord
  /\ call' = [call EXCEPT ![c] =
               IF clock \in CreatedAt..Deadline
               THEN [@ EXCEPT !.pc = "observing", !.at = clock]
               ELSE IdleCall]
  /\ UNCHANGED <<disk, mem, job, held, process, mode, clock, intact, minted, runs,
                 detached, told, budget>>

\* The authority probe reads the chain ...
SendProbes(c) ==
  /\ call[c].pc = "observing"
  /\ call' = [call EXCEPT ![c].pc = "observed", ![c].auth = intact]
  /\ UNCHANGED <<disk, mem, job, held, process, mode, clock, intact, minted, runs,
                 detached, told, budget>>

\* ... and stamps the clock: requestUsable of strategy.evaluate.
Usable(auth) == auth /\ clock \in CreatedAt..Deadline

\* An unavailable, stale or unusable observation, or a failed signature: no task.
SendRefused(c) ==
  /\ call[c].pc = "observed"
  /\ call' = [call EXCEPT ![c] = IdleCall]
  /\ UNCHANGED <<disk, mem, job, held, process, mode, clock, intact, minted, runs,
                 detached, told, budget>>

SendAccepts(c) ==
  /\ call[c].pc = "observed"
  /\ call[c].at <= clock
  /\ Usable(call[c].auth)
  /\ minted' = minted + 1
  /\ call' = [call EXCEPT ![c] =
               [@ EXCEPT !.pc = "saving",
                         !.rec = [version |-> IF mode = "fixture" THEN "0.1" ELSE "0.2",
                                  content |-> call[c].content, acc |-> minted + 1,
                                  acceptedAt |-> call[c].at, state |-> "submitted",
                                  receipt |-> Unsigned]]]
  /\ UNCHANGED <<disk, mem, job, held, process, mode, clock, intact, runs, detached,
                 told, budget>>

\* tasks/get takes no lock; the task id comes from an earlier reply.
GetTask(c) ==
  /\ Serving
  /\ call[c].pc = "idle"
  /\ mem[c[1]] # NoRecord
  /\ \E t \in told[c[1]] : t.acc = mem[c[1]].acc
  /\ ReadTask(c, "get", mem[c[1]])
  /\ UNCHANGED <<disk, mem, process, mode, clock, intact, minted, runs, detached,
                 budget>>

\* Mutant of CallRenames: the acceptance is kept in memory only.
CallRenamesNothing(c) ==
  /\ call[c].pc = "saving"
  /\ call' = [call EXCEPT ![c].pc = "renamed"]
  /\ UNCHANGED <<disk, mem, job, held, process, mode, clock, intact, minted, runs,
                 detached, told, budget>>

\* CityTaskStore.save, first half: the record is parsed, then temporary file, fsync,
\* rename over the old one.
CallRenames(c) ==
  /\ call[c].pc = "saving"
  /\ Parses(call[c].rec)
  /\ disk' = [disk EXCEPT ![c[1]] = call[c].rec]
  /\ call' = [call EXCEPT ![c].pc = "renamed"]
  /\ UNCHANGED <<mem, job, held, process, mode, clock, intact, minted, runs, detached,
                 told, budget>>

\* Second half: directory fsync, then the in-memory maps, then the handler goes
\* on without another await: a new task is scheduled and the task is answered.
CallCommits(c) ==
  LET k == c[1]
      r == call[c].rec
  IN /\ call[c].pc = "renamed"
     /\ mem' = [mem EXCEPT ![k] = r]
     /\ Schedule(k, r, TRUE)
     /\ Reply(k, r)
     /\ call' = [call EXCEPT ![c] = IdleCall]
     /\ UNCHANGED <<disk, process, mode, clock, intact, minted, runs, detached, budget>>

\* The write fails before the rename or the directory fsync fails after it: the
\* handler answers with an internal error and the memory maps stay as they were.
CallSaveFails(c) ==
  /\ call[c].pc \in {"saving", "renamed"}
  /\ faults < MaxFaults
  /\ faults' = faults + 1
  /\ call' = [call EXCEPT ![c] = IdleCall]
  /\ UNCHANGED <<disk, mem, job, held, process, mode, clock, intact, minted, runs,
                 detached, told, restarts, rewinds>>

--------------------------------------------------------------------------------
(* executeAccepted, one background execution per key.                      *)

\* Mutant of Claims: the terminal check trusts the observation made before the work.
ClaimsUnchecked(k, stage) ==
  IF clock < job[k].rec.acceptedAt
  THEN [job[k] EXCEPT !.pc = "saving", !.rec = Failed(@)]
  ELSE [job[k] EXCEPT !.pc = IF stage = "prework" THEN "observing" ELSE "observed",
                      !.stage = stage, !.at = clock, !.intact = intact]

\* checkAcceptedAuthority, before its await: the claimed time is taken first;
\* one that precedes the acceptance fails the task without a receipt.
Claims(k, stage) ==
  IF clock < job[k].rec.acceptedAt
  THEN [job[k] EXCEPT !.pc = "saving", !.rec = Failed(@)]
  ELSE [job[k] EXCEPT !.pc = "observing", !.stage = stage, !.at = clock,
                      !.intact = intact]

\* setImmediate fires: executeAccepted begins with the prework check.
JobStarts(k) ==
  /\ job[k].pc = "scheduled"
  /\ job' = [job EXCEPT ![k] = Claims(k, "prework")]
  /\ UNCHANGED <<disk, mem, call, held, process, mode, clock, intact, minted, runs,
                 detached, told, budget>>

\* The authority probe reads the chain at some point of its await.
JobProbes(k) ==
  /\ job[k].pc = "observing"
  /\ job' = [job EXCEPT ![k].pc = "observed", ![k].auth = intact]
  /\ UNCHANGED <<disk, mem, call, held, process, mode, clock, intact, minted, runs,
                 detached, told, budget>>

\* The task ends as failed and unsigned: the probe was unavailable or stale, the
\* evidence unusable, the signature refused.
JobGivesUp(k) ==
  /\ job[k].pc = "observed"
  /\ job' = [job EXCEPT ![k].pc = "saving", ![k].rec = Failed(@)]
  /\ UNCHANGED <<disk, mem, call, held, process, mode, clock, intact, minted, runs,
                 detached, told, budget>>

\* The observation covers the claimed time: its own time is not earlier.
Covered(k) == job[k].pc = "observed" /\ job[k].at <= clock

Sealed(k, outcome, answer) ==
  [job EXCEPT ![k].pc = "saving",
              ![k].rec = [@ EXCEPT
                 !.state = IF outcome = "completed" THEN "completed" ELSE "failed",
                 !.receipt = [outcome |-> outcome, recordedAt |-> job[k].at,
                              answer |-> answer, intact |-> job[k].intact]]]

\* failWithExpiredCompletion: the claimed time is past the deadline and the same
\* authority is freshly proved (terminalEligible does not look at the deadline).
JobExpires(k) ==
  /\ Covered(k)
  /\ job[k].at > Deadline
  /\ job[k].auth
  /\ job' = Sealed(k, "expired", 0)
  /\ UNCHANGED <<disk, mem, call, held, process, mode, clock, intact, minted, runs,
                 detached, told, budget>>

\* Prework allows it: the executor is invoked.
JobExecutes(k) ==
  /\ Covered(k)
  /\ job[k].stage = "prework"
  /\ job[k].at <= Deadline
  /\ Usable(job[k].auth)
  /\ job' = [job EXCEPT ![k].pc = "executing"]
  /\ runs' = [runs EXCEPT ![k] = @ + 1]
  /\ UNCHANGED <<disk, mem, call, held, process, mode, clock, intact, minted, detached,
                 told, budget>>

\* The executor wins the race with valid bytes, or fails (an error, no bytes or
\* too many): the terminal check begins.
ExecutorSettles(k) ==
  /\ job[k].pc = "executing"
  /\ \E stage \in {"answer", "error"} : job' = [job EXCEPT ![k] = Claims(k, stage)]
  /\ UNCHANGED <<disk, mem, call, held, process, mode, clock, intact, minted, runs,
                 detached, told, budget>>

\* The timer wins: an executor that ignores the abort is detached.
ExecutorTimesOut(k) ==
  /\ job[k].pc = "executing"
  /\ job' = [job EXCEPT ![k] = Claims(k, "error")]
  /\ \E cooperative \in BOOLEAN :
       detached' = [detached EXCEPT ![k] = IF cooperative THEN @ ELSE @ + 1]
  /\ UNCHANGED <<disk, mem, call, held, process, mode, clock, intact, minted, runs,
                 told, budget>>

\* A detached executor settles late: the race is over and nobody listens.
DetachedSettles(k) ==
  /\ detached[k] > 0
  /\ detached' = [detached EXCEPT ![k] = @ - 1]
  /\ UNCHANGED <<disk, mem, call, job, held, process, mode, clock, intact, minted, runs,
                 told, budget>>

\* The terminal check allows it: a completed receipt for an answer, a failed one
\* for an executor that failed or timed out.
JobSeals(k) ==
  /\ Covered(k)
  /\ job[k].stage \in {"answer", "error"}
  /\ job[k].at <= Deadline
  /\ Usable(job[k].auth)
  /\ job' = IF job[k].stage = "answer" THEN Sealed(k, "completed", runs[k])
                                       ELSE Sealed(k, "failed", 0)
  /\ UNCHANGED <<disk, mem, call, held, process, mode, clock, intact, minted, runs,
                 detached, told, budget>>

JobRenames(k) ==
  /\ job[k].pc = "saving"
  /\ Parses(job[k].rec)
  /\ disk' = [disk EXCEPT ![k] = job[k].rec]
  /\ job' = [job EXCEPT ![k].pc = "renamed"]
  /\ UNCHANGED <<mem, call, held, process, mode, clock, intact, minted, runs, detached,
                 told, budget>>

\* Mutant of JobCommits: an execution that outlives runtime.close keeps its bytes.
JobCommitsAfterClose(k) ==
  LET r == job[k].rec
  IN /\ job[k].pc = "renamed"
     /\ mem' = [mem EXCEPT ![k] = r]
     /\ held' = IF r.version = "0.2" /\ r.state = "completed" /\ clock < LicenseEnd
                THEN held \cup {k} ELSE held
     /\ job' = [job EXCEPT ![k] = IdleJob]
     /\ UNCHANGED <<disk, call, process, mode, clock, intact, minted, runs, detached,
                    told, budget>>

\* The terminal record becomes visible, a licensed answer goes to the transient
\* holder, and the key leaves the running map.
JobCommits(k) ==
  LET r == job[k].rec
  IN /\ job[k].pc = "renamed"
     /\ mem' = [mem EXCEPT ![k] = r]
     /\ held' = IF /\ r.version = "0.2" /\ r.state = "completed"
                   /\ process = "up" /\ clock < LicenseEnd
                THEN held \cup {k} ELSE held
     /\ job' = [job EXCEPT ![k] = IdleJob]
     /\ UNCHANGED <<disk, call, process, mode, clock, intact, minted, runs, detached,
                    told, budget>>

\* A failed write ends the execution silently; the task stays submitted.
JobSaveFails(k) ==
  /\ job[k].pc \in {"saving", "renamed"}
  /\ faults < MaxFaults
  /\ faults' = faults + 1
  /\ job' = [job EXCEPT ![k] = IdleJob]
  /\ UNCHANGED <<disk, mem, call, held, process, mode, clock, intact, minted, runs,
                 detached, told, restarts, rewinds>>

--------------------------------------------------------------------------------
(* The environment and the process.                                        *)

Tick ==
  /\ clock < MaxTime
  /\ clock' = clock + 1
  /\ UNCHANGED <<disk, mem, call, job, held, process, mode, intact, minted, runs,
                 detached, told, budget>>

\* The wall clock is stepped back.
Rewind ==
  /\ clock > 0
  /\ rewinds < MaxRewinds
  /\ rewinds' = rewinds + 1
  /\ clock' = clock - 1
  /\ UNCHANGED <<disk, mem, call, job, held, process, mode, intact, minted, runs,
                 detached, told, restarts, faults>>

\* The owner transfers the identity, changes its profile or rotates the key.
AuthorityLost ==
  /\ intact
  /\ intact' = FALSE
  /\ UNCHANGED <<disk, mem, call, job, held, process, mode, clock, minted, runs,
                 detached, told, budget>>

\* TransientByteHolder's expiry timer.
LicenseExpires(k) ==
  /\ k \in held
  /\ clock >= LicenseEnd
  /\ held' = held \ {k}
  /\ UNCHANGED <<disk, mem, call, job, process, mode, clock, intact, minted, runs,
                 detached, told, budget>>

\* runtime.close: no further execution is scheduled and the bytes are dropped;
\* the HTTP server keeps serving until the running executions have settled.
Close ==
  /\ process = "up"
  /\ restarts < MaxRestarts
  /\ restarts' = restarts + 1
  /\ process' = "closing"
  /\ held' = {}
  /\ UNCHANGED <<disk, mem, call, job, mode, clock, intact, minted, runs, detached,
                 told, faults, rewinds>>

Down ==
  /\ process' = "down"
  /\ mem' = [k \in Interactions |-> NoRecord]
  /\ call' = [c \in Calls |-> IdleCall]
  /\ job' = [k \in Interactions |-> IdleJob]
  /\ held' = {}
  /\ detached' = [k \in Interactions |-> 0]
  /\ UNCHANGED <<disk, mode, clock, intact, minted, runs, told, faults, rewinds>>

\* The executions have settled: server.close takes no more requests ...
Drain ==
  /\ process = "closing"
  /\ \A k \in Interactions : job[k].pc = "idle"
  /\ process' = "draining"
  /\ UNCHANGED <<disk, mem, call, job, held, mode, clock, intact, minted, runs, detached,
                 told, budget>>

\* ... and ends when those in progress are answered.
Stop ==
  /\ process = "draining"
  /\ \A c \in Calls : call[c].pc = "idle"
  /\ Down
  /\ UNCHANGED restarts

\* The process dies between any two steps.
Crash ==
  /\ process # "down"
  /\ restarts < MaxRestarts
  /\ restarts' = restarts + 1
  /\ Down

\* Live admission is refused at startup once its license has ended.
Configurable(m) == m = "live" => clock < LicenseEnd

\* CityTaskStore.open reads every record, and one that does not parse keeps the
\* service from starting; the configuration may differ.
Restart ==
  /\ process = "down"
  /\ \A k \in Interactions : disk[k] # NoRecord => Parses(disk[k])
  /\ process' = "up"
  /\ mem' = disk
  /\ mode' \in {m \in Modes : Configurable(m)}
  /\ UNCHANGED <<disk, call, job, held, clock, intact, minted, runs, detached, told,
                 budget>>

--------------------------------------------------------------------------------
Init ==
  /\ disk = [k \in Interactions |-> NoRecord]
  /\ mem = disk
  /\ call = [c \in Calls |-> IdleCall]
  /\ job = [k \in Interactions |-> IdleJob]
  /\ held = {}
  /\ process = "up"
  /\ clock = CreatedAt
  /\ mode \in {m \in Modes : Configurable(m)}
  /\ intact = TRUE
  /\ minted = 0
  /\ runs = [k \in Interactions |-> 0]
  /\ detached = [k \in Interactions |-> 0]
  /\ told = [k \in Interactions |-> {}]
  /\ restarts = 0 /\ faults = 0 /\ rewinds = 0

CallProgress(c) ==
  \/ SendReplays(c) \/ SendBegins(c) \/ SendProbes(c) \/ SendRefused(c)
  \/ SendAccepts(c) \/ CallRenames(c) \/ CallCommits(c)

JobProgress(k) ==
  \/ JobStarts(k) \/ JobProbes(k) \/ JobGivesUp(k) \/ JobExpires(k) \/ JobExecutes(k)
  \/ ExecutorSettles(k) \/ ExecutorTimesOut(k) \/ JobSeals(k)
  \/ JobRenames(k) \/ JobCommits(k)

Next ==
  \/ \E c \in Calls : \/ CallProgress(c) \/ CallSaveFails(c) \/ GetTask(c)
                      \/ \E d \in Contents : SendArrives(c, d)
  \/ \E k \in Interactions : \/ JobProgress(k) \/ JobSaveFails(k)
                             \/ DetachedSettles(k) \/ LicenseExpires(k)
  \/ Tick \/ Rewind \/ AuthorityLost \/ Close \/ Drain \/ Stop \/ Crash \/ Restart

Spec == Init /\ [][Next]_vars

\* Every await of the code resolves (the executor by its timer, the probe by its
\* own I/O limit), a stopped service is started again and a client goes on polling.
Poll(k) == \E s \in Slots : GetTask(<<k, s>>)

Fairness ==
  /\ \A c \in Calls : WF_vars(CallProgress(c))
  /\ \A k \in Interactions : WF_vars(JobProgress(k)) /\ SF_vars(Poll(k))
  /\ WF_vars(Drain)
  /\ WF_vars(Stop)
  /\ WF_vars(Restart)

FairSpec == Spec /\ Fairness

--------------------------------------------------------------------------------
TypeOK ==
  /\ disk \in [Interactions -> Records \cup {NoRecord}]
  /\ mem \in [Interactions -> Records \cup {NoRecord}]
  /\ call \in [Calls -> CallStates]
  /\ job \in [Interactions -> Jobs]
  /\ held \in SUBSET Interactions
  /\ process \in {"up", "closing", "draining", "down"}
  /\ mode \in Modes
  /\ clock \in Time
  /\ intact \in BOOLEAN
  /\ minted \in Nat
  /\ runs \in [Interactions -> Nat]
  /\ detached \in [Interactions -> Nat]
  /\ told \in [Interactions -> SUBSET Tellings]
  /\ restarts \in Nat /\ faults \in Nat /\ rewinds \in Nat

(* Properties.                                                             *)

\* One acceptance and one terminal result per interaction are ever told, across
\* replays, conflicting requests, failed writes, crashes and restarts in another
\* configuration: TaskRuntime implements InteractionContract.
Contract == INSTANCE InteractionContract WITH
  promised <- [k \in Interactions |-> {t.acc : t \in told[k]}],
  settled <- [k \in Interactions |->
                {<<t.state, t.receipt>> : t \in {u \in told[k] : u.state # "submitted"}}]

ImplementsContract == Contract!Spec

\* Persist before telling or working (a2a-loopback: "Before returning or executing
\* work"): what a caller was told, and what an executor works on, is the acceptance
\* on disk, so no crash can take it back.
DurableFirst ==
  \A k \in Interactions :
    /\ \A t \in told[k] : disk[k] # NoRecord /\ disk[k].acc = t.acc
    /\ job[k].pc # "idle" => disk[k] # NoRecord /\ disk[k].acc = job[k].rec.acc

\* A terminal result that a caller was told of is the one on disk: no later poll,
\* interruption or second execution overwrites a receipt that has left the service.
ToldResultKept ==
  \A k \in Interactions : \A t \in told[k] :
    t.state # "submitted" => disk[k].state = t.state /\ disk[k].receipt = t.receipt

\* A signed receipt is truthful however the clock and the authority moved while it
\* was made: it never predates its acceptance, "completed" and "failed" lie within
\* the deadline and "expired" after it, and authority stood at the recorded time.
TruthfulReceipts ==
  \A k \in Interactions :
    LET r == disk[k]
    IN r # NoRecord =>
         /\ r.acceptedAt \in CreatedAt..Deadline
         /\ r.receipt.outcome # "none" =>
              /\ r.acceptedAt <= r.receipt.recordedAt
              /\ r.receipt.outcome = "expired" <=> r.receipt.recordedAt > Deadline
              /\ r.receipt.intact

\* Concurrent replays never run the executor twice: every further invocation under
\* a key needs a lost process or a failed write, and a licensed task is never
\* invoked again at all, nor an unfinished legacy task in a live process.
BoundedRuns ==
  \A k \in Interactions :
    /\ runs[k] <= 1 + restarts + faults
    /\ job[k].pc \notin {"idle", "scheduled"} /\ job[k].rec.version = "0.2" =>
         runs[k] <= 1
    /\ job[k].pc # "idle" /\ mode = "live" => job[k].rec.version = "0.2"

\* Licensed answer bytes leave the service only before their license ends and only
\* while the process that produced them is still open.
BytesWithinLicense ==
  [][\A k \in Interactions : \A t \in told'[k] \ told[k] :
       t.bytes /\ mem'[k].version = "0.2" =>
         clock < LicenseEnd /\ process = "up"]_vars

\* An accepted task that its caller keeps polling ends: no interleaving of failed
\* writes, closes, crashes and restarts leaves it submitted for ever.
EventuallySettled ==
  \A k \in Interactions :
    told[k] # {} ~> \E t \in told[k] : t.state # "submitted"
================================================================================
