--------------------------- MODULE TaskRuntimeProofs ---------------------------
(***************************************************************************)
(* Theorems about the task runtime, for every value of its constants.      *)
(***************************************************************************)
EXTENDS TaskRuntime, TLAPS

(* The operators the handlers share produce well-typed values.             *)

\* A failed task is a record again.
LEMMA FailedType ==
  ASSUME NEW r \in Records
  PROVE  Failed(r) \in Records
BY DEF Failed, Records

\* The idle states of a request slot and of an execution are well typed.
LEMMA IdleType == IdleCall \in CallStates /\ IdleJob \in Jobs
BY RuntimeAssumption DEF IdleCall, CallStates, IdleJob, Jobs, Time

\* Any reply keeps told and held well typed.
LEMMA ReplyType ==
  ASSUME TypeOK, NEW k \in Interactions, NEW r \in Records, Reply(k, r)
  PROVE  /\ told' \in [Interactions -> SUBSET Tellings]
         /\ held' \in SUBSET Interactions
<1> DEFINE live == k \in held /\ clock < LicenseEnd
           t == [acc |-> r.acc, state |-> r.state, receipt |-> r.receipt,
                 bytes |-> r.state = "completed" /\ (r.version = "0.1" \/ live)]
<1>1. t \in Tellings
  <2>1. t.bytes \in BOOLEAN
    OBVIOUS
  <2>2. t.acc \in Nat /\ t.state \in {"submitted", "completed", "failed"}
        /\ t.receipt \in Receipts
    BY DEF Records
  <2> HIDE DEF live
  <2> QED BY <2>1, <2>2 DEF Tellings
<1>2. told' = [told EXCEPT ![k] = @ \cup {t}] /\ held' \in SUBSET Interactions
  BY DEF Reply, TypeOK
<1> HIDE DEF t
<1> QED BY <1>1, <1>2 DEF TypeOK

\* Scheduling keeps the executions well typed.
LEMMA ScheduleType ==
  ASSUME TypeOK, NEW k \in Interactions, NEW r \in Records, NEW b \in BOOLEAN,
         Schedule(k, r, b)
  PROVE  job' \in [Interactions -> Jobs]
<1>1. [IdleJob EXCEPT !.pc = "scheduled", !.rec = r] \in Jobs
  BY IdleType, NoRecordAssumption DEF IdleJob, Jobs
<1> QED BY <1>1 DEF Schedule, TypeOK

\* A handler that is about to fail a task is well typed.
LEMMA InterruptType ==
  ASSUME NEW kind \in {"send", "get"}, NEW r \in Records
  PROVE  [IdleCall EXCEPT !.pc = "saving", !.kind = kind, !.rec = Failed(r)] \in CallStates
BY IdleType, FailedType, NoRecordAssumption DEF IdleCall, CallStates

\* A read of a task keeps what it touches well typed.
LEMMA ReadTaskType ==
  ASSUME TypeOK, NEW c \in Calls, NEW kind \in {"send", "get"}, NEW r \in Records,
         ReadTask(c, kind, r)
  PROVE  /\ call' \in [Calls -> CallStates]
         /\ job' \in [Interactions -> Jobs]
         /\ held' \in SUBSET Interactions
         /\ told' \in [Interactions -> SUBSET Tellings]
<1>1. c[1] \in Interactions
  BY DEF Calls
<1>2. CASE Interrupted(c[1], r)
  <2> QED BY <1>2, InterruptType DEF ReadTask, TypeOK
<1>3. CASE ~Interrupted(c[1], r)
  <2>1. Schedule(c[1], r, FALSE) /\ Reply(c[1], r) /\ call' = [call EXCEPT ![c] = IdleCall]
    BY <1>3 DEF ReadTask
  <2> QED BY <1>1, <2>1, IdleType, ReplyType, ScheduleType DEF TypeOK
<1> QED BY <1>2, <1>3

\* The state an execution is in after it has taken a claimed time is well typed.
LEMMA ClaimsType ==
  ASSUME TypeOK, NEW k \in Interactions, NEW stage \in {"prework", "answer", "error"},
         job[k].pc # "idle"
  PROVE  Claims(k, stage) \in Jobs
<1>1. job[k] \in Jobs /\ clock \in Time /\ intact \in BOOLEAN
      /\ job[k].rec \in Records /\ Failed(job[k].rec) \in Records
  <2>1. job[k].rec \in Records
    BY DEF TypeOK, Jobs
  <2> QED BY <2>1, FailedType DEF TypeOK
<1> QED BY <1>1, NoRecordAssumption DEF Claims, Jobs

\* Sealing leaves a well-typed execution that is saving a record.
LEMMA SealedType ==
  ASSUME TypeOK, NEW k \in Interactions, job[k].pc # "idle",
         NEW outcome \in {"completed", "failed", "expired"}, NEW answer \in Nat,
         job' = Sealed(k, outcome, answer)
  PROVE  job' \in [Interactions -> Jobs]
<1> DEFINE receipt == [outcome |-> outcome, recordedAt |-> job[k].at,
                       answer |-> answer, intact |-> job[k].intact]
           rec == [job[k].rec EXCEPT
                    !.state = IF outcome = "completed" THEN "completed" ELSE "failed",
                    !.receipt = receipt]
<1>1. job[k] \in Jobs /\ job[k].rec \in Records
  BY DEF TypeOK, Jobs
<1>2. receipt \in Receipts
  BY <1>1 DEF Receipts, Jobs
<1>3. rec \in Records
  <2> HIDE DEF receipt
  <2> QED BY <1>1, <1>2 DEF Records
<1>4. job' = [job EXCEPT ![k] = [job[k] EXCEPT !.pc = "saving", !.rec = rec]]
  BY <1>1 DEF Sealed, TypeOK
<1> HIDE DEF rec
<1>5. [job[k] EXCEPT !.pc = "saving", !.rec = rec] \in Jobs
  BY <1>1, <1>3, NoRecordAssumption DEF Jobs
<1> QED BY <1>4, <1>5 DEF TypeOK

(* Type correctness.                                                       *)

\* The initial states are well typed.
LEMMA InitType == Init => TypeOK
<1> SUFFICES ASSUME Init PROVE TypeOK
  OBVIOUS
<1> USE DEF Init, TypeOK
<1>1. disk \in [Interactions -> Records \cup {NoRecord}] /\ mem = disk
  OBVIOUS
<1>2. call \in [Calls -> CallStates]
  BY IdleType
<1>3. job \in [Interactions -> Jobs]
  BY IdleType
<1>4. clock \in Time /\ mode \in Modes
  BY RuntimeAssumption DEF Time
<1> QED BY <1>1, <1>2, <1>3, <1>4

\* Every step, action by action, keeps the state well typed.
LEMMA StepType == TypeOK /\ [Next]_vars => TypeOK'
<1> SUFFICES ASSUME TypeOK, [Next]_vars PROVE TypeOK'
  OBVIOUS
<1> USE DEF budget
<1>1. ASSUME NEW c \in Calls, NEW d \in Contents, SendArrives(c, d) PROVE TypeOK'
  BY <1>1, IdleType DEF SendArrives, TypeOK, CallStates
<1>2. ASSUME NEW c \in Calls, SendReplays(c) PROVE TypeOK'
  <2>1. mem[c[1]] \in Records
    BY <1>2 DEF SendReplays, TypeOK, Calls
  <2>2. CASE mem[c[1]].content # call[c].content
    BY <1>2, <2>2, IdleType DEF SendReplays, TypeOK
  <2>3. CASE mem[c[1]].content = call[c].content
    <3>1. ReadTask(c, "send", mem[c[1]])
      BY <1>2, <2>3 DEF SendReplays
    <3> QED BY <1>2, <2>1, <3>1, ReadTaskType DEF SendReplays, TypeOK
  <2> QED BY <2>2, <2>3
<1>3. ASSUME NEW c \in Calls, SendBegins(c) PROVE TypeOK'
  <2>1. [call[c] EXCEPT !.pc = "observing", !.at = clock] \in CallStates
    <3>1. call[c] \in CallStates /\ call[c].pc = "waiting" /\ clock \in Time
      BY <1>3 DEF SendBegins, TypeOK
    <3> QED BY <3>1 DEF CallStates
  <2> QED BY <1>3, <2>1, IdleType DEF SendBegins, TypeOK
<1>4. ASSUME NEW c \in Calls, SendProbes(c) PROVE TypeOK'
  <2>1. [call[c] EXCEPT !.pc = "observed", !.auth = intact] \in CallStates
    BY <1>4 DEF SendProbes, TypeOK, CallStates
  <2> QED BY <1>4, <2>1 DEF SendProbes, TypeOK
<1>5. ASSUME NEW c \in Calls, SendRefused(c) PROVE TypeOK'
  BY <1>5, IdleType DEF SendRefused, TypeOK
<1>6. ASSUME NEW c \in Calls, SendAccepts(c) PROVE TypeOK'
  <2> DEFINE r == [version |-> IF mode = "fixture" THEN "0.1" ELSE "0.2",
                   content |-> call[c].content, acc |-> minted + 1,
                   acceptedAt |-> call[c].at, state |-> "submitted",
                   receipt |-> Unsigned]
  <2>1. Unsigned \in Receipts
    BY RuntimeAssumption DEF Unsigned, Receipts, Time
  <2>2. r \in Records
    BY <1>6, <2>1 DEF SendAccepts, TypeOK, CallStates, Records, Versions
  <2> HIDE DEF r
  <2>3. [call[c] EXCEPT !.pc = "saving", !.rec = r] \in CallStates
    BY <1>6, <2>2, NoRecordAssumption DEF SendAccepts, TypeOK, CallStates
  <2>4. call' = [call EXCEPT ![c] = [call[c] EXCEPT !.pc = "saving", !.rec = r]]
    BY <1>6 DEF SendAccepts, TypeOK, r
  <2> QED BY <1>6, <2>3, <2>4 DEF SendAccepts, TypeOK
<1>7. ASSUME NEW c \in Calls, GetTask(c) PROVE TypeOK'
  <2>1. mem[c[1]] \in Records /\ ReadTask(c, "get", mem[c[1]])
    BY <1>7 DEF GetTask, TypeOK, Calls
  <2> QED BY <1>7, <2>1, ReadTaskType DEF GetTask, TypeOK
<1>8. ASSUME NEW c \in Calls, CallRenames(c) PROVE TypeOK'
  BY <1>8 DEF CallRenames, TypeOK, CallStates
<1>9. ASSUME NEW c \in Calls, CallCommits(c) PROVE TypeOK'
  <2>1. c[1] \in Interactions /\ call[c].rec \in Records
    BY <1>9 DEF CallCommits, TypeOK, CallStates, Calls
  <2>2. Schedule(c[1], call[c].rec, TRUE) /\ Reply(c[1], call[c].rec)
    BY <1>9 DEF CallCommits
  <2>3. /\ job' \in [Interactions -> Jobs] /\ held' \in SUBSET Interactions
        /\ told' \in [Interactions -> SUBSET Tellings]
    BY <2>1, <2>2, ReplyType, ScheduleType
  <2> QED BY <1>9, <2>1, <2>3, IdleType DEF CallCommits, TypeOK
<1>10. ASSUME NEW c \in Calls, CallSaveFails(c) PROVE TypeOK'
  BY <1>10, IdleType DEF CallSaveFails, TypeOK
<1>11. ASSUME NEW k \in Interactions, JobStarts(k) PROVE TypeOK'
  BY <1>11, ClaimsType DEF JobStarts, TypeOK
<1>12. ASSUME NEW k \in Interactions, JobProbes(k) PROVE TypeOK'
  <2>1. [job[k] EXCEPT !.pc = "observed", !.auth = intact] \in Jobs
    BY <1>12 DEF JobProbes, TypeOK, Jobs
  <2> QED BY <1>12, <2>1 DEF JobProbes, TypeOK
<1>13. ASSUME NEW k \in Interactions, JobGivesUp(k) PROVE TypeOK'
  <2>1. Failed(job[k].rec) \in Records
    BY <1>13, FailedType DEF JobGivesUp, TypeOK, Jobs
  <2>2. [job[k] EXCEPT !.pc = "saving", !.rec = Failed(job[k].rec)] \in Jobs
    BY <1>13, <2>1, NoRecordAssumption DEF JobGivesUp, TypeOK, Jobs
  <2> QED BY <1>13, <2>2 DEF JobGivesUp, TypeOK
<1>14. ASSUME NEW k \in Interactions, JobExpires(k) PROVE TypeOK'
  BY <1>14, SealedType DEF JobExpires, Covered, TypeOK
<1>15. ASSUME NEW k \in Interactions, JobExecutes(k) PROVE TypeOK'
  BY <1>15 DEF JobExecutes, Covered, TypeOK, Jobs
<1>16. ASSUME NEW k \in Interactions, ExecutorSettles(k) PROVE TypeOK'
  BY <1>16, ClaimsType DEF ExecutorSettles, TypeOK
<1>17. ASSUME NEW k \in Interactions, ExecutorTimesOut(k) PROVE TypeOK'
  BY <1>17, ClaimsType DEF ExecutorTimesOut, TypeOK
<1>18. ASSUME NEW k \in Interactions, DetachedSettles(k) PROVE TypeOK'
  BY <1>18 DEF DetachedSettles, TypeOK
<1>19. ASSUME NEW k \in Interactions, JobSeals(k) PROVE TypeOK'
  BY <1>19, SealedType DEF JobSeals, Covered, TypeOK
<1>20. ASSUME NEW k \in Interactions, JobRenames(k) PROVE TypeOK'
  BY <1>20 DEF JobRenames, TypeOK, Jobs
<1>21. ASSUME NEW k \in Interactions, JobCommits(k) PROVE TypeOK'
  BY <1>21, IdleType DEF JobCommits, TypeOK, Jobs
<1>22. ASSUME NEW k \in Interactions, JobSaveFails(k) PROVE TypeOK'
  BY <1>22, IdleType DEF JobSaveFails, TypeOK
<1>23. CASE Tick
  BY <1>23, RuntimeAssumption DEF Tick, TypeOK, Time
<1>24. CASE Rewind
  BY <1>24, RuntimeAssumption DEF Rewind, TypeOK, Time
<1>25. CASE AuthorityLost
  BY <1>25 DEF AuthorityLost, TypeOK
<1>26. ASSUME NEW k \in Interactions, LicenseExpires(k) PROVE TypeOK'
  BY <1>26 DEF LicenseExpires, TypeOK
<1>27. CASE Close
  BY <1>27 DEF Close, TypeOK
<1>28. CASE Drain
  BY <1>28 DEF Drain, TypeOK
<1>29. CASE Stop
  BY <1>29, IdleType DEF Stop, Down, TypeOK
<1>30. CASE Crash
  BY <1>30, IdleType DEF Crash, Down, TypeOK
<1>31. CASE Restart
  BY <1>31 DEF Restart, TypeOK
<1>32. CASE UNCHANGED vars
  BY <1>32 DEF vars, TypeOK
<1> QED
  BY <1>1, <1>2, <1>3, <1>4, <1>5, <1>6, <1>7, <1>8, <1>9, <1>10, <1>11, <1>12, <1>13,
     <1>14, <1>15, <1>16, <1>17, <1>18, <1>19, <1>20, <1>21, <1>22, <1>23, <1>24, <1>25,
     <1>26, <1>27, <1>28, <1>29, <1>30, <1>31, <1>32
     DEF Next, CallProgress, JobProgress

\* Every reachable state is well typed: in particular a handler that is saving has a
\* record to save, and an execution that is not idle works on one.
THEOREM TypeCorrect == Spec => []TypeOK
BY InitType, StepType, PTL DEF Spec

--------------------------------------------------------------------------------
(* The inductive invariant.                                                *)

\* Disk, memory and what clients know of one interaction.
Agrees(k) ==
  /\ disk[k] # NoRecord /\ disk[k].state = "submitted" => disk[k].receipt = Unsigned
  /\ mem[k] # NoRecord =>
       /\ disk[k] # NoRecord
       /\ disk[k].acc = mem[k].acc
       /\ mem[k].state # "submitted" => disk[k] = mem[k]
       /\ mem[k].state = "submitted" => mem[k].receipt = Unsigned
  /\ told[k] # {} => /\ disk[k] # NoRecord
                     /\ process # "down" => mem[k] # NoRecord
  /\ \A t \in told[k] :
       /\ t.acc = disk[k].acc
       /\ t.state # "submitted" =>
            /\ disk[k].state = t.state
            /\ disk[k].receipt = t.receipt
            /\ process # "down" => mem[k].state # "submitted"

\* An execution works on the submitted task in memory.
JobTied(k) ==
  job[k].pc # "idle" =>
    /\ process # "down"
    /\ mem[k] # NoRecord
    /\ mem[k].state = "submitted"
    /\ job[k].rec.acc = mem[k].acc
    /\ job[k].rec.version = mem[k].version
    /\ mode = "live" => mem[k].version = "0.2"
    /\ job[k].pc \in {"saving", "renamed"} => job[k].rec.state # "submitted"
    /\ job[k].pc = "renamed" => disk[k] = job[k].rec

\* A send that is about to create a task, and a handler that is about to fail an
\* interrupted one.
Creates(x) ==
  /\ x.kind = "send"
  /\ \/ x.pc \in {"observing", "observed"}
     \/ /\ x.pc \in {"saving", "renamed"}
        /\ x.rec.state = "submitted"

Interrupts(x) == x.pc \in {"saving", "renamed"} /\ x.rec.state # "submitted"

CallTied(c) ==
  /\ call[c].pc # "idle" => process # "down"
  /\ call[c].pc \notin {"idle", "waiting"} => Creates(call[c]) \/ Interrupts(call[c])
  /\ Creates(call[c]) =>
       /\ mem[c[1]] = NoRecord
       /\ call[c].pc \in {"saving", "renamed"} => call[c].rec.receipt = Unsigned
  /\ Interrupts(call[c]) =>
       /\ mem[c[1]] # NoRecord
       /\ mem[c[1]].receipt = Unsigned
       /\ mem[c[1]].state # "completed"
       /\ call[c].rec = Failed(mem[c[1]])
       /\ job[c[1]].pc = "idle"
       /\ mem[c[1]].version = "0.2" \/ mode = "live"
  /\ call[c].pc = "renamed" => disk[c[1]] = call[c].rec

\* The interaction lock lets one send at a time create a task.
OneCreator ==
  \A c, d \in Calls : c[1] = d[1] /\ Creates(call[c]) /\ Creates(call[d]) => c = d

IInv ==
  /\ \A k \in Interactions : Agrees(k) /\ JobTied(k)
  /\ \A c \in Calls : CallTied(c)
  /\ OneCreator

\* In the invariant a caller is never told of anything the disk does not hold.
LEMMA IInvImpliesDurableFirst == TypeOK /\ IInv => DurableFirst
BY DEF IInv, Agrees, JobTied, DurableFirst

\* In the invariant a told terminal result is the one on disk.
LEMMA IInvImpliesToldResultKept == IInv => ToldResultKept
BY DEF IInv, Agrees, ToldResultKept

\* The invariant holds initially: nothing is on disk, told or in progress.
LEMMA InitIInv == Init => IInv
BY DEF Init, IInv, Agrees, JobTied, CallTied, OneCreator, Creates, Interrupts, IdleCall,
       IdleJob, Calls

\* A step that moves one handler only keeps the invariant if that handler is tied.
LEMMA CallStep ==
  ASSUME TypeOK, IInv, NEW c \in Calls, NEW x \in CallStates,
         call' = [call EXCEPT ![c] = x],
         UNCHANGED <<disk, mem, job, process, mode, told>>,
         CallTied(c)',
         Creates(x) => Creates(call[c]) \/ ~Locked(c[1])
  PROVE  IInv'
<1>1. call'[c] = x /\ \A d \in Calls \ {c} : call'[d] = call[d]
  BY DEF TypeOK
<1>2. \A k \in Interactions : Agrees(k)' /\ JobTied(k)'
  BY DEF IInv, Agrees, JobTied
<1>3. ASSUME NEW d \in Calls PROVE CallTied(d)'
  <2>1. CASE d = c
    BY <2>1
  <2>2. CASE d # c
    BY <1>1, <2>2 DEF IInv, CallTied
  <2> QED BY <2>1, <2>2
<1>4. ASSUME NEW d \in Calls, d # c, d[1] = c[1], Creates(x) PROVE ~Creates(call[d])
  <2>1. CASE Creates(call[c])
    BY <1>4, <2>1 DEF IInv, OneCreator
  <2>2. CASE ~Locked(c[1])
    <3>1. d = <<c[1], d[2]>> /\ d[2] \in Slots
      BY <1>4 DEF Calls
    <3> QED BY <2>2, <3>1 DEF Locked, Creates
  <2> QED BY <1>4, <2>1, <2>2
<1>5. OneCreator'
  BY <1>1, <1>4 DEF IInv, OneCreator
<1> QED BY <1>2, <1>3, <1>5 DEF IInv

\* A step that moves one running execution only, or ends it, keeps the invariant.
LEMMA JobStep ==
  ASSUME TypeOK, IInv, NEW k \in Interactions, NEW y,
         job[k].pc # "idle",
         job' = [job EXCEPT ![k] = y],
         UNCHANGED <<disk, mem, call, process, mode, told>>,
         JobTied(k)'
  PROVE  IInv'
<1>1. job'[k] = y /\ \A j \in Interactions \ {k} : job'[j] = job[j]
  BY DEF TypeOK
<1>2. \A j \in Interactions : Agrees(j)'
  BY DEF IInv, Agrees
<1>3. \A j \in Interactions : JobTied(j)'
  BY <1>1 DEF IInv, JobTied
<1>4. ASSUME NEW c \in Calls PROVE CallTied(c)'
  <2>1. c[1] \in Interactions
    BY DEF Calls
  <2>2. CallTied(c)
    BY DEF IInv
  <2>3. Interrupts(call[c]) => c[1] # k
    BY <2>2 DEF CallTied
  <2> QED BY <1>1, <2>1, <2>2, <2>3 DEF CallTied
<1>5. OneCreator'
  BY DEF IInv, OneCreator
<1> QED BY <1>2, <1>3, <1>4, <1>5 DEF IInv

\* A step of the environment changes nothing the invariant looks at.
LEMMA EnvironmentStep ==
  ASSUME IInv, UNCHANGED <<disk, mem, call, job, mode, told>>,
         process' = process \/ (process # "down" /\ process' # "down")
  PROVE  IInv'
BY DEF IInv, Agrees, JobTied, CallTied, OneCreator

(* Answering a caller.                                                     *)

\* A reply adds one telling: the acceptance, state and receipt of the record.
LEMMA ReplyEffect ==
  ASSUME TypeOK, NEW k \in Interactions, NEW r, Reply(k, r)
  PROVE  \E t : /\ t.acc = r.acc /\ t.state = r.state /\ t.receipt = r.receipt
                /\ told' = [told EXCEPT ![k] = @ \cup {t}]
<1> DEFINE t == [acc |-> r.acc, state |-> r.state, receipt |-> r.receipt,
                 bytes |-> r.state = "completed" /\
                           (r.version = "0.1" \/ (k \in held /\ clock < LicenseEnd))]
<1>1. told' = [told EXCEPT ![k] = @ \cup {t}]
  BY DEF Reply
<1>2. t.acc = r.acc /\ t.state = r.state /\ t.receipt = r.receipt
  OBVIOUS
<1> QED BY <1>1, <1>2

\* Scheduling starts an execution of the record it is given, or nothing.
LEMMA ScheduleEffect ==
  ASSUME NEW k, NEW r, NEW b, Schedule(k, r, b)
  PROVE  \/ job' = job
         \/ /\ MaySchedule(k, r, b)
            /\ \E y : /\ y.pc = "scheduled" /\ y.rec = r
                      /\ job' = [job EXCEPT ![k] = y]
<1> DEFINE y == [IdleJob EXCEPT !.pc = "scheduled", !.rec = r]
<1>1. y.pc = "scheduled" /\ y.rec = r
  BY DEF IdleJob
<1> QED BY <1>1 DEF Schedule

\* A reply about the record in memory, with or without a new execution of it, keeps
\* the invariant once that record does.
LEMMA AnswerStep ==
  ASSUME TypeOK, IInv, NEW c \in Calls, NEW r \in Records, NEW b \in BOOLEAN,
         process # "down",
         Schedule(c[1], r, b), Reply(c[1], r),
         call' = [call EXCEPT ![c] = IdleCall],
         mem' = [mem EXCEPT ![c[1]] = r],
         UNCHANGED <<disk, process, mode>>,
         disk[c[1]] # NoRecord,
         disk[c[1]].acc = r.acc,
         r.state # "submitted" => disk[c[1]] = r,
         r.state = "submitted" => r.receipt = Unsigned,
         \A t \in told[c[1]] : t.state # "submitted" => r.state # "submitted",
         job[c[1]].pc # "idle" => mem[c[1]] = r,
         \A d \in Calls \ {c} : d[1] = c[1] =>
           /\ ~Creates(call[d])
           /\ Interrupts(call[d]) =>
                /\ r.receipt = Unsigned
                /\ r.state # "completed"
                /\ call[d].rec = Failed(r)
                /\ r.version = "0.2" \/ mode = "live"
                /\ b => r.state # "submitted"
  PROVE  IInv'
<1> DEFINE k == c[1]
<1>0. k \in Interactions
  BY DEF Calls
<1>1. PICK t : /\ t.acc = r.acc /\ t.state = r.state /\ t.receipt = r.receipt
               /\ told' = [told EXCEPT ![k] = @ \cup {t}]
  BY <1>0, ReplyEffect
<1>2. /\ told'[k] = told[k] \cup {t} /\ mem'[k] = r
      /\ call'[c].pc = "idle"
      /\ \A j \in Interactions \ {k} : told'[j] = told[j] /\ mem'[j] = mem[j]
      /\ \A d \in Calls \ {c} : call'[d] = call[d]
  BY <1>0, <1>1 DEF TypeOK, IdleCall
<1>3. r # NoRecord
  BY NoRecordAssumption
<1>4. \/ job' = job
      \/ /\ MaySchedule(k, r, b)
         /\ job'[k].pc = "scheduled" /\ job'[k].rec = r
         /\ \A j \in Interactions \ {k} : job'[j] = job[j]
  BY <1>0, ScheduleEffect DEF TypeOK
<1>5. ASSUME NEW j \in Interactions PROVE Agrees(j)'
  <2>1. CASE j = k
    BY <1>1, <1>2, <1>3, <2>1 DEF IInv, Agrees
  <2>2. CASE j # k
    BY <1>2, <2>2 DEF IInv, Agrees
  <2> QED BY <2>1, <2>2
<1>6. ASSUME NEW j \in Interactions PROVE JobTied(j)'
  <2>1. CASE j = k /\ job' = job
    BY <1>2, <2>1 DEF IInv, JobTied
  <2>2. CASE j = k /\ job' # job
    <3>1. MaySchedule(k, r, b) /\ job'[k].pc = "scheduled" /\ job'[k].rec = r
      BY <1>4, <2>2
    <3>2. r.state = "submitted" /\ (mode = "live" => r.version = "0.2")
      BY <3>1 DEF MaySchedule, Records, Versions
    <3> QED BY <1>2, <1>3, <2>2, <3>1, <3>2 DEF JobTied
  <2>3. CASE j # k
    BY <1>2, <1>4, <2>3 DEF IInv, JobTied
  <2> QED BY <2>1, <2>2, <2>3
<1>7. ASSUME NEW d \in Calls PROVE CallTied(d)'
  <2>1. CASE d = c
    BY <1>2, <2>1 DEF CallTied, Creates, Interrupts
  <2>2. CASE d # c /\ d[1] = k
    <3>1. CallTied(d) /\ ~Creates(call[d]) /\ call'[d] = call[d]
      BY <1>2, <2>2 DEF IInv
    <3>2. Interrupts(call[d]) => job'[k].pc = "idle"
      <4>1. Interrupts(call[d]) => job[k].pc = "idle"
        BY <2>2, <3>1 DEF CallTied
      <4>2. Interrupts(call[d]) => ~MaySchedule(k, r, b)
        BY <2>2 DEF MaySchedule, Records, Versions
      <4> QED BY <1>4, <4>1, <4>2
    <3> QED BY <1>2, <1>3, <2>2, <3>1, <3>2 DEF CallTied, Creates, Interrupts
  <2>3. CASE d # c /\ d[1] # k
    <3>1. d[1] \in Interactions /\ job'[d[1]] = job[d[1]]
      BY <1>4, <2>3 DEF Calls
    <3> QED BY <1>2, <2>3, <3>1 DEF IInv, CallTied
  <2> QED BY <2>1, <2>2, <2>3
<1>8. OneCreator'
  BY <1>2 DEF IInv, OneCreator, Creates
<1> QED BY <1>5, <1>6, <1>7, <1>8 DEF IInv

\* What failWithoutCompletion keeps and changes.
LEMMA FailedFields ==
  ASSUME NEW r \in Records
  PROVE  /\ Failed(r) \in Records
         /\ Failed(r).state = "failed"
         /\ Failed(r).acc = r.acc
         /\ Failed(r).receipt = r.receipt
         /\ Failed(r).version = r.version
         /\ r.state = "failed" => Failed(r) = r
BY DEF Failed, Records

\* A replay or a poll keeps the invariant: it answers with the record in memory, or
\* starts to fail an execution that no process may resume.
LEMMA ReadTaskStep ==
  ASSUME TypeOK, IInv, NEW c \in Calls, NEW kind \in {"send", "get"},
         process # "down", mem[c[1]] # NoRecord,
         ReadTask(c, kind, mem[c[1]]),
         UNCHANGED <<disk, mem, process, mode>>
  PROVE  IInv'
<1> DEFINE k == c[1]
           r == mem[k]
           x == [IdleCall EXCEPT !.pc = "saving", !.kind = kind, !.rec = Failed(r)]
<1>1. k \in Interactions /\ r \in Records /\ Agrees(k)
  BY DEF Calls, TypeOK, IInv
<1>2. CASE Interrupted(k, r)
  <2>1. x \in CallStates
    BY <1>1, InterruptType
  <2>2. x.pc = "saving" /\ x.rec = Failed(r)
    BY DEF IdleCall
  <2>3. call' = [call EXCEPT ![c] = x] /\ UNCHANGED <<job, told>>
    BY <1>2 DEF ReadTask
  <2>4. call'[c] = x
    BY <2>1, <2>3 DEF TypeOK
  <2> HIDE DEF x
  <2>5. Interrupts(x) /\ ~Creates(x)
    BY <1>1, <2>2, FailedFields DEF Interrupts, Creates
  <2>6. CallTied(c)'
    BY <1>1, <1>2, <2>2, <2>3, <2>4, <2>5 DEF CallTied, Interrupted, Agrees, Creates, Interrupts
  <2> QED BY <2>1, <2>3, <2>5, <2>6, CallStep
<1>3. CASE ~Interrupted(k, r)
  <2>1. Schedule(k, r, FALSE) /\ Reply(k, r) /\ call' = [call EXCEPT ![c] = IdleCall]
    BY <1>3 DEF ReadTask
  <2>2. mem' = [mem EXCEPT ![k] = r]
    BY <1>1 DEF TypeOK
  <2>3. ASSUME NEW d \in Calls \ {c}, d[1] = k
        PROVE  /\ ~Creates(call[d])
               /\ Interrupts(call[d]) =>
                    /\ r.receipt = Unsigned
                    /\ r.state # "completed"
                    /\ call[d].rec = Failed(r)
                    /\ r.version = "0.2" \/ mode = "live"
                    /\ FALSE => r.state # "submitted"
    BY <2>3 DEF IInv, CallTied
  <2>4. \A t \in told[k] : t.state # "submitted" => r.state # "submitted"
    BY <1>1 DEF Agrees
  <2>5. /\ disk[k] # NoRecord
        /\ disk[k].acc = r.acc
        /\ r.state # "submitted" => disk[k] = r
        /\ r.state = "submitted" => r.receipt = Unsigned
    BY <1>1 DEF Agrees
  <2>6. job[k].pc # "idle" => mem[k] = r
    OBVIOUS
  <2> HIDE DEF r, k
  <2>7. UNCHANGED <<disk, process, mode>> /\ FALSE \in BOOLEAN
    OBVIOUS
  <2> USE DEF k
  <2> QED BY <2>7, <1>1, <2>1, <2>2, <2>3, <2>4, <2>5, <2>6, AnswerStep
<1> QED BY <1>2, <1>3

\* A handler that puts its record on disk, an acceptance nobody was told of or the
\* failure of an unfinished task, keeps the invariant.
LEMMA CallRenamesStep ==
  ASSUME TypeOK, IInv, NEW c \in Calls, CallRenames(c)
  PROVE  IInv'
<1> DEFINE k == c[1]
           r == call[c].rec
<1>0. k \in Interactions
  BY DEF Calls
<1>1. /\ call[c].pc = "saving" /\ r \in Records /\ r # NoRecord /\ process # "down"
      /\ CallTied(c) /\ Agrees(k) /\ JobTied(k)
  BY <1>0, NoRecordAssumption DEF CallRenames, TypeOK, CallStates, IInv, CallTied
<1>2. UNCHANGED <<mem, job, process, mode, told>>
  BY DEF CallRenames
<1>3. /\ disk'[k] = r /\ \A j \in Interactions \ {k} : disk'[j] = disk[j]
      /\ call'[c].pc = "renamed" /\ call'[c].rec = r /\ call'[c].kind = call[c].kind
      /\ \A d \in Calls \ {c} : call'[d] = call[d]
  BY <1>0 DEF CallRenames, TypeOK, CallStates
<1>4. Creates(call[c])' = Creates(call[c]) /\ Interrupts(call[c])' = Interrupts(call[c])
  BY <1>1, <1>3 DEF Creates, Interrupts
<1>5. \/ Creates(call[c]) /\ r.state = "submitted"
      \/ Interrupts(call[c]) /\ r = Failed(mem[k])
  BY <1>1 DEF CallTied, Creates, Interrupts
<1>6. Agrees(k)'
  <2>1. CASE Creates(call[c]) /\ r.state = "submitted"
    <3>1. mem[k] = NoRecord /\ told[k] = {} /\ r.receipt = Unsigned
      BY <1>1, <2>1 DEF CallTied, Agrees
    <3> QED BY <1>1, <1>2, <1>3, <3>1 DEF Agrees
  <2>2. CASE Interrupts(call[c]) /\ r = Failed(mem[k])
    <3>1. mem[k] \in Records /\ mem[k].receipt = Unsigned /\ mem[k].state # "completed"
      BY <1>0, <1>1, <2>2 DEF CallTied, TypeOK
    <3>2. r.acc = mem[k].acc /\ r.state = "failed" /\ r.receipt = Unsigned
          /\ (mem[k].state # "submitted" => r = mem[k])
      BY <2>2, <3>1, FailedFields DEF Records
    <3>3. told[k] # {} => disk[k] # NoRecord
      BY <1>1 DEF Agrees
    <3>4. \A t \in told[k] : t.acc = r.acc /\ (t.state # "submitted" => r = disk[k])
      BY <1>1, <3>1, <3>2, NoRecordAssumption DEF Agrees
    <3> QED BY <1>1, <1>2, <1>3, <3>1, <3>2, <3>3, <3>4, NoRecordAssumption DEF Agrees
  <2> QED BY <1>5, <2>1, <2>2
<1>7. \A j \in Interactions \ {k} : Agrees(j)'
  BY <1>2, <1>3 DEF IInv, Agrees
<1>8. job[k].pc = "idle"
  BY <1>1, <1>5 DEF CallTied, JobTied
<1>9. \A j \in Interactions : JobTied(j)'
  BY <1>2, <1>3, <1>8 DEF IInv, JobTied
<1>10. ASSUME NEW d \in Calls PROVE CallTied(d)'
  <2>1. CASE d = c
    BY <1>1, <1>2, <1>3, <1>4, <2>1 DEF CallTied
  <2>2. CASE d # c /\ d[1] = k
    <3>1. CallTied(d) /\ call'[d] = call[d]
      BY <1>3, <2>2 DEF IInv
    <3>2. call[d].pc = "renamed" => r = call[d].rec
      <4>1. ~(Creates(call[c]) /\ Creates(call[d]))
        BY <2>2 DEF IInv, OneCreator
      <4> QED BY <1>1, <1>5, <2>2, <3>1, <4>1 DEF CallTied
    <3> QED BY <1>2, <1>3, <2>2, <3>1, <3>2 DEF CallTied
  <2>3. CASE d # c /\ d[1] # k
    <3>1. d[1] \in Interactions \ {k}
      BY <2>3 DEF Calls
    <3> QED BY <1>2, <1>3, <2>3, <3>1 DEF IInv, CallTied
  <2> QED BY <2>1, <2>2, <2>3
<1>11. OneCreator'
  BY <1>3, <1>4 DEF IInv, OneCreator
<1> QED BY <1>6, <1>7, <1>9, <1>10, <1>11 DEF IInv

\* A handler whose record has become durable shows, schedules and answers it.
LEMMA CallCommitsStep ==
  ASSUME TypeOK, IInv, NEW c \in Calls, CallCommits(c)
  PROVE  IInv'
<1> DEFINE k == c[1]
           r == call[c].rec
<1>1. /\ k \in Interactions /\ r \in Records /\ r # NoRecord /\ process # "down"
      /\ call[c].pc = "renamed" /\ disk[k] = r
      /\ CallTied(c) /\ Agrees(k) /\ JobTied(k)
  BY NoRecordAssumption DEF CallCommits, TypeOK, CallStates, Calls, IInv, CallTied
<1>2. /\ Schedule(k, r, TRUE) /\ Reply(k, r)
      /\ call' = [call EXCEPT ![c] = IdleCall]
      /\ mem' = [mem EXCEPT ![k] = r]
      /\ UNCHANGED <<disk, process, mode>>
  BY DEF CallCommits
<1>3. \/ Creates(call[c]) /\ r.state = "submitted"
      \/ Interrupts(call[c]) /\ r = Failed(mem[k])
  BY <1>1 DEF CallTied, Creates, Interrupts
<1>4. job[k].pc = "idle"
  BY <1>1, <1>3 DEF CallTied, JobTied
<1>5. /\ r.state = "submitted" => r.receipt = Unsigned
      /\ \A t \in told[k] : t.state # "submitted" => r.state # "submitted"
  <2>1. CASE Creates(call[c]) /\ r.state = "submitted"
    BY <1>1, <2>1 DEF CallTied, Agrees
  <2>2. CASE Interrupts(call[c]) /\ r = Failed(mem[k])
    BY <2>2 DEF Interrupts
  <2> QED BY <1>3, <2>1, <2>2
<1>6. ASSUME NEW d \in Calls \ {c}, d[1] = k
      PROVE  /\ ~Creates(call[d])
             /\ Interrupts(call[d]) =>
                  /\ r.receipt = Unsigned
                  /\ r.state # "completed"
                  /\ call[d].rec = Failed(r)
                  /\ r.version = "0.2" \/ mode = "live"
                  /\ TRUE => r.state # "submitted"
  <2>1. CallTied(d)
    BY DEF IInv
  <2>2. CASE Creates(call[c]) /\ r.state = "submitted"
    <3>1. ~Creates(call[d])
      BY <1>6, <2>2 DEF IInv, OneCreator
    <3>2. ~Interrupts(call[d])
      BY <1>1, <1>6, <2>1, <2>2 DEF CallTied
    <3> QED BY <3>1, <3>2
  <2>3. CASE Interrupts(call[c]) /\ r = Failed(mem[k])
    <3>1. mem[k] \in Records /\ mem[k].receipt = Unsigned
      BY <1>1, <2>3 DEF CallTied, TypeOK
    <3>2. /\ r.state = "failed" /\ r.receipt = Unsigned /\ r.version = mem[k].version
          /\ Failed(r) = r
      BY <1>1, <2>3, <3>1, FailedFields
    <3>3. ~Creates(call[d])
      BY <1>1, <1>6, <2>1, <2>3 DEF CallTied
    <3>4. Interrupts(call[d]) => /\ call[d].rec = Failed(mem[k])
                                 /\ mem[k].version = "0.2" \/ mode = "live"
      BY <1>6, <2>1 DEF CallTied
    <3> QED BY <2>3, <3>2, <3>3, <3>4
  <2> QED BY <1>3, <2>2, <2>3
<1> HIDE DEF r, k
<1>7. UNCHANGED <<disk, process, mode>> /\ TRUE \in BOOLEAN /\ process # "down"
  BY <1>1, <1>2
<1> USE DEF k
<1> QED BY <1>1, <1>2, <1>4, <1>5, <1>6, <1>7, AnswerStep

\* An execution that puts its end on disk replaces the unfinished record it works on.
LEMMA JobRenamesStep ==
  ASSUME TypeOK, IInv, NEW k \in Interactions, JobRenames(k)
  PROVE  IInv'
<1>1. /\ job[k].pc = "saving" /\ job[k].rec \in Records /\ job[k].rec # NoRecord
      /\ Agrees(k) /\ JobTied(k)
  BY NoRecordAssumption DEF JobRenames, TypeOK, Jobs, IInv
<1>2. UNCHANGED <<mem, call, process, mode, told>>
  BY DEF JobRenames
<1>3. /\ disk'[k] = job[k].rec /\ \A j \in Interactions \ {k} : disk'[j] = disk[j]
      /\ job'[k].pc = "renamed" /\ job'[k].rec = job[k].rec
      /\ \A j \in Interactions \ {k} : job'[j] = job[j]
  BY DEF JobRenames, TypeOK, Jobs
<1>4. ASSUME NEW j \in Interactions PROVE Agrees(j)' /\ JobTied(j)'
  <2>1. CASE j = k
    BY <1>1, <1>2, <1>3, <2>1 DEF Agrees, JobTied
  <2>2. CASE j # k
    BY <1>2, <1>3, <2>2 DEF IInv, Agrees, JobTied
  <2> QED BY <2>1, <2>2
<1>5. ASSUME NEW c \in Calls PROVE CallTied(c)'
  <2>1. CallTied(c) /\ c[1] \in Interactions
    BY DEF IInv, Calls
  <2>2. call[c].pc \notin {"idle", "waiting"} => c[1] # k
    BY <1>1, <2>1 DEF CallTied, JobTied
  <2> QED BY <1>2, <1>3, <2>1, <2>2 DEF CallTied, Creates, Interrupts
<1>6. OneCreator'
  BY <1>2 DEF IInv, OneCreator
<1> QED BY <1>4, <1>5, <1>6 DEF IInv

\* An execution shows the end it has put on disk and leaves.
LEMMA JobCommitsStep ==
  ASSUME TypeOK, IInv, NEW k \in Interactions, JobCommits(k)
  PROVE  IInv'
<1>1. /\ job[k].pc = "renamed" /\ job[k].rec \in Records /\ job[k].rec # NoRecord
      /\ Agrees(k) /\ JobTied(k)
  BY NoRecordAssumption DEF JobCommits, TypeOK, Jobs, IInv
<1>2. UNCHANGED <<disk, call, process, mode, told>>
  BY DEF JobCommits
<1>3. /\ mem'[k] = job[k].rec /\ \A j \in Interactions \ {k} : mem'[j] = mem[j]
      /\ job'[k].pc = "idle" /\ \A j \in Interactions \ {k} : job'[j] = job[j]
  BY DEF JobCommits, TypeOK, IdleJob
<1>4. ASSUME NEW j \in Interactions PROVE Agrees(j)' /\ JobTied(j)'
  <2>1. CASE j = k
    BY <1>1, <1>2, <1>3, <2>1 DEF Agrees, JobTied
  <2>2. CASE j # k
    BY <1>2, <1>3, <2>2 DEF IInv, Agrees, JobTied
  <2> QED BY <2>1, <2>2
<1>5. ASSUME NEW c \in Calls PROVE CallTied(c)'
  <2>1. CallTied(c) /\ c[1] \in Interactions
    BY DEF IInv, Calls
  <2>2. call[c].pc \notin {"idle", "waiting"} => c[1] # k
    BY <1>1, <2>1 DEF CallTied, JobTied
  <2> QED BY <1>2, <1>3, <2>1, <2>2 DEF CallTied, Creates, Interrupts
<1>6. OneCreator'
  BY <1>2 DEF IInv, OneCreator
<1> QED BY <1>4, <1>5, <1>6 DEF IInv

\* A stop or a crash loses the memory and everything in progress, never the disk.
LEMMA DownStep ==
  ASSUME TypeOK, IInv, Down
  PROVE  IInv'
<1>1. /\ \A c \in Calls : call'[c].pc = "idle"
      /\ \A k \in Interactions : job'[k].pc = "idle" /\ mem'[k] = NoRecord
      /\ process' = "down" /\ UNCHANGED <<disk, told, mode>>
  BY DEF Down, IdleCall, IdleJob
<1>2. \A k \in Interactions : Agrees(k)' /\ JobTied(k)'
  BY <1>1 DEF IInv, Agrees, JobTied
<1>3. \A c \in Calls : CallTied(c)'
  BY <1>1 DEF CallTied, Creates, Interrupts
<1>4. OneCreator'
  BY <1>1 DEF OneCreator, Creates
<1> QED BY <1>2, <1>3, <1>4 DEF IInv

\* A restart finds on disk all that clients were told.
LEMMA RestartStep ==
  ASSUME TypeOK, IInv, Restart
  PROVE  IInv'
<1>1. /\ process = "down" /\ process' = "up" /\ mem' = disk
      /\ UNCHANGED <<disk, call, job, told>>
  BY DEF Restart
<1>2. /\ \A c \in Calls : call[c].pc = "idle"
      /\ \A k \in Interactions : job[k].pc = "idle"
  BY <1>1 DEF IInv, CallTied, JobTied
<1>3. ASSUME NEW k \in Interactions PROVE Agrees(k)' /\ JobTied(k)'
  <2>1. Agrees(k)
    BY DEF IInv
  <2> QED BY <1>1, <1>2, <2>1 DEF Agrees, JobTied
<1>4. \A c \in Calls : CallTied(c)'
  BY <1>1, <1>2 DEF CallTied, Creates, Interrupts
<1>5. OneCreator'
  BY <1>1, <1>2 DEF OneCreator, Creates
<1> QED BY <1>3, <1>4, <1>5 DEF IInv

\* The claimed time and the sealed receipt leave an execution tied to its task.
LEMMA ClaimsStep ==
  ASSUME TypeOK, IInv, NEW k \in Interactions, NEW stage \in {"prework", "answer", "error"},
         job[k].pc # "idle",
         job' = [job EXCEPT ![k] = Claims(k, stage)],
         UNCHANGED <<disk, mem, call, process, mode, told>>
  PROVE  IInv'
<1>1. job[k] \in Jobs /\ job[k].rec \in Records /\ JobTied(k)
  BY DEF TypeOK, Jobs, IInv
<1>2. \/ /\ Claims(k, stage).pc = "observing" /\ Claims(k, stage).rec = job[k].rec
      \/ /\ Claims(k, stage).pc = "saving" /\ Claims(k, stage).rec = Failed(job[k].rec)
  BY <1>1 DEF Claims, Jobs
<1>3. job'[k] = Claims(k, stage)
  BY DEF TypeOK
<1>4. JobTied(k)'
  BY <1>1, <1>2, <1>3, FailedFields DEF JobTied
<1> QED BY <1>4, JobStep

\* A sealed receipt leaves an execution tied to its task.
LEMMA SealedStep ==
  ASSUME TypeOK, IInv, NEW k \in Interactions,
         NEW outcome \in {"completed", "failed", "expired"}, NEW answer \in Nat,
         job[k].pc # "idle",
         job' = Sealed(k, outcome, answer),
         UNCHANGED <<disk, mem, call, process, mode, told>>
  PROVE  IInv'
<1>1. job[k] \in Jobs /\ job[k].rec \in Records /\ JobTied(k)
  BY DEF TypeOK, Jobs, IInv
<1>2. PICK y : job' = [job EXCEPT ![k] = y]
  BY DEF Sealed
<1>3. /\ job'[k].pc = "saving"
      /\ job'[k].rec.acc = job[k].rec.acc
      /\ job'[k].rec.version = job[k].rec.version
      /\ job'[k].rec.state # "submitted"
  BY <1>1 DEF Sealed, TypeOK, Jobs, Records
<1>4. JobTied(k)'
  BY <1>1, <1>3 DEF JobTied
<1> QED BY <1>1, <1>2, <1>4, JobStep DEF JobTied

\* Every step, action by action, keeps the invariant.
LEMMA StepIInv == TypeOK /\ IInv /\ [Next]_vars => IInv'
<1> SUFFICES ASSUME TypeOK, IInv, [Next]_vars PROVE IInv'
  OBVIOUS
<1> USE DEF budget
<1>1. ASSUME NEW c \in Calls, NEW d \in Contents, SendArrives(c, d) PROVE IInv'
  <2> DEFINE x == [IdleCall EXCEPT !.pc = "waiting", !.kind = "send", !.content = d]
  <2>1. x \in CallStates /\ x.pc = "waiting"
    BY IdleType DEF IdleCall, CallStates
  <2>2. call' = [call EXCEPT ![c] = x] /\ UNCHANGED <<disk, mem, job, process, mode, told>>
        /\ process # "down"
    BY <1>1 DEF SendArrives, Serving
  <2> HIDE DEF x
  <2>3. CallTied(c)' /\ ~Creates(x)
    BY <2>1, <2>2 DEF CallTied, Creates, Interrupts, TypeOK
  <2> QED BY <2>1, <2>2, <2>3, CallStep
<1>2. ASSUME NEW c \in Calls, SendReplays(c) PROVE IInv'
  <2>1. process # "down" /\ mem[c[1]] # NoRecord /\ UNCHANGED <<disk, mem, process, mode>>
    BY <1>2 DEF SendReplays, IInv, CallTied
  <2>2. CASE mem[c[1]].content # call[c].content
    <3>1. call' = [call EXCEPT ![c] = IdleCall] /\ UNCHANGED <<disk, mem, job, process, mode, told>>
      BY <1>2, <2>2 DEF SendReplays
    <3>2. CallTied(c)' /\ ~Creates(IdleCall)
      BY <3>1 DEF CallTied, Creates, Interrupts, IdleCall, TypeOK
    <3> QED BY <3>1, <3>2, IdleType, CallStep
  <2>3. CASE mem[c[1]].content = call[c].content
    <3>1. ReadTask(c, "send", mem[c[1]])
      BY <1>2, <2>3 DEF SendReplays
    <3> QED BY <2>1, <3>1, ReadTaskStep
  <2> QED BY <2>2, <2>3
<1>3. ASSUME NEW c \in Calls, SendBegins(c) PROVE IInv'
  <2>1. PICK x \in CallStates :
          /\ call' = [call EXCEPT ![c] = x]
          /\ x.pc \in {"observing", "idle"}
          /\ x.pc = "observing" => x.kind = "send"
    <3>1. [call[c] EXCEPT !.pc = "observing", !.at = clock] \in CallStates
      <4>1. call[c] \in CallStates /\ call[c].pc = "waiting" /\ clock \in Time
        BY <1>3 DEF SendBegins, TypeOK
      <4> QED BY <4>1 DEF CallStates
    <3>2. call[c].kind = "send"
      BY <1>3 DEF SendBegins, TypeOK, CallStates
    <3> QED BY <1>3, <3>1, <3>2, IdleType DEF SendBegins, IdleCall, TypeOK, CallStates
  <2>2. UNCHANGED <<disk, mem, job, process, mode, told>> /\ ~Locked(c[1])
        /\ mem[c[1]] = NoRecord /\ process # "down"
    BY <1>3 DEF SendBegins, IInv, CallTied
  <2>3. CallTied(c)'
    BY <2>1, <2>2 DEF CallTied, Creates, Interrupts, TypeOK
  <2> QED BY <2>1, <2>2, <2>3, CallStep
<1>4. ASSUME NEW c \in Calls, SendProbes(c) PROVE IInv'
  <2> DEFINE x == [call[c] EXCEPT !.pc = "observed", !.auth = intact]
  <2>1. /\ x \in CallStates /\ x.pc = "observed" /\ x.kind = call[c].kind
        /\ call[c].pc = "observing" /\ call[c].kind = "send"
    BY <1>4 DEF SendProbes, TypeOK, CallStates
  <2>2. call' = [call EXCEPT ![c] = x] /\ UNCHANGED <<disk, mem, job, process, mode, told>>
    BY <1>4 DEF SendProbes, TypeOK
  <2> HIDE DEF x
  <2>3. Creates(call[c])
    BY <2>1 DEF Creates
  <2>4. CallTied(c)'
    BY <2>1, <2>2, <2>3 DEF IInv, CallTied, Creates, Interrupts, TypeOK
  <2> QED BY <2>1, <2>2, <2>3, <2>4, CallStep
<1>5. ASSUME NEW c \in Calls, SendRefused(c) \/ CallSaveFails(c) PROVE IInv'
  <2>1. call' = [call EXCEPT ![c] = IdleCall] /\ UNCHANGED <<disk, mem, job, process, mode, told>>
    BY <1>5 DEF SendRefused, CallSaveFails
  <2>2. CallTied(c)' /\ ~Creates(IdleCall)
    BY <2>1 DEF CallTied, Creates, Interrupts, IdleCall, TypeOK
  <2> QED BY <2>1, <2>2, IdleType, CallStep
<1>6. ASSUME NEW c \in Calls, SendAccepts(c) PROVE IInv'
  <2> DEFINE r == [version |-> IF mode = "fixture" THEN "0.1" ELSE "0.2",
                   content |-> call[c].content, acc |-> minted + 1,
                   acceptedAt |-> call[c].at, state |-> "submitted",
                   receipt |-> Unsigned]
  <2>1. /\ call' = [call EXCEPT ![c] = [call[c] EXCEPT !.pc = "saving", !.rec = r]]
        /\ r.state = "submitted" /\ r.receipt = Unsigned
    BY <1>6 DEF SendAccepts, TypeOK
  <2> HIDE DEF r
  <2>2. call[c].pc = "observed" /\ call[c].kind = "send" /\ Creates(call[c])
    BY <1>6 DEF SendAccepts, TypeOK, CallStates, Creates
  <2>3. call' \in [Calls -> CallStates]
    BY <1>6, StepType DEF Next, CallProgress, TypeOK
  <2>4. /\ call'[c] \in CallStates /\ call'[c].pc = "saving" /\ call'[c].rec = r
        /\ call'[c].kind = "send" /\ call' = [call EXCEPT ![c] = call'[c]]
    BY <2>1, <2>2, <2>3 DEF TypeOK, CallStates
  <2>5. UNCHANGED <<disk, mem, job, process, mode, told>>
    BY <1>6 DEF SendAccepts
  <2>6. CallTied(c)'
    BY <2>1, <2>2, <2>4, <2>5 DEF IInv, CallTied, Creates, Interrupts
  <2> QED BY <2>2, <2>4, <2>5, <2>6, CallStep
<1>7. ASSUME NEW c \in Calls, GetTask(c) PROVE IInv'
  <2>1. /\ process # "down" /\ mem[c[1]] # NoRecord /\ ReadTask(c, "get", mem[c[1]])
        /\ UNCHANGED <<disk, mem, process, mode>>
    BY <1>7 DEF GetTask, Serving
  <2> QED BY <2>1, ReadTaskStep
<1>8. ASSUME NEW c \in Calls, CallRenames(c) PROVE IInv'
  BY <1>8, CallRenamesStep
<1>9. ASSUME NEW c \in Calls, CallCommits(c) PROVE IInv'
  BY <1>9, CallCommitsStep
<1>10. ASSUME NEW k \in Interactions, JobStarts(k) PROVE IInv'
  BY <1>10, ClaimsStep DEF JobStarts
<1>11. ASSUME NEW k \in Interactions, JobProbes(k) PROVE IInv'
  <2>1. /\ job' = [job EXCEPT ![k] = [job[k] EXCEPT !.pc = "observed", !.auth = intact]]
        /\ job'[k].pc = "observed" /\ job'[k].rec = job[k].rec /\ job[k].pc = "observing"
        /\ UNCHANGED <<disk, mem, call, process, mode, told>>
    BY <1>11 DEF JobProbes, TypeOK, Jobs
  <2>2. JobTied(k)'
    BY <2>1 DEF IInv, JobTied
  <2> QED BY <2>1, <2>2, JobStep
<1>12. ASSUME NEW k \in Interactions, JobGivesUp(k) PROVE IInv'
  <2>1. /\ job' = [job EXCEPT ![k] = [job[k] EXCEPT !.pc = "saving",
                                                    !.rec = Failed(job[k].rec)]]
        /\ job'[k].pc = "saving" /\ job'[k].rec = Failed(job[k].rec)
        /\ job[k].pc = "observed" /\ job[k].rec \in Records
        /\ UNCHANGED <<disk, mem, call, process, mode, told>>
    BY <1>12 DEF JobGivesUp, TypeOK, Jobs
  <2>2. JobTied(k)'
    BY <2>1, FailedFields DEF IInv, JobTied
  <2> QED BY <2>1, <2>2, JobStep
<1>13. ASSUME NEW k \in Interactions, JobExpires(k) PROVE IInv'
  BY <1>13, SealedStep DEF JobExpires, Covered
<1>14. ASSUME NEW k \in Interactions, JobExecutes(k) PROVE IInv'
  <2>1. /\ job' = [job EXCEPT ![k] = [job[k] EXCEPT !.pc = "executing"]]
        /\ job'[k].pc = "executing" /\ job'[k].rec = job[k].rec /\ job[k].pc = "observed"
        /\ UNCHANGED <<disk, mem, call, process, mode, told>>
    BY <1>14 DEF JobExecutes, Covered, TypeOK, Jobs
  <2>2. JobTied(k)'
    BY <2>1 DEF IInv, JobTied
  <2> QED BY <2>1, <2>2, JobStep
<1>15. ASSUME NEW k \in Interactions, ExecutorSettles(k) PROVE IInv'
  BY <1>15, ClaimsStep DEF ExecutorSettles
<1>16. ASSUME NEW k \in Interactions, ExecutorTimesOut(k) PROVE IInv'
  BY <1>16, ClaimsStep DEF ExecutorTimesOut
<1>17. ASSUME NEW k \in Interactions, JobSeals(k) PROVE IInv'
  <2>1. job' = Sealed(k, "completed", runs[k]) \/ job' = Sealed(k, "failed", 0)
    BY <1>17 DEF JobSeals
  <2>2. runs[k] \in Nat /\ job[k].pc # "idle" /\ UNCHANGED <<disk, mem, call, process, mode, told>>
    BY <1>17 DEF JobSeals, Covered, TypeOK
  <2> QED BY <2>1, <2>2, SealedStep
<1>18. ASSUME NEW k \in Interactions, JobRenames(k) PROVE IInv'
  BY <1>18, JobRenamesStep
<1>19. ASSUME NEW k \in Interactions, JobCommits(k) PROVE IInv'
  BY <1>19, JobCommitsStep
<1>20. ASSUME NEW k \in Interactions, JobSaveFails(k) PROVE IInv'
  <2>1. /\ job' = [job EXCEPT ![k] = IdleJob] /\ job[k].pc # "idle"
        /\ UNCHANGED <<disk, mem, call, process, mode, told>>
    BY <1>20 DEF JobSaveFails
  <2>2. JobTied(k)'
    BY <2>1 DEF JobTied, IdleJob, TypeOK
  <2> QED BY <2>1, <2>2, JobStep
<1>21. CASE \/ Tick \/ Rewind \/ AuthorityLost \/ Close \/ Drain
            \/ \E k \in Interactions : DetachedSettles(k) \/ LicenseExpires(k)
  BY <1>21, EnvironmentStep
     DEF Tick, Rewind, AuthorityLost, Close, Drain, DetachedSettles, LicenseExpires
<1>22. CASE Stop \/ Crash
  BY <1>22, DownStep DEF Stop, Crash
<1>23. CASE Restart
  BY <1>23, RestartStep
<1>24. CASE UNCHANGED vars
  BY <1>24, EnvironmentStep DEF vars
<1> QED
  BY <1>1, <1>2, <1>3, <1>4, <1>5, <1>6, <1>7, <1>8, <1>9, <1>10, <1>11, <1>12, <1>13,
     <1>14, <1>15, <1>16, <1>17, <1>18, <1>19, <1>20, <1>21, <1>22, <1>23, <1>24
     DEF Next, CallProgress, JobProgress

\* Disk, memory, running handlers and running executions stay tied to each other.
THEOREM Invariance == Spec => [](TypeOK /\ IInv)
BY InitType, InitIInv, StepType, StepIInv, PTL DEF Spec

\* Persist before telling or working: what a client was told and what an executor
\* works on is the acceptance on disk.
THEOREM DurableFirstHolds == Spec => []DurableFirst
BY Invariance, IInvImpliesDurableFirst, PTL

\* A terminal result that a client was told of is never overwritten on disk.
THEOREM ToldResultKeptHolds == Spec => []ToldResultKept
BY Invariance, IInvImpliesToldResultKept, PTL

--------------------------------------------------------------------------------
(* TaskRuntime implements InteractionContract.                             *)

\* A step tells the clients of at most one interaction at most one thing.
LEMMA ToldStep ==
  ASSUME TypeOK, [Next]_vars
  PROVE  \/ told' = told
         \/ \E k \in Interactions : \E t : told' = [told EXCEPT ![k] = @ \cup {t}]
<1> USE DEF budget
<1>1. ASSUME NEW c \in Calls, NEW kind, NEW r, ReadTask(c, kind, r)
      PROVE  \/ told' = told
             \/ \E k \in Interactions : \E t : told' = [told EXCEPT ![k] = @ \cup {t}]
  <2>1. c[1] \in Interactions
    BY DEF Calls
  <2>2. told' = told \/ Reply(c[1], r)
    BY <1>1 DEF ReadTask
  <2> QED BY <2>1, <2>2, ReplyEffect
<1>2. ASSUME NEW c \in Calls, SendReplays(c) \/ GetTask(c)
      PROVE  \/ told' = told
             \/ \E k \in Interactions : \E t : told' = [told EXCEPT ![k] = @ \cup {t}]
  BY <1>1, <1>2 DEF SendReplays, GetTask
<1>3. ASSUME NEW c \in Calls, CallCommits(c)
      PROVE  \E k \in Interactions : \E t : told' = [told EXCEPT ![k] = @ \cup {t}]
  <2>1. c[1] \in Interactions /\ Reply(c[1], call[c].rec)
    BY <1>3 DEF CallCommits, Calls
  <2> QED BY <2>1, ReplyEffect
<1>4. CASE \E c \in Calls :
             \/ SendBegins(c) \/ SendProbes(c) \/ SendRefused(c) \/ SendAccepts(c)
             \/ CallRenames(c) \/ CallSaveFails(c) \/ \E d \in Contents : SendArrives(c, d)
  BY <1>4 DEF SendBegins, SendProbes, SendRefused, SendAccepts, CallRenames, CallSaveFails,
              SendArrives
<1>5. CASE \E k \in Interactions :
             \/ JobProgress(k) \/ JobSaveFails(k) \/ DetachedSettles(k) \/ LicenseExpires(k)
  BY <1>5 DEF JobProgress, JobStarts, JobProbes, JobGivesUp, JobExpires, JobExecutes,
              ExecutorSettles, ExecutorTimesOut, JobSeals, JobRenames, JobCommits,
              JobSaveFails, DetachedSettles, LicenseExpires
<1>6. CASE Tick \/ Rewind \/ AuthorityLost \/ Close \/ Drain \/ Stop \/ Crash \/ Restart
           \/ UNCHANGED vars
  BY <1>6 DEF Tick, Rewind, AuthorityLost, Close, Drain, Stop, Crash, Down, Restart, vars
<1> QED BY <1>2, <1>3, <1>4, <1>5, <1>6 DEF Next, CallProgress

\* The acceptances and the terminal results clients know of, per interaction.
Promised == [k \in Interactions |-> {t.acc : t \in told[k]}]
Settled ==
  [k \in Interactions |->
    {<<t.state, t.receipt>> : t \in {u \in told[k] : u.state # "submitted"}}]

\* The refinement mapping takes an initial state to an initial state.
LEMMA ContractInit == Init => Contract!Init
<1> SUFFICES ASSUME Init PROVE Contract!Init
  OBVIOUS
<1>1. \A k \in Interactions : told[k] = {}
  BY DEF Init
<1> QED BY <1>1 DEF Contract!Init

\* It takes a step to a step of the contract or to a stutter: what is told anew is
\* the acceptance and the result on disk, and so is everything told before.
LEMMA ContractStep ==
  TypeOK /\ IInv' /\ [Next]_vars => [Contract!Next]_(Contract!vars)
<1> SUFFICES ASSUME TypeOK, IInv', [Next]_vars PROVE [Contract!Next]_(Contract!vars)
  OBVIOUS
<1> USE DEF Contract!vars
<1>1. CASE told' = told
  BY <1>1
<1>2. ASSUME NEW k \in Interactions, NEW t, told' = [told EXCEPT ![k] = @ \cup {t}]
      PROVE  [Contract!Next]_(Contract!vars)
  <2>1. told'[k] = told[k] \cup {t} /\ \A j \in Interactions \ {k} : told'[j] = told[j]
    BY <1>2 DEF TypeOK
  <2>2. \A u \in told[k] :
          /\ u.acc = t.acc
          /\ u.state # "submitted" /\ t.state # "submitted" =>
               u.state = t.state /\ u.receipt = t.receipt
    BY <2>1 DEF IInv, Agrees
  <2> DEFINE result == <<t.state, t.receipt>>
             terminal == {u \in told[k] : u.state # "submitted"}
  <2>3. /\ told[k] = {} => Promised[k] = {} /\ Promised' = [Promised EXCEPT ![k] = {t.acc}]
        /\ told[k] # {} => Promised[k] # {} /\ Promised' = Promised
    BY <2>1, <2>2 DEF Promised
  <2>4. /\ t.state = "submitted" \/ terminal # {} => Settled' = Settled
        /\ t.state # "submitted" /\ terminal = {} =>
             Settled[k] = {} /\ Settled' = [Settled EXCEPT ![k] = {result}]
    <3>1. \A j \in Interactions \ {k} : Settled'[j] = Settled[j]
      BY <2>1 DEF Settled
    <3>2. t.state = "submitted" => Settled'[k] = Settled[k]
      BY <2>1 DEF Settled
    <3>3. t.state # "submitted" => Settled'[k] = Settled[k] \cup {result}
      BY <2>1 DEF Settled
    <3>4. terminal # {} /\ t.state # "submitted" => result \in Settled[k]
      BY <2>2 DEF Settled
    <3>5. terminal = {} => Settled[k] = {}
      BY DEF Settled
    <3>6. /\ Settled = [j \in Interactions |-> Settled[j]]
          /\ Settled' = [j \in Interactions |-> Settled'[j]]
      BY DEF Settled
    <3> HIDE DEF result, terminal
    <3>7. CASE t.state = "submitted" \/ terminal # {}
      <4>1. Settled'[k] = Settled[k]
        BY <3>2, <3>3, <3>4, <3>7
      <4> QED BY <3>1, <3>6, <3>7, <4>1
    <3>8. CASE t.state # "submitted" /\ terminal = {}
      BY <3>1, <3>3, <3>5, <3>6, <3>8
    <3> QED BY <3>7, <3>8
  <2>5. Promised' = [Promised EXCEPT ![k] = {t.acc}] => t.acc \in Promised'[k]
    BY DEF Promised
  <2>6. Settled' = [Settled EXCEPT ![k] = {result}] => result \in Settled'[k]
    BY DEF Settled
  <2> HIDE DEF result, terminal
  <2> QED
    BY <2>3, <2>4, <2>5, <2>6
       DEF Promised, Settled, Contract!Next, Contract!Promise, Contract!Settle,
           Contract!PromiseSettled, Contract!ChoosesPromise, Contract!ChoosesResult, terminal
<1> QED BY <1>1, <1>2, ToldStep

\* One acceptance and one terminal result per interaction are ever told, whatever
\* crashes, failed writes, restarts, replays and polls occur: TaskRuntime implements
\* InteractionContract.
THEOREM ContractImplemented == Spec => ImplementsContract
<1>1. Spec => [](TypeOK /\ IInv)
  BY Invariance
<1> QED BY <1>1, ContractInit, ContractStep, PTL DEF Spec, ImplementsContract, Contract!Spec

--------------------------------------------------------------------------------
(* Receipts are truthful.                                                  *)

\* What TruthfulReceipts says of one record.
Truthful(r) ==
  /\ r.acceptedAt \in CreatedAt..Deadline
  /\ r.receipt.outcome # "none" =>
       /\ r.acceptedAt <= r.receipt.recordedAt
       /\ r.receipt.outcome = "expired" <=> r.receipt.recordedAt > Deadline
       /\ r.receipt.intact

\* A handler that saves carries a truthful record, and one that observes authority has
\* taken its time within the signed window.
CallTruthful(x) ==
  /\ x.pc \in {"saving", "renamed"} => Truthful(x.rec)
  /\ x.pc \in {"observing", "observed"} => x.at \in CreatedAt..Deadline

\* An execution that observes authority has claimed a time that does not precede the
\* acceptance, and if the authority it sees stands it stood then: it is never regained.
JobTruthful(k) ==
  job[k].pc # "idle" =>
    /\ Truthful(job[k].rec)
    /\ job[k].pc \in {"observing", "observed"} => job[k].rec.acceptedAt <= job[k].at
    /\ job[k].pc = "observing" /\ intact => job[k].intact
    /\ job[k].pc = "observed" /\ job[k].auth => job[k].intact

TInv ==
  /\ \A k \in Interactions : /\ disk[k] # NoRecord => Truthful(disk[k])
                             /\ mem[k] # NoRecord => Truthful(mem[k])
                             /\ JobTruthful(k)
  /\ \A c \in Calls : CallTruthful(call[c])

\* Failing a task keeps its times and its receipt.
LEMMA FailedTruthful ==
  ASSUME NEW r \in Records, Truthful(r)
  PROVE  Truthful(Failed(r))
<1>1. Failed(r).acceptedAt = r.acceptedAt /\ Failed(r).receipt = r.receipt
  BY DEF Failed, Records
<1> QED BY <1>1 DEF Truthful

\* A step of one handler alone.
LEMMA CallTruthfulStep ==
  ASSUME TypeOK, TInv, NEW c \in Calls, NEW x,
         call' = [call EXCEPT ![c] = x], CallTruthful(x),
         UNCHANGED <<disk, mem, job, intact>>
  PROVE  TInv'
<1>1. call'[c] = x /\ \A d \in Calls \ {c} : call'[d] = call[d]
  BY DEF TypeOK
<1>2. \A k \in Interactions : JobTruthful(k)'
  BY DEF TInv, JobTruthful
<1> QED BY <1>1, <1>2 DEF TInv

\* A step of one execution alone.
LEMMA JobTruthfulStep ==
  ASSUME TypeOK, TInv, NEW k \in Interactions, NEW y,
         job' = [job EXCEPT ![k] = y],
         UNCHANGED <<disk, mem, call, intact>>,
         JobTruthful(k)'
  PROVE  TInv'
<1>1. \A j \in Interactions \ {k} : job'[j] = job[j]
  BY DEF TypeOK
<1>2. \A j \in Interactions : JobTruthful(j)'
  BY <1>1 DEF TInv, JobTruthful
<1> QED BY <1>2 DEF TInv

\* A handler that is done, refused or has not begun carries nothing.
LEMMA IdleTruthful == CallTruthful(IdleCall)
BY DEF CallTruthful, IdleCall

\* Scheduling hands a truthful record to the execution.
LEMMA ScheduleTruthful ==
  ASSUME TypeOK, TInv, NEW k \in Interactions, NEW r, NEW b, Schedule(k, r, b),
         Truthful(r), UNCHANGED intact
  PROVE  \A j \in Interactions : JobTruthful(j)'
<1>1. \/ job' = job
      \/ \E y : /\ y.pc = "scheduled" /\ y.rec = r
                /\ job' = [job EXCEPT ![k] = y]
  BY ScheduleEffect
<1>2. CASE job' = job
  BY <1>2 DEF TInv, JobTruthful
<1>3. ASSUME NEW y, y.pc = "scheduled", y.rec = r, job' = [job EXCEPT ![k] = y]
      PROVE  \A j \in Interactions : JobTruthful(j)'
  <2>1. job'[k] = y /\ \A j \in Interactions \ {k} : job'[j] = job[j]
    BY <1>3 DEF TypeOK
  <2> QED BY <1>3, <2>1 DEF TInv, JobTruthful
<1> QED BY <1>1, <1>2, <1>3

\* Replaying or polling a task hands on what is in memory.
LEMMA ReadTaskTruthful ==
  ASSUME TypeOK, TInv, NEW c \in Calls, NEW kind \in {"send", "get"},
         mem[c[1]] # NoRecord, ReadTask(c, kind, mem[c[1]]),
         UNCHANGED <<disk, mem, intact>>
  PROVE  TInv'
<1> DEFINE r == mem[c[1]]
           x == [IdleCall EXCEPT !.pc = "saving", !.kind = kind, !.rec = Failed(r)]
<1>1. c[1] \in Interactions /\ r \in Records /\ Truthful(r)
  BY DEF Calls, TypeOK, TInv
<1>2. CASE Interrupted(c[1], r)
  <2>1. call' = [call EXCEPT ![c] = x] /\ UNCHANGED job
    BY <1>2 DEF ReadTask
  <2>2. x.pc = "saving" /\ x.rec = Failed(r)
    BY DEF IdleCall
  <2>3. CallTruthful(x)
    BY <1>1, <2>2, FailedTruthful DEF CallTruthful
  <2> HIDE DEF x
  <2> QED BY <2>1, <2>3, CallTruthfulStep
<1>3. CASE ~Interrupted(c[1], r)
  <2>1. Schedule(c[1], r, FALSE) /\ call' = [call EXCEPT ![c] = IdleCall]
    BY <1>3 DEF ReadTask
  <2>2. \A j \in Interactions : JobTruthful(j)'
    BY <1>1, <2>1, ScheduleTruthful
  <2>3. \A d \in Calls : CallTruthful(call'[d])
    BY <2>1, IdleTruthful DEF TInv, TypeOK
  <2> QED BY <2>2, <2>3 DEF TInv
<1> QED BY <1>2, <1>3

\* An execution claims a time, or fails without one.
LEMMA ClaimsTruthful ==
  ASSUME TypeOK, TInv, NEW k \in Interactions, NEW stage \in {"prework", "answer", "error"},
         job[k].pc # "idle", job' = [job EXCEPT ![k] = Claims(k, stage)],
         UNCHANGED <<disk, mem, call, intact>>
  PROVE  TInv'
<1>1. /\ job[k] \in Jobs /\ job[k].rec \in Records /\ Truthful(job[k].rec)
      /\ clock \in Nat /\ job[k].rec.acceptedAt \in Nat /\ job'[k] = Claims(k, stage)
  BY DEF TypeOK, Jobs, TInv, JobTruthful, Time, Records
<1>2. \/ Claims(k, stage).pc = "saving" /\ Claims(k, stage).rec = Failed(job[k].rec)
      \/ /\ Claims(k, stage).pc = "observing" /\ Claims(k, stage).rec = job[k].rec
         /\ Claims(k, stage).at = clock /\ Claims(k, stage).intact = intact
         /\ ~(clock < job[k].rec.acceptedAt)
  <2>1. job[k] \in Jobs
    BY <1>1
  <2> QED BY <2>1 DEF Claims, Jobs
<1>3. CASE job'[k].pc = "saving" /\ job'[k].rec = Failed(job[k].rec)
  <2>1. JobTruthful(k)'
    BY <1>1, <1>3, FailedTruthful DEF JobTruthful
  <2> QED BY <2>1, JobTruthfulStep
<1>4. CASE /\ job'[k].pc = "observing" /\ job'[k].rec = job[k].rec
           /\ job'[k].at = clock /\ job'[k].intact = intact
           /\ ~(clock < job[k].rec.acceptedAt)
  <2>1. JobTruthful(k)'
    BY <1>1, <1>4 DEF JobTruthful
  <2> QED BY <2>1, JobTruthfulStep
<1> QED BY <1>1, <1>2, <1>3, <1>4

\* A receipt is signed for the claimed time, under authority that stood then.
LEMMA SealedTruthful ==
  ASSUME TypeOK, TInv, NEW k \in Interactions, NEW outcome, NEW answer,
         Covered(k), job[k].auth, job' = Sealed(k, outcome, answer),
         outcome = "expired" <=> job[k].at > Deadline,
         UNCHANGED <<disk, mem, call, intact>>
  PROVE  TInv'
<1> DEFINE receipt == [outcome |-> outcome, recordedAt |-> job[k].at,
                       answer |-> answer, intact |-> job[k].intact]
           rec == [job[k].rec EXCEPT
                     !.state = IF outcome = "completed" THEN "completed" ELSE "failed",
                     !.receipt = receipt]
<1>1. /\ job[k] \in Jobs /\ job[k].pc = "observed" /\ job[k].rec \in Records
      /\ Truthful(job[k].rec)
      /\ job[k].rec.acceptedAt <= job[k].at /\ job[k].intact
  BY DEF TypeOK, Jobs, TInv, JobTruthful, Covered
<1>2. rec.acceptedAt = job[k].rec.acceptedAt /\ rec.receipt = receipt
  BY <1>1 DEF Records
<1>3. Truthful(rec)
  BY <1>1, <1>2 DEF Truthful
<1>4. job' = [job EXCEPT ![k] = [job[k] EXCEPT !.pc = "saving", !.rec = rec]]
  BY <1>1 DEF Sealed, TypeOK
<1>5. job'[k] = [job[k] EXCEPT !.pc = "saving", !.rec = rec]
  BY <1>4 DEF TypeOK
<1> HIDE DEF rec
<1>6. job'[k].pc = "saving" /\ job'[k].rec = rec
  BY <1>1, <1>5 DEF Jobs
<1>7. JobTruthful(k)'
  BY <1>3, <1>6 DEF JobTruthful
<1> QED BY <1>4, <1>7, JobTruthfulStep

\* A handler or an execution that ends leaves the disk and the memory as they are.
LEMMA JobEnds ==
  ASSUME TypeOK, TInv, NEW k \in Interactions, job' = [job EXCEPT ![k] = IdleJob],
         UNCHANGED <<disk, mem, call, intact>>
  PROVE  TInv'
<1>1. JobTruthful(k)'
  BY DEF JobTruthful, IdleJob, TypeOK
<1> QED BY <1>1, JobTruthfulStep

\* Every step of a handler keeps the records truthful.
LEMMA CallTruthfulSteps ==
  ASSUME TypeOK, TInv, NEW c \in Calls,
         \/ CallProgress(c) \/ CallSaveFails(c) \/ GetTask(c)
         \/ \E d \in Contents : SendArrives(c, d)
  PROVE  TInv'
<1>0. c[1] \in Interactions /\ call[c] \in CallStates
  BY DEF Calls, TypeOK
<1>1. ASSUME NEW d \in Contents, SendArrives(c, d) PROVE TInv'
  <2> DEFINE x == [IdleCall EXCEPT !.pc = "waiting", !.kind = "send", !.content = d]
  <2>1. CallTruthful(x)
    BY DEF CallTruthful, IdleCall
  <2>2. call' = [call EXCEPT ![c] = x] /\ UNCHANGED <<disk, mem, job, intact>>
    BY <1>1 DEF SendArrives
  <2> HIDE DEF x
  <2> QED BY <2>1, <2>2, CallTruthfulStep
<1>2. CASE SendReplays(c)
  <2>1. CASE call' = [call EXCEPT ![c] = IdleCall] /\ UNCHANGED job
    BY <1>2, <2>1, IdleTruthful, CallTruthfulStep DEF SendReplays
  <2>2. CASE ReadTask(c, "send", mem[c[1]])
    BY <1>2, <2>2, ReadTaskTruthful DEF SendReplays
  <2> QED BY <1>2, <2>1, <2>2 DEF SendReplays
<1>3. CASE SendBegins(c)
  <2> DEFINE x == [call[c] EXCEPT !.pc = "observing", !.at = clock]
  <2>1. x.pc = "observing" /\ x.at = clock
    BY <1>0 DEF CallStates
  <2>2. call' = [call EXCEPT ![c] = IF clock \in CreatedAt..Deadline THEN x ELSE IdleCall]
        /\ UNCHANGED <<disk, mem, job, intact>>
    BY <1>3 DEF SendBegins, TypeOK
  <2> HIDE DEF x
  <2>3. CASE clock \in CreatedAt..Deadline
    BY <2>1, <2>2, <2>3, CallTruthfulStep DEF CallTruthful
  <2>4. CASE clock \notin CreatedAt..Deadline
    BY <2>2, <2>4, IdleTruthful, CallTruthfulStep
  <2> QED BY <2>3, <2>4
<1>4. CASE SendProbes(c)
  <2> DEFINE x == [call[c] EXCEPT !.pc = "observed", !.auth = intact]
  <2>1. x.pc = "observed" /\ x.at = call[c].at
    BY <1>0 DEF CallStates
  <2>2. call' = [call EXCEPT ![c] = x] /\ UNCHANGED <<disk, mem, job, intact>>
        /\ call[c].pc = "observing"
    BY <1>4 DEF SendProbes, TypeOK
  <2> HIDE DEF x
  <2>3. CallTruthful(x)
    BY <2>1, <2>2 DEF CallTruthful, TInv
  <2> QED BY <2>2, <2>3, CallTruthfulStep
<1>5. CASE SendRefused(c) \/ CallSaveFails(c)
  BY <1>5, IdleTruthful, CallTruthfulStep DEF SendRefused, CallSaveFails
<1>6. CASE SendAccepts(c)
  <2> DEFINE r == [version |-> IF mode = "fixture" THEN "0.1" ELSE "0.2",
                   content |-> call[c].content, acc |-> minted + 1,
                   acceptedAt |-> call[c].at, state |-> "submitted",
                   receipt |-> Unsigned]
             x == [call[c] EXCEPT !.pc = "saving", !.rec = r]
  <2>1. r.acceptedAt = call[c].at /\ r.receipt.outcome = "none"
    BY DEF Unsigned
  <2>2. call[c].at \in CreatedAt..Deadline
    BY <1>6 DEF SendAccepts, TInv, CallTruthful
  <2>3. Truthful(r)
    BY <2>1, <2>2 DEF Truthful
  <2>4. call' = [call EXCEPT ![c] = x] /\ UNCHANGED <<disk, mem, job, intact>>
    BY <1>6 DEF SendAccepts, TypeOK
  <2> HIDE DEF r
  <2>5. x.pc = "saving" /\ x.rec = r
    BY <1>0 DEF CallStates
  <2> HIDE DEF x
  <2>6. CallTruthful(x)
    BY <2>3, <2>5 DEF CallTruthful
  <2> QED BY <2>4, <2>6, CallTruthfulStep
<1>7. CASE GetTask(c)
  BY <1>7, ReadTaskTruthful DEF GetTask
<1>8. CASE CallRenames(c)
  <2>1. call[c].pc = "saving" /\ Truthful(call[c].rec)
    BY <1>8 DEF CallRenames, TInv, CallTruthful
  <2>2. /\ call'[c].pc = "renamed" /\ call'[c].rec = call[c].rec
        /\ \A d \in Calls \ {c} : call'[d] = call[d]
    BY <1>0, <1>8 DEF CallRenames, TypeOK, CallStates
  <2>3. /\ disk'[c[1]] = call[c].rec
        /\ \A k \in Interactions \ {c[1]} : disk'[k] = disk[k]
        /\ UNCHANGED <<mem, job, intact>>
    BY <1>0, <1>8 DEF CallRenames, TypeOK
  <2>4. \A d \in Calls : CallTruthful(call'[d])
    BY <2>1, <2>2 DEF TInv, CallTruthful
  <2>5. \A k \in Interactions : JobTruthful(k)'
    BY <2>3 DEF TInv, JobTruthful
  <2> QED BY <2>1, <2>3, <2>4, <2>5 DEF TInv
<1>9. CASE CallCommits(c)
  <2>1. Truthful(call[c].rec) /\ Schedule(c[1], call[c].rec, TRUE)
        /\ call' = [call EXCEPT ![c] = IdleCall] /\ UNCHANGED <<disk, intact>>
    BY <1>9 DEF CallCommits, TInv, CallTruthful
  <2>2. /\ mem'[c[1]] = call[c].rec
        /\ \A k \in Interactions \ {c[1]} : mem'[k] = mem[k]
    BY <1>0, <1>9 DEF CallCommits, TypeOK
  <2>3. \A k \in Interactions : JobTruthful(k)'
    BY <1>0, <2>1, ScheduleTruthful
  <2>4. \A d \in Calls : CallTruthful(call'[d])
    BY <2>1, IdleTruthful DEF TInv, TypeOK
  <2> QED BY <2>1, <2>2, <2>3, <2>4 DEF TInv
<1> QED BY <1>1, <1>2, <1>3, <1>4, <1>5, <1>6, <1>7, <1>8, <1>9 DEF CallProgress

\* Every step of an execution keeps the records truthful.
LEMMA JobTruthfulSteps ==
  ASSUME TypeOK, TInv, NEW k \in Interactions, JobProgress(k) \/ JobSaveFails(k)
  PROVE  TInv'
<1>0. job[k] \in Jobs
  BY DEF TypeOK
<1>1. CASE JobStarts(k)
  BY <1>1, ClaimsTruthful DEF JobStarts
<1>2. CASE JobProbes(k)
  <2> DEFINE y == [job[k] EXCEPT !.pc = "observed", !.auth = intact]
  <2>1. /\ y.pc = "observed" /\ y.rec = job[k].rec /\ y.at = job[k].at
        /\ y.intact = job[k].intact /\ y.auth = intact
    BY <1>0 DEF Jobs
  <2>2. job' = [job EXCEPT ![k] = y] /\ job'[k] = y /\ job[k].pc = "observing"
        /\ UNCHANGED <<disk, mem, call, intact>>
    BY <1>2 DEF JobProbes, TypeOK
  <2> HIDE DEF y
  <2>3. JobTruthful(k)'
    BY <2>1, <2>2 DEF JobTruthful, TInv
  <2> QED BY <2>2, <2>3, JobTruthfulStep
<1>3. CASE JobGivesUp(k)
  <2> DEFINE y == [job[k] EXCEPT !.pc = "saving", !.rec = Failed(job[k].rec)]
  <2>1. y.pc = "saving" /\ y.rec = Failed(job[k].rec)
    BY <1>0 DEF Jobs
  <2>2. job' = [job EXCEPT ![k] = y] /\ job'[k] = y /\ job[k].pc = "observed"
        /\ UNCHANGED <<disk, mem, call, intact>>
    BY <1>3 DEF JobGivesUp, TypeOK
  <2>3. job[k].rec \in Records /\ Truthful(job[k].rec)
    BY <1>0, <2>2 DEF Jobs, TInv, JobTruthful
  <2> HIDE DEF y
  <2>4. JobTruthful(k)'
    BY <2>1, <2>2, <2>3, FailedTruthful DEF JobTruthful
  <2> QED BY <2>2, <2>4, JobTruthfulStep
<1>4. CASE JobExpires(k)
  BY <1>4, SealedTruthful DEF JobExpires
<1>5. CASE JobExecutes(k)
  <2> DEFINE y == [job[k] EXCEPT !.pc = "executing"]
  <2>1. y.pc = "executing" /\ y.rec = job[k].rec
    BY <1>0 DEF Jobs
  <2>2. job' = [job EXCEPT ![k] = y] /\ job'[k] = y /\ job[k].pc = "observed"
        /\ UNCHANGED <<disk, mem, call, intact>>
    BY <1>5 DEF JobExecutes, Covered, TypeOK
  <2> HIDE DEF y
  <2>3. JobTruthful(k)'
    BY <2>1, <2>2 DEF JobTruthful, TInv
  <2> QED BY <2>2, <2>3, JobTruthfulStep
<1>6. CASE ExecutorSettles(k)
  BY <1>6, ClaimsTruthful DEF ExecutorSettles
<1>7. CASE ExecutorTimesOut(k)
  BY <1>7, ClaimsTruthful DEF ExecutorTimesOut
<1>8. CASE JobSeals(k)
  <2>1. /\ Covered(k) /\ job[k].auth /\ UNCHANGED <<disk, mem, call, intact>>
        /\ ~(job[k].at > Deadline)
        /\ job' = Sealed(k, "completed", runs[k]) \/ job' = Sealed(k, "failed", 0)
    <3>1. job[k].at \in Nat /\ Deadline \in Nat
      BY <1>0, RuntimeAssumption DEF Jobs, Time
    <3> QED BY <1>8, <3>1 DEF JobSeals, Usable
  <2> QED BY <2>1, SealedTruthful
<1>9. CASE JobRenames(k)
  <2>1. job[k].pc = "saving" /\ Truthful(job[k].rec)
    BY <1>9 DEF JobRenames, TInv, JobTruthful
  <2>2. /\ job'[k].pc = "renamed" /\ job'[k].rec = job[k].rec
        /\ \A j \in Interactions \ {k} : job'[j] = job[j]
    BY <1>0, <1>9 DEF JobRenames, TypeOK, Jobs
  <2>3. /\ disk'[k] = job[k].rec
        /\ \A j \in Interactions \ {k} : disk'[j] = disk[j]
        /\ UNCHANGED <<mem, call, intact>>
    BY <1>9 DEF JobRenames, TypeOK
  <2>4. \A j \in Interactions : JobTruthful(j)'
    BY <2>1, <2>2, <2>3 DEF TInv, JobTruthful
  <2> QED BY <2>1, <2>3, <2>4 DEF TInv
<1>10. CASE JobCommits(k)
  <2>1. Truthful(job[k].rec)
    BY <1>10 DEF JobCommits, TInv, JobTruthful
  <2>2. /\ mem'[k] = job[k].rec /\ \A j \in Interactions \ {k} : mem'[j] = mem[j]
        /\ job'[k].pc = "idle" /\ \A j \in Interactions \ {k} : job'[j] = job[j]
        /\ UNCHANGED <<disk, call, intact>>
    BY <1>10 DEF JobCommits, TypeOK, IdleJob
  <2>3. \A j \in Interactions : JobTruthful(j)'
    BY <2>2 DEF TInv, JobTruthful
  <2> QED BY <2>1, <2>2, <2>3 DEF TInv
<1>11. CASE JobSaveFails(k)
  BY <1>11, JobEnds DEF JobSaveFails
<1> QED BY <1>1, <1>2, <1>3, <1>4, <1>5, <1>6, <1>7, <1>8, <1>9, <1>10, <1>11
        DEF JobProgress

\* Every step keeps the records truthful.
LEMMA StepTInv == TypeOK /\ TInv /\ [Next]_vars => TInv'
<1> SUFFICES ASSUME TypeOK, TInv, [Next]_vars PROVE TInv'
  OBVIOUS
<1>1. ASSUME NEW c \in Calls,
             \/ CallProgress(c) \/ CallSaveFails(c) \/ GetTask(c)
             \/ \E d \in Contents : SendArrives(c, d)
      PROVE  TInv'
  BY <1>1, CallTruthfulSteps
<1>2. ASSUME NEW k \in Interactions, JobProgress(k) \/ JobSaveFails(k)
      PROVE  TInv'
  BY <1>2, JobTruthfulSteps
<1>3. CASE \/ Tick \/ Rewind \/ AuthorityLost \/ Close \/ Drain \/ UNCHANGED vars
           \/ \E k \in Interactions : DetachedSettles(k) \/ LicenseExpires(k)
  <2>1. UNCHANGED <<disk, mem, call, job>> /\ (intact' => intact)
    BY <1>3 DEF Tick, Rewind, AuthorityLost, Close, Drain, DetachedSettles, LicenseExpires, vars
  <2> QED BY <2>1 DEF TInv, JobTruthful
<1>4. CASE Stop \/ Crash
  <2>1. /\ \A c \in Calls : call'[c] = IdleCall
        /\ \A k \in Interactions : job'[k].pc = "idle" /\ mem'[k] = NoRecord
        /\ UNCHANGED disk
    BY <1>4 DEF Stop, Crash, Down, IdleJob
  <2> QED BY <2>1, IdleTruthful DEF TInv, JobTruthful
<1>5. CASE Restart
  BY <1>5 DEF Restart, TInv, JobTruthful
<1> QED BY <1>1, <1>2, <1>3, <1>4, <1>5 DEF Next

\* However the clock and the authority move while a receipt is made, what is on disk is
\* truthful: it never predates its acceptance, "completed" and "failed" lie within the
\* deadline and "expired" after it, and authority stood at the recorded time.
THEOREM TruthfulReceiptsHolds == Spec => []TruthfulReceipts
<1>1. Init => TInv
  BY IdleTruthful DEF Init, TInv, JobTruthful, IdleJob
<1>2. TInv => TruthfulReceipts
  BY DEF TInv, Truthful, TruthfulReceipts
<1> QED BY <1>1, <1>2, StepTInv, TypeCorrect, PTL DEF Spec

--------------------------------------------------------------------------------
(* The executor is not run twice without a cause.                          *)

\* How many times a key may have been worked on: once in this process, and once for
\* every process that was closed or lost and every write that failed.
Lives == (IF process = "up" THEN 1 ELSE 0) + restarts + faults

\* An execution that has not invoked the executor yet, and a key that may still get one.
PreWork(k) ==
  \/ job[k].pc = "scheduled"
  \/ job[k].pc \in {"observing", "observed"} /\ job[k].stage = "prework"

Resumable(k) ==
  /\ process = "up"
  /\ job[k].pc = "idle"
  /\ mem[k] = NoRecord \/ mem[k].state = "submitted"

\* While the executor may still be invoked one life is unspent, and it was never invoked
\* before for a task that only its own acceptance may schedule.
Bounded(k) ==
  /\ runs[k] <= Lives
  /\ PreWork(k) \/ Resumable(k) => runs[k] < Lives
  /\ runs[k] > 0 => disk[k] # NoRecord /\ (process # "down" => mem[k] # NoRecord)
  /\ job[k].pc # "idle" /\ job[k].rec.version = "0.2" =>
       runs[k] <= 1 /\ (PreWork(k) => runs[k] = 0)

RInv == \A k \in Interactions : Bounded(k)

\* Lives are counted, and only grow while the process stays as it is.
LEMMA LivesType ==
  ASSUME TypeOK
  PROVE  Lives \in Nat /\ Lives <= 1 + restarts + faults
BY DEF TypeOK, Lives

\* A step that invokes no executor.
LEMMA BoundedKept ==
  ASSUME TypeOK, TypeOK', NEW k \in Interactions, Bounded(k),
         runs'[k] = runs[k], Lives <= Lives',
         \/ ~(PreWork(k) \/ Resumable(k))'
         \/ PreWork(k) \/ Resumable(k)
         \/ Lives < Lives',
         disk[k] # NoRecord /\ (process # "down" => mem[k] # NoRecord) =>
           disk'[k] # NoRecord /\ (process' # "down" => mem'[k] # NoRecord),
         \/ job'[k].pc = "idle" \/ job'[k].rec.version # "0.2" \/ runs[k] = 0
         \/ /\ job[k].pc # "idle" /\ job[k].rec.version = "0.2"
            /\ PreWork(k)' => PreWork(k)
  PROVE  Bounded(k)'
<1> DEFINE n == runs[k]
           l == Lives
           m == Lives'
<1>1. n \in Nat /\ l \in Nat /\ m \in Nat
  <2>1. restarts' \in Nat /\ faults' \in Nat
    BY DEF TypeOK
  <2>2. m \in Nat
    BY <2>1 DEF Lives
  <2> QED BY <2>2, LivesType DEF TypeOK
<1>2. runs'[k] = n /\ Lives = l /\ Lives' = m /\ l <= m
  OBVIOUS
<1> HIDE DEF n, l, m
<1>3. /\ n <= m
      /\ (PreWork(k) \/ Resumable(k))' => n < m
  BY <1>1, <1>2 DEF Bounded, n
<1>4. n > 0 => disk'[k] # NoRecord /\ (process' # "down" => mem'[k] # NoRecord)
  BY DEF Bounded, n
<1>5. job'[k].pc # "idle" /\ job'[k].rec.version = "0.2" =>
        n <= 1 /\ (PreWork(k)' => n = 0)
  BY <1>1 DEF Bounded, n
<1> QED BY <1>2, <1>3, <1>4, <1>5 DEF Bounded

\* A step that moves neither an execution nor the memory.
LEMMA BoundedElsewhere ==
  ASSUME TypeOK, TypeOK', RInv, UNCHANGED <<mem, job, runs>>, Lives <= Lives',
         \A k \in Interactions : disk[k] # NoRecord => disk'[k] # NoRecord,
         process # "down", process' = "up" => process = "up"
  PROVE  RInv'
<1> SUFFICES ASSUME NEW k \in Interactions PROVE Bounded(k)'
  BY DEF RInv
<1>1. Bounded(k) /\ runs'[k] = runs[k]
  BY DEF RInv
<1>2. (PreWork(k)' <=> PreWork(k)) /\ (Resumable(k)' => Resumable(k))
  BY DEF PreWork, Resumable
<1> QED BY <1>1, <1>2, BoundedKept

\* A step of one execution that keeps its record's version and does not go back to the
\* work before the executor, and one that ends it for good or with a failed write.
LEMMA BoundedJobStep ==
  ASSUME TypeOK, TypeOK', RInv, NEW k \in Interactions, NEW y,
         job' = [job EXCEPT ![k] = y], job[k].pc # "idle",
         UNCHANGED <<disk, mem, runs, process>>, Lives <= Lives',
         \/ /\ y.pc # "idle" /\ y.rec.version = job[k].rec.version
            /\ PreWork(k)' => PreWork(k)
         \/ y.pc = "idle" /\ Lives < Lives'
  PROVE  RInv'
<1> SUFFICES ASSUME NEW j \in Interactions PROVE Bounded(j)'
  BY DEF RInv
<1>1. Bounded(j) /\ runs'[j] = runs[j] /\ job'[k] = y
      /\ \A i \in Interactions \ {k} : job'[i] = job[i]
  BY DEF RInv, TypeOK
<1>2. CASE j # k
  <2>1. (PreWork(j)' <=> PreWork(j)) /\ (Resumable(j)' <=> Resumable(j))
    BY <1>1, <1>2 DEF PreWork, Resumable
  <2> QED BY <1>1, <1>2, <2>1, BoundedKept
<1>3. CASE j = k /\ y.pc # "idle" /\ y.rec.version = job[k].rec.version
           /\ (PreWork(k)' => PreWork(k))
  <2>1. ~Resumable(k)'
    BY <1>1, <1>3 DEF Resumable
  <2> QED BY <1>1, <1>3, <2>1, BoundedKept
<1>4. CASE j = k /\ y.pc = "idle" /\ Lives < Lives'
  <2> QED BY <1>1, <1>4, BoundedKept
<1> QED BY <1>2, <1>3, <1>4

\* A step that may schedule an execution of a key that could still get one; a task under
\* retention has never been worked on.
LEMMA BoundedSchedule ==
  ASSUME TypeOK, TypeOK', RInv, NEW k \in Interactions, NEW r, NEW b, Schedule(k, r, b),
         UNCHANGED <<disk, runs, process, restarts, faults>>, process # "down",
         mem' = [mem EXCEPT ![k] = r], r # NoRecord,
         Resumable(k) \/ ~MaySchedule(k, r, b),
         r.state = "submitted" => mem[k] = NoRecord \/ mem[k].state = "submitted",
         r.version = "0.2" /\ MaySchedule(k, r, b) => runs[k] = 0
  PROVE  RInv'
<1> SUFFICES ASSUME NEW j \in Interactions PROVE Bounded(j)'
  BY DEF RInv
<1>1. Bounded(j) /\ runs'[j] = runs[j] /\ mem'[k] = r
      /\ \A i \in Interactions \ {k} : mem'[i] = mem[i]
  BY DEF RInv, TypeOK
<1>2. \/ job' = job
      \/ /\ MaySchedule(k, r, b)
         /\ job'[k].pc = "scheduled" /\ job'[k].rec = r
         /\ \A i \in Interactions \ {k} : job'[i] = job[i]
  BY ScheduleEffect DEF TypeOK
<1>3. Lives' = Lives /\ Lives \in Nat
  BY LivesType DEF Lives
<1>4. CASE j # k
  <2>1. job'[j] = job[j] /\ mem'[j] = mem[j]
    BY <1>1, <1>2, <1>4
  <2>2. (PreWork(j)' <=> PreWork(j)) /\ (Resumable(j)' <=> Resumable(j))
    BY <2>1 DEF PreWork, Resumable
  <2> QED BY <1>1, <1>3, <2>1, <2>2, BoundedKept
<1>5. CASE j = k /\ job' = job
  <2>1. (PreWork(j)' <=> PreWork(j)) /\ (Resumable(j)' => Resumable(j))
    BY <1>1, <1>5 DEF PreWork, Resumable
  <2> QED BY <1>1, <1>3, <1>5, <2>1, BoundedKept
<1>6. CASE j = k /\ MaySchedule(k, r, b) /\ job'[k].pc = "scheduled" /\ job'[k].rec = r
  <2>1. Resumable(k)
    BY <1>6
  <2> QED BY <1>1, <1>3, <1>6, <2>1, BoundedKept
<1> QED BY <1>2, <1>4, <1>5, <1>6

\* Replaying or polling resumes only a task of the first version.
LEMMA BoundedReadTask ==
  ASSUME TypeOK, TypeOK', RInv, NEW c \in Calls, NEW kind,
         mem[c[1]] # NoRecord, ReadTask(c, kind, mem[c[1]]), process # "down",
         UNCHANGED <<disk, mem, runs, process, restarts, faults>>
  PROVE  RInv'
<1> DEFINE k == c[1]
           r == mem[k]
<1>0. Lives' = Lives /\ Lives \in Nat /\ k \in Interactions
  BY LivesType DEF Lives, Calls
<1>1. CASE UNCHANGED job
  BY <1>0, <1>1, BoundedElsewhere
<1>2. CASE Schedule(k, r, FALSE)
  <2>1. mem' = [mem EXCEPT ![k] = r] /\ r \in Records
    BY <1>0 DEF TypeOK
  <2>2. Resumable(k) \/ ~MaySchedule(k, r, FALSE)
    BY DEF Resumable, MaySchedule
  <2>3. ~(r.version = "0.2" /\ MaySchedule(k, r, FALSE))
    BY DEF MaySchedule
  <2> HIDE DEF r
  <2>4. r # NoRecord /\ (r.state = "submitted" => mem[k] = NoRecord \/ mem[k].state = "submitted")
    BY DEF r
  <2> QED BY <1>0, <1>2, <2>1, <2>2, <2>3, <2>4, BoundedSchedule
<1> QED BY <1>1, <1>2 DEF ReadTask

\* A new task is scheduled in the process that accepted it, and never before.
LEMMA BoundedCallCommits ==
  ASSUME TypeOK, TypeOK', IInv, RInv, NEW c \in Calls, CallCommits(c)
  PROVE  RInv'
<1> DEFINE k == c[1]
           r == call[c].rec
<1>1. /\ k \in Interactions /\ r \in Records /\ r # NoRecord /\ process # "down"
      /\ call[c].pc = "renamed" /\ CallTied(c) /\ JobTied(k) /\ Bounded(k)
      /\ runs[k] \in Nat
  BY NoRecordAssumption DEF CallCommits, TypeOK, CallStates, Calls, IInv, CallTied, RInv
<1>2. /\ Schedule(k, r, TRUE) /\ mem' = [mem EXCEPT ![k] = r]
      /\ UNCHANGED <<disk, runs, process, restarts, faults>>
  BY DEF CallCommits, budget
<1>3. r.state = "submitted" => mem[k] = NoRecord /\ job[k].pc = "idle" /\ runs[k] = 0
  <2>1. r.state = "submitted" => Creates(call[c])
    BY <1>1 DEF CallTied, Interrupts
  <2>2. r.state = "submitted" => mem[k] = NoRecord /\ job[k].pc = "idle"
    BY <1>1, <2>1 DEF CallTied, JobTied
  <2>3. r.state = "submitted" => ~(runs[k] > 0)
    BY <1>1, <2>2 DEF Bounded
  <2> QED BY <1>1, <2>2, <2>3
<1>4. MaySchedule(k, r, TRUE) => r.state = "submitted" /\ process = "up"
  BY DEF MaySchedule
<1>5. Resumable(k) \/ ~MaySchedule(k, r, TRUE)
  BY <1>3, <1>4 DEF Resumable
<1> HIDE DEF k, r
<1> QED BY <1>1, <1>2, <1>3, <1>4, <1>5, BoundedSchedule

\* Invoking the executor spends the life that was left.
LEMMA BoundedExecutes ==
  ASSUME TypeOK, TypeOK', IInv, RInv, NEW k \in Interactions, JobExecutes(k)
  PROVE  RInv'
<1> SUFFICES ASSUME NEW j \in Interactions PROVE Bounded(j)'
  BY DEF RInv
<1>1. /\ job[k].pc = "observed" /\ job[k].stage = "prework" /\ runs'[k] = runs[k] + 1
      /\ job'[k].pc = "executing" /\ job'[k].rec = job[k].rec
      /\ \A i \in Interactions \ {k} : job'[i] = job[i] /\ runs'[i] = runs[i]
      /\ UNCHANGED <<disk, mem, process, restarts, faults>>
  BY DEF JobExecutes, Covered, TypeOK, Jobs, budget
<1>2. Lives' = Lives /\ Lives \in Nat /\ runs[k] \in Nat
  BY <1>1, LivesType DEF Lives, TypeOK
<1>3. Bounded(j) /\ JobTied(k) /\ Agrees(k)
  BY DEF RInv, IInv
<1>4. CASE j # k
  <2>1. (PreWork(j)' <=> PreWork(j)) /\ (Resumable(j)' <=> Resumable(j))
    BY <1>1, <1>4 DEF PreWork, Resumable
  <2> QED BY <1>1, <1>2, <1>3, <1>4, <2>1, BoundedKept
<1>5. CASE j = k
  <2>1. PreWork(k) /\ ~PreWork(k)' /\ ~Resumable(k)'
    BY <1>1 DEF PreWork, Resumable
  <2>2. disk[k] # NoRecord /\ mem[k] # NoRecord
    BY <1>1, <1>3 DEF JobTied, Agrees
  <2>3. runs[k] < Lives /\ (job[k].rec.version = "0.2" => runs[k] = 0)
    BY <1>1, <1>3, <1>5, <2>1 DEF Bounded
  <2>4. runs'[k] <= Lives' /\ (job[k].rec.version = "0.2" => runs'[k] <= 1)
    BY <1>1, <1>2, <2>3
  <2> QED BY <1>1, <1>5, <2>1, <2>2, <2>4 DEF Bounded
<1> QED BY <1>4, <1>5

\* An execution that claims a time starts its work, or ends it.
LEMMA BoundedClaims ==
  ASSUME TypeOK, TypeOK', RInv, NEW k \in Interactions,
         NEW stage \in {"prework", "answer", "error"},
         job[k].pc # "idle", job' = [job EXCEPT ![k] = Claims(k, stage)],
         stage = "prework" => job[k].pc = "scheduled",
         UNCHANGED <<disk, mem, runs, process, restarts, faults>>
  PROVE  RInv'
<1>1. job[k] \in Jobs /\ job[k].rec \in Records /\ job'[k] = Claims(k, stage)
  BY DEF TypeOK, Jobs
<1>2. \/ /\ Claims(k, stage).pc = "observing" /\ Claims(k, stage).rec = job[k].rec
         /\ Claims(k, stage).stage = stage
      \/ Claims(k, stage).pc = "saving" /\ Claims(k, stage).rec = Failed(job[k].rec)
  BY <1>1 DEF Claims, Jobs
<1>3. /\ Claims(k, stage).pc # "idle"
      /\ Claims(k, stage).rec.version = job[k].rec.version
  BY <1>1, <1>2, FailedFields
<1>4. PreWork(k)' => PreWork(k)
  BY <1>1, <1>2 DEF PreWork
<1>5. Lives <= Lives'
  BY LivesType DEF Lives
<1> QED BY <1>3, <1>4, <1>5, BoundedJobStep

\* An execution that is saving its end does not work on.
LEMMA BoundedSaves ==
  ASSUME TypeOK, TypeOK', RInv, NEW k \in Interactions, NEW y,
         job[k].pc # "idle", job' = [job EXCEPT ![k] = y],
         y.pc = "saving", y.rec.version = job[k].rec.version,
         UNCHANGED <<disk, mem, runs, process, restarts, faults>>
  PROVE  RInv'
<1>1. job'[k] = y
  BY DEF TypeOK
<1>2. ~PreWork(k)'
  BY <1>1 DEF PreWork
<1>3. Lives <= Lives'
  BY LivesType DEF Lives
<1> QED BY <1>2, <1>3, BoundedJobStep

\* A signed receipt leaves the version of the task.
LEMMA BoundedSealed ==
  ASSUME TypeOK, TypeOK', RInv, NEW k \in Interactions, NEW outcome, NEW answer,
         Covered(k), job' = Sealed(k, outcome, answer),
         UNCHANGED <<disk, mem, runs, process, restarts, faults>>
  PROVE  RInv'
<1>1. job[k] \in Jobs /\ job[k].pc = "observed" /\ job[k].rec \in Records
  BY DEF TypeOK, Jobs, Covered
<1>2. PICK y : job' = [job EXCEPT ![k] = y]
  BY DEF Sealed
<1>3. y = job'[k]
  BY <1>2 DEF TypeOK
<1>4. job'[k].pc = "saving" /\ job'[k].rec.version = job[k].rec.version
  BY <1>1 DEF Sealed, TypeOK, Jobs, Records
<1> QED BY <1>1, <1>2, <1>3, <1>4, BoundedSaves

\* Every step of an execution keeps the bound.
LEMMA BoundedJobSteps ==
  ASSUME TypeOK, TypeOK', IInv, RInv, NEW k \in Interactions, JobProgress(k) \/ JobSaveFails(k)
  PROVE  RInv'
<1>0. job[k] \in Jobs /\ Lives \in Nat
  BY LivesType DEF TypeOK
<1> USE DEF budget
<1>1. CASE JobStarts(k)
  BY <1>1, BoundedClaims DEF JobStarts
<1>2. CASE JobProbes(k)
  <2> DEFINE y == [job[k] EXCEPT !.pc = "observed", !.auth = intact]
  <2>1. y.pc = "observed" /\ y.rec = job[k].rec /\ y.stage = job[k].stage
    BY <1>0 DEF Jobs
  <2>2. job' = [job EXCEPT ![k] = y] /\ job'[k] = y /\ job[k].pc = "observing"
        /\ UNCHANGED <<disk, mem, runs, process, restarts, faults>>
    BY <1>2 DEF JobProbes, TypeOK
  <2> HIDE DEF y
  <2>3. PreWork(k)' => PreWork(k)
    BY <2>1, <2>2 DEF PreWork
  <2>4. Lives <= Lives'
    BY <1>0, <2>2 DEF Lives
  <2> QED BY <2>1, <2>2, <2>3, <2>4, BoundedJobStep
<1>3. CASE JobGivesUp(k)
  <2> DEFINE y == [job[k] EXCEPT !.pc = "saving", !.rec = Failed(job[k].rec)]
  <2>1. y.pc = "saving" /\ y.rec = Failed(job[k].rec)
    BY <1>0 DEF Jobs
  <2>2. job' = [job EXCEPT ![k] = y] /\ job[k].pc = "observed"
        /\ UNCHANGED <<disk, mem, runs, process, restarts, faults>>
    BY <1>3 DEF JobGivesUp, TypeOK
  <2>3. job[k].rec \in Records
    BY <1>0, <2>2 DEF Jobs
  <2> HIDE DEF y
  <2> QED BY <2>1, <2>2, <2>3, FailedFields, BoundedSaves
<1>4. CASE JobExpires(k)
  BY <1>4, BoundedSealed DEF JobExpires
<1>5. CASE JobExecutes(k)
  BY <1>5, BoundedExecutes
<1>6. CASE ExecutorSettles(k)
  BY <1>6, BoundedClaims DEF ExecutorSettles
<1>7. CASE ExecutorTimesOut(k)
  BY <1>7, BoundedClaims DEF ExecutorTimesOut
<1>8. CASE JobSeals(k)
  <2>1. job' = Sealed(k, "completed", runs[k]) \/ job' = Sealed(k, "failed", 0)
    BY <1>8 DEF JobSeals
  <2> QED BY <1>8, <2>1, BoundedSealed DEF JobSeals
<1>9. CASE JobRenames(k)
  <2>1. /\ job[k].pc = "saving" /\ job'[k].pc = "renamed" /\ job'[k].rec = job[k].rec
        /\ job[k].rec # NoRecord
        /\ \A j \in Interactions \ {k} : job'[j] = job[j]
    BY <1>0, <1>9 DEF JobRenames, TypeOK, Jobs
  <2>2. /\ disk'[k] = job[k].rec
        /\ \A j \in Interactions \ {k} : disk'[j] = disk[j]
        /\ UNCHANGED <<mem, runs, process, restarts, faults>>
    BY <1>9 DEF JobRenames, TypeOK
  <2>3. ASSUME NEW j \in Interactions PROVE Bounded(j)'
    <3>1. (PreWork(j)' <=> PreWork(j)) /\ (Resumable(j)' <=> Resumable(j))
      BY <2>1, <2>2 DEF PreWork, Resumable
    <3>2. Bounded(j) /\ Lives <= Lives' /\ runs'[j] = runs[j]
      BY <1>0, <2>2 DEF RInv, Lives
    <3>3. disk[j] # NoRecord => disk'[j] # NoRecord
      BY <2>1, <2>2
    <3>4. /\ job'[j].pc # "idle" => job[j].pc # "idle"
          /\ job'[j].rec = job[j].rec
      BY <2>1
    <3> QED BY <2>2, <3>1, <3>2, <3>3, <3>4, BoundedKept
  <2> QED BY <2>3 DEF RInv
<1>10. CASE JobCommits(k)
  <2>1. /\ job[k].pc = "renamed" /\ job[k].rec # NoRecord /\ JobTied(k)
    BY <1>0, <1>10 DEF JobCommits, Jobs, IInv
  <2>2. /\ mem'[k] = job[k].rec /\ \A j \in Interactions \ {k} : mem'[j] = mem[j]
        /\ job'[k].pc = "idle" /\ \A j \in Interactions \ {k} : job'[j] = job[j]
        /\ UNCHANGED <<disk, runs, process, restarts, faults>>
    BY <1>10 DEF JobCommits, TypeOK, IdleJob
  <2>3. job[k].rec.state # "submitted"
    BY <2>1 DEF JobTied
  <2>4. ASSUME NEW j \in Interactions PROVE Bounded(j)'
    <3>1. Bounded(j) /\ Lives <= Lives' /\ runs'[j] = runs[j]
      BY <1>0, <2>2 DEF RInv, Lives
    <3>2. (PreWork(j)' => PreWork(j)) /\ (Resumable(j)' => Resumable(j))
      BY <2>1, <2>2, <2>3 DEF PreWork, Resumable
    <3>3. mem[j] # NoRecord => mem'[j] # NoRecord
      BY <2>1, <2>2
    <3>4. job'[j].pc = "idle" \/ job'[j] = job[j]
      BY <2>2
    <3> QED BY <2>2, <3>1, <3>2, <3>3, <3>4, BoundedKept
  <2> QED BY <2>4 DEF RInv
<1>11. CASE JobSaveFails(k)
  <2>1. job' = [job EXCEPT ![k] = IdleJob] /\ job[k].pc # "idle" /\ IdleJob.pc = "idle"
        /\ UNCHANGED <<disk, mem, runs, process, restarts>> /\ faults' = faults + 1
    BY <1>11 DEF JobSaveFails, IdleJob
  <2>2. Lives < Lives'
    BY <2>1 DEF Lives, TypeOK
  <2>3. Lives <= Lives'
    BY <2>1 DEF Lives, TypeOK
  <2> QED BY <2>1, <2>2, <2>3, BoundedJobStep
<1> QED BY <1>1, <1>2, <1>3, <1>4, <1>5, <1>6, <1>7, <1>8, <1>9, <1>10, <1>11
        DEF JobProgress

\* Every step of a handler keeps the bound.
LEMMA BoundedCallSteps ==
  ASSUME TypeOK, TypeOK', IInv, RInv, NEW c \in Calls,
         \/ CallProgress(c) \/ CallSaveFails(c) \/ GetTask(c)
         \/ \E d \in Contents : SendArrives(c, d)
  PROVE  RInv'
<1> USE DEF budget
<1>0. c[1] \in Interactions /\ Lives \in Nat
  BY LivesType DEF Calls
<1>1. CASE \/ SendBegins(c) \/ SendProbes(c) \/ SendRefused(c) \/ SendAccepts(c)
           \/ CallRenames(c) \/ CallSaveFails(c) \/ \E d \in Contents : SendArrives(c, d)
  <2>1. /\ UNCHANGED <<mem, job, runs, process, restarts>>
        /\ faults' = faults \/ faults' = faults + 1
    BY <1>1 DEF SendBegins, SendProbes, SendRefused, SendAccepts, CallRenames,
                CallSaveFails, SendArrives
  <2>2. process # "down"
    BY <1>1 DEF SendBegins, SendProbes, SendRefused, SendAccepts, CallRenames,
                CallSaveFails, SendArrives, Serving, IInv, CallTied
  <2>3. disk' = disk \/ CallRenames(c)
    BY <1>1 DEF SendBegins, SendProbes, SendRefused, SendAccepts, CallSaveFails, SendArrives
  <2>4. CallRenames(c) => /\ disk' = [disk EXCEPT ![c[1]] = call[c].rec]
                          /\ call[c].rec # NoRecord
    BY DEF CallRenames, TypeOK, CallStates
  <2>5. \A k \in Interactions : disk[k] # NoRecord => disk'[k] # NoRecord
    BY <2>3, <2>4 DEF TypeOK
  <2>6. Lives <= Lives'
    <3>1. restarts \in Nat /\ faults \in Nat
      BY DEF TypeOK
    <3> QED BY <2>1, <3>1 DEF Lives
  <2> QED BY <2>1, <2>2, <2>5, <2>6, BoundedElsewhere
<1>2. CASE SendReplays(c)
  <2>1. process # "down" /\ mem[c[1]] # NoRecord
        /\ UNCHANGED <<disk, mem, runs, process, restarts, faults>>
    BY <1>2 DEF SendReplays, IInv, CallTied
  <2>2. UNCHANGED job \/ ReadTask(c, "send", mem[c[1]])
    BY <1>2 DEF SendReplays
  <2>3. CASE UNCHANGED job
    <3>1. Lives <= Lives'
      BY <1>0, <2>1 DEF Lives
    <3> QED BY <2>1, <2>3, <3>1, BoundedElsewhere
  <2> QED BY <2>1, <2>2, <2>3, BoundedReadTask
<1>3. CASE GetTask(c)
  <2>1. process # "down" /\ mem[c[1]] # NoRecord /\ ReadTask(c, "get", mem[c[1]])
        /\ UNCHANGED <<disk, mem, runs, process, restarts, faults>>
    BY <1>3 DEF GetTask, Serving
  <2> QED BY <2>1, BoundedReadTask
<1>4. CASE CallCommits(c)
  BY <1>4, BoundedCallCommits
<1> QED BY <1>1, <1>2, <1>3, <1>4 DEF CallProgress

\* A process that is lost may cost one more run, and a restart has it to spend.
LEMMA BoundedProcess ==
  ASSUME TypeOK, TypeOK', IInv, RInv, Stop \/ Crash \/ Restart
  PROVE  RInv'
<1> SUFFICES ASSUME NEW k \in Interactions PROVE Bounded(k)'
  BY DEF RInv
<1>0. Bounded(k) /\ JobTied(k)
  BY DEF RInv, IInv
<1>1. CASE Stop \/ Crash
  <2>1. /\ job'[k].pc = "idle" /\ process' = "down" /\ UNCHANGED <<disk, runs, faults>>
        /\ restarts' = restarts + 1 \/ (process = "draining" /\ UNCHANGED restarts)
    BY <1>1 DEF Stop, Crash, Down, IdleJob
  <2>3. Lives <= Lives'
    <3>1. restarts \in Nat /\ faults \in Nat
      BY DEF TypeOK
    <3> QED BY <2>1, <3>1 DEF Lives
  <2>2. ~PreWork(k)' /\ ~Resumable(k)'
    BY <2>1 DEF PreWork, Resumable
  <2> QED BY <1>0, <2>1, <2>2, <2>3, BoundedKept
<1>2. CASE Restart
  <2>1. /\ process = "down" /\ mem' = disk /\ UNCHANGED <<disk, runs, job>>
        /\ Lives < Lives' /\ Lives <= Lives'
    BY <1>2 DEF Restart, Lives, TypeOK, budget
  <2>2. job'[k].pc = "idle"
    BY <1>0, <2>1 DEF JobTied
  <2> QED BY <1>0, <2>1, <2>2, BoundedKept
<1> QED BY <1>1, <1>2

\* Every step keeps the bound.
LEMMA StepRInv == TypeOK /\ TypeOK' /\ IInv /\ RInv /\ [Next]_vars => RInv'
<1> SUFFICES ASSUME TypeOK, TypeOK', IInv, RInv, [Next]_vars PROVE RInv'
  OBVIOUS
<1>1. ASSUME NEW c \in Calls,
             \/ CallProgress(c) \/ CallSaveFails(c) \/ GetTask(c)
             \/ \E d \in Contents : SendArrives(c, d)
      PROVE  RInv'
  BY <1>1, BoundedCallSteps
<1>2. ASSUME NEW k \in Interactions, JobProgress(k) \/ JobSaveFails(k) PROVE RInv'
  BY <1>2, BoundedJobSteps
<1>3. CASE \/ Tick \/ Rewind \/ AuthorityLost \/ Close \/ Drain
           \/ \E k \in Interactions : DetachedSettles(k) \/ LicenseExpires(k)
  <2>1. UNCHANGED <<disk, mem, job, runs, faults>>
    BY <1>3 DEF Tick, Rewind, AuthorityLost, Close, Drain, DetachedSettles, LicenseExpires,
                budget
  <2>2. \/ UNCHANGED <<process, restarts>>
        \/ process = "up" /\ process' = "closing" /\ restarts' = restarts + 1
        \/ process = "closing" /\ process' = "draining" /\ UNCHANGED restarts
    BY <1>3 DEF Tick, Rewind, AuthorityLost, Close, Drain, DetachedSettles, LicenseExpires,
                budget
  <2>3. Lives <= Lives'
    <3>1. restarts \in Nat /\ faults \in Nat
      BY DEF TypeOK
    <3> QED BY <2>1, <2>2, <3>1 DEF Lives
  <2>4. ASSUME NEW k \in Interactions PROVE Bounded(k)'
    <3>1. Bounded(k)
      BY DEF RInv
    <3>2. (PreWork(k)' <=> PreWork(k)) /\ (Resumable(k)' => Resumable(k))
      BY <2>1, <2>2 DEF PreWork, Resumable
    <3>3. process # "down" \/ process' = "down"
          \/ (process = "down" /\ UNCHANGED <<process, mem>>)
      BY <2>1, <2>2
    <3> QED BY <2>1, <2>2, <2>3, <3>1, <3>2, BoundedKept
  <2> QED BY <2>4 DEF RInv
<1>4. CASE Stop \/ Crash \/ Restart
  BY <1>4, BoundedProcess
<1>5. CASE UNCHANGED vars
  BY <1>5 DEF vars, budget, RInv, Bounded, PreWork, Resumable, Lives
<1> QED BY <1>1, <1>2, <1>3, <1>4, <1>5 DEF Next

\* In the invariant the executor ran as often as processes and writes were lost, and once
\* at most for a task under retention.
LEMMA RInvImpliesBoundedRuns == TypeOK /\ IInv /\ RInv => BoundedRuns
<1> SUFFICES ASSUME TypeOK, IInv, RInv, NEW k \in Interactions
             PROVE  /\ runs[k] <= 1 + restarts + faults
                    /\ job[k].pc \notin {"idle", "scheduled"} /\ job[k].rec.version = "0.2" =>
                         runs[k] <= 1
                    /\ job[k].pc # "idle" /\ mode = "live" => job[k].rec.version = "0.2"
  BY DEF BoundedRuns
<1>1. Bounded(k) /\ JobTied(k)
  BY DEF RInv, IInv
<1>2. runs[k] <= 1 + restarts + faults
  BY <1>1, LivesType DEF Bounded, TypeOK
<1>3. job[k].pc # "idle" /\ mode = "live" => job[k].rec.version = "0.2"
  BY <1>1 DEF JobTied
<1> QED BY <1>1, <1>2, <1>3 DEF Bounded

\* Concurrent replays, polls and restarts never run the executor twice without a cause:
\* every further invocation under a key needs a lost process or a failed write, and a
\* task under retention is invoked once at most.
THEOREM BoundedRunsHolds == Spec => []BoundedRuns
<1>1. Init => RInv
  <2> SUFFICES ASSUME Init, NEW k \in Interactions PROVE Bounded(k)
    BY DEF RInv
  <2>1. /\ runs[k] = 0 /\ job[k].pc = "idle" /\ process = "up" /\ restarts = 0 /\ faults = 0
    BY DEF Init, IdleJob
  <2>2. Lives = 1
    BY <2>1 DEF Lives
  <2> QED BY <2>1, <2>2 DEF Bounded
<1> QED BY <1>1, StepRInv, RInvImpliesBoundedRuns, Invariance, StepType, PTL DEF Spec

--------------------------------------------------------------------------------
(* Licensed bytes leave within their license.                              *)

\* The holder is empty once the runtime has begun to close.
HeldWhileUp == held # {} => process = "up"

\* A reply never adds to the holder.
LEMMA ReplyHolds ==
  ASSUME NEW k, NEW r, Reply(k, r)
  PROVE  held' \subseteq held
BY DEF Reply

\* Every step keeps the holder empty in a process that is not fully open.
LEMMA StepHeld == HeldWhileUp /\ [Next]_vars => HeldWhileUp'
<1> SUFFICES ASSUME HeldWhileUp, [Next]_vars PROVE HeldWhileUp'
  OBVIOUS
<1>1. ASSUME NEW c \in Calls, SendReplays(c) \/ GetTask(c) \/ CallCommits(c)
      PROVE  HeldWhileUp'
  <2>1. UNCHANGED process
    BY <1>1 DEF SendReplays, GetTask, CallCommits
  <2>2. held' \subseteq held
    BY <1>1, ReplyHolds DEF SendReplays, GetTask, ReadTask, CallCommits
  <2> QED BY <2>1, <2>2 DEF HeldWhileUp
<1>2. ASSUME NEW k \in Interactions, JobCommits(k) PROVE HeldWhileUp'
  BY <1>2 DEF JobCommits, HeldWhileUp
<1>3. ASSUME NEW k \in Interactions, LicenseExpires(k) PROVE HeldWhileUp'
  BY <1>3 DEF LicenseExpires, HeldWhileUp
<1>4. CASE \E c \in Calls :
             \/ SendBegins(c) \/ SendProbes(c) \/ SendRefused(c) \/ SendAccepts(c)
             \/ CallRenames(c) \/ CallSaveFails(c) \/ \E d \in Contents : SendArrives(c, d)
  BY <1>4 DEF SendBegins, SendProbes, SendRefused, SendAccepts, CallRenames, CallSaveFails,
              SendArrives, HeldWhileUp
<1>5. CASE \E k \in Interactions :
             \/ JobStarts(k) \/ JobProbes(k) \/ JobGivesUp(k) \/ JobExpires(k)
             \/ JobExecutes(k) \/ ExecutorSettles(k) \/ ExecutorTimesOut(k) \/ JobSeals(k)
             \/ JobRenames(k) \/ JobSaveFails(k) \/ DetachedSettles(k)
  BY <1>5 DEF JobStarts, JobProbes, JobGivesUp, JobExpires, JobExecutes, ExecutorSettles,
              ExecutorTimesOut, JobSeals, JobRenames, JobSaveFails, DetachedSettles,
              HeldWhileUp
<1>6. CASE Tick \/ Rewind \/ AuthorityLost \/ Close \/ Drain \/ Stop \/ Crash \/ Restart
           \/ UNCHANGED vars
  BY <1>6 DEF Tick, Rewind, AuthorityLost, Close, Drain, Stop, Crash, Down, Restart, vars,
              HeldWhileUp
<1> QED BY <1>1, <1>2, <1>3, <1>4, <1>5, <1>6 DEF Next, CallProgress, JobProgress

\* What BytesWithinLicense says of one step.
BytesLicensed ==
  \A k \in Interactions : \A t \in told'[k] \ told[k] :
    t.bytes /\ mem'[k].version = "0.2" => clock < LicenseEnd /\ process = "up"

\* A reply about the record that is in memory after the step carries licensed bytes only
\* from the holder, before their end.
LEMMA ReplyLicensed ==
  ASSUME TypeOK, HeldWhileUp, NEW k \in Interactions, NEW r, Reply(k, r), mem'[k] = r
  PROVE  BytesLicensed
<1> DEFINE live == k \in held /\ clock < LicenseEnd
           t == [acc |-> r.acc, state |-> r.state, receipt |-> r.receipt,
                 bytes |-> r.state = "completed" /\ (r.version = "0.1" \/ live)]
<1>1. told'[k] = told[k] \cup {t} /\ \A j \in Interactions \ {k} : told'[j] = told[j]
  BY DEF Reply, TypeOK
<1>2. t.bytes /\ r.version = "0.2" => live
  OBVIOUS
<1>3. live => clock < LicenseEnd /\ process = "up"
  BY DEF HeldWhileUp
<1> HIDE DEF t, live
<1> QED BY <1>1, <1>2, <1>3 DEF BytesLicensed

\* Every step answers with licensed bytes only as BytesWithinLicense allows.
LEMMA StepBytes == TypeOK /\ HeldWhileUp /\ [Next]_vars => BytesLicensed
<1> SUFFICES ASSUME TypeOK, HeldWhileUp, [Next]_vars PROVE BytesLicensed
  OBVIOUS
<1>0. told' = told => BytesLicensed
  BY DEF BytesLicensed
<1>1. ASSUME NEW c \in Calls, SendReplays(c) \/ GetTask(c)
      PROVE  BytesLicensed
  <2>1. c[1] \in Interactions /\ UNCHANGED mem
    BY <1>1 DEF Calls, SendReplays, GetTask
  <2>2. told' = told \/ Reply(c[1], mem[c[1]])
    BY <1>1 DEF SendReplays, GetTask, ReadTask
  <2> QED BY <1>0, <2>1, <2>2, ReplyLicensed
<1>2. ASSUME NEW c \in Calls, CallCommits(c) PROVE BytesLicensed
  <2>1. c[1] \in Interactions /\ mem'[c[1]] = call[c].rec /\ Reply(c[1], call[c].rec)
    BY <1>2 DEF Calls, CallCommits, TypeOK
  <2> QED BY <2>1, ReplyLicensed
<1>3. CASE \E c \in Calls :
             \/ SendBegins(c) \/ SendProbes(c) \/ SendRefused(c) \/ SendAccepts(c)
             \/ CallRenames(c) \/ CallSaveFails(c) \/ \E d \in Contents : SendArrives(c, d)
  BY <1>0, <1>3 DEF SendBegins, SendProbes, SendRefused, SendAccepts, CallRenames,
                    CallSaveFails, SendArrives
<1>4. CASE \E k \in Interactions :
             \/ JobProgress(k) \/ JobSaveFails(k) \/ DetachedSettles(k) \/ LicenseExpires(k)
  BY <1>0, <1>4
     DEF JobProgress, JobStarts, JobProbes, JobGivesUp, JobExpires, JobExecutes,
         ExecutorSettles, ExecutorTimesOut, JobSeals, JobRenames, JobCommits,
         JobSaveFails, DetachedSettles, LicenseExpires
<1>5. CASE Tick \/ Rewind \/ AuthorityLost \/ Close \/ Drain \/ Stop \/ Crash \/ Restart
           \/ UNCHANGED vars
  BY <1>0, <1>5 DEF Tick, Rewind, AuthorityLost, Close, Drain, Stop, Crash, Down, Restart,
                    vars
<1> QED BY <1>1, <1>2, <1>3, <1>4, <1>5 DEF Next, CallProgress

\* Licensed answer bytes leave the service only before their license ends and only while
\* the process that produced them is still open.
THEOREM BytesWithinLicenseHolds == Spec => BytesWithinLicense
<1>1. Init => HeldWhileUp
  BY DEF Init, HeldWhileUp
<1>2. TypeOK /\ HeldWhileUp /\ [Next]_vars =>
        [\A k \in Interactions : \A t \in told'[k] \ told[k] :
           t.bytes /\ mem'[k].version = "0.2" => clock < LicenseEnd /\ process = "up"]_vars
  BY StepBytes DEF BytesLicensed
<1> QED BY <1>1, <1>2, StepHeld, TypeCorrect, PTL DEF Spec, BytesWithinLicense
================================================================================
