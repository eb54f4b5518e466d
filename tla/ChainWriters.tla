------------------------------ MODULE ChainWriters ------------------------------
(***************************************************************************)
(* The writers of the owned chain: Onboarding, the Migration that may take  *)
(* its Safe and services over, and a reviewer's FeedbackSubmission.  One of *)
(* them writes at a time.  A migration is configured when onboarding is     *)
(* complete and its writers are stopped for good (onboardingWritersStopped *)
(* of safe/migration.ts); both then share the chain, the nonces and the     *)
(* hashes a process has sent.                                              *)
(***************************************************************************)
EXTENDS Onboarding

CONSTANTS
  NoPoint, NoConfig,
  Submitters, Attempts, MaxAsks, NoResult,
  Starts,          \* the writers that a behaviour may start with
  MaxTroubles      \* bound on all of the disturbances together

ASSUME WritersAssumption ==
  /\ Attempts \in Nat \ {0} /\ MaxAsks \in Nat /\ MaxTroubles \in Nat
  /\ Starts \subseteq {"onboarding", "migration", "feedback"}

VARIABLES
  writer,                                          \* who writes
  config, migration, migrationDurable, migrating,  \* of Migration
  prepared, original, ask, asks                    \* of FeedbackSubmission

M == INSTANCE Migration WITH disk <- migration, durable <- migrationDurable,
                             op <- migrating
F == INSTANCE FeedbackSubmission

ASSUME NoResultAssumption == NoResult \notin F!Results
ASSUME NoMigrationAssumption == NoEffect \notin M!Points /\ NoJournal \notin M!Journals

onboardingVars == <<disk, durable, op>>
migrationVars == <<config, migration, migrationDurable, migrating>>
feedbackVars == <<prepared, original, ask, asks>>
writerVars == <<vars, writer, migrationVars, feedbackVars>>

--------------------------------------------------------------------------------
(* A chain on which onboarding is complete: one block for each of its steps. *)

StepAgent(s) == IF CallOf(s) = "deploy" THEN 0 ELSE ServiceOf(s)
History ==
  [n \in 1..(LastStep + 1) |->
     [call |-> CallOf(n - 1), payerNonce |-> n - 1,
      safeNonce |-> IF n = 1 THEN 0 ELSE n - 2,
      agent |-> IF CallOf(n - 1) = "publish" THEN StepAgent(n - 1) ELSE 0]]
HistoryBlock(n) == [kind |-> "own", by |-> n, ok |-> TRUE, agent |-> StepAgent(n - 1),
                    fork |-> 0]
HistoryJournal(approval) ==
  [step |-> [s \in Steps |->
     [prepared |-> TRUE, approved |-> IF s = 0 THEN NoApproval ELSE approval,
      execution |-> s + 1,
      effect |-> [height |-> s + 1, fork |-> 0, agent |-> StepAgent(s)]]],
   profile |-> [i \in 1..Services |-> i]]

Onboarded == disk # NoJournal /\ \A s \in Steps : Done(disk, s)

OnboardedInit ==
  /\ signed = History
  /\ chain = [n \in DOMAIN History |-> HistoryBlock(n)]
  /\ \E a \in Approvals : disk = HistoryJournal(a)
  /\ durable = disk /\ op = Idle
  /\ wire = {} /\ mempool = {} /\ foreign = 0 /\ reorgs = 0 /\ losses = 0
  /\ submitted = {} /\ sent = DOMAIN History /\ breaks = 0
  /\ config = [basis |-> M!HeadPoint, safeNonce |-> SafeNonce, payerNonce |-> PendingNonce]
  /\ migration = NoJournal /\ migrationDurable = NoJournal /\ migrating = M!Idle

WritersInit ==
  /\ writer \in Starts
  /\ IF writer = "migration" THEN OnboardedInit ELSE Init /\ M!OwnInit
  /\ F!OwnInit

--------------------------------------------------------------------------------
Onboards(action) ==
  writer = "onboarding" /\ action /\ UNCHANGED <<writer, migrationVars, feedbackVars>>
Migrates(action) ==
  writer = "migration" /\ action /\ UNCHANGED <<writer, onboardingVars, feedbackVars>>
Reviews(action) ==
  /\ writer = "feedback" /\ action
  /\ UNCHANGED <<writer, onboardingVars, migrationVars, submitted, sent, breaks>>

\* The onboarding writers are stopped and the migration is configured.
HandOver ==
  /\ writer = "onboarding" /\ "migration" \notin Starts
  /\ Onboarded /\ op = Idle
  /\ writer' = "migration"
  /\ M!Configure
  /\ UNCHANGED <<onboardingVars, feedbackVars>>

Troubles == foreign + reorgs + losses + breaks

WritersNext ==
  /\ \/ Onboards(Next) \/ Migrates(M!Next) \/ Reviews(F!Next)
     \/ HandOver
  /\ Troubles' <= MaxTroubles

WritersSpec == WritersInit /\ [][WritersNext]_writerVars

\* The owner's script, run again from the journal after whatever went wrong: for each
\* step in turn its reservation, approval, signing and sending, each command in a process
\* of its own.
ScriptFor(prepared_, approved_, execution_) ==
  IF ~prepared_ THEN "next" ELSE IF approved_ = NoApproval THEN "approve"
  ELSE IF execution_ = 0 THEN "execute" ELSE "resume"

OnboardingScript ==
  IF disk = NoJournal THEN "prepare"
  ELSE IF ~Done(disk, 0) THEN IF disk.step[0].execution = 0 THEN "execute" ELSE "resume"
  ELSE LET a == disk.step[CHOOSE s \in Outstanding(disk) : TRUE]
       IN ScriptFor(a.prepared, a.approved, a.execution)

MigrationScript ==
  IF migration = NoJournal THEN "initialize" ELSE IF M!Migrated THEN "inspect"
  ELSE LET s == CHOOSE s \in M!Outstanding(migration) : TRUE  a == migration[s]
       IN ScriptFor(M!Prepared(migration, s), a.approved, a.execution)

Runs == \/ Onboards(submitted = {} /\ ~Onboarded /\ Begin(OnboardingScript))
        \/ Migrates(submitted = {} /\ M!Begin(MigrationScript))
        \/ HandOver
Works == Onboards(Progress \/ NewProcess) \/ Migrates(M!Progress \/ M!NewProcess)
Delivers == \E h \in wire :
  Onboards(Alone /\ Deliver(h)) \/ Migrates(M!Alone /\ Deliver(h))
Mines == \E h \in mempool :
  Onboards(Alone /\ Mine(h)) \/ Migrates(M!Alone /\ Mine(h))

ScriptedNext ==
  /\ \/ Runs \/ Works
     \/ Onboards(Breaks \/ PowerFails \/ Environment)
     \/ Migrates(M!Breaks \/ M!PowerFails \/ M!Environment)
  /\ Troubles' <= MaxTroubles

\* The owner goes on with the script; RPCs resolve; the node delivers what is not lost
\* and mines.
ScriptedSpec ==
  /\ WritersInit /\ [][ScriptedNext]_writerVars
  /\ WF_writerVars(Runs) /\ WF_writerVars(Works)
  /\ WF_writerVars(Delivers) /\ WF_writerVars(Mines)

--------------------------------------------------------------------------------
(* Properties.                                                              *)

WritersTypeOK == TypeOK /\ M!TypeOK /\ F!TypeOK

RotatesThenRepublishes == M!RotatesThenRepublishes
AnswersAreTrue == F!AnswersAreTrue

\* "Nonce movement is never success evidence" (onboarding.ts:200), for the onboarding and
\* for the migration: what a journal records as done is a fact of the chain.
RecordsAreFacts == EffectsAreFacts /\ M!VerifiedIsFact

\* Undisturbed by others, an owner who keeps running the operations onboards every service
\* and then hands the Safe and every profile over to the new operator, through lost
\* requests, failed writes and crashes (onboarding.ts 223-260, migration.ts 171-214).
HandsOver == <>(writer = "migration" /\ M!Migrated)
================================================================================
