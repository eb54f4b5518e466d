# NandaCity in TLA+

TLA+ modules, model-checking configurations and machine-checked proofs for the
TypeScript program in `src/src`. The modules are translated from the code; the
documents under `src/docs` and the tests were read for what they promise of it.
Paths below are relative to `src/`.

Contents: [the system](#the-system), [the modules](#the-modules),
[the runs](#the-runs), [fairness](#fairness), [the proofs](#the-proofs),
[abstractions](#abstractions), [findings](#findings), [plan](#plan).

## The system

NandaCity is a local prototype in which a personal agent finds city services in two
independent indexes, verifies who stands behind each listing in an identity registry
on an EVM chain, ranks them by signed feedback, invokes one over a small A2A protocol
and publishes feedback of its own. The operators of the services own their registry
identities through Safe accounts, which they set up, rotate and back up. A demo server
drives all of this for browsers.

| Component | Code (`src/`) | State | Operations | Hard behaviour |
| --- | --- | --- | --- | --- |
| A2A task runtime | `a2a/service.ts`, `store.ts`, `strategy.ts`, `wire.ts` | tasks by interaction key in memory and on disk; locks per key; running executions; pinned input | `SendMessage`, `GetTask`, background execution, `close`, restart | concurrent replays, awaits between check and save, crash around the atomic rename, executor timeouts with late answers, clocks that move back, loss of signing authority, restart in another configuration |
| Answer retention | `live/retention.ts` | answer bytes with a license and size limits | put, get, expire, close | bytes outliving their license or the runtime |
| Budget ledger | `live/budget.ts` | runs and their attempts on disk and in memory, two slots, `writer.lock` | `begin`, `dispatch` (acquire, reserve, call, settle), `finish`, `close`, `open` | failed saves, calls that ignore their abort, reservation against a session cap by concurrent runs, crash and reopen, a second writer, late continuations |
| Live answers, adapters, transport | `live/answer.ts`, `adapters.ts`, `transport.ts` | one execution: signal, session, cleanup | work, cleanup, finish | the order of settlement and cleanup under cancellation |
| Safe onboarding | `safe/onboarding.ts`, `safe/adapter.ts` | `journal.json`: deployment, registrations and publications with their approvals, signed transactions and effects; hashes sent by the process | prepare, next, approve, execute, resume, inspect | signing and sending exactly once across crashes, lost replies, moved nonces, dropped blocks |
| Journal lock, private files | `safe/onboardingJournal.ts`, `privateFile.ts` | directories `lock` and `recovery`, tracked child processes | `withJournalLock`, `recoverLock`, `trackCaller` | file operations of several processes interleaved, death at every step, reused inode numbers |
| Safe migration | `safe/migration.ts` | its own journal: one owner swap, then a republication per service | initialize, next, approve, execute, resume, inspect | as onboarding, with the owner changing on the way and the writers of onboarding stopped before |
| Backup, contract pins | `safe/backup.ts`, `contracts.ts` | export files | write, verify | none: data checks |
| Identity, authority | `identity/*`, `a2a/authority.ts` | none; reads of registry state and history at blocks | profile verification, continuity, feedback epochs, the authority of one request | reads at different blocks, reorganizations, bounded event pages |
| Interaction documents | `interaction/*` | none | schemas, digests, signatures | none: pure |
| Discovery | `discovery/*` | requests, bytes and exhaustion per origin, leases | open, check, charge, close, dispose | limits under concurrent leases, deadlines against late answers |
| Ranking, reputation | `reputation/*` | calls, bytes, pages and rows per lane; queue and two slots; pairs and slots of a coverage in progress | coverage, evidence collection, policy, read budget | as discovery, with a queue; one lane's exhaustion must not leak into another; two workers over the same pairs; Indexes that withhold, invent and substitute |
| Feedback | `feedback/*` | none; snapshots pinned to blocks | slot observation, publication, pair checkpoint, activation, carry-forward | reorganizations between the reads of a snapshot, a failed read that hides one |
| Origin evidence | `origin/*` | none | formats and signatures | none: pure |
| External client | `client/*` | one pass of discovery, ranking, sending and polling | - | a late cancellation, a failed read told from a false row |
| Session controller, demo server | `demo/sessionController.ts`, `sessionServer.ts`, `sessionFixture.ts`, `sessionWalletWorker.ts` | generation, stage, operation, up to four results, abort signal | launch, submit, invoke, act, publish, reset, close | results of a superseded generation, reset and close racing a start |
| Shared browser sessions | `demo/sharedBrowserSessions.ts` | one base session, per-browser views, a queue with limits, degraded flag | open, start, wait, reset, close | interleaved browsers, failed restore of shared indexes |
| Owned lifecycle, Index processes | `demo/ownedLifecycle.ts`, `demo/indexProcesses.ts` | owned children, a container, a signal and a watchdog | acquire, start, stop, restart, rebuild, cleanup | operations nobody awaits, a start that fails after its spawn, a lost container receipt, a signal anywhere |
| Feedback publication | `demo/feedbackPublication.ts` | one retained signed transaction | prepare, submit, revoke | lost replies, a nonce used by another transaction, mining between two looks |
| Journeys, fixtures, reports, CLI | rest of `demo/*`, `report/*`, `cli.ts` | - | fixed sequences, rendering | none of their own |

How they interact: an executor of the task runtime may be a live answer, whose provider
calls the budget ledger admits and whose bytes the retention holder keeps until the
license ends. The demo's wallet worker runs onboarding in a child process; its parent
tracks the child and recovers the journal lock when the child dies
(`demo/sessionFixture.ts:86`). Onboarding's result feeds the identity, discovery and
ranking layers, which only read.

What makes each part correct:

- *task runtime*: an acceptance is durable before it is told or executed; an interaction has
  one acceptance and one terminal result for ever; a told result never changes; a claimed
  time lies within what the authority was observed to cover; the executor is not run twice.
- *budget ledger*: no call before its reservation is on disk; caps hold over every session's
  ledger; cleanup is always affordable; only the lock's holder calls; a task is admitted once.
- *onboarding*: what is sent is durably journaled, once per step and in order; recorded
  effects are facts of the chain; the journal only grows and stays acceptable; it completes.
- *journal lock*: mutual exclusion and no lost write in spite of recovery; a dead holder's
  lock can be recovered.
- *read budgets*: limits hold under concurrency, exhaustion stays in its lane, disposal ends.
- *migration*: nothing is sent that is not journaled; no new profile appears while the retired owner
  still controls the Safe; what is recorded as verified happened.
- *sessions*: what is shown was observed after the last control took effect; nothing of an ended generation is
  readable; one browser never meets another's fault or result; nothing owned outlives its scope unreported.
- *identity, feedback*: a finding is about one chain, the one asked about, and about the blocks it names.
- *ranking*: a history is called complete only when it is, and a score is the one of everything that was published.

## The modules

| Module | Models | Notes |
| --- | --- | --- |
| `InteractionContract` | what the task runtime promises | abstract: per interaction none, accepted, settled |
| `TaskRuntime` | `a2a/service.ts`, `a2a/store.ts`, `a2a/strategy.ts`, license of `live/retention.ts` | implements `InteractionContract` (property `ImplementsContract`) |
| `TaskRuntimeProofs` | - | the theorems about `TaskRuntime` |
| `LiveBudget` | `live/budget.ts` with `live/answer.ts`, `live/adapters.ts`, `live/transport.ts` as its callers | |
| `LiveBudgetProofs` | - | the theorems about `LiveBudget` |
| `SafeChain` | the chain, its node and the wire to it | environment; not code of the repository |
| `Onboarding` | `safe/onboarding.ts`, execution half of `safe/adapter.ts`, `safe/privateFile.ts` | extends `SafeChain` |
| `OnboardingProofs` | - | the theorems about `Onboarding` and its chain |
| `Migration` | `safe/migration.ts` with the same half of the adapter | extends `SafeChain` |
| `FeedbackSubmission` | `demo/feedbackPublication.ts` | extends `SafeChain` |
| `ChainWriters` | onboarding, then migration, over one chain, and feedback over its own; the owner's script | extends `Onboarding`, instantiates the two others |
| `ChainWritersProofs` | - | the theorems about the writers together; extends `OnboardingProofs` |
| `JournalLock` | `safe/onboardingJournal.ts` | what lets `Onboarding` have one transition at a time |
| `JournalLockProofs` | - | the theorems about `JournalLock` |
| `RegistryChain` | what a reader sees of the registries through an RPC node | environment of the readers |
| `IdentityReaders` | `identity/registry.ts`, `identity/continuity.ts`, `a2a/authority.ts` | snapshot, checked interval, authority, epoch |
| `FeedbackReaders` | `feedback/registryObservation.ts`, `feedback/publication.ts` | one slot |
| `PairCheckpoint` | `feedback/pairZeroCheckpoint.ts` | extends `FeedbackReaders` |
| `Activation` | `feedback/reputationActivation.ts` | |
| `CarryForward` | `feedback/historicalRead.ts` | composes `IdentityReaders` and `FeedbackReaders` |
| `RegistryReaders` | - | all readers over one chain, from any blocks and any story |
| `RankedDiscovery` | `client/rankedDiscovery.ts` with `discovery/indexClient.ts`, `discovery/readBudget.ts` and the verdict of `discovery/verifyDiscovery.ts` | two lanes over one frozen block |
| `ReadersProofs` | - | the theorems about the readers and the discovery |
| `Coverage` | `reputation/coverage.ts` | two workers; relies on what the readers promise |
| `RankingPolicy` | `reputation/policy.ts`, `reputation/engine.ts` | pure operators |
| `RankingEvidence` | `reputation/evidence.ts` | extends `RankingPolicy`; relies on what the readers and `Coverage` promise |
| `RankingBudget` | `reputation/readBudget.ts` with the bounded fetches of `identity/rpcTransport.ts` as clients | |
| `RankingProofs` | - | the theorems about `RankingBudget`, `Coverage` and `RankingEvidence` |
| `Session` | `demo/sessionController.ts` over `demo/sessionFixture.ts` | |
| `SharedBrowsers` | `demo/sharedBrowserSessions.ts` | extends `Session` |
| `SessionServer` | the lease of `demo/sessionServer.ts` | extends `Session` |
| `IndexProcesses` | `demo/indexProcesses.ts` inside `demo/ownedLifecycle.ts` | |
| `Sessions` | - | the session with each of its fronts, or a journey with its Indexes |
| `SessionsProofs` | - | the theorems about `Sessions` and its parts |
| `MC...` | - | finite instances, the inputs of the readers, symmetry for TLC |

Each module says at its definitions which handler they stand for, and `PROJECT.json` gives
the lines. In short:

**TaskRuntime.** `disk` and `mem` hold the tasks of `store.ts`; `call` is a `message/send` or
`tasks/get` handler, suspended at its awaits (the lock of its key, the reading of authority, the
two halves of a save); `job` is the background execution of a key, `executeAccepted`, with its
stages; `held` is the retention holder; `process` and `mode` are the server's life and its
configuration; `clock` and `intact` are the time and the authority that the code reads. Sends of
one key exclude each other (`withInteractionLock`); polls and executions do not take the lock, which is
what makes their saves race. `Restart` picks any configuration the code accepts. `told` and
`runs` record history. Definitions named after a bug (`InterruptedOnlyLive`,
`ClaimsUnchecked`, ...) precede the definition they vary and are not part of `Next`.

A record that the store's parser refuses (`Parses`) can be neither saved nor opened, so a state that it
does not foresee would show as a save or a restart that never happens.

**LiveBudget.** A `writer` is one opened `BudgetLedger`, `lock` its `writer.lock`; `disk` is `budget.json` and `mem`
each writer's copy; `run` is the execution of a task by `createLiveAnswer`, with its work and
cleanup dispatches. The ledger's mutations run one at a time (`Busy`), and a save may fail and leave
either content. `physical` counts provider calls in flight, those that were aborted and have not
returned included: they keep their slot until they do.

**Onboarding.** `disk` is `journal.json` as a process reads it and `durable` what a loss of power
leaves: a rename whose directory sync failed is visible and not durable, which is why
`reconcile` writes the journal once more before it broadcasts (`onboarding.ts:226`). `op` is the
transition under the lock; each RPC and each write is a step. `submitted` is the adapter's
process-wide set of sent hashes, so that a lost request needs a new process.

**Migration** has the shape of `Onboarding`: `config` is the configuration made when the writers of onboarding
are stopped, `disk` and `durable` the migration's journal, `op` the command under the lock. Step 0 swaps
the primary owner, step i publishes the profile of service i. **FeedbackSubmission** has no journal: the retained bytes of
`prepared` are all there is, and any process may submit them at any time. **ChainWriters** lets one of
them write, hands the chain over from onboarding to migration (`HandOver`), and adds the owner's script for liveness.

**JournalLock.** A caller's `pc` walks through the file operations of `withJournalLock`, a
recovery's through those of `recoverLock`. Children die at any step; local calls die with their
controller; strangers are callers of another controller over the same directory. Messages of
one child arrive in order, and late.

**RankingBudget.** A `request` is a fetch that is repeated: queued for a permit, leased, reading, closing. A
lease pays for its call at its first check, right before the exchange (`dispatched`), so that an open lease
may have paid or not. `calls`, `bytes` and `stopped` are the counters of the lanes and the
exhausted pools. The code's pump runs in one go after each opening, closing and stop; the model's goes
item by item at position `scan`, with every other action waiting (`Quiet`). `disposal` is a pending `dispose`.

**The readers.** `story` gives each block at most one registry event; `common` is the highest block that is still
canonical, and `Reorganize` lowers it between any two reads. A read below it is true, one above it answers
anything. `left` are the reads still to do, `got` what was read, `verdict` what is reported. Each reader has the order of the
code's awaits, the failure of any read, and the look at all blocks before it reports.

**RankedDiscovery.** A `lane` is the search of one Index: its step, its page and the row it verifies, its reservation. The two
eth_calls of a snapshot are `calls`, each let in, sent and answered; every other read of a lane is one step that is answered, refused or lost.
`stands` says that the frozen block is canonical; `report` is made when the lanes are done and revised after the ranking was awaited.

**Coverage, RankingEvidence.** `worker` is one Index's walk over the pairs, suspended at each read; `slots` is what
either has authenticated. `RankingEvidence` takes the publications one after another in chain order, with what the
readers find of them, and reports the value of `RankingPolicy`'s operators, unless the observation block was replaced meanwhile.

**Session, SharedBrowsers, SessionServer.** The queue of the session is a promise chain (`queue`), the operation at its head
walks through `phase`. What a control of an Index or the recovery of an operator makes obsolete is `Stale`, a
history the code cannot see. `front` is who holds the session: a visitor of its own, the pool of browsers with its own
`line` of plans, or the server's lease.

**IndexProcesses.** `children` lists every process spawned under a name, `processes` the registered one, `handle` the one that the
returned object closes over; `ongoing` is the operation of each name with the awaits it has left, which nobody need await.

## The runs

All run within four minutes on two workers. `CHECK_DEADLOCK FALSE` is set where the bounds or the end of a
scope end the behaviours; `ranking_budget` and the two runs of readers, which idle explicitly when they have reported,
check deadlock.

| Run | Bounds | Distinct states | Shows |
| --- | --- | --- | --- |
| `task_safety` | 1 interaction, 2 concurrent requests with 2 contents, 1 crash or close, 1 failed write, 1 step back of the clock | 1.2 million | a told or executed task is durable (`DurableFirst`); receipts claim covered times only (`TruthfulReceipts`); every further run costs a lost process or a failed write, and a licensed task has none (`BoundedRuns`); the contract is implemented (`ImplementsContract`); bytes end with license and runtime (`BytesWithinLicense`) |
| `task_liveness` | 1 interaction, 2 concurrent requests, 1 content, 1 crash or close, 1 failed write | 145 058 | a polled task settles (`EventuallySettled`) |
| `budget_caps` | 1 writer, 2 tasks and 1 of an earlier session, 1 slot, 1 work call per run, session cap of 6, 1 fault | 535 632 | the session's cap over the durable ledger and an affordable cleanup (`CapsHold`); reservation before dispatch (`ReservedBeforeDispatch`) |
| `budget_writers` | 2 writers, 1 task, 1 slot, 2 work calls, 1 fault | 235 004 | calls of both writers stay within the slots (`SharedSlots`); the ledger never forgets (`LedgerNeverForgets`); executions end and a closing writer releases the directory (`BudgetDrains`) |
| `writers_safety` | onboarding of 1 service, or its migration, or a feedback with 2 submitters and 2 attempts; 2 approvals; at most 2 of: 1 break, 1 loss, 1 foreign transaction, 1 dropped block | 924 134 | what is sent is durably journaled, once and in order (`SentIsJournaled`, `RotatesThenRepublishes`); what is recorded or answered is a fact (`RecordsAreFacts`, `AnswersAreTrue`); a journal only grows (`JournalNeverForgets`) |
| `onboarding_payer` | 1 service, 1 foreign transaction | - | violates `JournalValidates`, see [findings](#findings) |
| `journals` | the lock: 1 child, 1 local call, 1 stranger, 1 recovery, 2 inode numbers, 1 write each; or the writers: 2 services, onboarding then migration, at most 3 of 2 breaks and 2 losses, nobody else | 355 225 | of the lock, mutual exclusion (`Exclusive`), no lost update (`NoLostUpdate`), a dead child's lock is moved away (`DeadLockRecovered`); of the writers, the owner's script hands everything over (`HandsOver`) |
| `registry_readers` | 7 readers over every story of 5 blocks that tells their outcomes apart, pages of 2 blocks, 2 logs in a page; discovery: 2 Indexes with up to 3 rows, 2 pages, 16 requests, a shortlist of 1, 1 failed request | 3.6 million | each finding is about the chain asked about: `AuthorityHolds`, `EpochHolds`, `SlotsHold`, `CheckpointHolds`, `ActivationHolds`, `CarryHolds`; a complete discovery is all that was offered, a read that fails rejects nothing and a cancelled caller gets nothing (`DiscoveryHolds`), within each Index's reservation (`DiscoveryBudget`) |
| `ranking_evidence` | coverage: 2 reviewers, up to 3 publications, 2 slots per pair and 3 in all, rows of 2; evidence: 3 publications of 3 documents by 2 authors, one of them out of the ordinary or with another's bundle of this city or of another, 1 failed read | 3.8 million | a pair is complete only with every slot, and the workers do not take each other's finds for conflicts (`CoverageHolds`); the verdict is that of everything published, unless a bundle has moved an unread review to another city (`VerdictIsTrue`) |
| `withheld_review` | as `ranking_evidence` | - | violates `NothingErased`, see [findings](#findings) |
| `ranking_budget` | 2 shared requests and 2 of one index lane, 2 permits, 2 shared and 1 index calls, 1 byte per pool, queue of 3 | 107 234 | reservations under overlapping leases (`Reservations`); exhaustion stays in its lane (`LanesIsolated`); every queued request is answered and every disposal ends (`EverythingAnswered`) |
| `sessions` | queue of 2 of all actions but stopping the providers, 1 reset, 1 invocation and 1 retained result; or 2 browsers with 1 reset each; or 2 visitors of the lease; or 2 Indexes with 2 children each | 2.8 million | `BasisSurvivesControls`, `ContentFenced`, `ControlsAreTrue` of the session, `FaultsContained` and `JourneysSeparate` of the pool, `LeaseIsolation` of the server, `NothingOutlives` of the Index processes |

Why the bounds are enough to be interesting: two requests with different contents suffice for
a replay, a conflict and a race for one key; one restart separates what is in memory from what
is on disk, and a second writer of the ledger is a restart that keeps its predecessor's late
continuations alive. Two inode numbers let a number be used again. In onboarding a service has
two steps after the deployment, so order between steps is visible with one service; the second
service matters for the order between services and is in `journals`, where onboarding also hands over to migration.
In the safety run each writer starts by itself: migration starts on the chain and journal that a finished onboarding leaves. Two
troubles combine any two of a failed or lost action, a nonce that somebody else moves, and a dropped block, which is what a retry
on stale grounds takes; `journals` has three. The lock and the writers share no state and are two parts of that run: a
behaviour moves one of them, under the fairness of that one.
The stories of the readers leave out events that a reader does not look at and histories whose outcomes repeat
those of others (the conditions in `MCRegistryReaders`); five blocks let an interval have an inner page boundary.
Two publications of one reviewer and one of another are what a withheld revision, a limit per pair and a race of the
two workers for one pair need. A verified row takes ten requests of a discovery, so that of sixteen the
second row's parallel calls ask for the last. A front of a session is used in turn with the others, as the code has only one at a time. `VisitorActions` leaves out
stopping the providers, which waits as a fresh consumer does, is never refused and touches no Index. In the ranking budget, two shared calls and two
permits let two leases be over a limit that one alone respects, and a queue of three is both
full and contended. Interactions do not
share state in the runtime but for `close`, so one is enough for TLC; the theorems hold for any
number.

Besides these properties, the `TypeOK` of seven state machines states the shape of their state. Those of `TaskRuntime`,
`RankingBudget`, `LiveBudget`, `JournalLock`, `Onboarding` and, as `WritersTypeOK`, of the three writers together are proved;
those of the sessions, their Indexes and the discovery are stated in their proofs.

For every property of a passing run `PROJECT.json` names a plausible bug, a variation of one
definition, that makes TLC find the property violated.

## Fairness

- *TaskRuntime*: handlers, executions, close and restart go on (weak fairness of `CallProgress`,
  `JobProgress`, `Drain`, `Stop`, `Restart`); an executor that does not answer is ended by its timer, a
  part of `JobProgress`; the caller polls again and again (strong fairness of `Poll`, which is disabled while the
  server is down). Crashes, failed writes and steps back of the clock are finite, by their bounds. The
  lock's queue is first-in first-out in the code and any waiter in the model, which is weaker.
- *LiveBudget*: the steps of an execution and of a release go on, the run's timer fires (`RunLate`), and a failed
  close is called again (`Retry`). Nothing obliges an aborted call to return, and `ClosedWriterReleases` excepts a
  writer whose call never does.
- *ChainWriters*: the owner keeps running the script (`ScriptedSpec`, in `journals`), each command in a process of its own at last, as
  the wallet worker's parent does (`demo/sessionWalletWorker.ts:46`, `:98`); RPCs resolve; the node delivers what is not lost and
  mines. Nothing else uses the payer, the Safe or the chain's history. The safety run assumes no fairness.
- *JournalLock*: calls and recoveries go on, SIGKILL ends a process, messages arrive and the
  recovery is called again. The two second timer of `recoverLock` may fire before any exit.
- *RankingBudget*: the pump is a loop and goes on; an exchange ends, by the lease's timer of at most five seconds
  if by nothing else, and is closed in the `finally` of its fetch. Fairness of the latter is strong because in the
  model, not in the code, a pump takes several steps and disables it meanwhile. Nobody is obliged to open, to cancel, to
  halt or to dispose.

## The proofs

Eight modules of proofs are checked by TLAPS, for every value of the constants. They assume only the named
assumptions on the constants of the modules they are about: bounds are naturals, at least one where there must
be one; null values are not records; kinds of callers are disjoint; prices are naturals. TLC evaluates them in
the runs.

**TaskRuntimeProofs.**

- `TypeCorrect`: `Spec => []TypeOK`, inductive as it stands.
- `Invariance`: `Spec => [](TypeOK /\ IInv)`. `DurableFirst` and `ToldResultKept` are not inductive: they relate
  the disk to what was told and to what is executed, while a handler or execution is about to overwrite the disk
  with a record of its own. `IInv` says what such a record can be. `Agrees`: a task in memory is the one on
  disk, which may be ahead by a terminal state, and what was told is on disk. `JobTied`: an execution works on
  the submitted task in memory. `CallTied`: a handler with a save pending either creates a task where there is
  none, or fails the very task in memory while no execution has it. `OneCreator`: the lock lets one send at a
  time create.
- `DurableFirstHolds` and `ToldResultKeptHolds` follow from it.
- `ContractImplemented`: every step of `TaskRuntime` is a step of `InteractionContract` or stutters, under the
  refinement mapping of `TaskRuntime`.
- `TruthfulReceiptsHolds`: the invariant `TInv` follows the time of a receipt from the observation of authority
  that covered it, over the waits in which clock and authority move, to the record that is told.
- `BoundedRunsHolds`: a run is counted against the lost processes and failed writes that excuse it. `RInv` ties
  the count to where the task is: a task that could run once more has already had its excuse.
- `BytesWithinLicenseHolds`, an action property: `HeldWhileUp` says that closing and crashes leave no bytes
  behind, so that a reply with bytes is one of an open process that has just looked at the clock.

**RankingProofs** has every safety property that `ranking_budget` and `ranking_evidence` check. The budget is proved for
any finite set of requests and any reservations, permits, queue limit and chunk size (`BudgetAssumption`: the totals are the sums of the
reservations by definition, and the shared lane makes no index requests).

- `ReservationsHold`: that no lane exceeds its calls is not inductive, as a lease is admitted before it pays.
  What is inductive counts the open leases that have yet to pay (`CallsFit`); a dispatch moves one from one side
  of the sum to the other. That a newly leased request has not paid already rests on the queue holding each
  request once and only while it is queued (`QueueIsQueued`), and on only open exchanges having paid
  (`PaidAreOpen`).
- `IsolationHolds`: while every lane is within its reservation and the totals are the sums, a total cannot be
  reached before the lane that is charged has used up its own (`SpentIsOwn`, `OverIsOwn`), so that no lane is
  closed by another's use.
- `DisposalHolds`: `Settling` says that the pump after `dispose` stays at the head of the queue until the queue
  is empty, and that nothing is queued afterwards.
- `TypeCorrect` for the same module.
- `CoverageIsComplete` is about `Coverage`, for any pairs, limits, publications and answers of the Indexes
  (`CoverageHolds`). Under `CoverageInv` a worker waits in the middle of a pair only with the counter it has read
  for it, and while the observation stands a counter that was read is the chain's, what was authenticated
  of a pair is among the pair's publications, and a fault is one of a read that really failed. A pair is thus
  covered only by all its publications: a subset of a finite set that has as many elements. That the two workers
  accuse nobody rests on a slot being one publication of its pair: when one of them comes back with
  a find, what the other has put at the same number meanwhile is the same publication.
- `VerdictHolds` is about `RankingEvidence` and `RankingPolicy`, for any documents, publications, revocations, bundles,
  groups of reviewers and numbers of failed reads (`VerdictIsTrue`). What may be so of a service is `Published`: a
  document names its author, and a coverage that is called complete has every slot, which is what `CoverageIsComplete`
  proves. Under `EvidenceInv`, until the observation is replaced, each review is what the reader makes of its
  publication with one fault or none (`ReviewsRead`), and what is composed for a document is composed for its first
  publication, if that was read as matched (`AnchorsFound`). After the loop this becomes `Sound`, in four steps.
  An anchor that is understood is a document with its own bundle (`ClearAnchor`); an earlier publication
  of it by the same author could not be excluded, so that the anchor stands where the document does (`ClearStands`);
  its epoch and history together say whether it is retired (`ClearIsTold`); and every document that counts has an
  anchor (`CountingIsAnchored`). The latest of a pair and its verdict are then the same on both sides. The score
  itself stays unexpanded: both sides apply it to the same set of votes. A review whose document was not read takes the
  city of whatever bundle is at hand: the theorem is about the verdicts for which none was set aside by that (`Misplaced`),
  where each such review leaves the result unresolved.

**LiveBudgetProofs**, for any finite set of tasks, and any writers, prices and limits.

- `Invariance`: `Lifecycle` says when a writer has the lock; `Ahead`, that the memory of an open writer extends
  the file; `Counted`, that the slots a writer counts are those of executions about to call and of calls in
  flight, the abandoned ones included. `Owned` ties an execution to its writer and `Paid` to its attempts on
  file: at every stage of a dispatch it says which of them exist and which is the last.
- `ReservedBeforeDispatchHolds` from `Paid`. `SharedSlotsHold` from `Counted`, with the cardinality of the tasks
  that are in flight. `LedgerNeverForgetsHolds`, an action property, from `Ahead`: the file is only replaced by
  its holder, with what extends it.
- `CapsHoldAlways` (`CapsHold`), from a file that begins within the cap: `open` does not compare a file with the cap
  of the session, so one left under a higher cap may exceed it. Under `CapInv` the file and every memory are
  within the cap, with no more attempts per run than its hold is for, and the entry of an execution is open until it
  finishes (`StillOpen`). A sum of naturals is the number of its units, the pairs of a place and a number up to
  its summand (`SumCounts`, by a smallest counterexample); changing or comparing sums is then counting finite
  sets. The hold of an open run covers one more attempt at any price (`CostOfOneMore`, `CostType`), so that another
  run's admission by exposure takes nothing from it (`Affordable`).

**JournalLockProofs**, for any number of children, local calls, strangers, recoveries and inodes.

- `ExclusiveHolds`, `NoUpdateIsLost`, `TypeCorrect`: who is inside has created the lock directory that is there,
  and its inode and owner are, at each step, what that caller has read and written (`HasLock`); the journal is
  what the caller last read of it (`KnowsJournal`). The gate admits one recovery (`GateIsOne`), and a recovery
  only moves away a directory that is still the one of a tracked child that has died (`OwnersAreTracked`,
  `VictimIsDead`). A directory without an owner has no victim and is never moved.

**SessionsProofs**, about `Sessions`, the specification that `sessions` checks an instance of, for any length of
the queue, any number of generations, browsers, visitors and restarts.

- `ContentFencedHolds`: whatever ends a generation aborts it and drops its answers in
  the same step (`EndIsFenced`), and operations are at work only over an owned fixture (`WorkIsOwned`).
- `ControlsAreTrueHolds`: what is shown of an Index against its process and the place its origin leads to
  (`ShownTruly`), which only an operation at work changes (`IndexStays`). A control that fails leaves any of
  `HalfDone` and is shown as unknown; one that takes effect is shown as what it did, on whatever Index it found
  (`ControlIsShown`), and one that alters replies may have found an Index without a process.
- `BasisSurvivesControlsHolds`: an operation that changes an Index or the owners finds an empty view, so that
  nothing is in it that could go stale (`ViewIsFresh`).
- `FaultsContainedHolds`, an action property, and `JourneysSeparateHolds`: the line holds each browser that waits
  once, of the journey it is on (`LineIsPending`), and a fault is on only while the browser that asked for it is at
  the head (`FaultIsServed`).
- `LeaseIsolationHolds` rests on `OneClaims`. A visitor has a claim to a generation by its page, by a form on its
  way or by an operation that was accepted; at most one has, and while no reset is due it is the holder of the
  lease. That nobody starts with a claim to the next generation is why the lease may be granted again while forms
  of the last holder are still on their way.
- `NothingOutlivesHolds`: a live child is the registered one of its name, what an operation awaits is registered,
  and what the scope leaves is reported.

**ReadersProofs**, about `ReadersSpec` for any number of blocks, of blocks in a page and of logs in a page, any
blocks a caller may give, any story and any reorganizations; and about `DiscoverySpec` for any rows and any limits.

- `ReadersInvariance`: what a reader has read so far is true of the chain it was asked about as long as the last of
  the given blocks is canonical (`Current`), for then all blocks below it are as well. A block never comes back, so
  a reader that finds this block unreplaced *after* its other reads knows that `Current` held at all of them. What
  has to be shown of each of the code's orders of reads is that this block is always among those it looks at again
  (`HighIn`), also on the paths where a read failed. `ScanInv` follows the pages of an interval: what has been
  passed (`Passed`) is exactly what was collected. `SlotInv` and `PublicationInv` say at each step what of the
  source and the observation is known, `ActivationInv` and `CheckpointInv` which changes the pages so far had.
- From it `AuthorityIsTrue`, `EpochIsOfTheChain`, `SlotsAreTrue`, `CarryIsTrue`, `ActivationIsTrue` and
  `CheckpointIsComplete`. The last needs that the order of a set of logs is unique. That and the existence of a
  first and a last log are shown by a smallest counterexample (`Smallest`), as finite subsets are well founded:
  no induction theorem with an operator parameter is needed.
- `DiscoveryBudgetHolds`: what is let in and not yet sent counts against the reservation, so that two parallel
  calls cannot both take the last request.
- `DiscoveryIsComplete`: each lane keeps what it has found of the rows it passed (`LaneOK`); a row is rejected only
  where the chain or the card says so, and a lane that ends without an error and without exhaustion has passed all
  rows; the overall verdict is made of both.

**OnboardingProofs**, for any number of services and of crashes, losses, foreign transactions and dropped
blocks.

- `Invariance` and `TypeCorrect`: the durable journal, the one on disk and the one in the transition's memory
  are one journal that grows (`Ordered`); from the second write to the broadcast all three are equal (`Synced`),
  which is what the line that looks redundant, the write before each broadcast, is for; a transition is at the
  first step that is not done (`Walks`).
- `SentIsJournaledHolds` and `JournalNeverForgetsHolds` follow. The latter is an action property over crashes
  that take the disk back to what is durable.
- `EffectsAreFactsHolds` has a second invariant about the chain: while no block was dropped every transaction
  has at most one block and none that is mined waits (`MinedOnce`), so that the block a journal names stays the
  block of its transaction, and what is derived from the blocks up to it does not change (`Facts`).

**ChainWritersProofs** is about `WritersSpec`, the specification that `writers_safety` checks: onboarding, the
migration that takes over, or a feedback. `NoMigrationAssumption` says of the null values what
`NoEffectAssumption` and `NoJournalAssumption` say of onboarding's.

- `AnswersAreTrueHolds`: `ReviewInv` says what a submission knows at each of its steps (`AskHolds`). While no
  block is dropped, a used nonce stays used and a transaction that was not there when its nonce was found to be
  used by another never comes.
- `RotatesThenRepublishesHolds`: the first half, as for onboarding, from what is journaled
  (`HandOverIsJournaled`). The second half is about a Safe that others use as well, and none of migration's
  checks alone gives it: between the check of the owners and the signature, and between the signature and the
  block, somebody else may move the Safe's nonce. `SafeOrder` says that the owner of the Safe is the one the
  last call of the migration left, unless the nonce has moved beyond that call's; and that a republication was
  signed when its nonce was due and the replacement owned the Safe, or can never succeed any more.
- `RecordsAreFactsHolds`: `EffectsAreFacts` as above, and `Verified` for what migration records.
- `WritersInvariance` puts them together: the writer's own invariant holds, the state of those that do not write
  is at rest (`NoHandOver`, `Untouched`), and across `HandOver` the journal of the complete onboarding keeps its
  facts (`OnboardingKept`). It also proves that the invariants hold on the chain that a finished onboarding
  leaves, where a migration may start.
- `SentStaysJournaled` and `WritersTypeCorrect` for all three.

`ToldResultKept` and `DisposedIsQuiet` are proved and no run repeats them; `EffectsAreFacts` is a part of
`RecordsAreFacts`.

Model-checked only: liveness (`EventuallySettled`, `BudgetDrains`, `HandsOver`, `DeadLockRecovered`,
`EverythingAnswered`), which under fairness is out of the prover's reach. Every other property of a passing run is
a theorem.

## Abstractions

- Documents, digests, signatures and HTTP are model values: a content is one of a small set, a
  signature check is the guard it ends in. Their byte formats are not modelled.
- *TaskRuntime*: one reading of the city's authority is one step with a nondeterministic outcome;
  authority, once lost, stays lost. An interrupted task's failure carries no timestamp, as two
  polls may write it with different ones. A rename is durable at once; a failed directory sync
  leaves the disk ahead of memory.
- *LiveBudget*: amounts are small naturals; the ways an attempt settles differ only in what is told
  to the caller and are one; a save is one step whose failure may leave either content; the
  operator removes the lock of dead writers only.
- *Onboarding, Migration*: a call is named by its step and agent, a profile by its agent id; the reads of one
  look-up are one step, while nonce check, signing, sending and receipt are separate. A block
  holds one transaction; a failing call reverts its outer transaction. Transactions of others
  move nonces and take agent ids; a foreign call that changes an agent's profile, a rotation of the owners by
  somebody else and the code check of a replacement owner that is a contract are left out. Both writers pay from one
  account. A dropped block may put a republication before the rotation it was made for, which
  `RotatesThenRepublishes` therefore excludes. Migration reads the payer's nonce twice as onboarding does (`safe/migration.ts:276`).
- *FeedbackSubmission*: what `submitPreparedFeedback` concludes from its last reading of the nonce (308-312 of
  `demo/feedbackPublication.ts`) has no look at the receipt after it, and `AnswersAreTrue` makes no claim about it.
- *Readers*: a block has at most one registry event; a read of a replaced block may answer anything; replaced blocks do
  not come back, and the answers of a node are complete for the chain it is on, which the readers state as assumptions of theirs.
- *RankedDiscovery*: a page has one row, and a row is its agent and what is wrong with it; an Index that withholds offers less. A
  card that is refused for its encoding or size counts as one that does not match. The bytes of a lane are counted by the request that
  exceeds them. The ranking that is awaited is `RankingEvidence`'s.
- *Coverage, RankingEvidence*: a publication is its place on the chain. A read of a slot finds what is so or fails, because of
  `SlotsHold`, `ActivationHolds`, `CheckpointHolds` and `CarryHolds`; `RankingEvidence` takes from `Coverage` a set of
  slots that is complete when it is called so, because of `SlotsComplete`. Of the lines of `Coverage` that
  record a conflict between two findings about one slot none is reached, which is what `NoFalseConflict` says. A document in the legacy
  format commits to no bundle and proves no history: `VerdictIsTrue` does not speak of a score when the bundle of one was
  substituted, nor of a newcomer when there is one. A bundle is the document's own, another of this city, another of a
  different city (`astray`) or none. A review that was not read takes its scope from it, as the code does;
  `VerdictIsTrue` does not speak of a verdict that has set one aside for that, `NothingErased` does and is violated.
- *Session, SharedBrowsers, SessionServer*: one city, one service, one controlled Index, with its process and its proxy.
  Starting it is restarting it, and a process that exits while no control is at work is not modelled. What an operation computes is whether it
  succeeds and whether its observation is `Fresh`. A token of a form is the generation it was made for.
- *IndexProcesses*: a container is not created after `docker run` has returned and the lookup was made. The exit of a child and what
  its waiter does next are one step. After a start that failed and a child that survived SIGKILL, a rebuild may drop the
  database of the surviving server, since `stop` of a handle looks at its own child only; no property claims otherwise.
- *RankingBudget*: bytes are small naturals and a chunk has at least one; the limit of a single response, the timers' values and
  diagnostics are left out; all clients are repeated fetches, and the two index lanes are alike.
- *JournalLock*: paths and permissions are not modelled; reading owner.json while it is written is
  the case in which it has no owner. A message that could not be sent is a death of the sender.

Not modelled: the components that `PROJECT.json` lists so, each with its reason; of modelled ones,
`eventRate` and `settled()` of the ledger, the pages and rows of `chargeHistory`,
`inspectOnboarding`, which writes nothing, the wallet worker's own process, and the limits of the retention
holder: a put that evicts an older answer only makes a completed task be told without its bytes, which
`TaskRuntime` allows a licensed record whenever its bytes are gone.

## Findings

`onboarding_payer`: `prepareExecution` compares the payer's pending nonce with the one the step must
have (`src/safe/onboarding.ts:343`), then `adapter.prepareExecution` reads the nonce again and signs with that
(`src/safe/adapter.ts:324`), and the result is persisted unchecked. A transaction of the same payer between
the two reads gives an execution whose nonce `validateJournal` refuses
(`src/safe/onboarding.ts:162`) in every later operation, `inspectOnboarding` included, so that the journal is
stuck. Comparing `payerNonce` of the signed execution before it is persisted would avoid this.

`withheld_review`: "A substituted private bundle is not evidence that the public review itself is invalid. Ignore its
private projections so it cannot erase negative history through a forged scope, invalid link or apparent newcomer
classification" (`src/reputation/evidence.ts:430-432`; `docs/ranking-evidence.md:21-24` says the same). Line 433 below
it takes the private projections of everything that is not *known* to be of version 0.2, and so of a review whose
document was lost or whose read threw. City and task then come from a bundle nobody committed to (435, 457-458), and
one of another city has the policy set the review aside (`src/reputation/policy.ts:258-261`) before it can leave the
result unresolved: a low rating disappears from a qualified score, or its candidate becomes a newcomer. Requiring the
document (`document !== undefined &&`) before the rest of the condition would avoid this.

One disagreement is in no run of its own; the property that holds says what there is instead. "Restore it explicitly before
routing its reply through the local alteration proxy" (`src/demo/sessionController.ts:402-403`) and "the control
restores A first if needed" (`docs/video-demo.md:71`) are done when the control is `offline` (404). A restart or start
that fails after its stop leaves no process and the control `unknown` (575); a `tamper` that follows opens the proxy
in front of a dead origin, and an Index that answers nothing is shown as altered. `ControlsAreTrue` allows this and no more.

Two observations that no document contradicts: `recoverLock` that finds nothing to recover leaves its
controller disabled for good (`src/safe/onboardingJournal.ts:48`, only 73 enables it again); and a record
whose directory sync failed is executed again after a restart when its receipt was never told
(`src/a2a/store.ts:71`).

## Plan

1. *Done*: task runtime with contract and proofs; budget ledger; onboarding, migration and feedback submission over their chain;
   journal lock; ranking read budget with proofs; the registry readers; the ranked discovery; coverage, evidence and policy of the ranking; the demo
   session with its three fronts; the owned Index processes.
2. *Proofs*: done for every safety property.
3. *Client*: the external client's invocation and polling over the task runtime's contract; the origin variants of
   evidence and policy.
