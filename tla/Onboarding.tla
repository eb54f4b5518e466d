------------------------------ MODULE Onboarding ------------------------------
(***************************************************************************)
(* Onboarding of two services under one Safe: safe/onboarding.ts with the  *)
(* execution half of safe/adapter.ts, over the chain of SafeChain.         *)
(*                                                                         *)
(* Steps are numbered in the order they are executed: 0 deploys the Safe,  *)
(* 2i-1 registers service i and 2i publishes its profile.  An owner drives *)
(* them with five operations, each a transition under the journal lock:    *)
(* it reads the journal, reconciles it with the chain, does its own part   *)
(* and persists.  Every RPC and every persist is a step boundary, between  *)
(* which the chain moves, a request is lost, a write fails or the process  *)
(* dies.  The lock, which lets one transition run at a time and is         *)
(* recovered after its holder's death, is the module JournalLock.          *)
(***************************************************************************)
EXTENDS SafeChain

CONSTANTS
  Services,      \* number of services: 2 in the code
  Approvals,     \* owner signatures that may be given for one prepared call
  NoApproval, NoEffect, NoJournal,
  MaxAgentId,    \* Number.MAX_SAFE_INTEGER
  MaxBreaks      \* bound on failed reads and writes and on crashes

ASSUME OnboardingAssumption ==
  /\ Services \in Nat \ {0}
  /\ NoApproval \notin Approvals
  /\ MaxAgentId \in Nat
  /\ MaxBreaks \in Nat

LastStep == 2 * Services
Steps == 0..LastStep
CallSteps == 1..LastStep
ServiceOf(s) == (s + 1) \div 2
CallOf(s) == IF s = 0 THEN "deploy" ELSE IF s % 2 = 1 THEN "register" ELSE "publish"
RegistrationOf(i) == 2 * i - 1
PublicationOf(i) == 2 * i

\* The block a receipt names, and the agent a registration returned.
Effects == [height : Nat, fork : Nat, agent : Nat]
ASSUME NoEffectAssumption == NoEffect \notin Effects

\* What the journal knows of a step.  execution is the hash of the signed outer
\* transaction, 0 while there is none.
Actions == [prepared : BOOLEAN, approved : Approvals \cup {NoApproval},
            execution : Nat, effect : Effects \cup {NoEffect}]
NoAction == [prepared |-> FALSE, approved |-> NoApproval, execution |-> 0,
             effect |-> NoEffect]

\* profile is the agent id a service's profile was made for, 0 before.
Journals == [step : [Steps -> Actions], profile : [1..Services -> Nat]]
ASSUME NoJournalAssumption == NoJournal \notin Journals

EmptyJournal ==
  [step |-> [s \in Steps |-> [NoAction EXCEPT !.prepared = (s = 0)]],
   profile |-> [i \in 1..Services |-> 0]]

Kinds == {"prepare", "next", "approve", "execute", "resume"}
Saving == {"saveNew", "saveAgain", "saveEffect", "saveProfile", "saveOwn"}

\* The transition in progress and its copy of the journal.
Transitions ==
  {x \in [pc : {"idle", "observe", "look", "absent", "send", "sent", "effect", "profile",
                "run", "sign"} \cup Saving,
          kind : Kinds, at : Steps, send : BOOLEAN, mem : Journals \cup {NoJournal}] :
     x.pc # "idle" => x.mem # NoJournal}
Idle == [pc |-> "idle", kind |-> "prepare", at |-> 0, send |-> FALSE, mem |-> NoJournal]

VARIABLES
  disk,       \* journal.json as processes read it
  durable,    \* journal.json as a loss of power leaves it
  op,         \* the transition that holds the journal lock
  submitted,  \* adapter.ts: hashes this process has sent
  sent,       \* history: hashes ever sent to the node
  breaks

vars == <<chainVars, disk, durable, op, submitted, sent, breaks>>

--------------------------------------------------------------------------------
(* The journal.                                                            *)

Done(j, s) == j.step[s].effect # NoEffect
\* The service before i, or the deployment, is complete.
Ready(j, i) == Done(j, PublicationOf(i - 1))

\* outstanding: the first step without an effect, once the Safe is deployed.
Outstanding(j) == {s \in CallSteps : ~Done(j, s) /\ \A p \in 0..(s - 1) : Done(j, p)}

\* validateJournal: what every transition demands of the journal it has read.
Valid(j) ==
  /\ \A s \in Steps : LET a == j.step[s] IN
       /\ a.effect # NoEffect => a.execution # 0
       /\ s # 0 /\ a.execution # 0 =>
            /\ a.approved # NoApproval
            /\ j.step[0].execution # 0
            /\ signed[a.execution].payerNonce =
                 signed[j.step[0].execution].payerNonce + s
  /\ \A i \in 1..Services : LET r == j.step[RegistrationOf(i)].effect IN
       /\ ~Ready(j, i) => /\ ~j.step[RegistrationOf(i)].prepared
                          /\ ~j.step[PublicationOf(i)].prepared
                          /\ j.profile[i] = 0
       /\ j.profile[i] # 0 => r # NoEffect /\ r.agent = j.profile[i]
       /\ j.step[PublicationOf(i)].prepared => r # NoEffect /\ j.profile[i] # 0

\* What the receipt of a mined transaction says.
EffectOf(h) == LET i == BlockOf(h)
               IN [height |-> i, fork |-> chain[i].fork, agent |-> chain[i].agent]

Hash == op.mem.step[op.at].execution

--------------------------------------------------------------------------------
(* Transitions.                                                            *)

Unlocks == op' = Idle
Goes(pc) == op' = [op EXCEPT !.pc = pc]
\* reconcile returns: before the operation's own part or, when it sends, at its end.
Returns == IF op.send THEN Unlocks ELSE Goes("run")
\* On to the next step, or the end of the loop.
Advances == IF op.at = LastStep THEN Returns
            ELSE op' = [op EXCEPT !.pc = "observe", !.at = @ + 1]
Quiet == UNCHANGED <<chainVars, disk, durable, submitted, sent, breaks>>

\* withJournalLock: the journal is read, created by a first prepareOnboarding, and
\* validated.  A missing or rejected journal refuses the operation.
Begin(kind) ==
  /\ op.pc = "idle"
  /\ \/ /\ disk = NoJournal /\ kind = "prepare"
        /\ op' = [Idle EXCEPT !.pc = "saveNew", !.kind = kind, !.mem = EmptyJournal]
     \/ /\ disk # NoJournal /\ Valid(disk)
        /\ op' = [Idle EXCEPT !.pc = "observe", !.kind = kind, !.mem = disk]
     \/ /\ IF disk = NoJournal THEN kind # "prepare" ELSE ~Valid(disk)
        /\ op' = op
  /\ Quiet

\* Mutant of Resyncs: what was read from the journal is taken to be on disk for good.
ResyncsNever ==
  /\ op.pc = "observe"
  /\ \/ Hash = 0 /\ Returns
     \/ Hash # 0 /\ Goes("look")
  /\ Quiet

\* reconcile: a step that was never signed ends it; before any possible broadcast the
\* journal is written once more, as a failed write may have left it readable and yet
\* not durable.
Resyncs ==
  /\ op.pc = "observe"
  /\ \/ Hash = 0 /\ Returns
     \/ Hash # 0 /\ Goes(IF op.send THEN "saveAgain" ELSE "look")
  /\ Quiet

\* executeOrObserve: always the exact hash first.  A missing receipt for an effect
\* that was once recorded is never acted on.
Observe ==
  /\ op.pc = "look"
  /\ \/ Mined(Hash) /\ Goes("effect")
     \/ ~Mined(Hash) /\ Done(op.mem, op.at) /\ Unlocks
     \/ ~Mined(Hash) /\ ~Done(op.mem, op.at) /\ Goes("absent")
  /\ Quiet

\* The transaction is unknown to the node and neither nonce has moved.
Unsent(h, s) ==
  /\ h \notin mempool
  /\ ~Mined(h)
  /\ PendingNonce = signed[h].payerNonce
  /\ s > 0 => Deployed /\ SafeNonce = signed[h].safeNonce

Absent ==
  /\ op.pc = "absent"
  /\ IF ~Unsent(Hash, op.at) THEN Unlocks
     ELSE IF op.send THEN Goes("send") ELSE Returns
  /\ Quiet

\* executePrepared / executeSafeDeployment: the nonces are checked again and the
\* process sends each hash once.
Sends ==
  /\ op.pc = "send"
  /\ \/ /\ Hash \notin submitted
        /\ Unsent(Hash, op.at)
        /\ submitted' = submitted \cup {Hash}
        /\ sent' = sent \cup {Hash}
        /\ wire' = wire \cup {Hash}
        /\ Goes("sent")
     \/ /\ Hash \in submitted \/ ~Unsent(Hash, op.at)
        /\ IF Mined(Hash) THEN Goes("effect") ELSE Unlocks
        /\ UNCHANGED <<submitted, sent, wire>>
  /\ UNCHANGED <<signed, mempool, chain, foreign, reorgs, losses, disk, durable, breaks>>

\* The receipt arrives; or the request fails, is refused or times out, and the
\* exact receipt decides.
Settles ==
  /\ op.pc = "sent"
  /\ IF Mined(Hash) THEN Goes("effect") ELSE Unlocks
  /\ Quiet

\* Mutant of ReadEffect: a profile is only made together with the first record of the
\* effect.
ReadEffectOnce ==
  /\ op.pc = "effect"
  /\ IF ~Mined(Hash) \/ ~chain[BlockOf(Hash)].ok THEN Unlocks
     ELSE IF ~Done(op.mem, op.at)
     THEN op' = [op EXCEPT !.pc = "saveEffect", !.mem.step[op.at].effect = EffectOf(Hash)]
     ELSE IF op.mem.step[op.at].effect # EffectOf(Hash) THEN Unlocks
     ELSE Advances
  /\ Quiet

\* readSafeDeploymentEffect, readRegisteredAgentEffect, readSafeExecutionEffect: a
\* reverted transaction, or a receipt other than the recorded one, is a conflict.
ReadEffect ==
  /\ op.pc = "effect"
  /\ IF ~Mined(Hash) THEN Unlocks
     ELSE IF ~chain[BlockOf(Hash)].ok THEN Unlocks
     ELSE IF ~Done(op.mem, op.at)
     THEN op' = [op EXCEPT !.pc = "saveEffect", !.mem.step[op.at].effect = EffectOf(Hash)]
     ELSE IF op.mem.step[op.at].effect # EffectOf(Hash) THEN Unlocks
     ELSE Goes("profile")
  /\ Quiet

\* A registered service without a profile gets one, unless its agent id is beyond
\* the exact integers of the registration codec.
MakesProfile ==
  LET i == ServiceOf(op.at)
      agent == op.mem.step[op.at].effect.agent
  IN /\ op.pc = "profile"
     /\ IF CallOf(op.at) = "register" /\ op.mem.profile[i] = 0
        THEN IF agent > MaxAgentId THEN Returns
             ELSE op' = [op EXCEPT !.pc = "saveProfile", !.mem.profile[i] = agent]
        ELSE Advances
     /\ Quiet

--------------------------------------------------------------------------------
(* The operation's own part.                                               *)

RunPrepare == op.pc = "run" /\ op.kind = "prepare" /\ Unlocks /\ Quiet

RunResume ==
  /\ op.pc = "run" /\ op.kind = "resume"
  /\ op' = [op EXCEPT !.pc = "observe", !.at = 0, !.send = TRUE]
  /\ Quiet

\* prepareNextAction: the reservation of the outstanding step, at its own Safe nonce.
Reservable(s) ==
  /\ ~op.mem.step[s].prepared
  /\ CallOf(s) = "publish" => op.mem.profile[ServiceOf(s)] # 0
  /\ Deployed /\ SafeNonce = s - 1

RunNext ==
  /\ op.pc = "run" /\ op.kind = "next"
  /\ \/ \E s \in Outstanding(op.mem) :
          /\ Reservable(s)
          /\ op' = [op EXCEPT !.pc = "saveOwn", !.mem.step[s].prepared = TRUE]
     \/ /\ \A s \in Outstanding(op.mem) : ~Reservable(s)
        /\ Unlocks
  /\ Quiet

\* Mutant of Approvable: a later approval replaces the first.
ApprovableAgain(s, a) ==
  /\ op.mem.step[s].prepared
  /\ op.mem.step[s].execution = 0

\* recordApproval: for the outstanding call only, never after its signing and never
\* another one.
Approvable(s, a) ==
  /\ op.mem.step[s].prepared
  /\ op.mem.step[s].execution = 0
  /\ op.mem.step[s].approved \in {NoApproval, a}

RunApprove ==
  /\ op.pc = "run" /\ op.kind = "approve"
  /\ \E a \in Approvals :
       \/ \E s \in Outstanding(op.mem) :
            /\ Approvable(s, a)
            /\ op' = [op EXCEPT !.pc = "saveOwn", !.mem.step[s].approved = a]
       \/ /\ \A s \in Outstanding(op.mem) : ~Approvable(s, a)
          /\ Unlocks
  /\ Quiet

\* Mutant of Signable: a call is signed before its owner has approved it.
SignableUnapproved(s) == op.mem.step[s].execution = 0 /\ op.mem.step[s].prepared

\* prepareExecution: what it may sign ...
Signable(s) == /\ op.mem.step[s].approved # NoApproval \/ s = 0
               /\ op.mem.step[s].execution = 0

Unfinished == IF Done(op.mem, 0) THEN Outstanding(op.mem) ELSE {0}

\* ... and, for a call, the payer nonce it demands first.
RunExecute ==
  /\ op.pc = "run" /\ op.kind = "execute"
  /\ \/ \E s \in Unfinished :
          /\ Signable(s)
          /\ s > 0 =>
               PendingNonce = signed[op.mem.step[0].execution].payerNonce + s
          /\ op' = [op EXCEPT !.pc = "sign", !.at = s]
     \/ /\ \A s \in Unfinished :
             \/ ~Signable(s)
             \/ /\ s > 0
                /\ PendingNonce # signed[op.mem.step[0].execution].payerNonce + s
        /\ Unlocks
  /\ Quiet

\* adapter.prepareExecution: the Safe nonce must be the prepared one, the payer nonce
\* is read once more, and the bytes are signed.
Sign ==
  LET s == op.at
  IN /\ op.pc = "sign"
     /\ IF s > 0 /\ ~(Deployed /\ SafeNonce = s - 1)
        THEN Unlocks /\ UNCHANGED signed
        ELSE /\ signed' = Append(signed,
                   [call |-> CallOf(s), payerNonce |-> PendingNonce,
                    safeNonce |-> IF s = 0 THEN 0 ELSE s - 1,
                    agent |-> IF CallOf(s) = "publish"
                              THEN op.mem.profile[ServiceOf(s)] ELSE 0])
             /\ op' = [op EXCEPT !.pc = "saveOwn",
                                 !.mem.step[s].execution = Len(signed) + 1]
     /\ UNCHANGED <<wire, mempool, chain, foreign, reorgs, losses, disk, durable,
                    submitted, sent, breaks>>

\* persist: writePrivateFile, an atomic replace of journal.json.
Saved ==
  /\ op.pc \in Saving
  /\ disk' = op.mem
  /\ durable' = op.mem
  /\ CASE op.pc = "saveNew"     -> Goes("observe")
       [] op.pc = "saveAgain"   -> Goes("look")
       [] op.pc = "saveEffect"  -> Goes("profile")
       [] op.pc = "saveProfile" -> Advances
       [] op.pc = "saveOwn"     -> Unlocks
  /\ UNCHANGED <<chainVars, submitted, sent, breaks>>

\* The transition ends between any two steps: a read or a write fails, or the process
\* dies and its lock is recovered.  A write may have got as far as its rename, with or
\* without the sync of the directory, and what was sent may still arrive.
Breaks ==
  /\ op.pc # "idle"
  /\ breaks < MaxBreaks
  /\ breaks' = breaks + 1
  /\ \/ UNCHANGED <<disk, durable>>
     \/ op.pc \in Saving /\ disk' = op.mem /\ durable' \in {durable, op.mem}
  /\ submitted' \in {submitted, {}}
  /\ Unlocks
  /\ UNCHANGED <<chainVars, sent>>

\* The machine loses power before an unsynced rename reached its disk.
PowerFails ==
  /\ disk # durable
  /\ disk' = durable
  /\ submitted' = {}
  /\ Unlocks
  /\ UNCHANGED <<chainVars, durable, sent, breaks>>

\* The next operation is run by a new process.
NewProcess ==
  /\ op.pc = "idle"
  /\ submitted # {}
  /\ submitted' = {}
  /\ UNCHANGED <<chainVars, disk, durable, op, sent, breaks>>

--------------------------------------------------------------------------------
Init ==
  /\ ChainInit
  /\ disk = NoJournal /\ durable = NoJournal
  /\ op = Idle
  /\ submitted = {} /\ sent = {}
  /\ breaks = 0

Progress ==
  \/ Resyncs \/ Observe \/ Absent \/ Sends \/ Settles \/ ReadEffect \/ MakesProfile
  \/ RunPrepare \/ RunResume \/ RunNext \/ RunApprove \/ RunExecute \/ Sign \/ Saved

Alone == UNCHANGED <<disk, durable, op, submitted, sent, breaks>>
Environment == ChainNext({"payer", "safe", "registry"}) /\ Alone

Next ==
  \/ \E kind \in Kinds : Begin(kind)
  \/ Progress \/ Breaks \/ PowerFails \/ NewProcess
  \/ Environment

Spec == Init /\ [][Next]_vars

--------------------------------------------------------------------------------
TypeOK ==
  /\ ChainTypeOK
  /\ disk \in Journals \cup {NoJournal}
  /\ durable \in Journals \cup {NoJournal}
  /\ op \in Transitions
  /\ submitted \in SUBSET sent
  /\ sent \in SUBSET (1..Len(signed))
  /\ breaks \in Nat

(* Properties.                                                             *)

\* A transaction leaves the process only when the durable journal names it as its step's
\* execution and holds the effects of all earlier steps, and this remains so for ever:
\* no crash, loss of power, lost reply, failed write or moved nonce leads to a second
\* transaction for one step, or to one out of order.
SentIsJournaled ==
  \A h \in sent : signed[h].call \in {"deploy", "register", "publish"} =>
    /\ durable # NoJournal
    /\ \E s \in Steps : /\ durable.step[s].execution = h
                         /\ \A p \in 0..(s - 1) : Done(durable, p)

\* "Nonce movement is never success evidence": on a chain that has dropped no block,
\* every recorded effect is that of the step's own transaction, mined and successful
\* in the recorded block, whoever else moved the nonces.
EffectsAreFacts ==
  disk # NoJournal /\ reorgs = 0 =>
    \A s \in Steps : Done(disk, s) =>
      LET h == disk.step[s].execution
      IN Mined(h) /\ chain[BlockOf(h)].ok /\ disk.step[s].effect = EffectOf(h)

\* The durable journal only grows: a reservation, an approval, a signed transaction, an
\* effect or a profile that was persisted is never dropped or replaced.
JournalNeverForgets ==
  [][durable # NoJournal =>
       /\ durable' # NoJournal
       /\ \A s \in Steps : LET a == durable.step[s]  b == durable'.step[s] IN
            /\ a.prepared => b.prepared
            /\ a.approved # NoApproval => b.approved = a.approved
            /\ a.execution # 0 => b.execution = a.execution
            /\ a.effect # NoEffect => b.effect = a.effect
       /\ \A i \in 1..Services :
            durable.profile[i] # 0 => durable'.profile[i] = durable.profile[i]]_vars

\* The journal a transition persists is one that the next transition accepts.
JournalValidates == disk # NoJournal => Valid(disk)
================================================================================
