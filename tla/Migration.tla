------------------------------- MODULE Migration -------------------------------
(***************************************************************************)
(* Migration of onboarded services to a new operator: safe/migration.ts    *)
(* with the calls it makes to safe/adapter.ts, over the chain of SafeChain. *)
(*                                                                         *)
(* Step 0 swaps the retired primary owner of the Safe for its replacement, *)
(* step i publishes the new profile of service i; the backup owner approves *)
(* each.  Every command reads the journal under its lock, validates it,    *)
(* reconciles it with the chain (resume also sends what was signed and is  *)
(* on no chain) and only then does its own part.  As in Onboarding, the    *)
(* chain moves, requests are lost, writes fail and processes die between   *)
(* any two steps.                                                          *)
(***************************************************************************)
EXTENDS SafeChain

CONSTANTS
  Services,      \* number of services: 2 in the code
  Approvals,     \* signatures the backup owner may give for one prepared call
  NoApproval, NoEffect, NoPoint, NoJournal, NoConfig,
  MaxBreaks      \* bound on failed reads and writes and on crashes

Steps == 0..Services
CallOf(s) == IF s = 0 THEN "swap" ELSE "republish"

\* A canonical block by number and hash.
Points == [height : Nat, fork : Nat]
PointAt(n) == [height |-> n, fork |-> IF n = 0 THEN 0 ELSE chain[n].fork]
Canonical(p) == p.height <= Len(chain) /\ p = PointAt(p.height)
HeadPoint == PointAt(Len(chain))

\* The independently trusted configuration: where the migration starts.
Configs == [basis : Points, safeNonce : Nat, payerNonce : Nat]

\* What the journal knows of a step: basis is where it was prepared, NoPoint before.
Actions == [basis : Points \cup {NoPoint}, approved : Approvals \cup {NoApproval},
            execution : Nat, effect : Points \cup {NoEffect}]
NoAction == [basis |-> NoPoint, approved |-> NoApproval, execution |-> 0,
             effect |-> NoEffect]
Journals == [Steps -> Actions]
EmptyJournal == [s \in Steps |-> NoAction]

Commands == {"initialize", "next", "approve", "execute", "resume", "inspect"}
Saving == {"saveNew", "saveAgain", "saveEffect", "saveOwn"}
Transitions ==
  {x \in [pc : {"idle", "validate", "observe", "absent", "owners", "profiles", "send",
                "sent", "effect", "lastOwners", "lastProfiles", "nonces", "run", "sign",
                "prepare"} \cup Saving,
          kind : Commands, fresh : BOOLEAN, at : Steps,
          mem : Journals \cup {NoJournal}] : x.pc # "idle" => x.mem # NoJournal}
Idle == [pc |-> "idle", kind |-> "inspect", fresh |-> FALSE, at |-> 0, mem |-> NoJournal]

VARIABLES
  config,     \* NoConfig until the onboarding writers are stopped
  disk, durable,
  op,         \* the command that holds the journal lock
  submitted,  \* adapter.ts: hashes this process has sent
  sent,       \* history: hashes ever sent to the node
  breaks

ownVars == <<config, disk, durable, op>>
vars == <<chainVars, ownVars, submitted, sent, breaks>>

--------------------------------------------------------------------------------
(* The journal.                                                            *)

Done(j, s) == j[s].effect # NoEffect
Prepared(j, s) == j[s].basis # NoPoint
\* The first step without an effect.
Outstanding(j) == {s \in Steps : ~Done(j, s) /\ \A p \in 0..(s - 1) : Done(j, p)}
Primary(swapped) == IF swapped THEN "replacement" ELSE "retired"

\* validate: the points it names are still canonical with the owners that each call
\* needs, and every step has what the next part of it needs.
Valid(j) ==
  /\ Canonical(config.basis)
  /\ PrimaryAt(config.basis.height) = "retired"
  /\ \A s \in Steps : LET a == j[s] IN
       /\ Prepared(j, s) =>
            /\ \A p \in 0..(s - 1) : Done(j, p)
            /\ Canonical(a.basis) /\ a.basis.height >= config.basis.height
            /\ PrimaryAt(a.basis.height) = Primary(s > 0)
       /\ a.approved # NoApproval => Prepared(j, s)
       /\ a.execution # 0 =>
            a.approved # NoApproval /\ signed[a.execution].payerNonce = config.payerNonce + s
       /\ a.effect # NoEffect => a.execution # 0

\* checkProfiles: every service shows the profile that the journal says it has.
ProfilesHold(j) ==
  \A i \in 1..Services :
    ProfileAt(Len(chain), i) = IF Done(j, i) THEN "republish" ELSE "publish"

Hash == op.mem[op.at].execution
Sending == op.kind = "resume" /\ ~op.fresh

--------------------------------------------------------------------------------
(* Commands.                                                               *)

Unlocks == op' = Idle
Goes(pc) == op' = [op EXCEPT !.pc = pc]
Quiet == UNCHANGED <<chainVars, config, disk, durable, submitted, sent, breaks>>
Passes(ok, pc) == IF ok THEN Goes(pc) ELSE Unlocks
\* On to the next signed step, or to the last checks.
Advances == IF op.at = Services THEN Goes("lastOwners")
            ELSE op' = [op EXCEPT !.pc = "observe", !.at = @ + 1]

\* The trusted configuration is made once, from the head and both nonces.
Configure ==
  /\ config = NoConfig
  /\ config' = [basis |-> HeadPoint, safeNonce |-> SafeNonce, payerNonce |-> PendingNonce]
  /\ UNCHANGED <<chainVars, disk, durable, op, submitted, sent, breaks>>

\* withJournalLock: only initialize may find no journal.
Begin(kind) ==
  /\ config # NoConfig
  /\ op.pc = "idle"
  /\ IF disk = NoJournal
     THEN IF kind = "initialize"
          THEN op' = [Idle EXCEPT !.pc = "validate", !.kind = kind, !.fresh = TRUE,
                                  !.mem = EmptyJournal]
          ELSE op' = op
     ELSE op' = [Idle EXCEPT !.pc = "validate", !.kind = kind, !.mem = disk]
  /\ Quiet

Validates ==
  /\ op.pc = "validate"
  /\ IF Valid(op.mem) THEN op' = [op EXCEPT !.pc = "observe", !.at = 0] ELSE Unlocks
  /\ Quiet

\* reconcile: always the exact hash first; a missing receipt for a recorded effect is
\* never acted on.
Observe ==
  /\ op.pc = "observe"
  /\ \/ Hash = 0 /\ Goes("lastOwners")
     \/ Hash # 0 /\ Mined(Hash) /\ Goes("effect")
     \/ Hash # 0 /\ ~Mined(Hash) /\ Passes(~Done(op.mem, op.at), "absent")
  /\ Quiet

\* The transaction is unknown to the node and neither nonce has moved.
Unsent(h) ==
  /\ h \notin mempool /\ ~Mined(h)
  /\ PendingNonce = signed[h].payerNonce
  /\ SafeNonce = signed[h].safeNonce

Absent ==
  /\ op.pc = "absent"
  /\ IF ~Unsent(Hash) THEN Unlocks
     ELSE Goes(IF Sending THEN "owners" ELSE "lastOwners")
  /\ Quiet

\* An absent action must still satisfy current preconditions before it is sent.
ChecksOwners ==
  /\ op.pc = "owners"
  /\ Passes(PrimaryAt(Len(chain)) = Primary(op.at > 0), "profiles")
  /\ Quiet

\* Mutant of ChecksProfiles: what was read from the journal is taken to be durable.
ChecksProfilesOnly ==
  /\ op.pc = "profiles"
  /\ Passes(ProfilesHold(op.mem), "send")
  /\ Quiet

ChecksProfiles ==
  /\ op.pc = "profiles"
  /\ Passes(ProfilesHold(op.mem), "saveAgain")
  /\ Quiet

\* executePrepared: the Safe nonce and the payer nonce are read once more, and this
\* process sends a hash once.
Sends ==
  /\ op.pc = "send"
  /\ IF /\ Hash \notin submitted
        /\ SafeNonce = signed[Hash].safeNonce /\ PendingNonce = signed[Hash].payerNonce
     THEN /\ submitted' = submitted \cup {Hash}
          /\ sent' = sent \cup {Hash}
          /\ wire' = wire \cup {Hash}
          /\ Goes("sent")
     ELSE Unlocks /\ UNCHANGED <<submitted, sent, wire>>
  /\ UNCHANGED <<signed, mempool, chain, foreign, reorgs, losses, config, disk, durable, breaks>>

\* Its receipt shows one successful inner execution, or the outcome is unknown.
Settles ==
  /\ op.pc = "sent"
  /\ Passes(Mined(Hash) /\ chain[BlockOf(Hash)].ok, "effect")
  /\ Quiet

\* Mutant of Proven: that the transaction was mined is taken for success.
ProvenByNonce(h, s) == Mined(h)

\* What readSingleCallEffect and the reads at the receipt's block demand.
Proven(h, s) ==
  /\ Mined(h) /\ chain[BlockOf(h)].ok
  /\ PrimaryAt(BlockOf(h)) = "replacement"
  /\ s > 0 => ProfileAt(BlockOf(h), s) = "republish"

ReadEffect ==
  /\ op.pc = "effect"
  /\ IF ~Proven(Hash, op.at) THEN Unlocks
     ELSE IF Done(op.mem, op.at)
     THEN IF op.mem[op.at].effect = PointAt(BlockOf(Hash)) THEN Advances ELSE Unlocks
     ELSE op' = [op EXCEPT !.pc = "saveEffect",
                           !.mem[op.at].effect = PointAt(BlockOf(Hash))]
  /\ Quiet

\* The account and the profiles are now as the journal says ...
LastOwners ==
  /\ op.pc = "lastOwners"
  /\ Passes(PrimaryAt(Len(chain)) = Primary(Done(op.mem, 0)), "lastProfiles")
  /\ Quiet

LastProfiles ==
  /\ op.pc = "lastProfiles"
  /\ Passes(ProfilesHold(op.mem), IF op.fresh THEN "nonces" ELSE "run")
  /\ Quiet

\* ... and a new journal starts from the configured nonces.
ChecksNonces ==
  /\ op.pc = "nonces"
  /\ Passes(SafeNonce = config.safeNonce /\ PendingNonce = config.payerNonce, "saveNew")
  /\ Quiet

--------------------------------------------------------------------------------
(* The command's own part.                                                 *)

Reports ==
  /\ op.pc = "run"
  /\ \/ op.kind \in {"initialize", "inspect", "resume"}
     \/ Outstanding(op.mem) = {}
     \/ op.kind = "next" /\ \A s \in Outstanding(op.mem) : Prepared(op.mem, s)
  /\ Unlocks /\ Quiet

\* next: the basis is where the account was read, the nonce is read later.
Reserves ==
  /\ op.pc = "run" /\ op.kind = "next"
  /\ \E s \in Outstanding(op.mem) :
       /\ ~Prepared(op.mem, s)
       /\ IF PrimaryAt(Len(chain)) = Primary(s > 0)
          THEN op' = [op EXCEPT !.pc = "prepare", !.at = s, !.mem[s].basis = HeadPoint]
          ELSE Unlocks
  /\ Quiet

Prepares ==
  /\ op.pc = "prepare"
  /\ Passes(SafeNonce = config.safeNonce + op.at, "saveOwn")
  /\ Quiet

Approves ==
  /\ op.pc = "run" /\ op.kind = "approve"
  /\ \E s \in Outstanding(op.mem), a \in Approvals :
       IF /\ Prepared(op.mem, s) /\ op.mem[s].execution = 0
          /\ op.mem[s].approved \in {NoApproval, a}
          /\ PrimaryAt(Len(chain)) = Primary(s > 0)
       THEN op' = [op EXCEPT !.pc = "saveOwn", !.mem[s].approved = a]
       ELSE Unlocks
  /\ Quiet

\* execute: a step is signed once, when the payer nonce is its own.
Executes ==
  /\ op.pc = "run" /\ op.kind = "execute"
  /\ \E s \in Outstanding(op.mem) :
       IF /\ op.mem[s].approved # NoApproval /\ op.mem[s].execution = 0
          /\ PendingNonce = config.payerNonce + s
       THEN op' = [op EXCEPT !.pc = "sign", !.at = s]
       ELSE Unlocks
  /\ Quiet

\* adapter.prepareExecution: the payer nonce is read again, the gas estimate refuses a
\* call that would revert, and the bytes are signed.
Sign ==
  LET t == [call |-> CallOf(op.at), payerNonce |-> PendingNonce,
            safeNonce |-> config.safeNonce + op.at, agent |-> op.at]
  IN /\ op.pc = "sign"
     /\ IF Succeeds(t)
        THEN /\ signed' = Append(signed, t)
             /\ op' = [op EXCEPT !.pc = "saveOwn",
                                 !.mem[op.at].execution = Len(signed) + 1]
        ELSE Unlocks /\ UNCHANGED signed
     /\ UNCHANGED <<wire, mempool, chain, foreign, reorgs, losses, config, disk, durable,
                    submitted, sent, breaks>>

\* persist: writePrivateFile, an atomic replace of the journal.
Saved ==
  /\ op.pc \in Saving
  /\ disk' = op.mem /\ durable' = op.mem
  /\ CASE op.pc = "saveNew"    -> op' = [op EXCEPT !.pc = "validate", !.fresh = FALSE]
       [] op.pc = "saveAgain"  -> Goes("send")
       [] op.pc = "saveEffect" -> Advances
       [] op.pc = "saveOwn"    -> Unlocks
  /\ UNCHANGED <<chainVars, config, submitted, sent, breaks>>

\* A read or a write fails, or the process dies and its lock is recovered; a write may
\* have got as far as its rename, with or without the sync of the directory.
Breaks ==
  /\ op.pc # "idle"
  /\ breaks < MaxBreaks
  /\ breaks' = breaks + 1
  /\ \/ UNCHANGED <<disk, durable>>
     \/ op.pc \in Saving /\ disk' = op.mem /\ durable' \in {durable, op.mem}
  /\ submitted' \in {submitted, {}}
  /\ Unlocks
  /\ UNCHANGED <<chainVars, config, sent>>

\* The machine loses power before an unsynced rename reached its disk.
PowerFails ==
  /\ disk # durable
  /\ disk' = durable
  /\ submitted' = {}
  /\ Unlocks
  /\ UNCHANGED <<chainVars, config, durable, sent, breaks>>

\* The next command is run by a new process.
NewProcess ==
  /\ op.pc = "idle" /\ submitted # {}
  /\ submitted' = {}
  /\ UNCHANGED <<chainVars, config, disk, durable, op, sent, breaks>>

--------------------------------------------------------------------------------
OwnInit == config = NoConfig /\ disk = NoJournal /\ durable = NoJournal /\ op = Idle

Progress ==
  \/ Validates \/ Observe \/ Absent \/ ChecksOwners \/ ChecksProfiles \/ Sends \/ Settles
  \/ ReadEffect \/ LastOwners \/ LastProfiles \/ ChecksNonces \/ Reports \/ Reserves
  \/ Prepares \/ Approves \/ Executes \/ Sign \/ Saved

Alone == UNCHANGED <<ownVars, submitted, sent, breaks>>
Environment == ChainNext({"payer", "safe", "rotate", "edit"}) /\ Alone

Next ==
  \/ \E kind \in Commands : Begin(kind)
  \/ Progress \/ Breaks \/ PowerFails \/ NewProcess
  \/ Environment

--------------------------------------------------------------------------------
TypeOK ==
  /\ config \in Configs \cup {NoConfig}
  /\ disk \in Journals \cup {NoJournal}
  /\ durable \in Journals \cup {NoJournal}
  /\ op \in Transitions

(* Properties.                                                             *)

OwnCall(h) == signed[h].call \in {"swap", "republish"}

\* What leaves the process is in the durable journal, as the execution of its step, with
\* the effects of all earlier steps; and undisturbed by a dropped block no new profile is
\* ever shown by a Safe the retired owner still controls, whichever command, crash or
\* foreign transaction comes between (migration.ts 184-194, 243-278).
RotatesThenRepublishes ==
  /\ \A h \in sent : OwnCall(h) =>
       /\ durable # NoJournal
       /\ \E s \in Steps : /\ durable[s].execution = h
                            /\ \A p \in 0..(s - 1) : Done(durable, p)
  /\ reorgs = 0 =>
       \A i \in DOMAIN chain : Own(chain[i], "republish") => PrimaryAt(i) = "replacement"

\* A step that is reported verified was mined from its own transaction, succeeded, and
\* had the effect it was for; nonces that others moved prove nothing (197-211).
VerifiedIsFact ==
  disk # NoJournal /\ reorgs = 0 =>
    \A s \in Steps : Done(disk, s) =>
      LET h == disk[s].execution
      IN /\ Mined(h) /\ disk[s].effect = PointAt(BlockOf(h))
         /\ chain[BlockOf(h)].ok
         /\ PrimaryAt(BlockOf(h)) = "replacement"
         /\ s > 0 => ProfileAt(BlockOf(h), s) = "republish"

Migrated == disk # NoJournal /\ \A s \in Steps : Done(disk, s)
================================================================================
