-------------------------------- MODULE MCJournal --------------------------------
(***************************************************************************)
(* The journals of the owned chain for TLC, under fairness: the lock that   *)
(* admits one writer at a time, and the writers (ChainWriters, which takes  *)
(* that for granted).  Neither reads the other's state, so a behaviour      *)
(* moves one of them, and the states of the run are those of the two.       *)
(***************************************************************************)
EXTENDS JournalLock

CONSTANTS
  Services, Approvals, NoApproval, NoEffect, NoJournal, NoPoint, NoConfig, NoResult,
  Submitters, Attempts, MaxAsks, Starts, MaxAgentId, MaxBreaks, MaxForeign, MaxReorgs,
  MaxLosses, MaxTroubles

VARIABLES
  part,  \* "lock" or "writers": the one that moves
  signed, wire, mempool, chain, foreign, reorgs, losses,
  disk, durable, op, submitted, sent, breaks,
  writer, config, migration, migrationDurable, migrating, prepared, original, ask, asks

writers == <<signed, wire, mempool, chain, foreign, reorgs, losses,
             disk, durable, op, submitted, sent, breaks, writer, config, migration,
             migrationDurable, migrating, prepared, original, ask, asks>>

W == INSTANCE ChainWriters

JournalInit == part \in {"lock", "writers"} /\ Init /\ W!WritersInit

Locked(action) == part = "lock" /\ action
Written(action) == part = "writers" /\ action

JournalNext ==
  \/ Locked(Next) /\ UNCHANGED <<part, writers>>
  \/ Written(W!ScriptedNext) /\ UNCHANGED <<part, vars>>

\* The fairness of FairSpec and of ScriptedSpec.
JournalFairness ==
  /\ \A c \in Callers : WF_vars(Locked(Call(c)))
  /\ \A r \in Recoveries : /\ WF_vars(Locked(Recovery(r)))
                           /\ WF_vars(Locked(RecoverBegins(r)))
  /\ \A c \in Children : /\ WF_vars(Locked(c \in killed /\ Dies(c)))
                         /\ WF_vars(Locked(Hears(c)))
  /\ WF_writers(Written(W!Runs)) /\ WF_writers(Written(W!Works))
  /\ WF_writers(Written(W!Delivers)) /\ WF_writers(Written(W!Mines))

JournalSpec ==
  JournalInit /\ [][JournalNext]_<<part, vars, writers>> /\ JournalFairness

\* Onboarding and then migration are completed (HandsOver of ChainWriters).
HandsOver == part = "writers" => W!HandsOver
================================================================================
