--------------------------- MODULE JournalLockProofs ---------------------------
(***************************************************************************)
(* Theorems about the lock of the journal, for any number of callers,      *)
(* recoveries and inodes.                                                  *)
(*                                                                         *)
(* The argument: a caller that is inside is the one that has created the   *)
(* lock directory, and the directory's owner, once there is one, is that   *)
(* caller.  The gate admits one recovery, and it takes away a directory    *)
(* only when the directory's owner is a child that has exited, so that     *)
(* nobody is inside it.                                                    *)
(***************************************************************************)
EXTENDS JournalLock, TLAPS

\* Who is inside has created the directory that is there, and what is known of it at
\* each step: its inode once it was read, its owner once it was written.
HasLock(c) ==
  Inside(c) =>
    /\ lock # NoLock
    /\ ~At(c, "made") => lock.ino = caller[c].ino
    /\ caller[c].pc \in {"made", "holding", "signing", "removing"} => lock.owner = NoOwner
    /\ caller[c].pc \in {"telling", "working", "writing"} => lock.owner = c
    /\ caller[c].pc \in {"releasing", "unlinking"} => lock.owner \in {c, NoOwner}

\* The holder works on the journal as it is.
KnowsJournal(c) ==
  /\ caller[c].pc \in {"working", "writing"} => caller[c].base = journal
  /\ At(c, "writing") => journal < MaxWrites

\* A recovery that has made the gate.
Gated(r) == recovery[r].pc \notin {"idle", "gating"}

GateIsOne ==
  \A r \in Recoveries : Gated(r) =>
    /\ gate
    /\ \A s \in Recoveries : Gated(s) => r = s

\* An owner that a recovery can find is a child that was tracked.
OwnersAreTracked ==
  /\ lock # NoLock /\ lock.owner \in Children => ~At(lock.owner, "new")
  /\ \A r \in Recoveries :
       recovery[r].pc \in {"killing", "awaiting", "checking", "renaming"} =>
         recovery[r].owner \in Tracked

\* The directory a recovery is about to move away is one that a dead child has left.
VictimIsDead ==
  \A r \in Recoveries :
    /\ recovery[r].pc \in {"checking", "renaming"} => At(recovery[r].owner, "dead")
    /\ recovery[r].pc = "renaming" => lock # NoLock /\ lock.owner = recovery[r].owner

IInv ==
  /\ TypeOK
  /\ Exclusive
  /\ \A c \in Callers : HasLock(c) /\ KnowsJournal(c)
  /\ GateIsOne
  /\ OwnersAreTracked
  /\ VictimIsDead

--------------------------------------------------------------------------------
(* Every step is well typed.                                               *)

\* A caller that is not in a call, or that is dead, is well typed.
LEMMA OutType ==
  ASSUME NEW pc \in {"new", "idle", "dead"}
  PROVE  Out(pc) \in CallerStates
BY LockAssumption DEF Out, CallerStates

\* A caller that goes on, or leaves, is well typed.
LEMMA ToType ==
  ASSUME caller \in [Callers -> CallerStates], NEW c \in Callers,
         NEW pc \in {"idle", "checking", "making", "made", "holding", "signing", "telling",
                     "working", "writing", "releasing", "unlinking", "removing"},
         To(c, pc) \/ Leaves(c)
  PROVE  caller' \in [Callers -> CallerStates]
<1>1. [caller[c] EXCEPT !.pc = pc] \in CallerStates
  BY DEF CallerStates
<1>2. Out("idle") \in CallerStates
  BY OutType
<1> QED BY <1>1, <1>2 DEF To, Leaves

\* A recovery that goes on is well typed.
LEMMA StepType ==
  ASSUME recovery \in [Recoveries -> RecoveryStates], NEW r \in Recoveries,
         NEW pc \in {"idle", "gating", "statting", "reading", "killing", "awaiting",
                     "checking", "renaming", "enabling", "ungating"},
         Step(r, pc)
  PROVE  recovery' \in [Recoveries -> RecoveryStates]
<1>1. [recovery[r] EXCEPT !.pc = pc] \in RecoveryStates
  BY DEF RecoveryStates
<1> QED BY <1>1 DEF Step

\* The steps of withJournalLock keep every variable in its type.
LEMMA CallType ==
  ASSUME IInv, NEW c \in Callers,
         Tracks(c) \/ Enters(c) \/ Call(c) \/ Persists(c) \/ Dies(c)
  PROVE  TypeOK'
<1> USE DEF Files, Control
<1>0. /\ TypeOK /\ caller \in [Callers -> CallerStates] /\ caller[c] \in CallerStates
      /\ Out("idle") \in CallerStates /\ Out("dead") \in CallerStates
      /\ NoLock \notin Locks /\ (lock # NoLock => lock \in Locks)
  BY OutType, NoLockAssumption DEF IInv, TypeOK
<1>1. CASE Tracks(c) \/ Enters(c) \/ ChecksGate(c) \/ RechecksGate(c) \/ Persists(c)
           \/ Releases(c)
  <2>1. caller' \in [Callers -> CallerStates]
    BY <1>0, <1>1, ToType DEF Tracks, Enters, ChecksGate, RechecksGate, Persists, Releases
  <2> QED BY <1>0, <1>1, <2>1 DEF Tracks, Enters, ChecksGate, RechecksGate, Persists,
          Releases, TypeOK
<1>2. CASE MakesLock(c)
  <2>1. caller' \in [Callers -> CallerStates]
    BY <1>0, <1>2, ToType DEF MakesLock
  <2>2. lock' \in Locks \cup {NoLock}
    BY <1>0, <1>2 DEF MakesLock, Locks, TypeOK
  <2> QED BY <1>0, <1>2, <2>1, <2>2 DEF MakesLock, TypeOK
<1>3. CASE Holds(c)
  <2>1. caller' \in [Callers -> CallerStates]
    <3>1. CASE lock = NoLock
      BY <1>0, <1>3, <3>1 DEF Holds, Leaves
    <3>2. CASE lock # NoLock
      <4>1. lock.ino \in Inodes
        BY <1>0, <3>2 DEF Locks
      <4>2. [caller[c] EXCEPT !.pc = "holding", !.ino = lock.ino] \in CallerStates
        BY <1>0, <4>1 DEF CallerStates
      <4>3. caller' = [caller EXCEPT ![c] = [caller[c] EXCEPT !.pc = "holding",
                                                              !.ino = lock.ino]]
        BY <1>0, <1>3, <3>2 DEF Holds
      <4> QED BY <1>0, <4>2, <4>3
    <3> QED BY <3>1, <3>2
  <2> QED BY <1>0, <1>3, <2>1 DEF Holds, TypeOK
<1>4. CASE WritesOwner(c)
  <2>1. caller' \in [Callers -> CallerStates]
    BY <1>0, <1>4, ToType DEF WritesOwner
  <2>2. lock' \in Locks \cup {NoLock}
    BY <1>0, <1>4 DEF WritesOwner, Locks, TypeOK
  <2> QED BY <1>0, <1>4, <2>1, <2>2 DEF WritesOwner, TypeOK
<1>5. CASE Tells(c)
  <2>1. caller[c].ino \in Inodes /\ journal \in 0..MaxWrites
    BY <1>0, <1>5 DEF Tells, At, IInv, HasLock, Inside, Locks, TypeOK
  <2>2. [caller[c] EXCEPT !.pc = "working", !.base = journal] \in CallerStates
    BY <1>0, <2>1 DEF CallerStates
  <2>3. caller' = [caller EXCEPT ![c] = [caller[c] EXCEPT !.pc = "working",
                                                          !.base = journal]]
    BY <1>0, <1>5 DEF Tells
  <2>4. message' \in [Children -> Seq(Inodes)]
    <3>1. CASE c \in Children
      <4>1. Append(message[c], caller[c].ino) \in Seq(Inodes)
        BY <1>0, <2>1, <3>1 DEF TypeOK
      <4> QED BY <1>0, <1>5, <3>1, <4>1 DEF Tells, TypeOK
    <3>2. CASE c \notin Children
      BY <1>0, <1>5, <3>2 DEF Tells, TypeOK
    <3> QED BY <3>1, <3>2
  <2>5. caller' \in [Callers -> CallerStates]
    BY <1>0, <2>2, <2>3
  <2> QED BY <1>0, <1>5, <2>4, <2>5 DEF Tells, TypeOK
<1>6. CASE Writes(c)
  <2>1. journal' \in 0..MaxWrites
    BY <1>0, <1>6, LockAssumption DEF Writes, At, IInv, KnowsJournal, TypeOK
  <2>2. [caller[c] EXCEPT !.pc = "working", !.base = journal'] \in CallerStates
    BY <1>0, <2>1 DEF CallerStates
  <2>3. caller' = [caller EXCEPT ![c] = [caller[c] EXCEPT !.pc = "working",
                                                          !.base = journal']]
    BY <1>0, <1>6 DEF Writes
  <2>4. caller' \in [Callers -> CallerStates]
    BY <1>0, <2>2, <2>3
  <2> QED BY <1>0, <1>6, <2>1, <2>4 DEF Writes, TypeOK
<1>7. CASE Ends(c)
  <2>1. [caller[c] EXCEPT !.pc = "releasing", !.base = 0] \in CallerStates
    <3>1. 0 \in 0..MaxWrites
      BY LockAssumption
    <3> QED BY <1>0, <3>1 DEF CallerStates
  <2>2. caller' = [caller EXCEPT ![c] = [caller[c] EXCEPT !.pc = "releasing", !.base = 0]]
    BY <1>0, <1>7 DEF Ends
  <2>3. caller' \in [Callers -> CallerStates]
    BY <1>0, <2>1, <2>2
  <2> QED BY <1>0, <1>7, <2>3 DEF Ends, TypeOK
<1>8. CASE Unlinks(c) \/ Removes(c)
  <2>1. caller' \in [Callers -> CallerStates]
    BY <1>0, <1>8, ToType DEF Unlinks, Removes
  <2>2. lock' \in Locks \cup {NoLock}
    BY <1>0, <1>8 DEF Unlinks, Removes, Locks, TypeOK
  <2> QED BY <1>0, <1>8, <2>1, <2>2 DEF Unlinks, Removes, TypeOK
<1>9. CASE Dies(c)
  BY <1>0, <1>9 DEF Dies, TypeOK
<1> QED BY <1>1, <1>2, <1>3, <1>4, <1>5, <1>6, <1>7, <1>8, <1>9 DEF Call

\* So do the controller's.
LEMMA ControllerType ==
  ASSUME IInv,
         \/ \E r \in Recoveries : RecoverBegins(r) \/ Recovery(r)
         \/ \E c \in Children : Hears(c)
         \/ ControllerDies
  PROVE  TypeOK'
<1> USE DEF Files, Leased
<1>0. /\ TypeOK /\ recovery \in [Recoveries -> RecoveryStates]
      /\ NoLock \notin Locks /\ (lock # NoLock => lock \in Locks)
  BY NoLockAssumption DEF IInv, TypeOK
<1>1. ASSUME NEW r \in Recoveries, RecoverBegins(r) \/ Recovery(r)
      PROVE  TypeOK'
  <2>1. CASE \/ RecoverBegins(r) \/ MakesGate(r) \/ Kills(r) \/ Awaits(r)
             \/ RechecksLock(r) \/ Enables(r)
    <3>1. recovery' \in [Recoveries -> RecoveryStates]
      BY <1>0, <2>1, StepType DEF RecoverBegins, MakesGate, Kills, Awaits, RechecksLock,
         Enables
    <3> QED BY <1>0, <2>1, <3>1 DEF RecoverBegins, MakesGate, Kills, Awaits, RechecksLock,
            Enables, TypeOK, Tracked
  <2>2. CASE StatsLock(r)
    <3>1. recovery' \in [Recoveries -> RecoveryStates]
      <4>1. CASE lock = NoLock
        BY <1>0, <2>2, <4>1, StepType DEF StatsLock
      <4>2. CASE lock # NoLock
        <5>1. lock.ino \in Inodes
          BY <1>0, <4>2 DEF Locks
        <5>2. [recovery[r] EXCEPT !.pc = "reading", !.ino = lock.ino] \in RecoveryStates
          BY <1>0, <5>1 DEF RecoveryStates
        <5>3. recovery' = [recovery EXCEPT ![r] = [recovery[r] EXCEPT !.pc = "reading",
                                                                      !.ino = lock.ino]]
          BY <1>0, <2>2, <4>2 DEF StatsLock
        <5> QED BY <1>0, <5>2, <5>3
      <4> QED BY <4>1, <4>2
    <3> QED BY <1>0, <2>2, <3>1 DEF StatsLock, TypeOK
  <2>3. CASE ReadsOwner(r)
    <3>1. recovery' \in [Recoveries -> RecoveryStates]
      <4>1. CASE Step(r, "ungating")
        BY <1>0, <4>1, StepType
      <4>2. CASE ~Step(r, "ungating")
        <5>1. [recovery[r] EXCEPT !.pc = "killing", !.owner = lock.owner] \in RecoveryStates
          <6>1. recovery[r] \in RecoveryStates /\ lock.owner \in Callers
            BY <1>0, <2>3, <4>2 DEF ReadsOwner, Callers
          <6> QED BY <6>1 DEF RecoveryStates
        <5>2. recovery' = [recovery EXCEPT ![r] = [recovery[r] EXCEPT !.pc = "killing",
                                                                 !.owner = lock.owner]]
          BY <1>0, <2>3, <4>2 DEF ReadsOwner
        <5> QED BY <1>0, <5>1, <5>2
      <4> QED BY <4>1, <4>2
    <3> QED BY <1>0, <2>3, <3>1 DEF ReadsOwner, TypeOK
  <2>4. CASE Renames(r)
    <3>1. recovery' \in [Recoveries -> RecoveryStates]
      BY <1>0, <2>4, StepType DEF Renames
    <3>2. quarantined' \in SUBSET Inodes /\ lock' \in Locks \cup {NoLock}
      BY <1>0, <2>4 DEF Renames, TypeOK, Locks
    <3> QED BY <1>0, <2>4, <3>1, <3>2 DEF Renames, TypeOK
  <2>5. CASE Ungates(r)
    <3>1. [pc |-> "idle", ino |-> NoInode, owner |-> NoOwner] \in RecoveryStates
      BY DEF RecoveryStates
    <3> QED BY <1>0, <2>5, <3>1 DEF Ungates, TypeOK
  <2> QED BY <1>1, <2>1, <2>2, <2>3, <2>4, <2>5 DEF Recovery
<1>2. ASSUME NEW c \in Children, Hears(c)
      PROVE  TypeOK'
  <2>1. message[c] \in Seq(Inodes) /\ message[c] # <<>>
    BY <1>0, <1>2 DEF TypeOK, Hears
  <2>2. Head(message[c]) \in Inodes /\ Tail(message[c]) \in Seq(Inodes)
    BY <2>1
  <2> QED BY <1>0, <1>2, <2>2 DEF Hears, TypeOK
<1>3. CASE ControllerDies
  BY <1>0, <1>3, OutType DEF ControllerDies, TypeOK
<1> QED BY <1>1, <1>2, <1>3

--------------------------------------------------------------------------------
(* Every step keeps the rest of the invariant.                             *)

\* A step of one caller that touches neither the directories nor the journal keeps the
\* invariant if it does for that caller.
LEMMA OneMoves ==
  ASSUME IInv, TypeOK', NEW c \in Callers,
         UNCHANGED <<lock, gate, journal, recovery>>,
         \A d \in Callers \ {c} : caller'[d] = caller[d],
         Inside(c)' => Inside(c),
         HasLock(c)', KnowsJournal(c)',
         ~At(c, "new")', At(c, "dead") => At(c, "dead")'
  PROVE  IInv'
<1>1. Exclusive'
  BY DEF IInv, Exclusive, Inside
<1>2. \A d \in Callers : (HasLock(d) /\ KnowsJournal(d))'
  BY DEF IInv, HasLock, KnowsJournal, Inside, At
<1>3. GateIsOne'
  BY DEF IInv, GateIsOne, Gated
<1>4. OwnersAreTracked'
  BY DEF IInv, OwnersAreTracked, Tracked, At, Callers
<1>5. VictimIsDead'
  BY DEF IInv, VictimIsDead, OwnersAreTracked, Tracked, At, Callers
<1> QED BY <1>1, <1>2, <1>3, <1>4, <1>5 DEF IInv

\* No recovery is about to move the directory away of a caller that is inside.
LEMMA NoVictim ==
  ASSUME IInv, NEW c \in Callers, Inside(c) \/ lock = NoLock,
         NEW r \in Recoveries
  PROVE  recovery[r].pc # "renaming"
<1> SUFFICES ASSUME recovery[r].pc = "renaming"
             PROVE  FALSE
  OBVIOUS
<1> DEFINE o == recovery[r].owner
<1>1. lock # NoLock /\ lock.owner = o /\ At(o, "dead") /\ o \in Children
  BY DEF IInv, VictimIsDead, OwnersAreTracked, Tracked
<1>2. o \in Callers /\ o # NoOwner
  BY <1>1, LockAssumption DEF Callers
<1>3. lock.owner = c
  BY <1>1, <1>2 DEF IInv, HasLock, Inside
<1> QED BY <1>1, <1>3 DEF Inside, At

\* A step of the caller inside, or of one that gets in while no directory is there,
\* may also change the directory and the journal.
LEMMA HolderMoves ==
  ASSUME IInv, TypeOK', NEW c \in Callers, Inside(c) \/ lock = NoLock,
         UNCHANGED <<gate, recovery>>,
         \A d \in Callers \ {c} : caller'[d] = caller[d],
         ~At(c, "new"), ~At(c, "dead"), ~At(c, "new")',
         lock' # NoLock => lock'.owner \in {c, NoOwner},
         HasLock(c)', KnowsJournal(c)'
  PROVE  IInv'
<1>0. \A d \in Callers \ {c} : ~Inside(d) /\ ~Inside(d)'
  BY DEF IInv, Exclusive, HasLock, Inside
<1>1. Exclusive'
  BY <1>0 DEF Exclusive
<1>2. \A d \in Callers : (HasLock(d) /\ KnowsJournal(d))'
  BY <1>0 DEF HasLock, KnowsJournal, Inside, At
<1>3. GateIsOne'
  BY DEF IInv, GateIsOne, Gated
<1>4. OwnersAreTracked'
  BY LockAssumption DEF IInv, OwnersAreTracked, Tracked, At, Callers
<1>5. VictimIsDead'
  BY NoVictim DEF IInv, VictimIsDead, OwnersAreTracked, Tracked, At, Callers
<1> QED BY <1>1, <1>2, <1>3, <1>4, <1>5 DEF IInv

\* What a caller that goes on, or leaves, looks like afterwards.
LEMMA ToMoves ==
  ASSUME TypeOK, NEW c \in Callers, NEW pc, To(c, pc)
  PROVE  /\ \A d \in Callers \ {c} : caller'[d] = caller[d]
         /\ caller'[c].pc = pc
         /\ caller'[c].ino = caller[c].ino
         /\ caller'[c].base = caller[c].base
<1>1. caller \in [Callers -> CallerStates] /\ caller[c] \in CallerStates
  BY DEF TypeOK
<1>2. caller'[c] = [caller[c] EXCEPT !.pc = pc]
  BY <1>1 DEF To
<1>3. \A d \in Callers \ {c} : caller'[d] = caller[d]
  BY <1>1 DEF To
<1> QED BY <1>1, <1>2, <1>3 DEF CallerStates

\* A caller that leaves is out; the others stay where they are.
LEMMA LeavesMoves ==
  ASSUME TypeOK, NEW c \in Callers, Leaves(c)
  PROVE  /\ \A d \in Callers \ {c} : caller'[d] = caller[d]
         /\ caller'[c].pc = "idle"
BY DEF TypeOK, Leaves, Out

\* Every step of withJournalLock keeps the invariant.
LEMMA CallStep ==
  ASSUME IInv, NEW c \in Callers,
         Tracks(c) \/ Enters(c) \/ Call(c) \/ Persists(c) \/ Dies(c)
  PROVE  IInv'
<1> USE DEF Files, Control
<1>0. /\ TypeOK /\ TypeOK' /\ caller \in [Callers -> CallerStates]
      /\ caller[c] \in CallerStates
      /\ HasLock(c) /\ KnowsJournal(c)
  BY CallType DEF IInv, TypeOK
<1>1. CASE Tracks(c) \/ Enters(c)
  <2>1. \E pc \in {"idle", "checking"} : To(c, pc)
    BY <1>1 DEF Tracks, Enters
  <2>2. ~Inside(c)'
    BY <1>0, <2>1, ToMoves DEF Inside
  <2>3. caller'[c].pc \in {"idle", "checking"} /\ caller[c].pc \in {"new", "idle"}
    BY <1>0, <1>1, <2>1, ToMoves DEF Tracks, Enters, At
  <2> QED BY <1>0, <1>1, <2>1, <2>2, <2>3, OneMoves, ToMoves
          DEF Tracks, Enters, HasLock, KnowsJournal, At
<1>2. CASE ChecksGate(c)
  <2>1. caller'[c].pc \in {"idle", "making"} /\ caller[c].pc = "checking"
        /\ \A d \in Callers \ {c} : caller'[d] = caller[d]
    BY <1>0, <1>2, ToMoves, LeavesMoves DEF ChecksGate, At
  <2> QED BY <1>0, <1>2, <2>1, OneMoves DEF ChecksGate, HasLock, KnowsJournal, At, Inside
<1>3. CASE MakesLock(c)
  <2>1. CASE Leaves(c) /\ UNCHANGED lock
    <3>1. caller'[c].pc = "idle" /\ caller[c].pc = "making"
          /\ \A d \in Callers \ {c} : caller'[d] = caller[d]
      BY <1>0, <1>3, <2>1, LeavesMoves DEF MakesLock, At
    <3> QED BY <1>0, <1>3, <2>1, <3>1, OneMoves
            DEF MakesLock, HasLock, KnowsJournal, At, Inside
  <2>2. CASE lock = NoLock /\ To(c, "made")
             /\ \E i \in Inodes \ quarantined : lock' = [ino |-> i, owner |-> NoOwner]
    <3>1. caller'[c].pc = "made" /\ caller[c].pc = "making"
          /\ \A d \in Callers \ {c} : caller'[d] = caller[d]
      BY <1>0, <1>3, <2>2, ToMoves DEF MakesLock, At
    <3>2. lock'.owner = NoOwner /\ lock' # NoLock
      BY <2>2, NoLockAssumption DEF Locks
    <3> QED BY <1>0, <1>3, <2>2, <3>1, <3>2, HolderMoves
            DEF MakesLock, HasLock, KnowsJournal, At, Inside
  <2> QED BY <1>3, <2>1, <2>2 DEF MakesLock
<1>4. CASE Holds(c)
  <2>1. caller[c].pc = "made" /\ lock # NoLock /\ lock.owner = NoOwner
    BY <1>0, <1>4 DEF Holds, At, HasLock, Inside
  <2>2. caller' = [caller EXCEPT ![c].pc = "holding", ![c].ino = lock.ino]
    BY <1>4, <2>1 DEF Holds
  <2>3. caller'[c].pc = "holding" /\ caller'[c].ino = lock.ino
        /\ \A d \in Callers \ {c} : caller'[d] = caller[d]
    BY <1>0, <2>2 DEF CallerStates
  <2> QED BY <1>0, <1>4, <2>1, <2>3, OneMoves DEF Holds, HasLock, KnowsJournal, At, Inside
<1>5. CASE RechecksGate(c)
  <2>1. caller'[c].pc \in {"releasing", "signing"} /\ caller[c].pc = "holding"
        /\ caller'[c].ino = caller[c].ino
        /\ \A d \in Callers \ {c} : caller'[d] = caller[d]
    BY <1>0, <1>5, ToMoves DEF RechecksGate, At
  <2> QED BY <1>0, <1>5, <2>1, OneMoves DEF RechecksGate, HasLock, KnowsJournal, At, Inside
<1>6. CASE WritesOwner(c)
  <2>1. caller[c].pc = "signing" /\ lock # NoLock /\ lock.owner = NoOwner
        /\ lock.ino = caller[c].ino
    BY <1>0, <1>6 DEF WritesOwner, At, HasLock, Inside
  <2>2. lock' = [lock EXCEPT !.owner = c] /\ To(c, "telling")
    BY <1>6, <2>1 DEF WritesOwner
  <2>3. lock' \in Locks /\ lock'.owner = c /\ lock'.ino = lock.ino
    BY <1>0, <2>1, <2>2 DEF TypeOK, Locks
  <2>4. caller'[c].pc = "telling" /\ caller'[c].ino = caller[c].ino
        /\ \A d \in Callers \ {c} : caller'[d] = caller[d]
    BY <1>0, <2>2, ToMoves
  <2> QED BY <1>0, <1>6, <2>1, <2>3, <2>4, HolderMoves, NoLockAssumption
          DEF WritesOwner, HasLock, KnowsJournal, At, Inside
<1>7. CASE Tells(c)
  <2>1. caller[c].pc = "telling" /\ UNCHANGED <<lock, gate, journal, recovery>>
        /\ caller' = [caller EXCEPT ![c].pc = "working", ![c].base = journal]
    BY <1>7 DEF Tells, At
  <2>2. caller'[c].pc = "working" /\ caller'[c].ino = caller[c].ino
        /\ caller'[c].base = journal
        /\ \A d \in Callers \ {c} : caller'[d] = caller[d]
    BY <1>0, <2>1 DEF CallerStates
  <2> QED BY <1>0, <2>1, <2>2, OneMoves DEF HasLock, KnowsJournal, At, Inside
<1>8. CASE Persists(c)
  <2>1. caller[c].pc = "working" /\ caller'[c].pc \in {"writing", "releasing"}
        /\ caller'[c].ino = caller[c].ino /\ caller'[c].base = caller[c].base
        /\ \A d \in Callers \ {c} : caller'[d] = caller[d]
    BY <1>0, <1>8, ToMoves DEF Persists, At
  <2> QED BY <1>0, <1>8, <2>1, OneMoves DEF Persists, HasLock, KnowsJournal, At, Inside
<1>9. CASE Writes(c)
  <2>1. caller[c].pc = "writing" /\ UNCHANGED <<lock, gate, recovery>>
        /\ caller' = [caller EXCEPT ![c].pc = "working", ![c].base = journal']
    BY <1>9 DEF Writes, At
  <2>2. caller'[c].pc = "working" /\ caller'[c].ino = caller[c].ino
        /\ caller'[c].base = journal'
        /\ \A d \in Callers \ {c} : caller'[d] = caller[d]
    BY <1>0, <2>1 DEF CallerStates
  <2> QED BY <1>0, <2>1, <2>2, HolderMoves DEF HasLock, KnowsJournal, At, Inside
<1>10. CASE Ends(c)
  <2>1. caller[c].pc = "working" /\ UNCHANGED <<lock, gate, journal, recovery>>
        /\ caller' = [caller EXCEPT ![c].pc = "releasing", ![c].base = 0]
    BY <1>10 DEF Ends, At
  <2>2. caller'[c].pc = "releasing" /\ caller'[c].ino = caller[c].ino
        /\ \A d \in Callers \ {c} : caller'[d] = caller[d]
    BY <1>0, <2>1 DEF CallerStates
  <2> QED BY <1>0, <2>1, <2>2, OneMoves DEF HasLock, KnowsJournal, At, Inside
<1>11. CASE Releases(c)
  <2>1. caller[c].pc = "releasing" /\ To(c, "unlinking")
    BY <1>0, <1>11 DEF Releases, Owns, At, HasLock, Inside
  <2>2. caller'[c].pc = "unlinking" /\ caller'[c].ino = caller[c].ino
        /\ \A d \in Callers \ {c} : caller'[d] = caller[d]
    BY <1>0, <2>1, ToMoves
  <2> QED BY <1>0, <1>11, <2>1, <2>2, OneMoves
          DEF Releases, HasLock, KnowsJournal, At, Inside
<1>12. CASE Unlinks(c)
  <2>1. caller[c].pc = "unlinking" /\ lock # NoLock /\ lock \in Locks
        /\ lock.ino = caller[c].ino /\ lock' = [lock EXCEPT !.owner = NoOwner]
    BY <1>0, <1>12 DEF Unlinks, At, HasLock, Inside, TypeOK
  <2>2. lock' \in Locks /\ lock'.owner = NoOwner /\ lock'.ino = lock.ino
    BY <2>1 DEF Locks
  <2>3. caller'[c].pc = "removing" /\ caller'[c].ino = caller[c].ino
        /\ \A d \in Callers \ {c} : caller'[d] = caller[d]
    BY <1>0, <1>12, ToMoves DEF Unlinks
  <2> QED BY <1>0, <1>12, <2>1, <2>2, <2>3, HolderMoves, NoLockAssumption
          DEF Unlinks, HasLock, KnowsJournal, At, Inside
<1>13. CASE Removes(c)
  <2>1. caller[c].pc = "removing" /\ lock' = NoLock
    BY <1>0, <1>13 DEF Removes, At, HasLock, Inside
  <2>2. caller'[c].pc = "idle" /\ \A d \in Callers \ {c} : caller'[d] = caller[d]
    BY <1>0, <1>13, LeavesMoves DEF Removes
  <2> QED BY <1>0, <1>13, <2>1, <2>2, HolderMoves
          DEF Removes, HasLock, KnowsJournal, At, Inside
<1>14. CASE Dies(c)
  <2>1. caller'[c].pc = "dead" /\ \A d \in Callers \ {c} : caller'[d] = caller[d]
    BY <1>0, <1>14 DEF Dies, Out
  <2> QED BY <1>0, <1>14, <2>1, OneMoves DEF Dies, HasLock, KnowsJournal, At, Inside
<1> QED BY <1>1, <1>2, <1>3, <1>4, <1>5, <1>6, <1>7, <1>8, <1>9, <1>10, <1>11, <1>12,
           <1>13, <1>14 DEF Call

\* A step of a recovery that leaves the lock directory alone keeps the invariant if it
\* does for that recovery.
LEMMA RecoveryMoves ==
  ASSUME IInv, TypeOK', NEW r \in Recoveries,
         UNCHANGED <<lock, journal, caller>>,
         \A s \in Recoveries \ {r} : recovery'[s] = recovery[s],
         GateIsOne',
         recovery'[r].pc \in {"killing", "awaiting", "checking", "renaming"} =>
           recovery'[r].owner \in Tracked,
         recovery'[r].pc \in {"checking", "renaming"} => At(recovery'[r].owner, "dead"),
         recovery'[r].pc = "renaming" => lock # NoLock /\ lock.owner = recovery'[r].owner
  PROVE  IInv'
<1>1. Exclusive' /\ \A c \in Callers : (HasLock(c) /\ KnowsJournal(c))'
  BY DEF IInv, Exclusive, HasLock, KnowsJournal, Inside, At
<1>2. OwnersAreTracked'
  BY DEF IInv, OwnersAreTracked, Tracked, At
<1>3. VictimIsDead'
  BY DEF IInv, VictimIsDead, At
<1> QED BY <1>1, <1>2, <1>3 DEF IInv

\* What a recovery that goes on looks like afterwards.
LEMMA StepMoves ==
  ASSUME TypeOK, NEW r \in Recoveries, NEW pc, Step(r, pc)
  PROVE  /\ \A s \in Recoveries \ {r} : recovery'[s] = recovery[s]
         /\ recovery'[r].pc = pc
         /\ recovery'[r].ino = recovery[r].ino
         /\ recovery'[r].owner = recovery[r].owner
<1>1. recovery \in [Recoveries -> RecoveryStates] /\ recovery[r] \in RecoveryStates
  BY DEF TypeOK
<1>2. recovery'[r] = [recovery[r] EXCEPT !.pc = pc]
  BY <1>1 DEF Step
<1>3. \A s \in Recoveries \ {r} : recovery'[s] = recovery[s]
  BY <1>1 DEF Step
<1> QED BY <1>1, <1>2, <1>3 DEF RecoveryStates

\* Every step of a recovery keeps the invariant.
LEMMA RecoveryStep ==
  ASSUME IInv, NEW r \in Recoveries, RecoverBegins(r) \/ Recovery(r)
  PROVE  IInv'
<1> USE DEF Files, Leased, Stage
<1>0. /\ TypeOK /\ TypeOK' /\ recovery \in [Recoveries -> RecoveryStates]
      /\ recovery[r] \in RecoveryStates
      /\ GateIsOne /\ OwnersAreTracked /\ VictimIsDead
  BY ControllerType DEF IInv, TypeOK
<1>1. CASE RecoverBegins(r)
  <2>1. recovery'[r].pc = "gating" /\ \A s \in Recoveries \ {r} : recovery'[s] = recovery[s]
    BY <1>0, <1>1, StepMoves DEF RecoverBegins
  <2>2. GateIsOne'
    BY <1>0, <1>1, <2>1 DEF RecoverBegins, GateIsOne, Gated
  <2> QED BY <1>0, <1>1, <2>1, <2>2, RecoveryMoves DEF RecoverBegins
<1>2. CASE MakesGate(r)
  <2>1. recovery[r].pc = "gating" /\ \A s \in Recoveries \ {r} : recovery'[s] = recovery[s]
    BY <1>0, <1>2, StepMoves DEF MakesGate
  <2>2. \/ recovery'[r].pc = "idle" /\ gate' = gate
        \/ recovery'[r].pc = "statting" /\ ~gate /\ gate'
    <3>1. CASE gate
      BY <1>0, <1>2, <3>1, StepMoves DEF MakesGate
    <3>2. CASE ~gate
      BY <1>0, <1>2, <3>2, StepMoves DEF MakesGate
    <3> QED BY <3>1, <3>2
  <2>3. GateIsOne'
    BY <1>0, <2>1, <2>2 DEF GateIsOne, Gated
  <2> QED BY <1>0, <1>2, <2>1, <2>2, <2>3, RecoveryMoves DEF MakesGate
<1>3. CASE StatsLock(r)
  <2>1. /\ recovery[r].pc = "statting" /\ recovery'[r].pc \in {"ungating", "reading"}
        /\ \A s \in Recoveries \ {r} : recovery'[s] = recovery[s]
    <3>1. CASE lock = NoLock
      BY <1>0, <1>3, <3>1, StepMoves DEF StatsLock
    <3>2. CASE lock # NoLock
      BY <1>0, <1>3, <3>2 DEF StatsLock, RecoveryStates
    <3> QED BY <3>1, <3>2
  <2>2. GateIsOne'
    BY <1>0, <1>3, <2>1 DEF StatsLock, GateIsOne, Gated
  <2>3. UNCHANGED <<lock, journal, caller>>
    BY <1>3 DEF StatsLock
  <2> QED BY <1>0, <2>1, <2>2, <2>3, RecoveryMoves
<1>4. CASE ReadsOwner(r)
  <2>1. recovery[r].pc = "reading" /\ UNCHANGED <<lock, gate, journal, caller>>
    BY <1>4 DEF ReadsOwner
  <2>2. CASE Step(r, "ungating")
    <3>1. recovery'[r].pc = "ungating"
          /\ \A s \in Recoveries \ {r} : recovery'[s] = recovery[s]
      BY <1>0, <2>2, StepMoves
    <3>2. GateIsOne'
      BY <1>0, <2>1, <3>1 DEF GateIsOne, Gated
    <3> QED BY <1>0, <2>1, <3>1, <3>2, RecoveryMoves
  <2>3. CASE ~Step(r, "ungating")
    <3>1. lock # NoLock /\ lock.owner \in Children
          /\ recovery' = [recovery EXCEPT ![r].pc = "killing", ![r].owner = lock.owner]
      BY <1>4, <2>3 DEF ReadsOwner
    <3>2. recovery'[r].pc = "killing" /\ recovery'[r].owner = lock.owner
          /\ \A s \in Recoveries \ {r} : recovery'[s] = recovery[s]
      BY <1>0, <3>1 DEF RecoveryStates
    <3>3. GateIsOne'
      BY <1>0, <2>1, <3>2 DEF GateIsOne, Gated
    <3>4. lock.owner \in Tracked
      BY <1>0, <3>1 DEF OwnersAreTracked, Tracked
    <3> QED BY <1>0, <2>1, <3>2, <3>3, <3>4, RecoveryMoves
  <2> QED BY <2>2, <2>3
<1>5. CASE Kills(r) \/ Awaits(r) \/ RechecksLock(r) \/ Enables(r)
  <2>1. UNCHANGED <<lock, gate, journal, caller>> /\ Gated(r)
        /\ recovery'[r].owner = recovery[r].owner
        /\ \A s \in Recoveries \ {r} : recovery'[s] = recovery[s]
    BY <1>0, <1>5, StepMoves DEF Kills, Awaits, RechecksLock, Enables, Gated
  <2>2. GateIsOne'
    BY <1>0, <2>1 DEF GateIsOne, Gated
  <2>3. CASE Kills(r)
    <3>1. recovery[r].pc = "killing" /\ recovery'[r].pc = "awaiting"
      BY <1>0, <2>3, StepMoves DEF Kills
    <3> QED BY <1>0, <2>1, <2>2, <3>1, RecoveryMoves DEF OwnersAreTracked
  <2>4. CASE Awaits(r)
    <3>1. recovery[r].pc = "awaiting"
          /\ \/ recovery'[r].pc = "checking" /\ \A c \in Tracked : At(c, "dead")
             \/ recovery'[r].pc = "ungating"
      BY <1>0, <2>4, StepMoves DEF Awaits
    <3>2. recovery[r].owner \in Tracked
      BY <1>0, <3>1 DEF OwnersAreTracked
    <3> QED BY <1>0, <2>1, <2>2, <3>1, <3>2, RecoveryMoves
  <2>5. CASE RechecksLock(r)
    <3>1. recovery[r].pc = "checking"
          /\ \/ /\ recovery'[r].pc = "renaming"
                /\ lock # NoLock /\ lock.owner = recovery[r].owner
             \/ recovery'[r].pc = "ungating"
      BY <1>0, <2>5, StepMoves DEF RechecksLock
    <3>2. recovery[r].owner \in Tracked /\ At(recovery[r].owner, "dead")
      BY <1>0, <3>1 DEF OwnersAreTracked, VictimIsDead
    <3> QED BY <1>0, <2>1, <2>2, <3>1, <3>2, RecoveryMoves
  <2>6. CASE Enables(r)
    <3>1. recovery'[r].pc = "ungating"
      BY <1>0, <2>6, StepMoves DEF Enables
    <3> QED BY <1>0, <2>1, <2>2, <3>1, RecoveryMoves
  <2> QED BY <1>5, <2>3, <2>4, <2>5, <2>6
<1>6. CASE Renames(r)
  <2>1. recovery[r].pc = "renaming" /\ lock # NoLock /\ lock' = NoLock
        /\ UNCHANGED <<gate, journal, caller>>
    BY <1>0, <1>6 DEF Renames, VictimIsDead
  <2>2. recovery'[r].pc = "enabling"
        /\ \A s \in Recoveries \ {r} : recovery'[s] = recovery[s]
    BY <1>0, <1>6, <2>1, StepMoves DEF Renames
  <2>3. \A c \in Callers : ~Inside(c)
    BY <2>1, NoVictim
  <2>4. Exclusive' /\ \A c \in Callers : (HasLock(c) /\ KnowsJournal(c))'
    BY <2>1, <2>3 DEF IInv, Exclusive, HasLock, KnowsJournal, Inside, At
  <2>5. GateIsOne'
    BY <1>0, <2>1, <2>2 DEF GateIsOne, Gated
  <2>6. OwnersAreTracked'
    BY <1>0, <2>1, <2>2 DEF OwnersAreTracked, Tracked, At
  <2>7. \A s \in Recoveries : recovery'[s].pc # "renaming"
    BY <1>0, <2>1, <2>2 DEF GateIsOne, Gated
  <2>8. VictimIsDead'
    BY <1>0, <2>1, <2>2, <2>7 DEF VictimIsDead, At
  <2> QED BY <1>0, <2>4, <2>5, <2>6, <2>8 DEF IInv
<1>7. CASE Ungates(r)
  <2>1. recovery[r].pc = "ungating" /\ recovery'[r].pc = "idle" /\ ~gate'
        /\ \A s \in Recoveries \ {r} : recovery'[s] = recovery[s]
    BY <1>0, <1>7 DEF Ungates
  <2>2. GateIsOne'
    BY <1>0, <2>1 DEF GateIsOne, Gated
  <2> QED BY <1>0, <1>7, <2>1, <2>2, RecoveryMoves DEF Ungates
<1> QED BY <1>1, <1>2, <1>3, <1>4, <1>5, <1>6, <1>7 DEF Recovery

\* A controller that dies takes only its own calls with it.
LEMMA ControllerDiesStep ==
  ASSUME IInv, ControllerDies
  PROVE  IInv'
<1>1. TypeOK' /\ UNCHANGED <<lock, gate, journal, recovery>>
  BY ControllerType DEF ControllerDies, Files
<1>2. \A c \in Callers : caller'[c] = caller[c] \/ caller'[c].pc = "dead"
  BY DEF ControllerDies, Out
<1>3. Exclusive'
  BY <1>2 DEF IInv, Exclusive, Inside
<1>4. \A c \in Callers : (HasLock(c) /\ KnowsJournal(c))'
  BY <1>1, <1>2 DEF IInv, HasLock, KnowsJournal, Inside, At
<1>5. GateIsOne' /\ OwnersAreTracked' /\ VictimIsDead'
  BY <1>1, <1>2 DEF IInv, GateIsOne, Gated, OwnersAreTracked, VictimIsDead, Tracked, At,
     Callers
<1> QED BY <1>1, <1>3, <1>4, <1>5 DEF IInv

\* A message that arrives changes nothing of it.
LEMMA HearsStep ==
  ASSUME IInv, NEW c \in Children, Hears(c)
  PROVE  IInv'
<1>1. TypeOK' /\ UNCHANGED <<lock, gate, journal, caller, recovery>>
  BY ControllerType DEF Hears, Files
<1> QED BY <1>1 DEF IInv, Exclusive, HasLock, KnowsJournal, GateIsOne, Gated,
        OwnersAreTracked, VictimIsDead, Inside, At, Tracked

--------------------------------------------------------------------------------
(* The theorems.                                                           *)

\* The invariant holds of every state of every run of the lock: initially nobody is in
\* a call, and every step keeps it.
THEOREM Invariance == Spec => []IInv
<1>1. Init => IInv
  <2> SUFFICES ASSUME Init
               PROVE  IInv
    OBVIOUS
  <2>1. \A c \in Callers : caller[c].pc \in {"new", "idle"}
    BY DEF Init, Out
  <2>2. TypeOK
    <3>1. \A c \in Callers : Out(IF c \in Children THEN "new" ELSE "idle") \in CallerStates
      BY OutType
    <3>2. [pc |-> "idle", ino |-> NoInode, owner |-> NoOwner] \in RecoveryStates
      BY DEF RecoveryStates
    <3>3. 0 \in 0..MaxWrites /\ <<>> \in Seq(Inodes)
      BY LockAssumption
    <3> QED BY <3>1, <3>2, <3>3 DEF Init, TypeOK
  <2> QED BY <2>1, <2>2 DEF Init, IInv, Exclusive, HasLock, KnowsJournal, GateIsOne, Gated,
          OwnersAreTracked, VictimIsDead, Inside, At
<1>2. IInv /\ [Next]_vars => IInv'
  <2> SUFFICES ASSUME IInv, [Next]_vars
               PROVE  IInv'
    OBVIOUS
  <2>1. ASSUME NEW c \in Callers,
               Tracks(c) \/ Enters(c) \/ Call(c) \/ Persists(c) \/ Dies(c)
        PROVE  IInv'
    BY <2>1, CallStep
  <2>2. ASSUME NEW r \in Recoveries, RecoverBegins(r) \/ Recovery(r)
        PROVE  IInv'
    BY <2>2, RecoveryStep
  <2>3. ASSUME NEW c \in Children, Hears(c)
        PROVE  IInv'
    BY <2>3, HearsStep
  <2>4. CASE ControllerDies
    BY <2>4, ControllerDiesStep
  <2>5. CASE UNCHANGED vars
    BY <2>5 DEF vars, IInv, TypeOK, Exclusive, HasLock, KnowsJournal, GateIsOne, Gated,
       OwnersAreTracked, VictimIsDead, Inside, At, Tracked
  <2> QED BY <2>1, <2>2, <2>3, <2>4, <2>5 DEF Next
<1> QED BY <1>1, <1>2, PTL DEF Spec

\* Every variable keeps its type.
THEOREM TypeCorrect == Spec => []TypeOK
<1>1. IInv => TypeOK
  BY DEF IInv
<1> QED BY <1>1, Invariance, PTL

\* Two callers are never between creating the lock directory and removing it at once,
\* however many callers, recoveries and deaths there are and whichever inode numbers the
\* file system uses again.
THEOREM ExclusiveHolds == Spec => []Exclusive
<1>1. IInv => Exclusive
  BY DEF IInv
<1> QED BY <1>1, Invariance, PTL

\* Every write of journal.json is computed from the journal.json that it replaces.
THEOREM NoUpdateIsLost == Spec => NoLostUpdate
<1>1. IInv /\ [Next]_vars =>
        [\A c \in Callers :
           At(c, "writing") /\ journal' # journal => caller[c].base = journal]_vars
  BY DEF IInv, KnowsJournal, At
<1> QED BY <1>1, Invariance, PTL DEF Spec, NoLostUpdate
================================================================================
