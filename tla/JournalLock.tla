------------------------------ MODULE JournalLock ------------------------------
(***************************************************************************)
(* The lock directory that serializes every writer of an onboarding or     *)
(* migration journal: safe/onboardingJournal.ts.                           *)
(*                                                                         *)
(* A caller creates the directory `lock', writes owner.json into it, works *)
(* on journal.json and removes the directory.  A caller that dies leaves   *)
(* the directory behind.  Its controller may then move it away, after it   *)
(* has killed and outwaited every process it ever lent the journal to; the *)
(* directory `recovery' keeps others out meanwhile.  Every file operation  *)
(* is a step, and inode numbers of removed directories are used again.     *)
(***************************************************************************)
EXTENDS Integers, Sequences

CONSTANTS
  Children,    \* processes this controller lends the journal to
  Locals,      \* calls inside the controller's own process
  Strangers,   \* callers of other controllers of the same directory
  Recoveries,  \* concurrent recoverLock calls
  Inodes,      \* numbers the file system gives to directories
  NoLock,      \* there is no lock directory
  NoOwner,     \* there is no readable owner.json in it
  NoInode,
  MaxWrites,   \* bound on writes of the journal
  MaxUnheard   \* bound on undelivered messages of one child

Callers == Children \cup Locals \cup Strangers

ASSUME LockAssumption ==
  /\ MaxWrites \in Nat /\ MaxUnheard \in Nat
  /\ NoInode \notin Inodes
  /\ NoOwner \notin Callers
  /\ Children \cap Locals = {} /\ Children \cap Strangers = {} /\ Locals \cap Strangers = {}

Locks == [ino : Inodes, owner : Callers \cup {NoOwner}]
ASSUME NoLockAssumption == NoLock \notin Locks

\* base is the journal the caller's next write is computed from.
CallerStates ==
  [pc : {"new", "idle", "checking", "making", "made", "holding", "signing", "telling",
         "working", "writing", "releasing", "unlinking", "removing", "dead"},
   ino : Inodes \cup {NoInode}, base : 0..MaxWrites]

RecoveryStates ==
  [pc : {"idle", "gating", "statting", "reading", "killing", "awaiting", "checking",
         "renaming", "enabling", "ungating"},
   ino : Inodes \cup {NoInode}, owner : Callers \cup {NoOwner}]

VARIABLES
  lock,         \* the directory lock
  gate,         \* the directory recovery exists
  quarantined,  \* inodes of the directories that were moved away
  journal,      \* journal.json, by the number of its writes
  caller,       \* every caller of withJournalLock
  killed,       \* children that were sent SIGKILL and have not exited yet
  message,      \* "onboarding-lock-held" on each child's IPC channel, in order
  held,         \* callers.get(caller).held
  enabled,      \* state.enabled of the controller
  recovery,     \* recoverLock calls in progress
  alive         \* the controller's process

vars == <<lock, gate, quarantined, journal, caller, killed, message, held, enabled,
          recovery, alive>>

--------------------------------------------------------------------------------
At(c, pc) == caller[c].pc = pc
To(c, pc) == caller' = [caller EXCEPT ![c].pc = pc]
Out(pc) == [pc |-> pc, ino |-> NoInode, base |-> 0]
Leaves(c) == caller' = [caller EXCEPT ![c] = Out("idle")]

\* callers: the children that were given a lease.
Tracked == {c \in Children : ~At(c, "new")}

\* state.active: a local call between its lock and its finally clause.
Active == \E c \in Locals : caller[c].pc \in {"holding", "signing", "telling", "working",
                                              "writing"}

\* The lock directory is the one this caller has created.
Owns(c) == lock # NoLock /\ lock.ino = caller[c].ino

Files == <<lock, gate, quarantined, journal>>
Control == <<killed, message, held, enabled, recovery, alive>>

--------------------------------------------------------------------------------
(* withJournalLock.                                                        *)

\* trackCaller.
Tracks(c) ==
  /\ c \in Children
  /\ At(c, "new")
  /\ alive /\ enabled
  /\ To(c, "idle")
  /\ UNCHANGED <<Files, Control>>

Enters(c) ==
  /\ At(c, "idle")
  /\ c \in Locals => enabled
  /\ To(c, "checking")
  /\ UNCHANGED <<Files, Control>>

\* assertNoRecovery, before the lock is attempted ...
ChecksGate(c) ==
  /\ At(c, "checking")
  /\ IF gate THEN Leaves(c) ELSE To(c, "making")
  /\ UNCHANGED <<Files, Control>>

\* mkdir is the atomic step: it fails when the directory exists.
MakesLock(c) ==
  /\ At(c, "making")
  /\ \/ lock # NoLock /\ Leaves(c) /\ UNCHANGED lock
     \/ /\ lock = NoLock
        /\ \E i \in Inodes \ quarantined : lock' = [ino |-> i, owner |-> NoOwner]
        /\ To(c, "made")
  /\ UNCHANGED <<gate, quarantined, journal, Control>>

Holds(c) ==
  /\ At(c, "made")
  /\ IF lock = NoLock THEN Leaves(c)
     ELSE caller' = [caller EXCEPT ![c].pc = "holding", ![c].ino = lock.ino]
  /\ UNCHANGED <<Files, Control>>

\* ... and after it is held.
RechecksGate(c) ==
  /\ At(c, "holding")
  /\ To(c, IF gate THEN "releasing" ELSE "signing")
  /\ UNCHANGED <<Files, Control>>

WritesOwner(c) ==
  /\ At(c, "signing")
  /\ IF lock # NoLock /\ lock.owner = NoOwner
     THEN lock' = [lock EXCEPT !.owner = c] /\ To(c, "telling")
     ELSE UNCHANGED lock /\ To(c, "releasing")
  /\ UNCHANGED <<gate, quarantined, journal, Control>>

\* The inode is told to the controller and the journal is read.
Tells(c) ==
  /\ At(c, "telling")
  /\ caller' = [caller EXCEPT ![c].pc = "working", ![c].base = journal]
  /\ IF c \in Children
     THEN /\ Len(message[c]) < MaxUnheard
          /\ message' = [message EXCEPT ![c] = Append(@, caller[c].ino)]
     ELSE UNCHANGED message
  /\ UNCHANGED <<Files, killed, held, enabled, recovery, alive>>

\* persist: the inode is checked, then the journal is replaced.
Persists(c) ==
  /\ At(c, "working")
  /\ journal < MaxWrites
  /\ To(c, IF Owns(c) THEN "writing" ELSE "releasing")
  /\ UNCHANGED <<Files, Control>>

Writes(c) ==
  /\ At(c, "writing")
  /\ journal' = journal + 1
  /\ caller' = [caller EXCEPT ![c].pc = "working", ![c].base = journal']
  /\ UNCHANGED <<lock, gate, quarantined, Control>>

Ends(c) ==
  /\ At(c, "working")
  /\ caller' = [caller EXCEPT ![c].pc = "releasing", ![c].base = 0]
  /\ UNCHANGED <<Files, Control>>

\* The finally clause: only a directory with the caller's own inode is removed.
Releases(c) ==
  /\ At(c, "releasing")
  /\ IF Owns(c) THEN To(c, "unlinking") ELSE Leaves(c)
  /\ UNCHANGED <<Files, Control>>

Unlinks(c) ==
  /\ At(c, "unlinking")
  /\ lock' = IF lock = NoLock THEN NoLock ELSE [lock EXCEPT !.owner = NoOwner]
  /\ To(c, "removing")
  /\ UNCHANGED <<gate, quarantined, journal, Control>>

\* rmdir refuses a directory that is not empty.
Removes(c) ==
  /\ At(c, "removing")
  /\ lock' = IF lock # NoLock /\ lock.owner = NoOwner THEN NoLock ELSE lock
  /\ Leaves(c)
  /\ UNCHANGED <<gate, quarantined, journal, Control>>

\* A process dies between any two of its steps.
Dies(c) ==
  /\ c \in Children \cup Strangers
  /\ caller[c].pc \notin {"new", "dead"}
  /\ caller' = [caller EXCEPT ![c] = Out("dead")]
  /\ killed' = killed \ {c}
  /\ UNCHANGED <<Files, message, held, enabled, recovery, alive>>

\* A message arrives at the controller.
Hears(c) ==
  /\ alive
  /\ message[c] # <<>>
  /\ message' = [message EXCEPT ![c] = Tail(@)]
  /\ held' = [held EXCEPT ![c] = Head(message[c])]
  /\ UNCHANGED <<Files, caller, killed, enabled, recovery, alive>>

--------------------------------------------------------------------------------
(* recoverLock.                                                            *)

Step(r, pc) == recovery' = [recovery EXCEPT ![r].pc = pc]
Stage(r, pc) == alive /\ recovery[r].pc = pc
Leased == <<caller, message, held, alive>>

RecoverBegins(r) ==
  /\ Stage(r, "idle")
  /\ enabled' = FALSE
  /\ Step(r, "gating")
  /\ UNCHANGED <<Files, killed, Leased>>

\* The gate admits one recovery.
MakesGate(r) ==
  /\ Stage(r, "gating")
  /\ IF gate THEN Step(r, "idle") /\ UNCHANGED gate
     ELSE Step(r, "statting") /\ gate' = TRUE
  /\ UNCHANGED <<lock, quarantined, journal, killed, enabled, Leased>>

StatsLock(r) ==
  /\ Stage(r, "statting")
  /\ IF lock = NoLock THEN Step(r, "ungating")
     ELSE recovery' = [recovery EXCEPT ![r].pc = "reading", ![r].ino = lock.ino]
  /\ UNCHANGED <<Files, killed, enabled, Leased>>

\* The owner must be a tracked child whose lock this inode was told to be, and no
\* local call may be at work.
ReadsOwner(r) ==
  /\ Stage(r, "reading")
  /\ IF /\ lock # NoLock
        /\ lock.owner \in Children
        /\ held[lock.owner] = recovery[r].ino
        /\ ~Active
     THEN recovery' = [recovery EXCEPT ![r].pc = "killing", ![r].owner = lock.owner]
     ELSE Step(r, "ungating")
  /\ UNCHANGED <<Files, killed, enabled, Leased>>

Kills(r) ==
  /\ Stage(r, "killing")
  /\ killed' = killed \cup {c \in Tracked : ~At(c, "dead")}
  /\ Step(r, "awaiting")
  /\ UNCHANGED <<Files, enabled, Leased>>

\* Mutants of Awaits: the kill is taken for the exit; a recovery that gives up keeps
\* its gate.
AwaitsNothing(r) ==
  /\ Stage(r, "awaiting")
  /\ Step(r, "checking")
  /\ UNCHANGED <<Files, killed, enabled, Leased>>

AwaitsInVain(r) ==
  /\ Stage(r, "awaiting")
  /\ IF \A c \in Tracked : At(c, "dead") THEN Step(r, "checking") ELSE Step(r, "idle")
  /\ UNCHANGED <<Files, killed, enabled, Leased>>

\* Every tracked child has exited, or two seconds are over.
Awaits(r) ==
  /\ Stage(r, "awaiting")
  /\ IF \A c \in Tracked : At(c, "dead") THEN Step(r, "checking") ELSE Step(r, "ungating")
  /\ UNCHANGED <<Files, killed, enabled, Leased>>

\* Mutant of RechecksLock: the holder may have released before it died.
RechecksNothing(r) ==
  /\ Stage(r, "checking")
  /\ Step(r, "renaming")
  /\ UNCHANGED <<Files, killed, enabled, Leased>>

\* The directory is still the one that was looked at, with the same owner.
RechecksLock(r) ==
  /\ Stage(r, "checking")
  /\ Step(r, IF lock # NoLock /\ lock.ino = recovery[r].ino /\ lock.owner = recovery[r].owner
             THEN "renaming" ELSE "ungating")
  /\ UNCHANGED <<Files, killed, enabled, Leased>>

Renames(r) ==
  /\ Stage(r, "renaming")
  /\ IF lock = NoLock THEN Step(r, "ungating") /\ UNCHANGED <<lock, quarantined>>
     ELSE /\ lock' = NoLock
          /\ quarantined' = quarantined \cup {lock.ino}
          /\ Step(r, "enabling")
  /\ UNCHANGED <<gate, journal, killed, enabled, Leased>>

Enables(r) ==
  /\ Stage(r, "enabling")
  /\ enabled' = TRUE
  /\ Step(r, "ungating")
  /\ UNCHANGED <<Files, killed, Leased>>

Ungates(r) ==
  /\ Stage(r, "ungating")
  /\ gate' = FALSE
  /\ recovery' = [recovery EXCEPT ![r] = [pc |-> "idle", ino |-> NoInode,
                                          owner |-> NoOwner]]
  /\ UNCHANGED <<lock, quarantined, journal, killed, enabled, Leased>>

\* The controller dies with its local calls and recoveries; what it has created stays.
ControllerDies ==
  /\ alive
  /\ alive' = FALSE
  /\ caller' = [c \in Callers |-> IF c \in Locals THEN Out("dead") ELSE caller[c]]
  /\ UNCHANGED <<Files, killed, message, held, enabled, recovery>>

--------------------------------------------------------------------------------
Init ==
  /\ lock = NoLock /\ gate = FALSE /\ quarantined = {} /\ journal = 0
  /\ caller = [c \in Callers |-> Out(IF c \in Children THEN "new" ELSE "idle")]
  /\ killed = {}
  /\ message = [c \in Children |-> <<>>]
  /\ held = [c \in Children |-> NoInode]
  /\ enabled = TRUE
  /\ recovery = [r \in Recoveries |-> [pc |-> "idle", ino |-> NoInode, owner |-> NoOwner]]
  /\ alive = TRUE

Call(c) ==
  \/ ChecksGate(c) \/ MakesLock(c) \/ Holds(c) \/ RechecksGate(c) \/ WritesOwner(c)
  \/ Tells(c) \/ Writes(c) \/ Ends(c) \/ Releases(c) \/ Unlinks(c) \/ Removes(c)

Recovery(r) ==
  \/ MakesGate(r) \/ StatsLock(r) \/ ReadsOwner(r) \/ Kills(r) \/ Awaits(r)
  \/ RechecksLock(r) \/ Renames(r) \/ Enables(r) \/ Ungates(r)

Next ==
  \/ \E c \in Callers : Tracks(c) \/ Enters(c) \/ Call(c) \/ Persists(c) \/ Dies(c)
  \/ \E r \in Recoveries : RecoverBegins(r) \/ Recovery(r)
  \/ \E c \in Children : Hears(c)
  \/ ControllerDies

Spec == Init /\ [][Next]_vars

\* Calls and recoveries go on, a killed process exits, messages arrive, and the owner
\* of the controller tries the recovery again.
Fairness ==
  /\ \A c \in Callers : WF_vars(Call(c))
  /\ \A r \in Recoveries : WF_vars(Recovery(r)) /\ WF_vars(RecoverBegins(r))
  /\ \A c \in Children : WF_vars(c \in killed /\ Dies(c)) /\ WF_vars(Hears(c))

FairSpec == Spec /\ Fairness

--------------------------------------------------------------------------------
TypeOK ==
  /\ lock \in Locks \cup {NoLock}
  /\ gate \in BOOLEAN
  /\ quarantined \in SUBSET Inodes
  /\ journal \in 0..MaxWrites
  /\ caller \in [Callers -> CallerStates]
  /\ killed \in SUBSET Children
  /\ message \in [Children -> Seq(Inodes)]
  /\ held \in [Children -> Inodes \cup {NoInode}]
  /\ enabled \in BOOLEAN
  /\ recovery \in [Recoveries -> RecoveryStates]
  /\ alive \in BOOLEAN

(* Properties.                                                             *)

\* A caller that has created the lock directory and not yet removed it.
Inside(c) == caller[c].pc \in {"made", "holding", "signing", "telling", "working",
                               "writing", "releasing", "unlinking", "removing"}

\* Two callers are never inside at once: neither a recovery that races its victims'
\* last steps nor a reused inode number takes the lock from under a living caller.
Exclusive == \A c, d \in Callers : Inside(c) /\ Inside(d) => c = d

\* Every write of the journal is computed from the journal it replaces.
NoLostUpdate ==
  [][\A c \in Callers :
       At(c, "writing") /\ journal' # journal => caller[c].base = journal]_vars

\* A lock that a dead child has left, and that it told its controller of with its last
\* message, is moved away as long as the controller lives and is asked to.
DeadLockRecovered ==
  \A c \in Children :
    (At(c, "dead") /\ lock # NoLock /\ lock.owner = c
       /\ message[c] = <<>> /\ held[c] = lock.ino)
      ~> (~alive \/ lock = NoLock)
================================================================================
